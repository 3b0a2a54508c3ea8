----------------------------- MODULE Conditions -----------------------------
(***************************************************************************)
(* How a change's applies_if becomes the condition of a report             *)
(* (Change.UnmarshalJSON, joinPhrase and conditionPhrase in client.go).    *)
(*                                                                         *)
(* A text is the sequence of its words.  Verbs, kinds and names are words, *)
(* "" when they are empty or white space; the underscore of a verb or kind *)
(* is not told from the space it becomes.                                  *)
(***************************************************************************)
EXTENDS Naturals, Sequences, SequencesExt

Modes == {"universal", "all_of", "any_of", ""}

Clause(verb, kind, name) == [verb |-> verb, kind |-> kind, name |-> name]

(* The clauses there are. *)
AnyClause == [verb : STRING, kind : STRING, name : STRING]

(* applies_if as it is decoded: the mode, the sentence it came from, the   *)
(* clauses.                                                                *)
AppliesIf(mode, raw, clauses) == [mode |-> mode, raw |-> raw, clauses |-> clauses]

-----------------------------------------------------------------------------
Word(w) == IF w = "" THEN <<>> ELSE <<w>>

(* The noun that goes with a kind.  The other kinds are not shown. *)
Noun ==
  [flag |-> "flag", feature_gate |-> "feature gate", config_field |-> "setting",
   crd |-> "CRD", api |-> "API", extension |-> "extension", metric |-> "metric"]

(* Mutant of Target: the kind itself goes with the name. *)
TargetWithKind(kind, name) == <<"the", name>> \o Word(kind)

Target(kind, name) ==
  IF kind \in DOMAIN Noun THEN <<"the", name, Noun[kind]>> ELSE <<name>>

conditionPhrase(cl) ==
  Word(cl.verb) \o (IF cl.name = "" THEN Word(cl.kind) ELSE Target(cl.kind, cl.name))

Separator(mode) == IF mode = "any_of" THEN "or" ELSE "and"

(* Mutant of joinPhrase: a clause without words ends the list before it.   *)
joinPhraseResets(acc, next, mode) ==
  IF next = <<>> \/ acc = <<>> THEN next ELSE acc \o <<Separator(mode)>> \o next

joinPhrase(acc, next, mode) ==
  IF next = <<>> THEN acc
  ELSE IF acc = <<>> THEN next
  ELSE acc \o <<Separator(mode)>> \o next

(* The clauses one after the other. *)
Joined(a) ==
  FoldLeft(LAMBDA acc, cl : joinPhrase(acc, conditionPhrase(cl), a.mode), <<>>, a.clauses)

(* Mutant of Condition: the sentence only where there are no clauses.      *)
ConditionOfClauses(a) ==
  IF a.clauses = <<>> /\ a.mode # "universal" THEN a.raw ELSE Joined(a)

(* What could not be structured is said in the sentence it came from.      *)
Condition(a) ==
  IF Joined(a) = <<>> /\ a.mode # "universal" THEN a.raw ELSE Joined(a)

CondTargets(a) == [i \in DOMAIN a.clauses |-> a.clauses[i].name]

=============================================================================
