---------------------------- MODULE DecodingLaws ----------------------------
(***************************************************************************)
(* What the decodings owe those who sent the JSON: the caller of           *)
(* check_stack, whose components argument is `sent`, and upstream, whose   *)
(* applies_if is `when`.  Either grows element by element, so every array  *)
(* of MaxElements and every applies_if of MaxClauses is a state, in a      *)
(* string or not, and each law is an invariant of what is reached.         *)
(***************************************************************************)
EXTENDS Arguments, Conditions

CONSTANTS
  Elements,          (* what a component may look like                     *)
  Clauses,           (* what a clause may look like                        *)
  Sentence,          (* the words of a raw condition                       *)
  MaxElements,       (* bound: the components of a call                    *)
  MaxClauses         (* bound: the clauses of a condition                  *)

ASSUME DecodingAssumption ==
  /\ Elements \subseteq Element
  /\ Clauses \subseteq AnyClause
  /\ Sentence \in Seq(STRING)

VARIABLES
  sent,              (* the components argument                            *)
  when               (* the applies_if object                              *)

vars == <<sent, when>>

Nothing == Sent("array", <<>>, 0)

Always == AppliesIf("universal", <<>>, <<>>)

(* One of the two is built, whatever it is wrapped in. *)
Init ==
  \/ /\ \E type \in {"array", "null", "scalar"}, strings \in 0 .. 2 :
          sent = Sent(type, <<>>, strings)
     /\ when = Always
  \/ /\ sent = Nothing
     /\ \E mode \in Modes, raw \in {<<>>, Sentence} : when = AppliesIf(mode, raw, <<>>)

Send(e) ==
  /\ sent.type = "array"
  /\ Len(sent.elements) < MaxElements
  /\ when = Always
  /\ sent' = [sent EXCEPT !.elements = Append(@, e)]
  /\ UNCHANGED when

Require(cl) ==
  /\ sent = Nothing
  /\ Len(when.clauses) < MaxClauses
  /\ when' = [when EXCEPT !.clauses = Append(@, cl)]
  /\ UNCHANGED sent

(* Nothing can be added. *)
Stop ==
  /\ \/ sent.type # "array" \/ Len(sent.elements) = MaxElements
     \/ Len(when.clauses) = MaxClauses
  /\ UNCHANGED vars

Next ==
  \/ \E e \in Elements : Send(e)
  \/ \E cl \in Clauses : Require(cl)
  \/ Stop

Spec == Init /\ [][Next]_vars

-----------------------------------------------------------------------------
answer == Read(sent)

element(i) == sent.elements[i]

condition == Condition(when)

Words(s) == {s[i] : i \in DOMAIN s}

(***************************************************************************)
(* A string around the argument changes nothing, refusals and their keys   *)
(* included; a string in a string is never read (main.go:421-452).         *)
(***************************************************************************)
OneStringIsTransparent ==
  /\ sent.strings = 1 => answer = Read([sent EXCEPT !.strings = 0])
  /\ sent.strings = 2 => answer.kind = "undecoded"

(***************************************************************************)
(* No request goes upstream without a project filter: every component that *)
(* is scanned is an object in which the caller wrote that slug, under      *)
(* "project" when there is one, and none of a call's components is lost    *)
(* (stackComponent.UnmarshalJSON with main.go:682-696).                    *)
(***************************************************************************)
OnlyNamedProjectsGoUpstream ==
  answer.kind = "accepted" =>
    /\ Len(answer.projects) = Len(sent.elements)
    /\ \A i \in DOMAIN answer.projects :
         LET e == element(i) IN
         /\ answer.projects[i] \in {e.project, e.name} \cap Slugs
         /\ e.project \in Slugs => answer.projects[i] = e.project

(***************************************************************************)
(* A refusal is earned and can be learnt from: a call whose components all *)
(* name a project in a readable form is not refused, and one that is says  *)
(* of the first component at fault every key it came with, the one whose   *)
(* slug went unread included (main.go:392-396, 479-489).  White space      *)
(* under "project" counts as a project here, and its keys are not said.    *)
(***************************************************************************)
Named(e) == e.ok /\ e.project \in Slugs

RefusalsTeach ==
  /\ sent.type = "array" /\ sent.strings <= 1 /\ sent.elements # <<>>
     /\ (\A i \in DOMAIN sent.elements : Named(element(i)))
     => answer.kind = "accepted"
  /\ answer.kind = "no project" =>
       /\ answer.at \in DOMAIN sent.elements
       /\ ~Named(element(answer.at))
       /\ \A i \in 1 .. answer.at - 1 : {element(i).project, element(i).name} \cap Slugs # {}
       /\ {element(answer.at).project, element(answer.at).name} = {""}
            => answer.keys = element(answer.at).keys

(***************************************************************************)
(* No condition is lost: a change reads as unconditional only if upstream  *)
(* said so, or said nothing in any form (client.go:51-52, 110-112).        *)
(***************************************************************************)
NeverUnconditional ==
  condition = <<>> =>
    /\ \A cl \in Words(when.clauses) : cl.name = "" /\ cl.verb = "" /\ cl.kind = ""
    /\ when.mode = "universal" \/ when.raw = <<>>

(***************************************************************************)
(* A condition reads back as its clauses: cut at the separators it gives   *)
(* the phrases of all clauses that say anything, once, in order, and "or"  *)
(* stands between them exactly if any of them suffices (joinPhrase).       *)
(***************************************************************************)
Phrase(i) == conditionPhrase(when.clauses[i])

Said == {i \in DOMAIN when.clauses : Phrase(i) # <<>>}

Cuts(text) == {i \in DOMAIN text : text[i] \in {"and", "or"}}

(* The words between two neighbouring cuts. *)
Parts(text) ==
  LET from == {0} \cup Cuts(text)
      to(i) == CHOOSE j \in Cuts(text) \cup {Len(text) + 1} :
                 j > i /\ \A k \in Cuts(text) : k > i => j <= k
  IN  {[at |-> Cardinality({k \in Cuts(text) : k <= i}) + 1,
        words |-> SubSeq(text, i + 1, to(i) - 1)] : i \in from}

ClausesReadBack ==
  Said # {} =>
    /\ Parts(condition) =
         {[at |-> Cardinality({k \in Said : k <= i}), words |-> Phrase(i)] : i \in Said}
    /\ \A i \in Cuts(condition) : condition[i] = "or" <=> when.mode = "any_of"

(***************************************************************************)
(* What an agent is told to look for stands in the sentence it reads, and  *)
(* the storage's names of kinds do not, unless a clause has nothing else   *)
(* to say (client.go:54-56, 133-137).                                      *)
(***************************************************************************)
Spoken(kind) ==
  \/ kind \in DOMAIN Noun /\ Noun[kind] = kind
  \/ \E cl \in Words(when.clauses) : cl.name = "" /\ cl.kind = kind

TargetsAreSaid ==
  /\ Words(CondTargets(when)) \ {""} \subseteq Words(condition)
  /\ \A cl \in Words(when.clauses) : cl.kind \in Words(condition) => Spoken(cl.kind)

(***************************************************************************)
(* Where the second half can be told: the storage's names of kinds are     *)
(* words of their own, no verb, name, noun or raw sentence having one, but *)
(* for "flag", which is its own noun.                                      *)
(***************************************************************************)
NounWords == {Noun[kind] : kind \in DOMAIN Noun}

KindsApart ==
  \A cl \in Clauses :
    \/ cl.kind \in DOMAIN Noun /\ Noun[cl.kind] = cl.kind
    \/ /\ \A d \in Clauses : cl.kind \notin {d.verb, d.name} \ {""}
       /\ cl.kind \notin {"and", "or", "the"} \cup NounWords \cup Words(Sentence)

(* A condition can be cut where no clause has a separator for a word. *)
SeparatorsApart ==
  \A cl \in Clauses : {cl.verb, cl.kind, cl.name} \cap {"and", "or"} = {}

=============================================================================
