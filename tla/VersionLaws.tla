---------------------------- MODULE VersionLaws ----------------------------
(***************************************************************************)
(* What tags, lines and keys owe each other.  A tag is built token by      *)
(* token, so every tag of MaxTokens tokens is a state, and each law is an  *)
(* invariant of the tag reached, against every key and every other tag of  *)
(* a small set.                                                            *)
(***************************************************************************)
EXTENDS Versions, SequencesExt

CONSTANTS
  Alphabet,          (* the tokens tags are built from                     *)
  MaxTokens,         (* bound: the length of a tag                         *)
  KeyNumbers,        (* the numbers of the keys the laws quantify over     *)
  MaxKey             (* bound: the length of those keys                    *)

ASSUME LawsAssumption ==
  /\ Alphabet \subseteq Token
  /\ MaxTokens \in Nat
  /\ KeyNumbers \subseteq 0 .. MaxInt
  /\ MaxKey \in Nat

VARIABLE tag

Init == tag = <<>>

Extend(t) ==
  /\ Len(tag) < MaxTokens
  /\ IsTag(Append(tag, t))
  /\ tag' = Append(tag, t)

(* The longest tags are the end of the walk. *)
Stop == Len(tag) = MaxTokens /\ UNCHANGED tag

Next == (\E t \in Alphabet : Extend(t)) \/ Stop

Spec == Init /\ [][Next]_tag

-----------------------------------------------------------------------------
Keys == SeqOf(KeyNumbers, MaxKey)

(* A key as a project publishes it: numbers and dots. *)
Dotted(key) ==
  [i \in 1 .. (IF key = <<>> THEN 0 ELSE 2 * Len(key) - 1) |->
     IF i % 2 = 1 THEN Num(key[(i + 1) \div 2]) ELSE Dot]

(***************************************************************************)
(* Compare is the lexicographic order of the keys: it agrees with the      *)
(* definition above and is total, antisymmetric and transitive, so sorting *)
(* by it, and range tests made of it, mean something (Compare).  A key     *)
(* stops before the first number that does not fit an int.                 *)
(***************************************************************************)
CompareIsTheOrder ==
  LET a == NormalizeVersion(tag) IN
  /\ a \in Seq(0 .. MaxInt)
  /\ \A b \in Keys :
       /\ Compare(a, b) = -1 <=> Less(a, b)
       /\ Compare(a, b) = -Compare(b, a)
       /\ Compare(a, b) = 0 <=> a = b
       /\ \A c \in Keys : Compare(a, b) <= 0 /\ Compare(b, c) <= 0 => Compare(a, c) <= 0

(***************************************************************************)
(* Whatever a project writes before a separator, a well-formed version     *)
(* after it is read back unchanged, with or without the v, and what was    *)
(* before it is the line - however many separators and versions the prefix *)
(* has itself ("longest prefix wins", SplitLine, NormalizeVersion).        *)
(***************************************************************************)
PrefixIsTheLine ==
  \A key \in Keys \ {<<>>} : \A v \in {<<>>, <<V>>} : \A s \in {0, 1, 2} :
    LET published == tag \o <<Sep(s)>> \o v \o Dotted(key)
    IN  /\ NormalizeVersion(published) = key
        /\ Line(published) = tag

(***************************************************************************)
(* A tail in words (-rc1, -beta, /notes) moves a tag neither to another    *)
(* line nor to another key (SplitLine, NormalizeVersion).                  *)
(***************************************************************************)
WordTailIsNoise ==
  \A s \in {0, 1, 2} : \A tail \in {<<Txt(0)>>, <<Txt(0), Num(1)>>, <<Txt(0), Dot, Num(1)>>} :
    LET tailed == tag \o <<Sep(s)>> \o tail
    IN  /\ Line(tailed) = Line(tag)
        /\ NormalizeVersion(tailed) = NormalizeVersion(tag)

(***************************************************************************)
(* Splitting is finished after one cut: what follows the line has no line  *)
(* of its own and the same key, so a gate on SameLine leaves keys that are *)
(* comparable (SplitLine).                                                 *)
(***************************************************************************)
SplitOnce ==
  LET rest == SplitLine(tag).rest
  IN  /\ Line(rest) = <<>>
      /\ NormalizeVersion(rest) = NormalizeVersion(tag)

=============================================================================
