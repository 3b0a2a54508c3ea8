------------------------------ MODULE Versions ------------------------------
(***************************************************************************)
(* Release tags and their sort keys (internal/version/version.go).         *)
(*                                                                         *)
(* A tag is a sequence of tokens.  A run of digits is one "num" token, a   *)
(* letter v or V one "v" token; "sep" is one of '/', '@' and '-' (told     *)
(* apart by n), "dot" is '.', and "txt" is any other text (told apart by   *)
(* n).  Surrounding white space, which every function trims, is left out.  *)
(* A key is a sequence of numbers, <<>> standing for the nil key.          *)
(***************************************************************************)
EXTENDS Integers, Sequences

CONSTANT MaxInt          (* the largest number strconv.Atoi can return     *)

ASSUME MaxIntAssumption == MaxInt \in Nat

Kinds == {"num", "v", "sep", "dot", "txt"}
Token == [k : Kinds, n : Nat]

Num(i) == [k |-> "num", n |-> i]
V == [k |-> "v", n |-> 0]
Dot == [k |-> "dot", n |-> 0]
Sep(i) == [k |-> "sep", n |-> i]
Txt(i) == [k |-> "txt", n |-> i]

(* Tags as the tokenizer above leaves them: two digit runs never touch. *)
IsTag(s) == \A i \in 1 .. Len(s) - 1 : ~(s[i].k = "num" /\ s[i + 1].k = "num")

-----------------------------------------------------------------------------
(* The first position at which two keys of a common length differ. *)
Shorter(m, n) == IF m < n THEN m ELSE n

Differ(a, b) == {i \in 1 .. Shorter(Len(a), Len(b)) : a[i] # b[i]}

First(S) == CHOOSE i \in S : \A j \in S : i <= j

(* The result of comparing two numbers: -1, 0 or 1. *)
Sign(x, y) == IF x < y THEN -1 ELSE IF x > y THEN 1 ELSE 0

(* Mutant of Compare: a key and its extension are taken for equal. *)
CompareCommonPart(a, b) ==
  IF Differ(a, b) # {}
  THEN LET i == First(Differ(a, b)) IN Sign(a[i], b[i])
  ELSE 0

Compare(a, b) ==
  IF Differ(a, b) # {}
  THEN LET i == First(Differ(a, b)) IN Sign(a[i], b[i])
  ELSE Sign(Len(a), Len(b))

(* The order Compare computes, defined: at the first difference a number   *)
(* is less, or there is none and the key goes on.                          *)
Less(a, b) ==
  \/ \E i \in 1 .. Len(a) :
       /\ i <= Len(b)
       /\ a[i] < b[i]
       /\ \A j \in 1 .. i - 1 : a[j] = b[j]
  \/ Len(a) < Len(b) /\ SubSeq(b, 1, Len(a)) = a

-----------------------------------------------------------------------------
From(s, i) == SubSeq(s, i, Len(s))

(* Mutant of looksLikeVersion: any remainder will do. *)
LooksLikeAnything(s) == s # <<>>

looksLikeVersion(s) ==
  \/ s # <<>> /\ s[1].k = "num"
  \/ Len(s) > 1 /\ s[1].k = "v" /\ s[2].k = "num"

(* The separators whose remainder still looks like a version. *)
Splits(s) == {i \in 1 .. Len(s) : s[i].k = "sep" /\ looksLikeVersion(From(s, i + 1))}

(* Mutant of SplitAt: the shortest prefix wins. *)
SplitAtFirst(s) == IF Splits(s) = {} THEN 0 ELSE First(Splits(s))

(* The last of them: the longest prefix wins; 0 when there is none. *)
SplitAt(s) == CHOOSE i \in Splits(s) \cup {0} : \A j \in Splits(s) : j <= i

SplitLine(s) ==
  LET i == SplitAt(s)
  IN  [line |-> IF i = 0 THEN <<>> ELSE SubSeq(s, 1, i - 1),
       rest |-> From(s, i + 1)]

Line(s) == SplitLine(s).line

SameLine(a, b) == Line(a) = Line(b)

(* Mutant of WithoutV: the v is left on. *)
WithV(s) == s

(* A single v or V that precedes a digit. *)
WithoutV(s) ==
  IF Len(s) > 1 /\ s[1].k = "v" /\ s[2].k = "num" THEN From(s, 2) ELSE s

(***************************************************************************)
(* The leading dotted run of numbers that fit an int: s[1], s[3], ... with *)
(* dots between them.  A part that goes on after its digits ends the run.  *)
(***************************************************************************)
IsRun(s, m) ==
  \A i \in 1 .. m :
    /\ s[2 * i - 1].k = "num"
    /\ s[2 * i - 1].n <= MaxInt
    /\ i < m => s[2 * i].k = "dot"

RunLength(s) ==
  LET runs == {m \in 0 .. ((Len(s) + 1) \div 2) : IsRun(s, m)}
  IN  CHOOSE m \in runs : \A j \in runs : j <= m

NormalizeVersion(s) ==
  LET rest == WithoutV(SplitLine(s).rest)
  IN  [i \in 1 .. RunLength(rest) |-> rest[2 * i - 1].n]

=============================================================================
