--------------------------- MODULE VersionProofs ---------------------------
(***************************************************************************)
(* The laws of release tags and their keys, proved for tags of any length  *)
(* over any tokens: the walk of VersionLaws only says that a tag is a      *)
(* sequence of tokens.                                                     *)
(***************************************************************************)
EXTENDS VersionLaws, KeyOrder

-----------------------------------------------------------------------------
(* What the walk reaches. *)

(* A tag stays a sequence of tokens. *)
Tokens == tag \in Seq(Token)

(* Whatever the walk does, it builds tags. *)
LEMMA TagIs == Spec => []Tokens
<1>1. Init => Tokens
  BY DEF Init, Tokens
<1>2. Tokens /\ [Next]_tag => Tokens'
  BY LawsAssumption DEF Next, Extend, Stop, Tokens
<1> QED BY <1>1, <1>2, PTL DEF Spec

(* The keys the laws range over. *)
LEMMA KeysAre == Keys \subseteq Seq(0 .. MaxInt)
<1> SUFFICES ASSUME NEW key \in Keys PROVE key \in Seq(0 .. MaxInt)
  OBVIOUS
<1>1. PICK m \in 0 .. MaxKey : key \in [1 .. m -> KeyNumbers]
  BY DEF Keys, SeqOf
<1>2. m \in Nat /\ KeyNumbers \subseteq 0 .. MaxInt
  BY LawsAssumption
<1>3. key \in [1 .. m -> 0 .. MaxInt]
  BY <1>1, <1>2
<1> QED BY <1>2, <1>3, FunctionsAreSequences

(***************************************************************************)
(* Keys compare as the lexicographic order does, whatever tags they were   *)
(* read from (Compare, NormalizeVersion).                                  *)
(***************************************************************************)
THEOREM CompareOrders == Spec => []CompareIsTheOrder
<1>1. ASSUME Tokens PROVE CompareIsTheOrder
  <2>1. PICK a \in Seq(0 .. MaxInt) : a = NormalizeVersion(tag)
    BY <1>1, KeyIs DEF Tokens
  <2>2. 0 .. MaxInt \subseteq Nat
    BY MaxIntAssumption
  <2>3. a \in Seq(Nat) /\ \A b \in Keys : b \in Seq(Nat)
    BY <2>2, KeysAre, SeqMonotonic
  <2>4. ASSUME NEW b \in Keys
        PROVE  /\ Compare(a, b) = -1 <=> Less(a, b)
               /\ Compare(a, b) = -Compare(b, a)
               /\ Compare(a, b) = 0 <=> a = b
    BY <2>3, CompareDecides
  <2>5. ASSUME NEW b \in Keys, NEW c \in Keys, Compare(a, b) <= 0, Compare(b, c) <= 0
        PROVE  Compare(a, c) <= 0
    <3>1. \A x, y \in Seq(Nat) : Compare(x, y) <= 0 <=> Less(x, y) \/ x = y
      BY CompareDecides
    <3>2. (Less(a, b) \/ a = b) /\ (Less(b, c) \/ b = c)
      BY <2>3, <2>5, <3>1
    <3>3. Less(a, c) \/ a = c
      BY <2>3, <3>2, LessTransitive
    <3> QED BY <2>3, <3>1, <3>3
  <2> QED BY <2>1, <2>4, <2>5 DEF CompareIsTheOrder
<1> QED BY <1>1, TagIs, PTL

-----------------------------------------------------------------------------
(* Where tags are cut. *)

(* The rest of the rest. *)
LEMMA FromFrom ==
  ASSUME NEW s \in Seq(Token), NEW i \in 1 .. Len(s) + 1, NEW j \in 1 .. Len(s) - i + 2
  PROVE  From(From(s, i), j) = From(s, i + j - 1)
<1>1. PICK t \in Seq(Token) :
        /\ t = From(s, i) /\ Len(t) = Len(s) - i + 1
        /\ \A k \in 1 .. Len(s) - i + 1 : t[k] = s[i + k - 1]
  BY FromIs
<1>2. Len(s) \in Nat /\ j \in 1 .. Len(t) + 1 /\ i + j - 1 \in 1 .. Len(s) + 1
  BY <1>1
<1>3. PICK u \in Seq(Token) :
        /\ u = From(t, j) /\ Len(u) = Len(t) - j + 1
        /\ \A k \in 1 .. Len(t) - j + 1 : u[k] = t[j + k - 1]
  BY <1>2, FromIs
<1>4. PICK w \in Seq(Token) :
        /\ w = From(s, i + j - 1) /\ Len(w) = Len(s) - (i + j - 1) + 1
        /\ \A k \in 1 .. Len(s) - (i + j - 1) + 1 : w[k] = s[i + j - 1 + k - 1]
  BY <1>2, FromIs
<1>5. Len(u) = Len(w)
  BY <1>1, <1>2, <1>3, <1>4
<1>6. \A k \in 1 .. Len(u) : u[k] = w[k]
  <2> SUFFICES ASSUME NEW k \in 1 .. Len(u) PROVE u[k] = w[k]
    OBVIOUS
  <2>1. j + k - 1 \in 1 .. Len(s) - i + 1 /\ k \in 1 .. Len(t) - j + 1
    BY <1>1, <1>2, <1>3
  <2>2. u[k] = s[i + (j + k - 1) - 1]
    BY <1>1, <1>3, <2>1
  <2>3. w[k] = s[i + j - 1 + k - 1]
    BY <1>4, <1>5
  <2>4. i + (j + k - 1) - 1 = i + j - 1 + k - 1
    OBVIOUS
  <2> QED BY <2>2, <2>3, <2>4
<1> QED BY <1>1, <1>3, <1>4, <1>5, <1>6, SeqEqual

(* What looks like a version, in terms of the tag it is in. *)
LEMMA LooksAt ==
  ASSUME NEW s \in Seq(Token), NEW i \in 1 .. Len(s) + 1
  PROVE  looksLikeVersion(From(s, i)) <=>
           \/ i <= Len(s) /\ s[i].k = "num"
           \/ i + 1 <= Len(s) /\ s[i].k = "v" /\ s[i + 1].k = "num"
<1>1. PICK t \in Seq(Token) :
        /\ t = From(s, i) /\ Len(t) = Len(s) - i + 1
        /\ \A k \in 1 .. Len(s) - i + 1 : t[k] = s[i + k - 1]
  BY FromIs
<1>2. Len(s) \in Nat /\ i \in Nat
  OBVIOUS
<1>3. t # <<>> <=> i <= Len(s)
  BY <1>1, <1>2
<1>4. i <= Len(s) => t[1] = s[i]
  BY <1>1, <1>2
<1>5. Len(t) > 1 <=> i + 1 <= Len(s)
  BY <1>1, <1>2
<1>6. i + 1 <= Len(s) => t[2] = s[i + 1]
  BY <1>1, <1>2
<1>7. i + 1 <= Len(s) => i <= Len(s)
  BY <1>2
<1> QED BY <1>1, <1>3, <1>4, <1>5, <1>6, <1>7 DEF looksLikeVersion

(* The separators of a tag that a version follows. *)
LEMMA SplitsAre ==
  ASSUME NEW s \in Seq(Token)
  PROVE  \A i : i \in Splits(s) <=>
           /\ i \in 1 .. Len(s) /\ s[i].k = "sep"
           /\ \/ i + 1 <= Len(s) /\ s[i + 1].k = "num"
              \/ i + 2 <= Len(s) /\ s[i + 1].k = "v" /\ s[i + 2].k = "num"
<1> SUFFICES ASSUME NEW i \in 1 .. Len(s)
             PROVE  looksLikeVersion(From(s, i + 1)) <=>
                      \/ i + 1 <= Len(s) /\ s[i + 1].k = "num"
                      \/ i + 2 <= Len(s) /\ s[i + 1].k = "v" /\ s[i + 2].k = "num"
  BY DEF Splits
<1>1. i + 1 \in 1 .. Len(s) + 1 /\ (i + 1) + 1 = i + 2
  OBVIOUS
<1> QED BY <1>1, LooksAt

(* The cut is made at a separator that no other one comes after. *)
LEMMA SplitsLast ==
  ASSUME NEW s \in Seq(Token), NEW i \in Splits(s), \A j \in Splits(s) : j <= i
  PROVE  SplitAt(s) = i
<1>1. i \in Nat /\ i >= 1
  BY DEF Splits
<1>2. SplitAt(s) \in Nat /\ SplitAt(s) \in Splits(s) \cup {0} /\ i <= SplitAt(s)
  BY SplitAtIs
<1> QED BY <1>1, <1>2

(* A tag without such a separator has no line. *)
LEMMA NoSplit ==
  ASSUME NEW s \in Seq(Token), Splits(s) = {}
  PROVE  Line(s) = <<>> /\ SplitLine(s).rest = s
<1>1. SplitAt(s) = 0
  BY SplitAtIs
<1>2. From(s, 1) = s
  BY SubSeqFull DEF From
<1> QED BY <1>1, <1>2 DEF Line, SplitLine

(***************************************************************************)
(* A tag is cut once: what follows the line has no line of its own and the *)
(* same key (SplitLine, NormalizeVersion), whatever the tag.               *)
(***************************************************************************)
THEOREM SplitsOnce == Spec => []SplitOnce
<1>1. ASSUME Tokens PROVE SplitOnce
  <2>0. tag \in Seq(Token) /\ Len(tag) \in Nat
    BY <1>1 DEF Tokens
  <2>1. PICK i \in 0 .. Len(tag) : i = SplitAt(tag) /\ \A j \in Splits(tag) : j <= i
    BY <2>0, SplitAtIs
  <2>2. i + 1 \in 1 .. Len(tag) + 1
    BY <2>0
  <2>3. PICK rest \in Seq(Token) :
          /\ rest = SplitLine(tag).rest
          /\ Len(rest) = Len(tag) - i /\ \A j \in 1 .. Len(tag) - i : rest[j] = tag[i + j]
    <3>1. SplitLine(tag).rest = From(tag, i + 1)
      BY <2>0, <2>1, RestIs
    <3>2. PICK t \in Seq(Token) :
            /\ t = From(tag, i + 1) /\ Len(t) = Len(tag) - (i + 1) + 1
            /\ \A j \in 1 .. Len(tag) - (i + 1) + 1 : t[j] = tag[i + 1 + j - 1]
      BY <2>0, <2>2, FromIs
    <3>3. Len(tag) - (i + 1) + 1 = Len(tag) - i /\ \A j \in 1 .. Len(tag) - i : i + 1 + j - 1 = i + j
      BY <2>0
    <3>4. Len(t) = Len(tag) - i /\ \A j \in 1 .. Len(tag) - i : t[j] = tag[i + j]
      BY <3>2, <3>3
    <3> QED BY <3>1, <3>2, <3>4
  <2>4. ASSUME NEW j \in Splits(rest) PROVE FALSE
    <3>1. /\ j \in 1 .. Len(rest) /\ rest[j].k = "sep"
          /\ \/ j + 1 <= Len(rest) /\ rest[j + 1].k = "num"
             \/ j + 2 <= Len(rest) /\ rest[j + 1].k = "v" /\ rest[j + 2].k = "num"
      BY SplitsAre
    <3>2. j \in Nat \ {0} /\ i + j \in 1 .. Len(tag) /\ tag[i + j].k = "sep"
      BY <2>0, <2>3, <3>1
    <3>3. j + 1 <= Len(rest) =>
            i + j + 1 <= Len(tag) /\ tag[i + j + 1] = rest[j + 1]
      BY <2>0, <2>3, <3>1
    <3>4. j + 2 <= Len(rest) =>
            i + j + 2 <= Len(tag) /\ tag[i + j + 2] = rest[j + 2] /\ j + 1 <= Len(rest)
      BY <2>0, <2>3, <3>1
    <3>5. i + j \in Splits(tag)
      BY <2>0, <3>1, <3>2, <3>3, <3>4, SplitsAre
    <3> QED BY <2>1, <3>2, <3>5
  <2>5. Line(rest) = <<>> /\ SplitLine(rest).rest = rest
    BY <2>4, NoSplit
  <2>6. NormalizeVersion(rest) = NormalizeVersion(tag)
    BY <2>3, <2>5 DEF NormalizeVersion
  <2> QED BY <2>3, <2>5, <2>6 DEF SplitOnce
<1> QED BY <1>1, TagIs, PTL

-----------------------------------------------------------------------------
(* What follows a tag. *)

(* A tag goes on with what is neither a number nor a dot: the run it       *)
(* begins with is no longer.                                               *)
LEMMA RunStops ==
  ASSUME NEW s \in Seq(Token), NEW t \in Seq(Token), Len(s) < Len(t),
         \A i \in 1 .. Len(s) : t[i] = s[i], t[Len(s) + 1].k \notin {"num", "dot"}
  PROVE  RunLength(t) = RunLength(s)
<1>0. Len(s) \in Nat /\ Len(t) \in Nat
  OBVIOUS
<1>1. ASSUME NEW m \in Nat, 2 * m <= Len(s) + 1 PROVE IsRun(t, m) <=> IsRun(s, m)
  <2>1. \A i \in 1 .. m : 2 * i - 1 \in 1 .. Len(s) /\ (i < m => 2 * i \in 1 .. Len(s))
    BY <1>0, <1>1
  <2> QED BY <2>1 DEF IsRun
<1>2. ASSUME NEW m \in Nat, IsRun(t, m) PROVE 2 * m <= Len(s) + 1
  <2> SUFFICES ASSUME 2 * m > Len(s) + 1 PROVE FALSE
    BY <1>0
  <2>1. PICK n \in Nat : n = Len(s) + 1
    BY <1>0
  <2>2. PICK i \in Nat : n = 2 * i \/ n = 2 * i - 1
    <3>1. n = 2 * ((n + 1) \div 2) \/ n = 2 * ((n + 1) \div 2) - 1
      OBVIOUS
    <3> QED BY <3>1
  <2>3. i \in 1 .. m /\ (n = 2 * i => i < m)
    BY <1>0, <2>1, <2>2
  <2> QED BY <1>2, <2>1, <2>2, <2>3 DEF IsRun
<1>3. PICK m \in Nat : m = RunLength(s) /\ 2 * m <= Len(s) + 1 /\ IsRun(s, m)
                       /\ \A k \in Nat : 2 * k <= Len(s) + 1 /\ IsRun(s, k) => k <= m
  BY RunLengthIs
<1>4. PICK n \in Nat : n = RunLength(t) /\ 2 * n <= Len(t) + 1 /\ IsRun(t, n)
                       /\ \A k \in Nat : 2 * k <= Len(t) + 1 /\ IsRun(t, k) => k <= n
  BY RunLengthIs
<1>5. n <= m
  BY <1>1, <1>2, <1>3, <1>4
<1>6. m <= n
  BY <1>0, <1>1, <1>3, <1>4
<1> QED BY <1>3, <1>4, <1>5, <1>6

(* FromIs, counted from the position before. *)
LEMMA FromAfter ==
  ASSUME NEW s \in Seq(Token), NEW i \in 0 .. Len(s)
  PROVE  \E t \in Seq(Token) :
           t = From(s, i + 1) /\ Len(t) = Len(s) - i /\ \A j \in 1 .. Len(s) - i : t[j] = s[i + j]
<1>1. i + 1 \in 1 .. Len(s) + 1
  OBVIOUS
<1>2. PICK t \in Seq(Token) :
        /\ t = From(s, i + 1) /\ Len(t) = Len(s) - (i + 1) + 1
        /\ \A j \in 1 .. Len(s) - (i + 1) + 1 : t[j] = s[i + 1 + j - 1]
  BY <1>1, FromIs
<1>3. Len(s) - (i + 1) + 1 = Len(s) - i /\ \A j \in 1 .. Len(s) - i : i + 1 + j - 1 = i + j
  OBVIOUS
<1>4. Len(t) = Len(s) - i /\ \A j \in 1 .. Len(s) - i : t[j] = s[i + j]
  BY <1>2, <1>3
<1> QED BY <1>2, <1>4

(* Tags that begin alike. *)
LEMMA SameStart ==
  ASSUME NEW s \in Seq(Token), NEW t \in Seq(Token), NEW n \in Nat, n <= Len(s), n <= Len(t),
         \A i \in 1 .. Len(s) : t[i] = s[i]
  PROVE  SubSeq(t, 1, n) = SubSeq(s, 1, n)
<1>0. Len(s) \in Nat /\ Len(t) \in Nat
  OBVIOUS
<1>1. \A j \in 1 .. n : j \in 1 .. Len(s) /\ s[j] \in Token /\ t[j] = s[j]
  BY <1>0
<1>2. /\ SubSeq(s, 1, n) \in Seq(Token) /\ SubSeq(t, 1, n) \in Seq(Token)
      /\ Len(SubSeq(s, 1, n)) = n /\ Len(SubSeq(t, 1, n)) = n
      /\ \A j \in 1 .. n : SubSeq(s, 1, n)[j] = s[j] /\ SubSeq(t, 1, n)[j] = t[j]
  BY <1>0, <1>1
<1> QED BY <1>1, <1>2, SeqEqual

(* A tag that goes on with a separator and no version keeps its cut, and   *)
(* what is left after it, so that its key is the same.                     *)
LEMMA TailIsNoise ==
  ASSUME NEW s \in Seq(Token), NEW t \in Seq(Token), Len(s) + 1 < Len(t),
         \A i \in 1 .. Len(s) : t[i] = s[i], t[Len(s) + 1].k = "sep",
         t[Len(s) + 2].k \notin {"num", "v"},
         \A i \in Len(s) + 2 .. Len(t) : t[i].k # "sep"
  PROVE  Line(t) = Line(s) /\ NormalizeVersion(t) = NormalizeVersion(s)
<1>0. Len(s) \in Nat /\ Len(t) \in Nat
  OBVIOUS
<1>1. ASSUME NEW i \in 1 .. Len(s)
      PROVE  /\ t[i] = s[i]
             /\ i + 1 <= Len(t) /\ (i + 1 <= Len(s) => t[i + 1] = s[i + 1])
             /\ (i + 1 > Len(s) => t[i + 1].k = "sep")
             /\ i + 2 <= Len(t) /\ (i + 2 <= Len(s) => t[i + 2] = s[i + 2])
             /\ (i + 1 <= Len(s) /\ i + 2 > Len(s) => t[i + 2].k = "sep")
  <2>1. i + 1 <= Len(t) /\ i + 2 <= Len(t)
    BY <1>0
  <2>2. i + 1 <= Len(s) => i + 1 \in 1 .. Len(s)
    BY <1>0
  <2>3. i + 2 <= Len(s) => i + 2 \in 1 .. Len(s)
    BY <1>0
  <2>4. i + 1 > Len(s) => i + 1 = Len(s) + 1
    BY <1>0
  <2>5. i + 1 <= Len(s) /\ i + 2 > Len(s) => i + 2 = Len(s) + 1
    BY <1>0
  <2> QED BY <2>1, <2>2, <2>3, <2>4, <2>5
<1>2. Splits(t) = Splits(s)
  <2>1. ASSUME NEW i \in Splits(t) PROVE i \in 1 .. Len(s)
    <3>1. /\ i \in 1 .. Len(t) /\ t[i].k = "sep"
          /\ \/ t[i + 1].k = "num"
             \/ t[i + 1].k = "v"
      BY SplitsAre
    <3>2. ~(i \in Len(s) + 2 .. Len(t))
      BY <3>1
    <3>3. i # Len(s) + 1
      <4>1. i = Len(s) + 1 => i + 1 = Len(s) + 2
        BY <1>0
      <4> QED BY <3>1, <4>1
    <3> QED BY <1>0, <3>1, <3>2, <3>3
  <2>2. ASSUME NEW i \in 1 .. Len(s) PROVE i \in Splits(t) <=> i \in Splits(s)
    <3>1. i \in 1 .. Len(t)
      BY <1>0
    <3>2. i \in Splits(t) <=>
            /\ t[i].k = "sep"
            /\ \/ i + 1 <= Len(t) /\ t[i + 1].k = "num"
               \/ i + 2 <= Len(t) /\ t[i + 1].k = "v" /\ t[i + 2].k = "num"
      BY <3>1, SplitsAre
    <3>3. i \in Splits(s) <=>
            /\ s[i].k = "sep"
            /\ \/ i + 1 <= Len(s) /\ s[i + 1].k = "num"
               \/ i + 2 <= Len(s) /\ s[i + 1].k = "v" /\ s[i + 2].k = "num"
      BY SplitsAre
    <3>4. (i + 2 <= Len(s) => i + 1 <= Len(s)) /\ (i + 1 > Len(s) <=> ~(i + 1 <= Len(s)))
          /\ (i + 2 > Len(s) <=> ~(i + 2 <= Len(s)))
      BY <1>0
    <3> QED BY <1>1, <3>2, <3>3, <3>4
  <2>3. \A i \in Splits(s) : i \in 1 .. Len(s)
    BY SplitsAre
  <2> QED BY <2>1, <2>2, <2>3
<1>3. PICK i \in 0 .. Len(s) : i = SplitAt(s) /\ i = SplitAt(t)
  BY <1>2, SplitAtIs DEF SplitAt
<1>4. Line(t) = Line(s)
  <2>1. i # 0 => SubSeq(t, 1, i - 1) = SubSeq(s, 1, i - 1)
    <3> SUFFICES ASSUME i # 0 PROVE SubSeq(t, 1, i - 1) = SubSeq(s, 1, i - 1)
      OBVIOUS
    <3>1. PICK n \in Nat : n = i - 1 /\ n <= Len(s)
      BY <1>0
    <3>2. SubSeq(t, 1, n) = SubSeq(s, 1, n)
      BY <1>0, <3>1, SameStart
    <3> QED BY <3>1, <3>2
  <2> QED BY <1>3, <2>1 DEF Line, SplitLine
<1>5. NormalizeVersion(t) = NormalizeVersion(s)
  <2>1. i + 1 \in 1 .. Len(s) + 1 /\ i + 1 \in 1 .. Len(t) + 1
    BY <1>0
  <2>2. PICK u \in Seq(Token) :
          /\ u = From(s, i + 1) /\ Len(u) = Len(s) - i /\ \A j \in 1 .. Len(s) - i : u[j] = s[i + j]
    BY <1>0, <2>1, FromAfter
  <2>3. PICK w \in Seq(Token) :
          /\ w = From(t, i + 1) /\ Len(w) = Len(t) - i /\ \A j \in 1 .. Len(t) - i : w[j] = t[i + j]
    <3>1. i \in 0 .. Len(t)
      BY <1>0
    <3> QED BY <3>1, FromAfter
  <2>4. /\ Len(u) \in Nat /\ Len(u) < Len(w)
        /\ \A j \in 1 .. Len(u) : w[j] = u[j]
        /\ w[Len(u) + 1].k = "sep"
    <3>1. \A j \in 1 .. Len(u) : i + j \in 1 .. Len(s) /\ j \in 1 .. Len(t) - i
      BY <1>0, <2>2
    <3>2. i + (Len(u) + 1) = Len(s) + 1 /\ Len(u) + 1 \in 1 .. Len(t) - i
      BY <1>0, <2>2
    <3>3. \A j \in 1 .. Len(u) : w[j] = u[j]
      BY <1>1, <2>2, <2>3, <3>1
    <3>4. w[Len(u) + 1] = t[Len(s) + 1]
      BY <2>3, <3>2
    <3> QED BY <1>0, <2>2, <2>3, <3>3, <3>4
  <2>5. /\ WithoutV(u) \in Seq(Token) /\ WithoutV(w) \in Seq(Token)
        /\ Len(WithoutV(u)) < Len(WithoutV(w))
        /\ \A j \in 1 .. Len(WithoutV(u)) : WithoutV(w)[j] = WithoutV(u)[j]
        /\ WithoutV(w)[Len(WithoutV(u)) + 1].k = "sep"
    <3>1. CASE Len(u) > 1 /\ u[1].k = "v" /\ u[2].k = "num"
      <4>1. Len(w) > 1 /\ w[1] = u[1] /\ w[2] = u[2]
        BY <2>4, <3>1
      <4>2. WithoutV(u) = From(u, 1 + 1) /\ WithoutV(w) = From(w, 1 + 1)
        BY <3>1, <4>1 DEF WithoutV
      <4>3. PICK x \in Seq(Token) :
              x = From(u, 1 + 1) /\ Len(x) = Len(u) - 1 /\ \A j \in 1 .. Len(u) - 1 : x[j] = u[1 + j]
        BY <2>4, <3>1, FromAfter
      <4>4. PICK y \in Seq(Token) :
              y = From(w, 1 + 1) /\ Len(y) = Len(w) - 1 /\ \A j \in 1 .. Len(w) - 1 : y[j] = w[1 + j]
        BY <2>4, <4>1, FromAfter
      <4>5. /\ \A j \in 1 .. Len(x) : 1 + j \in 1 .. Len(u) /\ j \in 1 .. Len(w) - 1
            /\ Len(x) + 1 \in 1 .. Len(w) - 1 /\ 1 + (Len(x) + 1) = Len(u) + 1 /\ Len(x) < Len(y)
        BY <2>4, <4>3, <4>4
      <4>6. (\A j \in 1 .. Len(x) : y[j] = x[j]) /\ y[Len(x) + 1].k = "sep"
        BY <2>4, <4>3, <4>4, <4>5
      <4> QED BY <4>2, <4>3, <4>4, <4>5, <4>6
    <3>2. CASE ~(Len(u) > 1 /\ u[1].k = "v" /\ u[2].k = "num")
      <4>1. ~(Len(w) > 1 /\ w[1].k = "v" /\ w[2].k = "num")
        <5>1. CASE Len(u) > 1
          <6>1. 1 \in 1 .. Len(u) /\ 2 \in 1 .. Len(u)
            BY <2>4, <5>1
          <6>2. w[1] = u[1] /\ w[2] = u[2]
            BY <2>4, <6>1
          <6> QED BY <3>2, <5>1, <6>2
        <5>2. CASE Len(u) = 1
          BY <2>4, <5>2
        <5>3. CASE Len(u) = 0
          BY <2>4, <5>3
        <5> QED BY <2>4, <5>1, <5>2, <5>3
      <4>2. WithoutV(u) = u /\ WithoutV(w) = w
        BY <3>2, <4>1 DEF WithoutV
      <4> QED BY <2>4, <4>2
    <3> QED BY <3>1, <3>2
  <2>6. PICK x \in Seq(Token), y \in Seq(Token) :
          /\ x = WithoutV(u) /\ y = WithoutV(w) /\ Len(x) < Len(y)
          /\ \A j \in 1 .. Len(x) : y[j] = x[j]
          /\ y[Len(x) + 1].k = "sep"
    BY <2>5
  <2>7. RunLength(y) = RunLength(x)
    BY <2>6, RunStops
  <2>8. \A j \in 1 .. RunLength(x) : y[2 * j - 1] = x[2 * j - 1]
    <3>1. PICK n \in Nat : n = RunLength(x) /\ 2 * n <= Len(x) + 1
      BY RunLengthIs
    <3>2. \A j \in 1 .. n : 2 * j - 1 \in 1 .. Len(x)
      BY <3>1
    <3> QED BY <2>6, <3>1, <3>2
  <2>9. NormalizeVersion(s) = [j \in 1 .. RunLength(x) |-> x[2 * j - 1].n]
    <3>1. SplitLine(s).rest = u
      BY <1>3, <2>2, RestIs
    <3> QED BY <2>6, <3>1 DEF NormalizeVersion
  <2>10. NormalizeVersion(t) = [j \in 1 .. RunLength(y) |-> y[2 * j - 1].n]
    <3>1. SplitLine(t).rest = w
      BY <1>3, <2>3, RestIs
    <3> QED BY <2>6, <3>1 DEF NormalizeVersion
  <2> QED BY <2>7, <2>8, <2>9, <2>10
<1> QED BY <1>4, <1>5

(* A tag, a separator, and more. *)
LEMMA JoinIs ==
  ASSUME NEW s \in Seq(Token), NEW x \in Token, NEW u \in Seq(Token), NEW t, t = s \o <<x>> \o u
  PROVE  /\ t \in Seq(Token) /\ Len(t) = Len(s) + 1 + Len(u)
         /\ \A i \in 1 .. Len(s) : t[i] = s[i]
         /\ t[Len(s) + 1] = x
         /\ \A i \in 1 .. Len(u) : t[Len(s) + 1 + i] = u[i]
<1>1. PICK m \in Nat : m = Len(s)
  OBVIOUS
<1>2. PICK n \in Nat : n = Len(u)
  OBVIOUS
<1>3. PICK y \in Seq(Token) : y = <<x>> /\ Len(y) = 1 /\ y[1] = x
  <2>1. <<x>> \in Seq(Token)
    OBVIOUS
  <2>2. Len(<<x>>) = 1 /\ <<x>>[1] = x
    OBVIOUS
  <2> QED BY <2>1, <2>2
<1>4. PICK v : v = s \o y
  OBVIOUS
<1>5. /\ v \in Seq(Token) /\ Len(v) = m + 1
      /\ \A i \in 1 .. m + 1 : v[i] = IF i <= m THEN s[i] ELSE y[i - m]
  BY <1>1, <1>3, <1>4, ConcatProperties
<1>6. /\ t \in Seq(Token) /\ Len(t) = m + 1 + n
      /\ \A i \in 1 .. m + 1 + n : t[i] = IF i <= m + 1 THEN v[i] ELSE u[i - (m + 1)]
  <2>1. t = v \o u
    BY <1>3, <1>4
  <2>2. /\ t \in Seq(Token) /\ Len(t) = Len(v) + Len(u)
        /\ \A i \in 1 .. Len(v) + Len(u) : t[i] = IF i <= Len(v) THEN v[i] ELSE u[i - Len(v)]
    <3>1. \A a, b \in Seq(Token) :
            /\ a \o b \in Seq(Token) /\ Len(a \o b) = Len(a) + Len(b)
            /\ \A i \in 1 .. Len(a) + Len(b) :
                 (a \o b)[i] = IF i <= Len(a) THEN a[i] ELSE b[i - Len(a)]
      BY ConcatProperties
    <3>2. v \in Seq(Token)
      BY <1>5
    <3>3. v \o u \in Seq(Token) /\ Len(v \o u) = Len(v) + Len(u)
      BY <3>1, <3>2, Zenon
    <3>4. \A i \in 1 .. Len(v) + Len(u) :
            (v \o u)[i] = IF i <= Len(v) THEN v[i] ELSE u[i - Len(v)]
      BY <3>1, <3>2, Zenon
    <3> QED BY <2>1, <3>3, <3>4
  <2>3. Len(v) = m + 1 /\ Len(u) = n
    BY <1>2, <1>5
  <2> QED BY <2>2, <2>3
<1>7. \A i \in 1 .. m : /\ i \in 1 .. m + 1 /\ i \in 1 .. m + 1 + n /\ i <= m + 1 /\ i <= m
  OBVIOUS
<1>8. \A i \in 1 .. m : t[i] = s[i]
  BY <1>5, <1>6, <1>7
<1>9. t[m + 1] = x
  <2>1. /\ m + 1 \in 1 .. m + 1 /\ m + 1 \in 1 .. m + 1 + n /\ m + 1 <= m + 1 /\ ~(m + 1 <= m)
        /\ m + 1 - m = 1
    OBVIOUS
  <2> QED BY <1>3, <1>5, <1>6, <2>1
<1>10. \A i \in 1 .. n : t[m + 1 + i] = u[i]
  <2>1. \A i \in 1 .. n : /\ m + 1 + i \in 1 .. m + 1 + n /\ ~(m + 1 + i <= m + 1)
                         /\ m + 1 + i - (m + 1) = i
    OBVIOUS
  <2> QED BY <1>6, <2>1
<1> QED BY <1>1, <1>2, <1>6, <1>8, <1>9, <1>10

(* The tokens of the laws. *)
LEMMA TokensAre ==
  /\ \A n \in Nat : /\ Num(n) \in Token /\ Num(n).k = "num" /\ Num(n).n = n
                    /\ Sep(n) \in Token /\ Sep(n).k = "sep"
                    /\ Txt(n) \in Token /\ Txt(n).k = "txt"
  /\ V \in Token /\ V.k = "v"
  /\ Dot \in Token /\ Dot.k = "dot"
BY DEF Token, Kinds, Num, Sep, Txt, V, Dot

(***************************************************************************)
(* A tail in words moves no tag, of any length, to another line or to      *)
(* another key (SplitLine, NormalizeVersion).                              *)
(***************************************************************************)
THEOREM WordTailsAreNoise == Spec => []WordTailIsNoise
<1> DEFINE Tails == {<<Txt(0)>>, <<Txt(0), Num(1)>>, <<Txt(0), Dot, Num(1)>>}
           Noise(n, tail) == LET t == tag \o <<Sep(n)>> \o tail
                             IN  Line(t) = Line(tag) /\ NormalizeVersion(t) = NormalizeVersion(tag)
<1>1. ASSUME NEW tail \in Tails
      PROVE  /\ tail \in Seq(Token) /\ Len(tail) >= 1 /\ tail[1].k = "txt"
             /\ \A i \in 1 .. Len(tail) : tail[i].k # "sep"
  <2>1. CASE tail = <<Txt(0)>>
    BY <2>1, TokensAre
  <2>2. CASE tail = <<Txt(0), Num(1)>>
    BY <2>2, TokensAre
  <2>3. CASE tail = <<Txt(0), Dot, Num(1)>>
    BY <2>3, TokensAre
  <2> QED BY <2>1, <2>2, <2>3
<1>2. ASSUME Tokens, NEW n \in {0, 1, 2}, NEW tail \in Tails PROVE Noise(n, tail)
  <2> HIDE DEF Tails
  <2>0. PICK t : t = tag \o <<Sep(n)>> \o tail
    OBVIOUS
  <2>1. tag \in Seq(Token) /\ Len(tag) \in Nat /\ Len(tail) \in Nat
    BY <1>1, <1>2 DEF Tokens
  <2>2. Sep(n) \in Token /\ Sep(n).k = "sep"
    BY TokensAre
  <2>3. /\ t \in Seq(Token) /\ Len(t) = Len(tag) + 1 + Len(tail)
        /\ \A i \in 1 .. Len(tag) : t[i] = tag[i]
        /\ t[Len(tag) + 1] = Sep(n)
        /\ \A i \in 1 .. Len(tail) : t[Len(tag) + 1 + i] = tail[i]
    BY <1>1, <2>0, <2>1, <2>2, JoinIs
  <2>4. Len(tag) + 1 < Len(t)
    BY <1>1, <2>1, <2>3
  <2>5. t[Len(tag) + 2].k \notin {"num", "v"}
    <3>1. 1 \in 1 .. Len(tail) /\ Len(tag) + 1 + 1 = Len(tag) + 2
      BY <1>1, <2>1
    <3> QED BY <1>1, <2>3, <3>1
  <2>6. ASSUME NEW i \in Len(tag) + 2 .. Len(t) PROVE t[i].k # "sep"
    <3>1. PICK j \in 1 .. Len(tail) : i = Len(tag) + 1 + j
      <4>1. i - Len(tag) - 1 \in 1 .. Len(tail) /\ Len(tag) + 1 + (i - Len(tag) - 1) = i
        BY <2>1, <2>3
      <4> QED BY <4>1
    <3> QED BY <1>1, <2>3, <3>1
  <2>7. Line(t) = Line(tag) /\ NormalizeVersion(t) = NormalizeVersion(tag)
    BY <2>1, <2>2, <2>3, <2>4, <2>5, <2>6, TailIsNoise
  <2> QED BY <2>0, <2>7
<1>3. Tokens => WordTailIsNoise
  <2>1. Tokens => \A n \in {0, 1, 2} : \A tail \in Tails : Noise(n, tail)
    BY <1>2
  <2> QED BY <2>1 DEF WordTailIsNoise
<1> QED BY <1>3, TagIs, PTL

(* A key with dots between its numbers: the run that is read back is it.   *)
LEMMA DottedIs ==
  ASSUME NEW key \in Seq(0 .. MaxInt), key # <<>>
  PROVE  /\ Dotted(key) \in Seq(Token) /\ Len(Dotted(key)) = 2 * Len(key) - 1
         /\ \A i \in 1 .. Len(Dotted(key)) : Dotted(key)[i].k \in {"num", "dot"}
         /\ Dotted(key)[1].k = "num"
         /\ RunLength(Dotted(key)) = Len(key)
         /\ \A i \in 1 .. Len(key) : Dotted(key)[2 * i - 1].n = key[i]
<1>1. PICK n \in Nat : n = Len(key) /\ n >= 1
  OBVIOUS
<1>2. \A i \in 1 .. n : key[i] \in Nat /\ key[i] <= MaxInt
  BY <1>1, MaxIntAssumption
<1> DEFINE m == 2 * n - 1
           d == [i \in 1 .. m |-> IF i % 2 = 1 THEN Num(key[(i + 1) \div 2]) ELSE Dot]
<1>3. Dotted(key) = d
  BY <1>1 DEF Dotted
<1>4. m \in Nat
  BY <1>1
<1>5. \A i \in 1 .. m : i % 2 = 1 => (i + 1) \div 2 \in 1 .. n
  BY <1>1
<1>6. ASSUME NEW i \in 1 .. m PROVE d[i] \in Token /\ d[i].k \in {"num", "dot"}
  BY <1>2, <1>5, TokensAre
<1>7. \A i \in 1 .. n : /\ 2 * i - 1 \in 1 .. m /\ (2 * i - 1) % 2 = 1
                        /\ ((2 * i - 1) + 1) \div 2 = i
  BY <1>1
<1>8. \A i \in 1 .. n : d[2 * i - 1] = Num(key[i])
  BY <1>7
<1>9. \A i \in 1 .. n : i < n => 2 * i \in 1 .. m /\ (2 * i) % 2 # 1
  BY <1>1
<1>10. \A i \in 1 .. n : i < n => d[2 * i] = Dot
  BY <1>9
<1>11. d \in Seq(Token) /\ Len(d) = m
  <2>1. d \in [1 .. m -> Token]
    BY <1>6
  <2> QED BY <1>4, <2>1, FunctionsAreSequences
<1> HIDE DEF d
<1>12. IsRun(d, n)
  <2> SUFFICES ASSUME NEW i \in 1 .. n
               PROVE  /\ d[2 * i - 1].k = "num" /\ d[2 * i - 1].n <= MaxInt
                      /\ i < n => d[2 * i].k = "dot"
    BY DEF IsRun
  <2>1. key[i] \in Nat /\ key[i] <= MaxInt /\ d[2 * i - 1] = Num(key[i])
    BY <1>2, <1>8
  <2>2. i < n => d[2 * i] = Dot
    BY <1>10
  <2> QED BY <2>1, <2>2, TokensAre
<1>13. RunLength(d) = n
  BY <1>1, <1>11, <1>12, RunLengthIs
<1>14. \A i \in 1 .. n : d[2 * i - 1].n = key[i]
  BY <1>2, <1>8, TokensAre
<1>15. d[1].k = "num"
  <2>1. 1 \in 1 .. n /\ 2 * 1 - 1 = 1
    BY <1>1
  <2>2. d[1] = Num(key[1])
    BY <1>8, <2>1
  <2> QED BY <1>2, <2>1, <2>2, TokensAre
<1> QED BY <1>1, <1>3, <1>6, <1>11, <1>13, <1>14, <1>15

(* What looks like a version and has no separator.                         *)
WellFormed(u) ==
  /\ u # <<>>
  /\ \/ u[1].k = "num"
     \/ Len(u) > 1 /\ u[1].k = "v" /\ u[2].k = "num"
  /\ \A i \in 1 .. Len(u) : u[i].k # "sep"

(* A version that is published after a separator is cut off there.         *)
LEMMA CutBefore ==
  ASSUME NEW s \in Seq(Token), NEW n \in Nat, NEW u \in Seq(Token), NEW t,
         WellFormed(u), t = s \o <<Sep(n)>> \o u
  PROVE  Line(t) = s /\ SplitLine(t).rest = u
<1>9. PICK x \in Token : x = Sep(n) /\ x.k = "sep"
  BY TokensAre
<1>0. /\ u # <<>>
      /\ \/ u[1].k = "num"
         \/ Len(u) > 1 /\ u[1].k = "v" /\ u[2].k = "num"
      /\ \A i \in 1 .. Len(u) : u[i].k # "sep"
  BY DEF WellFormed
<1>1. PICK m \in Nat : m = Len(s)
  OBVIOUS
<1>2. PICK k \in Nat : k = Len(u) /\ k >= 1
  BY <1>0
<1>3. /\ t \in Seq(Token) /\ Len(t) = m + 1 + k
      /\ \A i \in 1 .. m : t[i] = s[i]
      /\ t[m + 1] = x
      /\ \A i \in 1 .. k : t[m + 1 + i] = u[i]
  BY <1>1, <1>2, <1>9, JoinIs
<1>4. m + 1 \in Splits(t)
  <2>1. /\ m + 1 \in 1 .. Len(t) /\ (m + 1) + 1 <= Len(t)
        /\ (k > 1 => (m + 1) + 2 <= Len(t) /\ 2 \in 1 .. k) /\ 1 \in 1 .. k
    BY <1>2, <1>3
  <2>2. t[(m + 1) + 1] = u[1] /\ (k > 1 => t[(m + 1) + 2] = u[2])
    BY <1>3, <2>1
  <2>3. \/ t[(m + 1) + 1].k = "num"
        \/ (m + 1) + 2 <= Len(t) /\ t[(m + 1) + 1].k = "v" /\ t[(m + 1) + 2].k = "num"
    BY <1>0, <1>2, <2>1, <2>2
  <2>4. PICK e : e = m + 1
    OBVIOUS
  <2>5. e \in Splits(t) <=>
          /\ e \in 1 .. Len(t) /\ t[e].k = "sep"
          /\ \/ e + 1 <= Len(t) /\ t[e + 1].k = "num"
             \/ e + 2 <= Len(t) /\ t[e + 1].k = "v" /\ t[e + 2].k = "num"
    BY <1>3, SplitsAre
  <2> QED BY <1>3, <1>9, <2>1, <2>3, <2>4, <2>5
<1>5. ASSUME NEW j \in Splits(t) PROVE j <= m + 1
  <2>0. j \in 1 .. Len(t) /\ t[j].k = "sep"
    BY DEF Splits
  <2>1. j \in 1 .. m + 1 + k /\ t[j].k = "sep"
    BY <1>3, <2>0
  <2> SUFFICES ASSUME j > m + 1 PROVE FALSE
    BY <2>1
  <2>2. PICK i \in 1 .. k : j = m + 1 + i
    <3>1. j - (m + 1) \in 1 .. k /\ j = m + 1 + (j - (m + 1))
      BY <2>1
    <3> QED BY <3>1
  <2> QED BY <1>0, <1>2, <1>3, <2>1, <2>2
<1>6. SplitAt(t) = m + 1
  BY <1>3, <1>4, <1>5, SplitsLast
<1>7. Line(t) = s
  <2>1. SubSeq(t, 1, m) = SubSeq(s, 1, m)
    BY <1>1, <1>3, SameStart
  <2>2. SubSeq(s, 1, m) = s
    BY <1>1, SubSeqFull
  <2>3. m + 1 # 0 /\ (m + 1) - 1 = m
    OBVIOUS
  <2> QED BY <1>6, <2>1, <2>2, <2>3 DEF Line, SplitLine
<1>8. SplitLine(t).rest = u
  <2>1. PICK w \in Seq(Token) :
          /\ w = From(t, (m + 1) + 1) /\ Len(w) = Len(t) - (m + 1)
          /\ \A j \in 1 .. Len(t) - (m + 1) : w[j] = t[(m + 1) + j]
    <3>1. m + 1 \in 0 .. Len(t)
      BY <1>3
    <3> QED BY <1>3, <3>1, FromAfter
  <2>2. Len(t) - (m + 1) = k
    BY <1>3
  <2>3. Len(w) = Len(u) /\ \A j \in 1 .. Len(w) : w[j] = u[j]
    BY <1>2, <1>3, <2>1, <2>2
  <2>4. w = u
    BY <2>3, SeqEqual
  <2>5. SplitLine(t).rest = From(t, SplitAt(t) + 1)
    BY <1>3, RestIs
  <2> QED BY <1>6, <2>1, <2>4, <2>5
<1> QED BY <1>3, <1>7, <1>8

(* The same, for any tag, separator and version. *)
LEMMA CutJoined ==
  \A s, u \in Seq(Token) : \A n \in Nat : WellFormed(u) =>
    Line(s \o <<Sep(n)>> \o u) = s /\ SplitLine(s \o <<Sep(n)>> \o u).rest = u
<1> SUFFICES ASSUME NEW s \in Seq(Token), NEW u \in Seq(Token), NEW n \in Nat, WellFormed(u)
             PROVE  Line(s \o <<Sep(n)>> \o u) = s /\ SplitLine(s \o <<Sep(n)>> \o u).rest = u
  OBVIOUS
<1>1. Line(s \o <<Sep(n)>> \o u) = s
  BY CutBefore
<1>2. SplitLine(s \o <<Sep(n)>> \o u).rest = u
  BY CutBefore
<1> QED BY <1>1, <1>2

(* A version reads the same with a v before it and without. *)
LEMMA MaybeV ==
  ASSUME NEW v \in {<<>>, <<V>>}, NEW d \in Seq(Token), d # <<>>, d[1].k = "num",
         \A i \in 1 .. Len(d) : d[i].k \in {"num", "dot"}
  PROVE  \E u \in Seq(Token) :
           u = v \o d /\ WellFormed(u) /\ WithoutV(u) = d
<1>1. PICK n \in Nat : n = Len(d) /\ n >= 1
  OBVIOUS
<1>2. CASE v = <<>>
  <2>1. v \o d = d
    BY <1>2, ConcatEmptySeq
  <2>2. WithoutV(d) = d
    BY DEF WithoutV
  <2>3. WellFormed(d)
    BY DEF WellFormed
  <2> QED BY <2>1, <2>2, <2>3
<1>3. CASE v = <<V>>
  <2>1. PICK y \in Seq(Token) : y = <<V>> /\ Len(y) = 1 /\ y[1] = V
    <3>1. <<V>> \in Seq(Token)
      BY TokensAre
    <3>2. Len(<<V>>) = 1 /\ <<V>>[1] = V
      OBVIOUS
    <3> QED BY <3>1, <3>2
  <2>2. PICK u : u = y \o d
    OBVIOUS
  <2>3. /\ u \in Seq(Token) /\ Len(u) = 1 + n
        /\ \A i \in 1 .. 1 + n : u[i] = IF i <= 1 THEN y[i] ELSE d[i - 1]
    BY <1>1, <2>1, <2>2, ConcatProperties
  <2>4. u[1] = V
    BY <2>1, <2>3
  <2>5. \A i \in 1 .. n : u[1 + i] = d[i]
    <3>1. \A i \in 1 .. n : 1 + i \in 1 .. 1 + n /\ ~(1 + i <= 1) /\ 1 + i - 1 = i
      OBVIOUS
    <3> QED BY <2>3, <3>1
  <2>6. Len(u) > 1 /\ u[1].k = "v" /\ u[2].k = "num"
    <3>1. 1 \in 1 .. n /\ 1 + 1 = 2
      BY <1>1
    <3> QED BY <1>1, <2>3, <2>4, <2>5, <3>1, TokensAre
  <2>7. WithoutV(u) = d
    <3>1. WithoutV(u) = From(u, 1 + 1)
      BY <2>6 DEF WithoutV
    <3>2. PICK w \in Seq(Token) :
            w = From(u, 1 + 1) /\ Len(w) = Len(u) - 1 /\ \A j \in 1 .. Len(u) - 1 : w[j] = u[1 + j]
      <4>1. 1 \in 0 .. Len(u)
        BY <2>3
      <4> QED BY <2>3, <4>1, FromAfter
    <3>3. Len(u) - 1 = n
      BY <2>3
    <3>4. Len(w) = Len(d) /\ \A j \in 1 .. Len(w) : w[j] = d[j]
      BY <1>1, <2>5, <3>2, <3>3
    <3>5. w = d
      BY <3>4, SeqEqual
    <3> QED BY <3>1, <3>2, <3>5
  <2>8. ASSUME NEW i \in 1 .. Len(u) PROVE u[i].k # "sep"
    <3>1. CASE i = 1
      BY <2>6, <3>1
    <3>2. CASE i # 1
      <4>1. PICK j \in 1 .. n : i = 1 + j
        <5>1. i - 1 \in 1 .. n /\ i = 1 + (i - 1)
          BY <2>3, <3>2
        <5> QED BY <5>1
      <4> QED BY <1>1, <2>5, <4>1
    <3> QED BY <3>1, <3>2
  <2>9. u # <<>>
    BY <2>3
  <2>10. WellFormed(u)
    BY <2>6, <2>8, <2>9 DEF WellFormed
  <2> QED BY <1>3, <2>1, <2>2, <2>3, <2>7, <2>10
<1> QED BY <1>2, <1>3

(***************************************************************************)
(* A well-formed version is read back unchanged from whatever tag it is    *)
(* published under, and what was before its separator is the line: "the    *)
(* longest prefix wins", for prefixes of any length and with any versions  *)
(* in them (SplitLine, NormalizeVersion).                                  *)
(***************************************************************************)
THEOREM PrefixesAreLines == Spec => []PrefixIsTheLine
<1>1. ASSUME Tokens, NEW key \in Keys \ {<<>>}, NEW v \in {<<>>, <<V>>}, NEW n \in {0, 1, 2},
             NEW t, t = tag \o <<Sep(n)>> \o v \o Dotted(key)
      PROVE  NormalizeVersion(t) = key /\ Line(t) = tag
  <2>1. tag \in Seq(Token) /\ Sep(n) \in Token /\ Sep(n).k = "sep"
    BY <1>1, TokensAre DEF Tokens
  <2>2. key \in Seq(0 .. MaxInt) /\ key # <<>>
    BY KeysAre
  <2>3. PICK d \in Seq(Token) :
          /\ d = Dotted(key) /\ Len(d) = 2 * Len(key) - 1
          /\ \A i \in 1 .. Len(d) : d[i].k \in {"num", "dot"}
          /\ d[1].k = "num"
          /\ RunLength(d) = Len(key)
          /\ \A i \in 1 .. Len(key) : d[2 * i - 1].n = key[i]
    BY <2>2, DottedIs
  <2>4. d # <<>>
    <3>1. Len(key) \in Nat /\ Len(key) # 0
      BY <2>2
    <3>2. Len(d) # 0
      BY <2>3, <3>1
    <3> QED BY <3>2
  <2>5. PICK u \in Seq(Token) : u = v \o d /\ WellFormed(u) /\ WithoutV(u) = d
    BY <2>3, <2>4, MaybeV
  <2>6. t = tag \o <<Sep(n)>> \o u
    <3>1. PICK p \in Seq(Token) : p = tag \o <<Sep(n)>>
      <4>1. <<Sep(n)>> \in Seq(Token)
        BY <2>1
      <4>2. tag \o <<Sep(n)>> \in Seq(Token)
        BY <2>1, <4>1, ConcatProperties
      <4> QED BY <4>2
    <3>2. v \in Seq(Token)
      <4>1. <<>> \in Seq(Token) /\ <<V>> \in Seq(Token)
        BY TokensAre
      <4> QED BY <4>1
    <3>3. (p \o v) \o d = p \o (v \o d)
      BY <3>2, ConcatAssociative
    <3> QED BY <1>1, <2>3, <2>5, <3>1, <3>3
  <2>7. Line(t) = tag /\ SplitLine(t).rest = u
    <3>1. n \in Nat
      OBVIOUS
    <3>3. tag \in Seq(Token) /\ u \in Seq(Token) /\ WellFormed(u)
      BY <2>1, <2>5
    <3>4. /\ Line(tag \o <<Sep(n)>> \o u) = tag
          /\ SplitLine(tag \o <<Sep(n)>> \o u).rest = u
      BY <3>1, <3>3, CutJoined, Zenon
    <3> QED BY <2>6, <3>4
  <2>8. NormalizeVersion(t) = [i \in 1 .. Len(key) |-> d[2 * i - 1].n]
    BY <2>3, <2>5, <2>7 DEF NormalizeVersion
  <2>9. key = [i \in 1 .. Len(key) |-> key[i]]
    BY <2>2
  <2>10. NormalizeVersion(t) = key
    BY <2>3, <2>8, <2>9
  <2> QED BY <2>7, <2>10
<1>2. Tokens => PrefixIsTheLine
  BY <1>1 DEF PrefixIsTheLine
<1> QED BY <1>2, TagIs, PTL
=============================================================================
