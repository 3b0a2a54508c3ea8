----------------------------- MODULE KeyOrder -----------------------------
(***************************************************************************)
(* What every proof about release tags needs: their keys are sequences of  *)
(* numbers, and Compare is a total order of those.                         *)
(***************************************************************************)
EXTENDS Versions, SequenceTheorems, SetLemmas

-----------------------------------------------------------------------------
(* The order of keys. *)

(* The least element of a set is its first. *)
LEMMA FirstIs ==
  ASSUME NEW S \in SUBSET Int, NEW n \in S, \A j \in S : n <= j
  PROVE  First(S) = n
<1>1. \A i \in S : (\A j \in S : i <= j) => i = n
  OBVIOUS
<1>2. First(S) \in S /\ \A j \in S : First(S) <= j
  BY DEF First
<1> QED BY <1>1, <1>2

(* What Sign tells of two numbers. *)
LEMMA SignTells ==
  \A x, y \in Int :
    /\ Sign(x, y) \in {-1, 0, 1}
    /\ Sign(x, y) = -Sign(y, x)
    /\ Sign(x, y) = 0 <=> x = y
    /\ Sign(x, y) = -1 <=> x < y
  BY DEF Sign

(* Two keys agree before position n. *)
AgreeTo(a, b, n) == \A i \in 1 .. n - 1 : a[i] = b[i]

(* Compare looks at the first position where its keys part, or else at     *)
(* which of them goes on.                                                  *)
LEMMA CompareAt ==
  ASSUME NEW a \in Seq(Nat), NEW b \in Seq(Nat), NEW n \in Nat \ {0}, AgreeTo(a, b, n),
         n <= Len(a) + 1, n <= Len(b) + 1
  PROVE  /\ n <= Len(a) /\ n <= Len(b) /\ a[n] # b[n] => Compare(a, b) = Sign(a[n], b[n])
         /\ n > Len(a) \/ n > Len(b) => Compare(a, b) = Sign(Len(a), Len(b))
<1> DEFINE D == Differ(a, b)
<1>0. Len(a) \in Nat /\ Len(b) \in Nat
  OBVIOUS
<1>1. D = {i \in 1 .. Shorter(Len(a), Len(b)) : a[i] # b[i]}
  BY DEF Differ
<1>2. \A i \in D : i \in Nat /\ n <= i /\ i <= Len(a) /\ i <= Len(b)
  BY <1>0, <1>1 DEF Shorter, AgreeTo
<1>3. ASSUME n <= Len(a), n <= Len(b), a[n] # b[n] PROVE Compare(a, b) = Sign(a[n], b[n])
  <2>1. n \in D
    BY <1>0, <1>1, <1>3 DEF Shorter
  <2>2. First(D) = n
    BY <1>2, <2>1, FirstIs
  <2> QED BY <2>1, <2>2 DEF Compare
<1>4. ASSUME n > Len(a) \/ n > Len(b) PROVE Compare(a, b) = Sign(Len(a), Len(b))
  <2>1. D = {}
    BY <1>0, <1>2, <1>4
  <2> QED BY <2>1 DEF Compare
<1> QED BY <1>3, <1>4

(* There is such a position. *)
LEMMA Parting ==
  ASSUME NEW a \in Seq(Nat), NEW b \in Seq(Nat)
  PROVE  \E n \in Nat \ {0} :
           /\ AgreeTo(a, b, n) /\ n <= Len(a) + 1 /\ n <= Len(b) + 1
           /\ \/ n <= Len(a) /\ n <= Len(b) /\ a[n] # b[n]
              \/ n = Len(a) + 1
              \/ n = Len(b) + 1
<1> DEFINE Parts(n) == \/ n <= Len(a) /\ n <= Len(b) /\ a[n] # b[n]
                       \/ n = Len(a) + 1
                       \/ n = Len(b) + 1
           P == {n \in Nat \ {0} : Parts(n)}
<1>0. Len(a) \in Nat /\ Len(b) \in Nat
  OBVIOUS
<1>1. Len(a) + 1 \in P /\ P \in SUBSET Nat
  BY <1>0
<1> HIDE DEF P
<1>2. PICK n \in P : \A k \in P : n <= k
  BY <1>1, LeastExists
<1>3. n \in Nat \ {0} /\ Parts(n) /\ n <= Len(a) + 1
  BY <1>1, <1>2 DEF P
<1>4. Len(b) + 1 \in P
  BY <1>0 DEF P
<1>5. n <= Len(b) + 1
  BY <1>2, <1>4
<1>6. \A i \in 1 .. n - 1 : i \in Nat \ {0} /\ i < n /\ ~Parts(i)
  <2>1. \A i \in 1 .. n - 1 : i \in Nat \ {0} /\ i < n
    BY <1>3
  <2>2. \A i \in 1 .. n - 1 : i \notin P
    BY <1>2, <1>3, <2>1
  <2> QED BY <2>1, <2>2 DEF P
<1>7. \A i \in 1 .. n - 1 : i <= Len(a) /\ i <= Len(b)
  <2>1. \A i \in 1 .. n - 1 : i \in Int /\ i <= n - 1
    BY <1>3
  <2>2. n - 1 <= Len(a) /\ n - 1 <= Len(b)
    BY <1>0, <1>3, <1>5
  <2> QED BY <1>0, <1>3, <2>1, <2>2
<1>8. AgreeTo(a, b, n)
  BY <1>6, <1>7 DEF AgreeTo
<1> QED BY <1>3, <1>5, <1>8

(* Compare is never undecided, and antisymmetric; it says of a key and an  *)
(* extension that the extension comes later.                               *)
LEMMA CompareDecides ==
  ASSUME NEW a \in Seq(Nat), NEW b \in Seq(Nat)
  PROVE  /\ Compare(a, b) \in {-1, 0, 1}
         /\ Compare(a, b) = -Compare(b, a)
         /\ Compare(a, b) = 0 <=> a = b
         /\ Compare(a, b) = -1 <=> Less(a, b)
<1>0. Len(a) \in Nat /\ Len(b) \in Nat /\ DOMAIN a = 1 .. Len(a) /\ DOMAIN b = 1 .. Len(b)
      /\ (\A i \in 1 .. Len(a) : a[i] \in Nat) /\ (\A i \in 1 .. Len(b) : b[i] \in Nat)
  OBVIOUS
<1>1. PICK n \in Nat \ {0} :
        /\ AgreeTo(a, b, n) /\ n <= Len(a) + 1 /\ n <= Len(b) + 1
        /\ \/ n <= Len(a) /\ n <= Len(b) /\ a[n] # b[n]
           \/ n = Len(a) + 1
           \/ n = Len(b) + 1
  BY Parting
<1>2. AgreeTo(b, a, n)
  BY <1>1 DEF AgreeTo
<1>3. CASE n <= Len(a) /\ n <= Len(b) /\ a[n] # b[n]
  <2>1. Compare(a, b) = Sign(a[n], b[n])
    BY <1>1, <1>3, CompareAt
  <2>2. Compare(b, a) = Sign(b[n], a[n])
    BY <1>1, <1>2, <1>3, CompareAt
  <2>3. a[n] \in Nat /\ b[n] \in Nat /\ n \in 1 .. Len(a) /\ n \in 1 .. Len(b)
    BY <1>0, <1>3
  <2>4. a # b
    BY <1>3
  <2>5. a[n] < b[n] => Less(a, b)
    BY <1>1, <1>3, <2>3 DEF Less, AgreeTo
  <2>6. Less(a, b) => a[n] < b[n]
    <3>1. ASSUME NEW i \in 1 .. Len(a), i <= Len(b), a[i] < b[i], \A j \in 1 .. i - 1 : a[j] = b[j]
          PROVE  a[n] < b[n]
      <4>1. ~(i < n)
        <5>1. i < n => i \in 1 .. n - 1
          BY <1>0
        <5> QED BY <1>0, <1>1, <3>1, <5>1 DEF AgreeTo
      <4>2. ~(n < i)
        <5>1. n < i => n \in 1 .. i - 1
          BY <1>0
        <5> QED BY <1>3, <3>1, <5>1
      <4> QED BY <1>0, <3>1, <4>1, <4>2
    <3>2. ASSUME SubSeq(b, 1, Len(a)) = a, Len(a) < Len(b) PROVE FALSE
      <4>1. \A i \in 1 .. Len(a) : SubSeq(b, 1, Len(a))[i] = b[i]
        BY <1>0, <3>2
      <4> QED BY <1>3, <2>3, <3>2, <4>1
    <3> QED BY <3>1, <3>2 DEF Less
  <2>7. Less(a, b) <=> a[n] < b[n]
    BY <2>5, <2>6
  <2> QED BY <1>3, <2>1, <2>2, <2>3, <2>4, <2>7, SignTells
<1>4. CASE n > Len(a) \/ n > Len(b)
  <2>1. Compare(a, b) = Sign(Len(a), Len(b))
    BY <1>1, <1>4, CompareAt
  <2>2. Compare(b, a) = Sign(Len(b), Len(a))
    BY <1>1, <1>2, <1>4, CompareAt
  <2>3. \A i \in 1 .. Len(a) : i <= Len(b) => a[i] = b[i]
    <3>1. \A i \in 1 .. Len(a) : i <= Len(b) => i \in 1 .. n - 1
      BY <1>0, <1>1, <1>4
    <3> QED BY <1>1, <3>1 DEF AgreeTo
  <2>4. Len(a) = Len(b) => a = b
    BY <1>0, <2>3, SeqEqual
  <2>5. Len(a) < Len(b) => Less(a, b)
    <3> SUFFICES ASSUME Len(a) < Len(b) PROVE SubSeq(b, 1, Len(a)) = a
      BY DEF Less
    <3>1. /\ SubSeq(b, 1, Len(a)) \in Seq(Nat) /\ Len(SubSeq(b, 1, Len(a))) = Len(a)
          /\ \A i \in 1 .. Len(a) : SubSeq(b, 1, Len(a))[i] = b[i]
      BY <1>0
    <3> QED BY <1>0, <2>3, <3>1, SeqEqual
  <2>6. Less(a, b) => Len(a) < Len(b)
    <3>1. ASSUME NEW i \in 1 .. Len(a), i <= Len(b), a[i] < b[i] PROVE FALSE
      BY <1>0, <2>3, <3>1
    <3> QED BY <3>1 DEF Less
  <2>7. Less(a, b) <=> Len(a) < Len(b)
    BY <2>5, <2>6
  <2>8. a = b <=> Len(a) = Len(b)
    BY <2>4
  <2>9. PICK x \in Nat, y \in Nat : x = Len(a) /\ y = Len(b)
    BY <1>0
  <2>10. Compare(a, b) = Sign(x, y) /\ Compare(b, a) = Sign(y, x)
    BY <2>1, <2>2, <2>9
  <2>11. (a = b <=> x = y) /\ (Less(a, b) <=> x < y)
    BY <2>7, <2>8, <2>9
  <2> QED BY <2>10, <2>11, SignTells
<1> QED BY <1>0, <1>1, <1>3, <1>4

(* A key is less than one it is a proper prefix of, position by position.  *)
LEMMA LessMeans ==
  ASSUME NEW a \in Seq(Nat), NEW b \in Seq(Nat)
  PROVE  Less(a, b) <=>
           \/ \E i \in 1 .. Len(a) : i <= Len(b) /\ a[i] < b[i] /\ \A j \in 1 .. i - 1 : a[j] = b[j]
           \/ Len(a) < Len(b) /\ \A i \in 1 .. Len(a) : a[i] = b[i]
<1>1. Len(a) \in Nat /\ Len(b) \in Nat
  OBVIOUS
<1>2. ASSUME Len(a) < Len(b)
      PROVE  SubSeq(b, 1, Len(a)) = a <=> \A i \in 1 .. Len(a) : a[i] = b[i]
  <2>1. /\ SubSeq(b, 1, Len(a)) \in Seq(Nat) /\ Len(SubSeq(b, 1, Len(a))) = Len(a)
        /\ \A i \in 1 .. Len(a) : SubSeq(b, 1, Len(a))[i] = b[i]
    BY <1>1, <1>2
  <2>2. (\A i \in 1 .. Len(a) : SubSeq(b, 1, Len(a))[i] = a[i]) => SubSeq(b, 1, Len(a)) = a
    BY <2>1, SeqEqual
  <2> QED BY <2>1, <2>2
<1> QED BY <1>2 DEF Less

(* The order of keys is transitive. *)
LEMMA LessTransitive ==
  ASSUME NEW a \in Seq(Nat), NEW b \in Seq(Nat), NEW c \in Seq(Nat), Less(a, b), Less(b, c)
  PROVE  Less(a, c)
<1>1. /\ Len(a) \in Nat /\ Len(b) \in Nat /\ Len(c) \in Nat
      /\ \A i \in 1 .. Len(a) : a[i] \in Nat
      /\ \A i \in 1 .. Len(b) : b[i] \in Nat
      /\ \A i \in 1 .. Len(c) : c[i] \in Nat
  OBVIOUS
<1>2. CASE \E i \in 1 .. Len(a) : i <= Len(b) /\ a[i] < b[i] /\ \A j \in 1 .. i - 1 : a[j] = b[j]
  <2>1. PICK i \in 1 .. Len(a) : i <= Len(b) /\ a[i] < b[i] /\ \A j \in 1 .. i - 1 : a[j] = b[j]
    BY <1>2
  <2>2. i \in Nat /\ i \in 1 .. Len(b)
    BY <1>1, <2>1
  <2>3. CASE \E k \in 1 .. Len(b) : k <= Len(c) /\ b[k] < c[k] /\ \A j \in 1 .. k - 1 : b[j] = c[j]
    <3>1. PICK k \in 1 .. Len(b) : k <= Len(c) /\ b[k] < c[k] /\ \A j \in 1 .. k - 1 : b[j] = c[j]
      BY <2>3
    <3>2. k \in Nat /\ k \in 1 .. Len(c)
      BY <1>1, <3>1
    <3>3. CASE i < k
      <4>1. i <= Len(c) /\ i \in 1 .. k - 1 /\ \A j \in 1 .. i - 1 : j \in 1 .. k - 1
        BY <1>1, <2>2, <3>1, <3>2, <3>3
      <4>2. a[i] < c[i] /\ \A j \in 1 .. i - 1 : a[j] = c[j]
        BY <2>1, <3>1, <4>1
      <4> QED BY <4>1, <4>2, LessMeans
    <3>4. CASE i = k
      <4>1. a[i] < c[i]
        BY <1>1, <2>1, <2>2, <3>1, <3>2, <3>4
      <4> QED BY <2>1, <3>1, <3>4, <4>1, LessMeans
    <3>5. CASE k < i
      <4>1. k \in 1 .. i - 1 /\ k \in 1 .. Len(a) /\ \A j \in 1 .. k - 1 : j \in 1 .. i - 1
        BY <1>1, <2>2, <3>1, <3>2, <3>5
      <4>2. a[k] < c[k] /\ \A j \in 1 .. k - 1 : a[j] = c[j]
        BY <2>1, <3>1, <4>1
      <4> QED BY <3>1, <4>1, <4>2, LessMeans
    <3> QED BY <2>2, <3>2, <3>3, <3>4, <3>5
  <2>4. CASE Len(b) < Len(c) /\ \A j \in 1 .. Len(b) : b[j] = c[j]
    <3>1. i <= Len(c) /\ \A j \in 1 .. i : j \in 1 .. Len(b)
      BY <1>1, <2>2, <2>4
    <3>2. a[i] < c[i] /\ \A j \in 1 .. i - 1 : a[j] = c[j]
      BY <2>1, <2>2, <2>4, <3>1
    <3> QED BY <3>1, <3>2, LessMeans
  <2> QED BY <2>3, <2>4, LessMeans
<1>3. CASE Len(a) < Len(b) /\ \A j \in 1 .. Len(a) : a[j] = b[j]
  <2>1. CASE \E k \in 1 .. Len(b) : k <= Len(c) /\ b[k] < c[k] /\ \A j \in 1 .. k - 1 : b[j] = c[j]
    <3>1. PICK k \in 1 .. Len(b) : k <= Len(c) /\ b[k] < c[k] /\ \A j \in 1 .. k - 1 : b[j] = c[j]
      BY <2>1
    <3>2. k \in Nat /\ k \in 1 .. Len(c)
      BY <1>1, <3>1
    <3>3. CASE k <= Len(a)
      <4>1. k \in 1 .. Len(a) /\ \A j \in 1 .. k - 1 : j \in 1 .. Len(a)
        BY <1>1, <3>2, <3>3
      <4>2. a[k] < c[k] /\ \A j \in 1 .. k - 1 : a[j] = c[j]
        BY <1>3, <3>1, <4>1
      <4> QED BY <3>1, <4>1, <4>2, LessMeans
    <3>4. CASE Len(a) < k
      <4>1. Len(a) < Len(c) /\ \A j \in 1 .. Len(a) : j \in 1 .. k - 1
        BY <1>1, <3>1, <3>2, <3>4
      <4>2. \A j \in 1 .. Len(a) : a[j] = c[j]
        BY <1>3, <3>1, <4>1
      <4> QED BY <4>1, <4>2, LessMeans
    <3> QED BY <1>1, <3>2, <3>3, <3>4
  <2>2. CASE Len(b) < Len(c) /\ \A j \in 1 .. Len(b) : b[j] = c[j]
    <3>1. Len(a) < Len(c) /\ \A j \in 1 .. Len(a) : j \in 1 .. Len(b)
      BY <1>1, <1>3, <2>2
    <3>2. \A j \in 1 .. Len(a) : a[j] = c[j]
      BY <1>3, <2>2, <3>1
    <3> QED BY <3>1, <3>2, LessMeans
  <2> QED BY <2>1, <2>2, LessMeans
<1> QED BY <1>2, <1>3, LessMeans

(* Compare is a total order, and what one side of it is strict in, the     *)
(* whole is.                                                               *)
LEMMA CompareTransitive ==
  \A a, b, c \in Seq(Nat) :
    Compare(a, b) <= 0 /\ Compare(b, c) <= 0 =>
      /\ Compare(a, c) <= 0
      /\ Compare(a, b) < 0 \/ Compare(b, c) < 0 => Compare(a, c) < 0
<1> SUFFICES ASSUME NEW a \in Seq(Nat), NEW b \in Seq(Nat), NEW c \in Seq(Nat),
                    Compare(a, b) <= 0, Compare(b, c) <= 0
             PROVE  /\ Compare(a, c) <= 0
                    /\ Compare(a, b) < 0 \/ Compare(b, c) < 0 => Compare(a, c) < 0
  OBVIOUS
<1>1. \A x, y \in Seq(Nat) :
        /\ Compare(x, y) <= 0 <=> Less(x, y) \/ x = y
        /\ Compare(x, y) < 0 <=> Less(x, y)
  BY CompareDecides
<1>2. (Less(a, b) \/ a = b) /\ (Less(b, c) \/ b = c)
  BY <1>1
<1>3. Less(a, c) \/ (a = c /\ a = b)
  BY <1>2, LessTransitive
<1>4. Compare(a, c) < 0 \/ (a = c /\ a = b)
  BY <1>1, <1>3
<1>5. CASE Compare(a, c) < 0
  <2>1. Compare(a, c) \in Int
    BY CompareDecides
  <2> QED BY <1>5, <2>1
<1>6. CASE a = c /\ a = b
  <2>1. Compare(a, a) = 0
    BY CompareDecides
  <2> QED BY <1>6, <2>1
<1> QED BY <1>4, <1>5, <1>6

-----------------------------------------------------------------------------
(* Splitting a tag and reading its key. *)

(* The longest run a tag begins with. *)
LEMMA RunLengthIs ==
  ASSUME NEW s \in Seq(Token)
  PROVE  /\ RunLength(s) \in Nat /\ 2 * RunLength(s) <= Len(s) + 1
         /\ IsRun(s, RunLength(s))
         /\ \A m \in Nat : 2 * m <= Len(s) + 1 /\ IsRun(s, m) => m <= RunLength(s)
<1> DEFINE half == (Len(s) + 1) \div 2
           runs == {m \in 0 .. half : IsRun(s, m)}
<1>1. Len(s) \in Nat /\ half \in Nat /\ \A m \in Nat : m <= half <=> 2 * m <= Len(s) + 1
  OBVIOUS
<1> HIDE DEF half
<1>2. runs \in SUBSET Nat /\ 0 \in runs /\ \A m \in runs : m <= half
  <2>1. IsRun(s, 0)
    BY DEF IsRun
  <2>2. 0 .. half \subseteq Nat /\ 0 \in 0 .. half /\ \A m \in 0 .. half : m <= half
    BY <1>1
  <2> QED BY <2>1, <2>2
<1>3. RunLength(s) = CHOOSE i \in runs : \A j \in runs : j <= i
  BY DEF RunLength, half
<1>4. \A m \in Nat : 2 * m <= Len(s) + 1 /\ IsRun(s, m) => m \in runs
  BY <1>1
<1>5. \A m \in runs : m \in Nat /\ 2 * m <= Len(s) + 1 /\ IsRun(s, m)
  BY <1>1
<1> HIDE DEF runs
<1>6. \E i \in runs : \A j \in runs : j <= i
  BY <1>1, <1>2, GreatestExists
<1>7. RunLength(s) \in runs /\ \A j \in runs : j <= RunLength(s)
  BY <1>3, <1>6
<1> QED BY <1>4, <1>5, <1>7

(* The rest of a tag after a position. *)
LEMMA FromIs ==
  ASSUME NEW s \in Seq(Token), NEW i \in 1 .. Len(s) + 1
  PROVE  /\ From(s, i) \in Seq(Token) /\ Len(From(s, i)) = Len(s) - i + 1
         /\ \A j \in 1 .. Len(s) - i + 1 : From(s, i)[j] = s[i + j - 1]
<1>1. Len(s) \in Nat /\ \A j \in i .. Len(s) : s[j] \in Token
  OBVIOUS
<1> QED BY <1>1, SubSeqProperties DEF From

(* The last separator that a version follows. *)
LEMMA SplitAtIs ==
  ASSUME NEW s \in Seq(Token)
  PROVE  /\ SplitAt(s) \in 0 .. Len(s) /\ SplitAt(s) \in Splits(s) \cup {0}
         /\ \A j \in Splits(s) : j <= SplitAt(s)
<1> DEFINE S == Splits(s) \cup {0}
<1>1. Len(s) \in Nat /\ S \in SUBSET Nat /\ 0 \in S /\ \A j \in S : j <= Len(s)
  BY DEF Splits
<1>2. SplitAt(s) = CHOOSE i \in S : \A j \in Splits(s) : j <= i
  BY DEF SplitAt
<1>3. \A j \in Splits(s) : j \in S
  OBVIOUS
<1> HIDE DEF S
<1>4. \E i \in S : \A j \in S : j <= i
  BY <1>1, GreatestExists
<1>5. SplitAt(s) \in S /\ \A j \in Splits(s) : j <= SplitAt(s)
  BY <1>2, <1>3, <1>4
<1> QED BY <1>1, <1>5 DEF S

(* What is left of a tag after its line, and without its v. *)
LEMMA RestIs ==
  ASSUME NEW s \in Seq(Token)
  PROVE  /\ SplitLine(s).rest \in Seq(Token) /\ WithoutV(s) \in Seq(Token)
         /\ SplitLine(s).rest = From(s, SplitAt(s) + 1)
<1>1. SplitLine(s).rest = From(s, SplitAt(s) + 1)
  BY DEF SplitLine
<1>2. SplitAt(s) + 1 \in 1 .. Len(s) + 1
  BY SplitAtIs
<1>3. WithoutV(s) \in Seq(Token)
  <2>1. Len(s) > 1 => 2 \in 1 .. Len(s) + 1
    OBVIOUS
  <2> QED BY <2>1, FromIs DEF WithoutV
<1> QED BY <1>1, <1>2, <1>3, FromIs

(* A function on an initial segment of the numbers is a sequence. *)
LEMMA FunctionsAreSequences ==
  ASSUME NEW m \in Nat, NEW S, NEW f \in [1 .. m -> S]
  PROVE  f \in Seq(S) /\ Len(f) = m
OBVIOUS

(* A key is a sequence of numbers that fit an int. *)
LEMMA KeyIs ==
  ASSUME NEW s \in Seq(Token)
  PROVE  NormalizeVersion(s) \in Seq(0 .. MaxInt)
<1>1. PICK rest \in Seq(Token) : rest = WithoutV(SplitLine(s).rest)
  BY RestIs
<1>2. PICK m \in Nat : m = RunLength(rest) /\ 2 * m <= Len(rest) + 1 /\ IsRun(rest, m)
  BY RunLengthIs
<1>3. \A i \in 1 .. m : rest[2 * i - 1].n \in 0 .. MaxInt
  <2> SUFFICES ASSUME NEW i \in 1 .. m PROVE rest[2 * i - 1].n \in 0 .. MaxInt
    OBVIOUS
  <2>1. 2 * i - 1 \in 1 .. Len(rest)
    BY <1>2
  <2>2. rest[2 * i - 1] \in Token
    BY <2>1
  <2>3. rest[2 * i - 1].n \in Nat
    BY <2>2 DEF Token
  <2> QED BY <1>2, <2>3, MaxIntAssumption DEF IsRun
<1>4. NormalizeVersion(s) = [i \in 1 .. m |-> rest[2 * i - 1].n]
  BY <1>1, <1>2 DEF NormalizeVersion
<1>5. [i \in 1 .. m |-> rest[2 * i - 1].n] \in [1 .. m -> 0 .. MaxInt]
  BY <1>3
<1> QED BY <1>4, <1>5, FunctionsAreSequences

=============================================================================
