----------------------------- MODULE SetLemmas -----------------------------
(***************************************************************************)
(* Least and greatest elements, which the models take with CHOOSE, and     *)
(* sums over finite sets.                                                  *)
(***************************************************************************)
EXTENDS Integers, FiniteSetsExt, FiniteSetTheorems, WellFoundedInduction, TLAPS

(* The natural numbers are well ordered. *)
LEMMA LeastExists ==
  ASSUME NEW S \in SUBSET Nat, S # {}
  PROVE  \E m \in S : \A k \in S : m <= k
<1>1. PICK m \in S : \A k \in S : ~(<<k, m>> \in OpToRel(<, Nat))
  BY NatLessThanWellFounded, WFMin
<1>2. \A k \in S : ~(k < m)
  BY <1>1 DEF OpToRel
<1> QED BY <1>2

(* A bounded set of natural numbers has a greatest element. *)
LEMMA GreatestExists ==
  ASSUME NEW S \in SUBSET Nat, S # {}, NEW n \in Nat, \A k \in S : k <= n
  PROVE  \E m \in S : \A k \in S : k <= m
<1> DEFINE Above == {u \in Nat : \A k \in S : k <= u}
<1>1. PICK u \in Above : \A v \in Above : u <= v
  <2>1. Above \in SUBSET Nat /\ n \in Above
    OBVIOUS
  <2> HIDE DEF Above
  <2> QED BY <2>1, LeastExists
<1>2. u \in Nat /\ \A k \in S : k <= u
  BY <1>1
<1>3. u \in S
  <2> SUFFICES ASSUME u \notin S PROVE FALSE
    OBVIOUS
  <2>1. PICK k \in S : TRUE
    OBVIOUS
  <2>2. k \in Nat /\ k <= u /\ k # u
    BY <1>2
  <2>3. u - 1 \in Nat
    BY <1>2, <2>2
  <2>4. \A j \in S : j \in Nat /\ j <= u /\ j # u
    BY <1>2
  <2>5. \A j \in S : j <= u - 1
    BY <1>2, <2>4
  <2>6. u <= u - 1
    BY <1>1, <2>3, <2>5
  <2> QED BY <1>2, <2>6
<1> QED BY <1>2, <1>3

-----------------------------------------------------------------------------
(***************************************************************************)
(* Sums.  MapThenSumSet takes the elements of a set one by one, so it is a *)
(* recursive function on the subsets; what satisfies the recursion is it.  *)
(***************************************************************************)
Pick(s) == CHOOSE x \in s : TRUE

IsSum(g, v, D) ==
  g = [s \in SUBSET D |-> IF s = {} THEN 0 ELSE v[Pick(s)] + g[s \ {Pick(s)}]]

(* The recursion has one solution at most: two of them would part at a set *)
(* of least cardinality.                                                   *)
LEMMA SumIsUnique ==
  ASSUME NEW D, IsFiniteSet(D), NEW v, NEW f, IsSum(f, v, D), NEW g, IsSum(g, v, D)
  PROVE  g = f
<1> DEFINE Parting == {s \in SUBSET D : g[s] # f[s]}
           Sizes == {Cardinality(s) : s \in Parting}
<1>1. \A s \in SUBSET D :
        /\ f[s] = IF s = {} THEN 0 ELSE v[Pick(s)] + f[s \ {Pick(s)}]
        /\ g[s] = IF s = {} THEN 0 ELSE v[Pick(s)] + g[s \ {Pick(s)}]
  <2> DEFINE F == [s \in SUBSET D |-> IF s = {} THEN 0 ELSE v[Pick(s)] + f[s \ {Pick(s)}]]
             G == [s \in SUBSET D |-> IF s = {} THEN 0 ELSE v[Pick(s)] + g[s \ {Pick(s)}]]
  <2>1. f = F /\ g = G
    BY Zenon DEF IsSum
  <2>2. \A s \in SUBSET D :
          /\ F[s] = IF s = {} THEN 0 ELSE v[Pick(s)] + f[s \ {Pick(s)}]
          /\ G[s] = IF s = {} THEN 0 ELSE v[Pick(s)] + g[s \ {Pick(s)}]
    OBVIOUS
  <2> HIDE DEF F, G
  <2> QED BY <2>1, <2>2
<1>2. \A s \in SUBSET D : IsFiniteSet(s) /\ Cardinality(s) \in Nat
  BY FS_Subset, FS_CardinalityType
<1>3. \A s \in SUBSET D : s # {} => Pick(s) \in s
  BY DEF Pick
<1>4. Parting = {}
  <2> SUFFICES ASSUME Parting # {} PROVE FALSE
    OBVIOUS
  <2>1. Sizes \in SUBSET Nat /\ Sizes # {}
    BY <1>2
  <2>2. PICK n \in Sizes : \A k \in Sizes : n <= k
    <3> HIDE DEF Sizes
    <3> QED BY <2>1, LeastExists
  <2>3. PICK s \in Parting : n = Cardinality(s)
    BY <2>2
  <2>4. s # {}
    BY <1>1, <2>3
  <2>5. PICK t : t = s \ {Pick(s)}
    OBVIOUS
  <2>6. t \in SUBSET D /\ Cardinality(t) = n - 1
    BY <1>2, <1>3, <2>3, <2>4, <2>5, FS_RemoveElement
  <2>7. t \notin Parting
    BY <2>1, <2>2, <2>6
  <2>8. g[t] = f[t]
    BY <2>6, <2>7
  <2> QED BY <1>1, <2>3, <2>4, <2>5, <2>8
<1>5. \A s \in SUBSET D : g[s] = f[s]
  BY <1>4
<1>6. f = [s \in SUBSET D |-> f[s]] /\ g = [s \in SUBSET D |-> g[s]]
  BY Zenon DEF IsSum
<1> QED BY <1>5, <1>6

(* So the sum of the values of a function is any such solution. *)
LEMMA SumIs ==
  ASSUME NEW D, IsFiniteSet(D), NEW v, NEW f, IsSum(f, v, D)
  PROVE  MapThenSumSet(LAMBDA x : v[x], D) = f[D]
<1>1. \A g : IsSum(g, v, D) <=> g = f
  BY SumIsUnique
<1>2. (CHOOSE g : IsSum(g, v, D)) = f
  BY <1>1
<1>3. MapThenSumSet(LAMBDA x : v[x], D) = (CHOOSE g : IsSum(g, v, D))[D]
  BY DEF MapThenSumSet, MapThenFoldSet, IsSum, Pick
<1> QED BY <1>2, <1>3

(* The parts of a finite set, told apart by a function, add up to it. *)
LEMMA PartsAddUp ==
  ASSUME NEW E, IsFiniteSet(E), NEW D, IsFiniteSet(D), NEW w \in [E -> D]
  PROVE  MapThenSumSet(LAMBDA x : [d \in D |-> Cardinality({e \in E : w[e] = d})][x], D)
           = Cardinality(E)
<1> DEFINE v == [d \in D |-> Cardinality({e \in E : w[e] = d})]
           Part(s) == {e \in E : w[e] \in s}
           f == [s \in SUBSET D |-> Cardinality(Part(s))]
<1>1. ASSUME NEW s \in SUBSET D
      PROVE  f[s] = IF s = {} THEN 0 ELSE v[Pick(s)] + f[s \ {Pick(s)}]
  <2>1. CASE s = {}
    <3>1. Part(s) = {}
      BY <2>1
    <3> QED BY <2>1, <3>1, FS_EmptySet
  <2>2. CASE s # {}
    <3>1. PICK d \in s : d = Pick(s)
      BY <2>2 DEF Pick
    <3>2. PICK A : A = {e \in E : w[e] = d}
      OBVIOUS
    <3>3. PICK B : B = Part(s \ {d})
      OBVIOUS
    <3>4. IsFiniteSet(A) /\ IsFiniteSet(B)
      BY <3>2, <3>3, FS_Subset
    <3>5. A \cup B = Part(s) /\ A \cap B = {}
      BY <3>2, <3>3
    <3>6. Cardinality(Part(s)) = Cardinality(A) + Cardinality(B)
      <4>1. Cardinality(A \cup B) = Cardinality(A) + Cardinality(B) - Cardinality(A \cap B)
        BY <3>4, FS_Union
      <4>2. Cardinality(A \cap B) = 0 /\ Cardinality(A) \in Nat /\ Cardinality(B) \in Nat
        BY <3>4, <3>5, FS_EmptySet, FS_CardinalityType
      <4>3. Cardinality(A \cup B) = Cardinality(A) + Cardinality(B)
        BY <4>1, <4>2
      <4> QED BY Zenon, <3>5, <4>3
    <3>7. v[d] = Cardinality(A) /\ f[s \ {d}] = Cardinality(B) /\ f[s] = Cardinality(Part(s))
      BY <3>2, <3>3
    <3> HIDE DEF v, f
    <3> QED BY <2>2, <3>1, <3>6, <3>7
  <2> QED BY <2>1, <2>2
<1>2. IsSum(f, v, D)
  <2>1. f = [s \in SUBSET D |-> f[s]]
    OBVIOUS
  <2> HIDE DEF f, v
  <2> QED BY <1>1, <2>1 DEF IsSum
<1>3. f[D] = Cardinality(E)
  <2>1. Part(D) = E
    OBVIOUS
  <2>2. f[D] = Cardinality(Part(D))
    OBVIOUS
  <2> QED BY <2>1, <2>2
<1>4. MapThenSumSet(LAMBDA x : v[x], D) = f[D]
  <2> HIDE DEF f, v
  <2> QED BY <1>2, SumIs
<1> QED BY <1>3, <1>4

-----------------------------------------------------------------------------
(***************************************************************************)
(* Sums of natural numbers count pairs: v[x] of them for every x.          *)
(***************************************************************************)
Pairs(v, s) == {p \in s \X Nat : p[2] < v[p[1]]}

(* One element's pairs are as many as its number says. *)
LEMMA PairsOfOne ==
  ASSUME NEW v, NEW x, v[x] \in Nat
  PROVE  IsFiniteSet(Pairs(v, {x})) /\ Cardinality(Pairs(v, {x})) = v[x]
<1> DEFINE n == v[x]
           S == 1 .. n
           T == Pairs(v, {x})
           f == [i \in S |-> <<x, i - 1>>]
<1>1. IsFiniteSet(S) /\ Cardinality(S) = n
  <2>1. \A m \in Int : IsFiniteSet(1 .. m) /\ Cardinality(1 .. m) = IF 1 > m THEN 0 ELSE m
    BY FS_Interval
  <2> QED BY <2>1
<1>2. f \in [S -> T]
  BY DEF Pairs
<1>3. \A t \in T : \E i \in S : f[i] = t
  <2> SUFFICES ASSUME NEW t \in T PROVE \E i \in S : f[i] = t
    OBVIOUS
  <2>1. t \in {x} \X Nat /\ t[2] < v[t[1]]
    BY DEF Pairs
  <2>2. t = <<x, t[2]>> /\ t[2] \in Nat /\ t[2] < n
    BY <2>1
  <2>3. t[2] + 1 \in S /\ (t[2] + 1) - 1 = t[2]
    BY <2>2
  <2> QED BY <2>2, <2>3
<1>4. \A i, j \in S : f[i] = f[j] => i = j
  OBVIOUS
<1> HIDE DEF S, T, f
<1>5. f \in Bijection(S, T)
  BY <1>2, <1>3, <1>4 DEF Bijection, Injection, Surjection, IsInjective
<1>6. ExistsBijection(S, T)
  BY <1>5 DEF ExistsBijection
<1>7. IsFiniteSet(T) /\ Cardinality(T) = n
  BY <1>1, <1>6, FS_Bijection
<1> QED BY <1>7 DEF T

(* The pairs of a finite set are finitely many. *)
LEMMA PairsAreFinite ==
  ASSUME NEW D, IsFiniteSet(D), NEW v, \A x \in D : v[x] \in Nat
  PROVE  IsFiniteSet(Pairs(v, D))
<1> DEFINE f == [x \in D |-> Pairs(v, {x})]
           T == {Pairs(v, {x}) : x \in D}
<1>1. f \in Surjection(D, T)
  BY DEF Surjection
<1>2. IsFiniteSet(T)
  <2> HIDE DEF f, T
  <2> QED BY <1>1, FS_Surjection
<1>3. \A t \in T : IsFiniteSet(t)
  BY PairsOfOne
<1>4. Pairs(v, D) = UNION T
  <2>1. \A p \in Pairs(v, D) : p \in Pairs(v, {p[1]}) /\ p[1] \in D
    BY DEF Pairs
  <2>2. \A x \in D : Pairs(v, {x}) \subseteq Pairs(v, D)
    BY DEF Pairs
  <2> QED BY <2>1, <2>2
<1> HIDE DEF T
<1> QED BY <1>2, <1>3, <1>4, FS_UNION

(* Adding an element adds its number. *)
LEMMA PairsAdd ==
  ASSUME NEW D, IsFiniteSet(D), NEW v, \A x \in D : v[x] \in Nat,
         NEW d \in D, NEW s \in SUBSET D, d \in s
  PROVE  Cardinality(Pairs(v, s)) = v[d] + Cardinality(Pairs(v, s \ {d}))
<1>1. PICK A : A = Pairs(v, {d})
  OBVIOUS
<1>2. PICK B : B = Pairs(v, s \ {d})
  OBVIOUS
<1>3. IsFiniteSet(A) /\ Cardinality(A) = v[d]
  BY <1>1, PairsOfOne
<1>4. IsFiniteSet(B)
  <2>1. IsFiniteSet(s \ {d})
    BY FS_Subset
  <2> QED BY <1>2, <2>1, PairsAreFinite
<1>5. A \cup B = Pairs(v, s) /\ A \cap B = {}
  BY <1>1, <1>2 DEF Pairs
<1>6. Cardinality(A \cup B) = Cardinality(A) + Cardinality(B) - Cardinality(A \cap B)
  BY <1>3, <1>4, FS_Union
<1>7. Cardinality(A \cap B) = 0 /\ Cardinality(B) \in Nat
  BY <1>4, <1>5, FS_EmptySet, FS_CardinalityType
<1>8. Cardinality(A \cup B) = v[d] + Cardinality(B)
  BY <1>3, <1>6, <1>7
<1> QED BY Zenon, <1>2, <1>5, <1>8

(* The sum of natural numbers is the number of their pairs. *)
LEMMA SumIsOfPairs ==
  ASSUME NEW D, IsFiniteSet(D), NEW v, \A x \in D : v[x] \in Nat
  PROVE  /\ IsSum([s \in SUBSET D |-> Cardinality(Pairs(v, s))], v, D)
         /\ MapThenSumSet(LAMBDA x : v[x], D) = Cardinality(Pairs(v, D))
<1> DEFINE f == [s \in SUBSET D |-> Cardinality(Pairs(v, s))]
<1>1. ASSUME NEW s \in SUBSET D
      PROVE  f[s] = IF s = {} THEN 0 ELSE v[Pick(s)] + f[s \ {Pick(s)}]
  <2>1. CASE s = {}
    <3>1. Pairs(v, s) = {}
      BY <2>1 DEF Pairs
    <3> QED BY <2>1, <3>1, FS_EmptySet
  <2>2. CASE s # {}
    <3>1. PICK d \in s : d = Pick(s)
      BY <2>2 DEF Pick
    <3>2. Cardinality(Pairs(v, s)) = v[d] + Cardinality(Pairs(v, s \ {d}))
      BY <3>1, PairsAdd
    <3>3. f[s] = Cardinality(Pairs(v, s)) /\ f[s \ {d}] = Cardinality(Pairs(v, s \ {d}))
      OBVIOUS
    <3> HIDE DEF f
    <3> QED BY <2>2, <3>1, <3>2, <3>3
  <2> QED BY <2>1, <2>2
<1>2. IsSum(f, v, D)
  <2>1. f = [s \in SUBSET D |-> f[s]]
    OBVIOUS
  <2> HIDE DEF f
  <2> QED BY <1>1, <2>1 DEF IsSum
<1>3. MapThenSumSet(LAMBDA x : v[x], D) = f[D]
  <2> HIDE DEF f
  <2> QED BY <1>2, SumIs
<1> QED BY <1>2, <1>3

(* So sums grow with their numbers, and with their set. *)
LEMMA PairsGrow ==
  ASSUME NEW D, IsFiniteSet(D), NEW s \in SUBSET D,
         NEW v, NEW w, \A x \in D : w[x] \in Nat,
         \A x \in s : v[x] \in Nat /\ v[x] <= w[x]
  PROVE  /\ Cardinality(Pairs(v, s)) \in Nat /\ Cardinality(Pairs(w, D)) \in Nat
         /\ Cardinality(Pairs(v, s)) <= Cardinality(Pairs(w, D))
<1>1. IsFiniteSet(Pairs(w, D))
  BY PairsAreFinite
<1>2. Pairs(v, s) \subseteq Pairs(w, D)
  BY DEF Pairs
<1> QED BY <1>1, <1>2, FS_Subset, FS_CardinalityType

=============================================================================
