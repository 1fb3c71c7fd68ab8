----------------------- MODULE ChooseTrentDrawProofs -----------------------
(***************************************************************************)
(* Proofs about what ChooseTrent computes: the lists that are filtered and *)
(* sorted, the sum of the numbers, and the user that is drawn with them.   *)
(*                                                                         *)
(* The first part holds the lemmas on lists and sums.  A definition on     *)
(* every number or finite set is reasoned about by its smallest            *)
(* counterexample.                                                         *)
(***************************************************************************)
EXTENDS ChooseTrentProofs, FiniteSetTheorems, WellFoundedInduction

\* A set of subsets of a finite set has a smallest one.
LEMMA SmallestSet ==
  ASSUME NEW S, IsFiniteSet(S), NEW T, T \subseteq SUBSET S, T # {}
  PROVE  \E x \in T : \A y \in T : ~(y \subseteq x /\ y # x)
<1>1. IsWellFoundedOn(StrictSubsetOrdering(S), FiniteSubsetsOf(S))
  BY FS_StrictSubsetOrderingWellFounded
<1>2. T \subseteq FiniteSubsetsOf(S)
  BY FS_Subset DEF FiniteSubsetsOf
<1>3. PICK x \in T : \A y \in T : ~(<<y, x>> \in StrictSubsetOrdering(S))
  BY <1>1, <1>2, WFMin
<1> QED
  BY <1>3 DEF StrictSubsetOrdering

\* A set of numbers has a smallest one.
LEMMA SmallestNumber ==
  ASSUME NEW T \in SUBSET Nat, T # {}
  PROVE  \E n \in T : \A m \in T : n <= m
<1>1. PICK b \in T : TRUE
  OBVIOUS
<1> DEFINE C == {0..n : n \in {n \in T : n <= b}}
<1>2. IsFiniteSet(0..b)
  BY FS_Interval
<1>3. C \subseteq SUBSET (0..b) /\ C # {}
  OBVIOUS
<1>4. \A x \in C : \E n \in T : n <= b /\ x = 0..n
  OBVIOUS
<1>5. \A n \in T : n <= b => 0..n \in C
  OBVIOUS
<1> HIDE DEF C
<1>6. PICK x \in C : \A y \in C : ~(y \subseteq x /\ y # x)
  <2>1. PICK U : U = 0..b
    OBVIOUS
  <2>2. IsFiniteSet(U) /\ C \subseteq SUBSET U /\ C # {}
    BY <1>2, <1>3, <2>1
  <2> QED
    BY <2>2, SmallestSet
<1>7. PICK n \in T : n <= b /\ x = 0..n
  BY <1>4
<1>8. ASSUME NEW m \in T, m < n
      PROVE  FALSE
  <2>1. 0..m \in C /\ 0..m \subseteq x /\ 0..m # x
    BY <1>5, <1>7, <1>8
  <2> QED
    BY <1>6, <2>1
<1> QED
  BY <1>8

\* A finite set of numbers that is not empty has a greatest one.
LEMMA GreatestNumber ==
  ASSUME NEW S \in SUBSET Nat, IsFiniteSet(S), S # {}
  PROVE  \E n \in S : \A m \in S : m <= n
<1> DEFINE Above(n) == {m \in S : n < m}
           C == {Above(n) : n \in S}
<1>1. C \subseteq SUBSET S /\ C # {}
  OBVIOUS
<1>2. \A x \in C : \E n \in S : x = Above(n)
  OBVIOUS
<1>3. \A n \in S : Above(n) \in C
  OBVIOUS
<1>4. \A n \in S : \A m \in Above(n) : m \in S /\ Above(m) \subseteq Above(n) /\ m \notin Above(m)
  <2> SUFFICES ASSUME NEW n \in S, NEW m \in Above(n)
               PROVE  m \in S /\ Above(m) \subseteq Above(n) /\ m \notin Above(m)
    OBVIOUS
  <2>1. m \in S /\ n < m /\ S \subseteq Nat
    OBVIOUS
  <2>2. \A x \in S : m < x => n < x
    BY <2>1
  <2>3. ~(m < m)
    BY <2>1
  <2> QED
    BY <2>1, <2>2, <2>3
<1>5. \A n \in S : \A m \in S : m \notin Above(n) => m <= n
  OBVIOUS
<1> HIDE DEF C, Above
<1>6. PICK x \in C : \A y \in C : ~(y \subseteq x /\ y # x)
  <2>1. PICK U : U = S
    OBVIOUS
  <2>2. IsFiniteSet(U) /\ C \subseteq SUBSET U /\ C # {}
    BY <1>1, <2>1
  <2> HIDE <2>1
  <2> QED
    BY <2>2, SmallestSet
<1>7. PICK n \in S : x = Above(n)
  BY <1>2
<1>8. Above(n) = {}
  <2>1. ASSUME NEW m \in Above(n)
        PROVE  FALSE
    BY <1>3, <1>4, <1>6, <1>7
  <2> QED
    BY <2>1
<1> QED
  BY <1>5, <1>8

-----------------------------------------------------------------------------
(***************************************************************************)
(* The elements of a set in order, the filter and the sort.                *)
(***************************************************************************)
Increasing(s) == \A i, j \in DOMAIN s : i < j => s[i] < s[j]

LEMMA OrderExists ==
  ASSUME NEW S \in SUBSET Nat, IsFiniteSet(S)
  PROVE  \E s \in [1..Cardinality(S) -> S] : Increasing(s)
<1> DEFINE Ordered(U) == \E s \in [1..Cardinality(U) -> U] : Increasing(s)
           C == {U \in SUBSET S : ~Ordered(U)}
<1> SUFFICES ASSUME C # {} PROVE FALSE
  OBVIOUS
<1>1. PICK U \in C : \A V \in C : ~(V \subseteq U /\ V # U)
  <2>1. PICK W : W = S
    OBVIOUS
  <2>2. C \subseteq SUBSET W /\ C # {} /\ IsFiniteSet(W)
    BY <2>1
  <2> HIDE DEF C
  <2> QED
    BY <2>2, SmallestSet
<1>2. U \in SUBSET Nat /\ IsFiniteSet(U) /\ ~Ordered(U)
  BY FS_Subset
<1>3. U # {}
  <2>1. CASE U = {}
    <3>1. Cardinality(U) = 0 /\ 1..0 = {}
      BY <2>1, FS_EmptySet
    <3>2. [i \in {} |-> 0] \in [1..Cardinality(U) -> U] /\ Increasing([i \in {} |-> 0])
      BY <2>1, <3>1 DEF Increasing
    <3> QED
      BY <1>2, <3>2
  <2> QED
    BY <2>1
<1>4. PICK m \in U : \A x \in U : x <= m
  BY <1>2, <1>3, GreatestNumber
<1> DEFINE V == U \ {m}
           n == Cardinality(V)
<1>5. IsFiniteSet(V) /\ n \in Nat /\ Cardinality(U) = n + 1
  <2>1. IsFiniteSet(V) /\ Cardinality(V) = Cardinality(U) - 1
    BY <1>2, FS_RemoveElement
  <2>2. Cardinality(V) \in Nat /\ Cardinality(U) \in Nat
    BY <1>2, <2>1, FS_CardinalityType
  <2> QED
    BY <2>1, <2>2
<1>6. Ordered(V)
  <2>1. V \in SUBSET S /\ V \subseteq U /\ V # U
    BY <1>1, <1>4
  <2>2. V \notin C
    BY <1>1, <2>1
  <2> HIDE DEF Ordered, V
  <2> QED
    BY <2>1, <2>2
<1>7. PICK s \in [1..n -> V] : Increasing(s)
  BY <1>6
<1> HIDE DEF C, n
<1> DEFINE t == [i \in 1..(n + 1) |-> IF i = n + 1 THEN m ELSE s[i]]
<1>8. t \in [1..(n + 1) -> U]
  BY <1>5
<1>9. Increasing(t)
  <2> SUFFICES ASSUME NEW i \in 1..(n + 1), NEW j \in 1..(n + 1), i < j
               PROVE  t[i] < t[j]
    BY DEF Increasing
  <2>1. i \in 1..n /\ s[i] \in V /\ t[i] = s[i]
    BY <1>5
  <2>2. s[i] < m
    <3>1. s[i] \in U /\ s[i] # m /\ s[i] \in Nat /\ m \in Nat
      BY <1>2, <2>1
    <3> QED
      BY <1>4, <3>1
  <2>3. CASE j = n + 1
    BY <2>1, <2>2, <2>3
  <2>4. CASE j # n + 1
    <3>1. j \in 1..n /\ t[j] = s[j]
      BY <1>5, <2>4
    <3> QED
      BY <1>7, <2>1, <3>1 DEF Increasing
  <2> QED
    BY <2>3, <2>4
<1> QED
  BY <1>2, <1>5, <1>8, <1>9

\* InOrder gives the elements of the set, each once, the smallest first.
LEMMA InOrderOfSet ==
  ASSUME NEW S \in SUBSET Nat, IsFiniteSet(S), NEW s, s = InOrder(S)
  PROVE  s \in [1..Cardinality(S) -> S] /\ Increasing(s) /\ ToSet(s) = S
<1>1. s \in [1..Cardinality(S) -> S] /\ Increasing(s)
  BY OrderExists DEF InOrder, Increasing
<1>2. Cardinality(S) \in Nat
  BY FS_CardinalityType
<1>3. s \in Injection(1..Cardinality(S), S)
  <2>1. ASSUME NEW i \in 1..Cardinality(S), NEW j \in 1..Cardinality(S), s[i] = s[j]
        PROVE  i = j
    <3>1. s[i] \in Nat /\ s[j] \in Nat /\ DOMAIN s = 1..Cardinality(S)
      BY <1>1
    <3>2. ~(i < j) /\ ~(j < i)
      BY <1>1, <2>1, <3>1 DEF Increasing
    <3> QED
      BY <1>2, <3>2
  <2> QED
    BY <1>1, <2>1 DEF Injection, IsInjective
<1>4. Cardinality(1..Cardinality(S)) = Cardinality(S)
  BY <1>2, FS_Interval
<1>5. s \in Surjection(1..Cardinality(S), S)
  BY <1>3, <1>4, FS_Injection
<1> QED
  BY <1>1, <1>5 DEF Surjection, ToSet

LEMMA FunctionIsSeq ==
  ASSUME NEW n \in Nat, NEW T, NEW U, T \subseteq U, NEW s \in [1..n -> T]
  PROVE  s \in Seq(U) /\ Len(s) = n
  OBVIOUS

LEMMA LengthOfInterval ==
  ASSUME NEW T, NEW list \in Seq(T)
  PROVE  IsFiniteSet(1..Len(list)) /\ Cardinality(1..Len(list)) = Len(list)
<1>1. PICK n \in Nat : n = Len(list)
  OBVIOUS
<1>2. IsFiniteSet(1..n) /\ Cardinality(1..n) = n
  BY FS_Interval
<1> QED
  BY <1>1, <1>2

\* The sort keeps every user, and may only lose repetitions.
LEMMA SortedList ==
  ASSUME NEW list \in Seq(Users), NEW s, s = Sorted(list)
  PROVE  /\ s \in Seq(Users) /\ ToSet(s) = ToSet(list) /\ Len(s) <= Len(list)
         /\ Increasing(s)
<1> DEFINE S == ToSet(list)
<1>1. list \in Surjection(1..Len(list), S)
  BY DEF ToSet, Surjection
<1>2. IsFiniteSet(1..Len(list)) /\ Cardinality(1..Len(list)) = Len(list)
  BY LengthOfInterval
<1>3. IsFiniteSet(S) /\ Cardinality(S) <= Len(list)
  BY <1>1, <1>2, FS_Surjection
<1>4. S \subseteq Users /\ S \in SUBSET Nat
  <2>1. \A i \in DOMAIN list : list[i] \in Users
    OBVIOUS
  <2> QED
    BY <2>1, ConstantsAssumption DEF ToSet
<1>5. s = InOrder(S)
  BY DEF Sorted
<1> HIDE DEF S
<1>6. s \in [1..Cardinality(S) -> S] /\ Increasing(s) /\ ToSet(s) = S
  BY <1>3, <1>4, <1>5, InOrderOfSet
<1>7. Cardinality(S) \in Nat
  BY <1>3, FS_CardinalityType
<1>8. s \in Seq(Users) /\ Len(s) = Cardinality(S)
  BY <1>4, <1>6, <1>7, FunctionIsSeq
<1> QED
  BY <1>3, <1>6, <1>8 DEF S

\* The filter keeps users of the own list, in their order.
LEMMA FilteredList ==
  ASSUME NEW own \in Seq(Users), NEW other, NEW f, f = Filter(own, other)
  PROVE  f \in Seq(Users) /\ ToSet(f) \subseteq ToSet(own) /\ Len(f) <= Len(own)
<1> DEFINE S == DOMAIN own \ Dropped(own, other)
           kept == InOrder(S)
<1>1. S \in SUBSET (1..Len(own)) /\ S \in SUBSET Nat /\ DOMAIN own = 1..Len(own)
  OBVIOUS
<1>2. f = [i \in DOMAIN kept |-> own[kept[i]]]
  BY DEF Filter
<1> HIDE DEF S
<1>3. IsFiniteSet(S) /\ Cardinality(S) <= Len(own)
  <2>1. IsFiniteSet(1..Len(own)) /\ Cardinality(1..Len(own)) = Len(own)
    BY LengthOfInterval
  <2>2. PICK I : I = 1..Len(own)
    OBVIOUS
  <2>3. IsFiniteSet(I) /\ S \in SUBSET I
    BY <1>1, <2>1, <2>2
  <2>4. IsFiniteSet(S) /\ Cardinality(S) <= Cardinality(I)
    BY <2>3, FS_Subset
  <2> QED
    BY <2>1, <2>2, <2>4
<1>4. kept \in [1..Cardinality(S) -> S]
  BY <1>1, <1>3, InOrderOfSet
<1>5. Cardinality(S) \in Nat
  BY <1>3, FS_CardinalityType
<1> HIDE DEF kept
<1>6. /\ DOMAIN f = 1..Cardinality(S)
      /\ \A i \in 1..Cardinality(S) : f[i] = own[kept[i]] /\ kept[i] \in 1..Len(own)
  BY <1>1, <1>2, <1>4
<1>7. f \in [1..Cardinality(S) -> Users]
  <2>1. \A i \in 1..Len(own) : own[i] \in Users
    OBVIOUS
  <2> QED
    BY <1>2, <1>4, <1>6, <2>1
<1>8. f \in Seq(Users) /\ Len(f) = Cardinality(S)
  BY <1>5, <1>7, FunctionIsSeq
<1>9. ToSet(f) \subseteq ToSet(own)
  BY <1>1, <1>6 DEF ToSet
<1> QED
  BY <1>3, <1>8, <1>9

-----------------------------------------------------------------------------
(***************************************************************************)
(* Sums.                                                                   *)
(***************************************************************************)

\* g gives the sum of the first numbers of f.
Sums(f, g) ==
  /\ DOMAIN g = 0..N
  /\ g[0] = 0
  /\ \A n \in 1..N : g[n] = g[n - 1] + f[n]

LEMMA SumsAreNumbers ==
  ASSUME NEW f \in [Party -> Nat], NEW g, Sums(f, g)
  PROVE  \A n \in 0..N : g[n] \in Nat
<1> DEFINE T == {n \in 0..N : g[n] \notin Nat}
<1> SUFFICES ASSUME T # {} PROVE FALSE
  OBVIOUS
<1>1. N \in Nat /\ T \in SUBSET Nat
  BY Slots
<1>2. PICK n \in T : \A m \in T : n <= m
  BY <1>1, SmallestNumber
<1>3. n \in 1..N /\ n - 1 \in 0..N /\ n - 1 \notin T
  BY <1>1, <1>2 DEF Sums
<1>4. g[n] = g[n - 1] + f[n] /\ g[n - 1] \in Nat /\ f[n] \in Nat
  BY <1>3 DEF Sums, Party
<1> QED
  BY <1>2, <1>4

LEMMA SumsAreUnique ==
  ASSUME NEW f, NEW g, NEW h, Sums(f, g), Sums(f, h)
  PROVE  \A n \in 0..N : g[n] = h[n]
<1> DEFINE T == {n \in 0..N : g[n] # h[n]}
<1> SUFFICES ASSUME T # {} PROVE FALSE
  OBVIOUS
<1>1. N \in Nat /\ T \in SUBSET Nat
  BY Slots
<1>2. PICK n \in T : \A m \in T : n <= m
  BY <1>1, SmallestNumber
<1>3. n \in 1..N /\ n - 1 \in 0..N /\ n - 1 \notin T
  BY <1>1, <1>2 DEF Sums
<1>4. g[n] = g[n - 1] + f[n] /\ h[n] = h[n - 1] + f[n] /\ g[n - 1] = h[n - 1]
  BY <1>3 DEF Sums
<1> QED
  BY <1>2, <1>4

LEMMA SumsExist ==
  ASSUME NEW f \in [Party -> Nat]
  PROVE  \E g : Sums(f, g)
<1> DEFINE Upto(k) == \E g \in [0..k -> Nat] :
                        g[0] = 0 /\ \A n \in 1..k : g[n] = g[n - 1] + f[n]
           T == {k \in 0..N : ~Upto(k)}
<1>1. N \in Nat /\ T \in SUBSET Nat
  BY Slots
<1>2. T = {}
  <2> SUFFICES ASSUME T # {} PROVE FALSE
    OBVIOUS
  <2>1. PICK k \in T : \A m \in T : k <= m
    <3> HIDE DEF T
    <3> QED
      BY <1>1, SmallestNumber
  <2>2. Upto(0)
    <3> DEFINE g == [n \in 0..0 |-> 0]
    <3>1. g \in [0..0 -> Nat] /\ g[0] = 0
      OBVIOUS
    <3> HIDE DEF g
    <3> QED
      BY <3>1
  <2>3. k \in 1..N /\ k - 1 \in 0..N /\ k - 1 \notin T
    <3>1. k # 0 /\ k \in 0..N
      BY <2>2
    <3>2. k \in 1..N /\ k - 1 \in 0..N /\ ~(k <= k - 1)
      BY <1>1, <3>1
    <3> QED
      BY <2>1, <3>2
  <2>4. PICK g \in [0..(k - 1) -> Nat] :
          g[0] = 0 /\ \A n \in 1..(k - 1) : g[n] = g[n - 1] + f[n]
    BY <2>3
  <2> DEFINE h == [n \in 0..k |-> IF n = k THEN g[k - 1] + f[k] ELSE g[n]]
  <2>5. f[k] \in Nat /\ g[k - 1] \in Nat
    <3>1. k \in Party /\ k - 1 \in 0..(k - 1)
      BY <1>1, <2>3 DEF Party
    <3> QED
      BY <2>4, <3>1
  <2>6. h \in [0..k -> Nat]
    BY <2>3, <2>5
  <2>7. h[0] = 0
    BY <2>3, <2>4
  <2>8. \A n \in 1..k : h[n] = h[n - 1] + f[n]
    <3>1. h[k] = h[k - 1] + f[k]
      BY <2>3
    <3>2. ASSUME NEW n \in 1..(k - 1)
          PROVE  h[n] = h[n - 1] + f[n]
      <4>1. h[n] = g[n] /\ h[n - 1] = g[n - 1]
        BY <2>3
      <4> QED
        BY <2>4, <4>1
    <3> HIDE DEF h
    <3> QED
      BY <2>3, <3>1, <3>2
  <2>9. Upto(k)
    BY <2>6, <2>7, <2>8
  <2> QED
    BY <2>9
<1>3. Upto(N)
  BY <1>1, <1>2
<1> QED
  BY <1>3 DEF Sums

\* SumOf is the last of the sums.
LEMMA SumOfSums ==
  ASSUME NEW f \in [Party -> Nat]
  PROVE  \E g : Sums(f, g) /\ SumOf(f) = g[N] /\ \A n \in 0..N : g[n] \in Nat
<1>1. N \in Nat
  BY Slots
<1>2. PICK g : Sums(f, g)
  BY SumsExist
<1>3. \A n \in 0..N : g[n] \in Nat
  BY <1>2, SumsAreNumbers
<1> DEFINE step_(sum) == [n \in 0..N |-> IF n = 0 THEN 0 ELSE sum[n - 1] + f[n]]
           c == CHOOSE sum : sum = step_(sum)
           h == [n \in 0..N |-> g[n]]
<1>4. h = step_(h)
  <2>1. \A n \in 0..N : n # 0 => n - 1 \in 0..N /\ n \in 1..N
    BY <1>1
  <2> QED
    BY <1>2, <2>1 DEF Sums
<1>5. c = step_(c)
  <2> HIDE DEF step_, h
  <2> QED
    BY <1>4
<1>6. SumOf(f) = c[N]
  BY DEF SumOf
<1> HIDE DEF c
<1>7. Sums(f, c)
  BY <1>1, <1>5 DEF Sums
<1> QED
  BY <1>6, <1>7, SumsAreNumbers

LEMMA SumIsNumber ==
  ASSUME NEW f \in [Party -> Nat]
  PROVE  SumOf(f) \in Nat
<1>1. N \in 0..N
  BY Slots
<1> QED
  BY <1>1, SumOfSums

LEMMA SumOfNothing == SumOf([j \in Party |-> 0]) = 0
<1> DEFINE f == [j \in Party |-> 0]
           h == [n \in 0..N |-> 0]
<1>1. N \in Nat /\ f \in [Party -> Nat]
  BY Slots
<1>2. Sums(f, h)
  BY <1>1 DEF Sums, Party
<1> HIDE DEF f
<1>3. PICK g : Sums(f, g) /\ SumOf(f) = g[N]
  BY <1>1, SumOfSums
<1>4. g[N] = h[N] /\ h[N] = 0
  <2>1. N \in 0..N
    BY <1>1
  <2>2. h[N] = 0
    BY <2>1
  <2> HIDE DEF h
  <2> QED
    BY <1>2, <1>3, <2>1, <2>2, SumsAreUnique
<1> QED
  BY <1>3, <1>4 DEF f

\* One more number is added once.
LEMMA SumWithOneMore ==
  ASSUME NEW f \in [Party -> Nat], NEW j \in Party, f[j] = 0, NEW v \in Nat,
         NEW e, e = [f EXCEPT ![j] = v]
  PROVE  SumOf(e) = SumOf(f) + v
<1>1. N \in Nat /\ j \in 1..N /\ e \in [Party -> Nat]
  BY Slots DEF Party
<1>2. PICK g : Sums(f, g) /\ SumOf(f) = g[N] /\ \A n \in 0..N : g[n] \in Nat
  BY SumOfSums
<1>3. PICK h : Sums(e, h) /\ SumOf(e) = h[N]
  BY <1>1, SumOfSums
<1> DEFINE k == [n \in 0..N |-> IF n < j THEN g[n] ELSE g[n] + v]
<1>4. Sums(e, k)
  <2>1. DOMAIN k = 0..N /\ k[0] = 0
    BY <1>1, <1>2 DEF Sums
  <2>2. ASSUME NEW n \in 1..N
        PROVE  k[n] = k[n - 1] + e[n]
    <3>1. n \in 0..N /\ n - 1 \in 0..N /\ n \in Party
      BY <1>1 DEF Party
    <3>2. g[n] = g[n - 1] + f[n] /\ g[n] \in Nat /\ g[n - 1] \in Nat /\ f[n] \in Nat
      BY <1>2, <3>1 DEF Sums
    <3>3. CASE n < j
      <4>1. k[n] = g[n] /\ k[n - 1] = g[n - 1] /\ e[n] = f[n]
        BY <1>1, <3>1, <3>3
      <4> QED
        BY <3>2, <4>1
    <3>4. CASE n = j
      <4>1. k[n] = g[n] + v /\ k[n - 1] = g[n - 1] /\ e[n] = v /\ f[n] = 0
        BY <1>1, <3>1, <3>4
      <4> QED
        BY <3>2, <4>1
    <3>5. CASE n > j
      <4>1. k[n] = g[n] + v /\ k[n - 1] = g[n - 1] + v /\ e[n] = f[n]
        BY <1>1, <3>1, <3>5
      <4> QED
        BY <3>2, <4>1
    <3> QED
      BY <1>1, <3>3, <3>4, <3>5
  <2> QED
    BY <2>1, <2>2 DEF Sums
<1>5. k[N] = g[N] + v
  BY <1>1
<1> HIDE DEF k
<1>6. h[N] = k[N]
  <2>1. N \in 0..N
    BY <1>1
  <2> QED
    BY <1>3, <1>4, <2>1, SumsAreUnique
<1> QED
  BY <1>2, <1>3, <1>5, <1>6

LEMMA Division ==
  ASSUME NEW c \in Nat \ {0}, NEW a \in Nat
  PROVE  a \div c \in Nat /\ a % c \in 0..(c - 1) /\ a = c * (a \div c) + (a % c)
  OBVIOUS

LEMMA Remainder ==
  ASSUME NEW c \in Nat \ {0}, NEW a \in Nat, NEW q \in Nat, NEW r \in 0..(c - 1),
         a = c * q + r
  PROVE  a % c = r
  OBVIOUS

LEMMA Quotient ==
  ASSUME NEW c \in Nat \ {0}, NEW a \in Nat, NEW q \in Nat, NEW r \in 0..(c - 1),
         a = c * q + r
  PROVE  a \div c = q
  OBVIOUS

\* The sum may be kept modulo any number.
LEMMA AddToRemainder ==
  ASSUME NEW c \in Nat \ {0}, NEW a \in Nat, NEW v \in Nat
  PROVE  ((a % c) + v) % c = (a + v) % c
<1> DEFINE q == a \div c
           r == a % c
           b == r + v
           p == b \div c
           x == b % c
<1>1. q \in Nat /\ r \in Nat /\ a = c * q + r
  BY Division
<1> HIDE DEF q, r
<1>2. p \in Nat /\ x \in 0..(c - 1) /\ b = c * p + x
  <2>1. b \in Nat
    BY <1>1
  <2> HIDE DEF b
  <2> QED
    BY <2>1, Division
<1>3. b = r + v
  OBVIOUS
<1> HIDE DEF p, x, b
<1>4. a + v = c * (q + p) + x
  <2>1. c * (q + p) = c * q + c * p
    BY <1>1, <1>2
  <2>2. c * q \in Nat /\ c * p \in Nat /\ x \in Nat
    BY <1>1, <1>2
  <2> QED
    BY <1>1, <1>2, <1>3, <2>1, <2>2
<1>5. (a + v) % c = x
  <2> DEFINE y == q + p
             z == a + v
  <2>1. y \in Nat /\ z \in Nat /\ z = c * y + x
    BY <1>1, <1>2, <1>4
  <2> HIDE DEF y, z
  <2>2. z % c = x
    BY <1>2, <2>1, Remainder
  <2> QED
    BY <2>2 DEF z
<1> QED
  BY <1>5 DEF x, b, r

\* ... and taken modulo a number that divides it.
LEMMA RemainderOfRemainder ==
  ASSUME NEW c \in Nat \ {0}, NEW n \in Nat \ {0}, c % n = 0, NEW a \in Nat
  PROVE  (a % c) % n = a % n
<1> DEFINE q == a \div c
           r == a % c
           d == c \div n
           p == r \div n
           x == r % n
<1>1. q \in Nat /\ r \in Nat /\ a = c * q + r
  BY Division
<1>2. d \in Nat /\ c = n * d
  BY Division
<1> HIDE DEF q, r, d
<1>3. p \in Nat /\ x \in 0..(n - 1) /\ r = n * p + x
  BY <1>1, Division
<1> HIDE DEF p, x
<1>4. a = n * (d * q + p) + x /\ d * q + p \in Nat
  <2>1. c * q = n * (d * q)
    BY <1>1, <1>2
  <2>2. d * q \in Nat
    BY <1>1, <1>2
  <2>3. n * (d * q + p) = n * (d * q) + n * p
    BY <1>3, <2>2
  <2>4. n * (d * q) \in Nat /\ n * p \in Nat /\ x \in Nat
    BY <1>3, <2>2
  <2> QED
    BY <1>1, <1>3, <2>1, <2>2, <2>3, <2>4
<1>5. a % n = x
  <2> DEFINE y == d * q + p
  <2>1. y \in Nat /\ a = n * y + x
    BY <1>4
  <2> HIDE DEF y
  <2> QED
    BY <1>3, <2>1, Remainder
<1> QED
  BY <1>5 DEF x, r

-----------------------------------------------------------------------------
(***************************************************************************)
(* What is true of the fields s of p when M is what can be found, and w    *)
(* gives the numbers of the parties.                                       *)
(***************************************************************************)
ListsOf(p, M) == {m \in M : m.kind = "list" /\ m.from = p}

\* The list of s is not filtered any more.
Settled(s) == 1..Done \subseteq s.hasSent["list"]

\* The list is no longer than one that was known at first.
IsShort(list) == \A n \in 1..Len(list) : Cycle % n = 0

\* A user who is kept is in every list that p has published.
ListIsTold(p, s, M) ==
  /\ \A m \in ListsOf(p, M) : ToSet(s.list) \subseteq ToSet(m.list)
  /\ s.size = Done /\ p \in s.hasSent["list"] => ListsOf(p, M) # {}

\* The own number comes after the list, and is not added when it is found.
RoundsFollow(p, s, M) ==
  s.size = Done =>
    /\ Done \in s.hasSent["list"] => Settled(s)
    /\ p \in s.hasSent["number"] => Settled(s)
    /\ (\E m \in M : m.kind = "number" /\ m.from = p) => p \in s.hasSent["number"]

\* The numbers that are in the sum.
Counted(p, s, w) ==
  [j \in Party |-> IF j = p \/ j \in s.hasSent["number"] THEN w[j] ELSE 0]

SumIsOfNumbers(p, s, w) == s.size = Done => s.sum = SumOf(Counted(p, s, w)) % Cycle

Drawn(list, w) == list[(SumOf(w) % Len(list)) + 1]

\* The user who was published was in a list, and is the one who was drawn.
TrentIsDrawn(p, s, M, w) ==
  \A m \in M : m.kind = "trent" /\ m.from = p =>
    /\ \E o \in ListsOf(p, M) : m.trent \in ToSet(o.list)
    /\ s.size = Done => Settled(s) /\ s.list # << >> /\ m.trent = Drawn(s.list, w)

IsKept(p, s, M, w) ==
  /\ s \in Steps /\ s.own = w[p] /\ IsShort(s.list)
  /\ ListIsTold(p, s, M)
  /\ RoundsFollow(p, s, M)
  /\ SumIsOfNumbers(p, s, w)
  /\ TrentIsDrawn(p, s, M, w)

IsTrue(m, w) == m \in Messages /\ (m.kind = "number" => m.number = w[m.from])

\* A result r of p that keeps it so.
Keeps(p, r, M, w) ==
  /\ IsKept(p, r.state, M \cup r.sent, w)
  /\ \A m \in r.sent : m.from = p /\ IsTrue(m, w)

-----------------------------------------------------------------------------
LEMMA MessageTypes ==
  ASSUME NEW p \in Party
  PROVE  /\ \A s \in Steps : ListMessage(p, s) \in Messages /\ NumberMessage(p, s) \in Messages
         /\ \A t \in Users : TrentMessage(p, t) \in Messages
  BY DEF Messages, Steps, ListMessage, NumberMessage, TrentMessage

LEMMA KindNames == "list" \in Kinds /\ "number" \in Kinds /\ "trent" \in Kinds
  BY DEF Kinds

IsMarkedStep(s, k, j, n) ==
  /\ n \in Steps
  /\ n.list = s.list /\ n.own = s.own /\ n.sum = s.sum
  /\ n.size = s.size /\ n.trent = s.trent /\ n.gone = s.gone
  /\ n.hasSent[k] = s.hasSent[k] \cup {j}
  /\ \A i \in Kinds : i # k => n.hasSent[i] = s.hasSent[i]

LEMMA MarkedStep ==
  ASSUME NEW s \in Steps, NEW k \in Kinds, NEW j \in Party \cup {Done}
  PROVE  IsMarkedStep(s, k, j, Mark(s, k, j))
  BY Slots DEF IsMarkedStep, Mark, Steps

\* Nothing changes that matters to the draw.
Similar(s, n) ==
  /\ n \in Steps
  /\ n.list = s.list /\ n.own = s.own /\ n.sum = s.sum /\ n.size = s.size
  /\ n.hasSent["list"] = s.hasSent["list"]
  /\ n.hasSent["number"] = s.hasSent["number"]

LEMMA SimilarIsKept ==
  ASSUME NEW p \in Party, NEW s, NEW n, NEW M, NEW w, IsKept(p, s, M, w), Similar(s, n)
  PROVE  IsKept(p, n, M, w)
<1>1. ListIsTold(p, n, M) /\ RoundsFollow(p, n, M)
  BY DEF IsKept, Similar, ListIsTold, RoundsFollow, Settled
<1>2. Counted(p, n, w) = Counted(p, s, w)
  BY DEF Similar, Counted
<1>3. SumIsOfNumbers(p, n, w)
  BY <1>2 DEF IsKept, Similar, SumIsOfNumbers
<1>4. TrentIsDrawn(p, n, M, w)
  BY DEF IsKept, Similar, TrentIsDrawn, Settled
<1> QED
  BY <1>1, <1>3, <1>4 DEF IsKept, Similar

\* In shorter arrays nothing is complete, and nothing is drawn again.
LEMMA ShorterIsKept ==
  ASSUME NEW p \in Party, NEW s, NEW n, NEW M, NEW w, IsKept(p, s, M, w),
         n \in Steps, n.size = N, n.list = s.list, n.own = s.own
  PROVE  IsKept(p, n, M, w)
<1>1. n.size # Done
  BY Slots
<1> QED
  BY <1>1 DEF IsKept, ListIsTold, RoundsFollow, SumIsOfNumbers, TrentIsDrawn

LEMMA ListIsSent ==
  ASSUME NEW p \in Party, NEW s, NEW M, NEW w, IsKept(p, s, M, w),
         NEW m, m.kind = "list", m.from = p, ToSet(s.list) \subseteq ToSet(m.list)
  PROVE  IsKept(p, s, M \cup {m}, w)
<1>1. m.kind # "number" /\ m.kind # "trent"
  OBVIOUS
<1>2. ListsOf(p, M \cup {m}) = ListsOf(p, M) \cup {m}
  BY DEF ListsOf
<1>3. ListIsTold(p, s, M \cup {m})
  BY <1>2 DEF IsKept, ListIsTold
<1>4. RoundsFollow(p, s, M \cup {m})
  BY <1>1 DEF IsKept, RoundsFollow
<1>5. TrentIsDrawn(p, s, M \cup {m}, w)
  BY <1>1, <1>2 DEF IsKept, TrentIsDrawn
<1> QED
  BY <1>3, <1>4, <1>5 DEF IsKept

LEMMA NumberIsSent ==
  ASSUME NEW p \in Party, NEW s, NEW M, NEW w, IsKept(p, s, M, w),
         s.size = Done => p \in s.hasSent["number"], NEW m, m.kind = "number"
  PROVE  IsKept(p, s, M \cup {m}, w)
<1>1. m.kind # "list" /\ m.kind # "trent"
  OBVIOUS
<1>2. ListsOf(p, M \cup {m}) = ListsOf(p, M)
  BY <1>1 DEF ListsOf
<1>3. ListIsTold(p, s, M \cup {m})
  BY <1>2 DEF IsKept, ListIsTold
<1>4. RoundsFollow(p, s, M \cup {m})
  BY DEF IsKept, RoundsFollow
<1>5. TrentIsDrawn(p, s, M \cup {m}, w)
  BY <1>1, <1>2 DEF IsKept, TrentIsDrawn
<1> QED
  BY <1>3, <1>4, <1>5 DEF IsKept

\* The user t may be published.
MayTell(p, s, t, M, w) ==
  /\ t \in Users
  /\ \E o \in ListsOf(p, M) : t \in ToSet(o.list)
  /\ s.size = Done => Settled(s) /\ s.list # << >> /\ t = Drawn(s.list, w)

LEMMA TrentIsSent ==
  ASSUME NEW p \in Party, NEW s, NEW M, NEW w, IsKept(p, s, M, w),
         NEW m, m.kind = "trent", MayTell(p, s, m.trent, M, w)
  PROVE  IsKept(p, s, M \cup {m}, w)
<1>1. m.kind # "list" /\ m.kind # "number"
  OBVIOUS
<1>2. ListsOf(p, M \cup {m}) = ListsOf(p, M)
  BY <1>1 DEF ListsOf
<1>3. ListIsTold(p, s, M \cup {m})
  BY <1>2 DEF IsKept, ListIsTold
<1>4. RoundsFollow(p, s, M \cup {m})
  BY <1>1 DEF IsKept, RoundsFollow
<1>5. TrentIsDrawn(p, s, M \cup {m}, w)
  BY <1>2 DEF IsKept, TrentIsDrawn, MayTell
<1> QED
  BY <1>3, <1>4, <1>5 DEF IsKept

\* What others publish does not matter.
LEMMA OthersSend ==
  ASSUME NEW p \in Party, NEW s, NEW M, NEW L, NEW w, IsKept(p, s, M, w),
         M \subseteq L, \A m \in L : m.from = p => m \in M
  PROVE  IsKept(p, s, L, w)
<1>1. ListsOf(p, L) = ListsOf(p, M)
  BY DEF ListsOf
<1>2. ListIsTold(p, s, L)
  BY <1>1 DEF IsKept, ListIsTold
<1>3. RoundsFollow(p, s, L)
  BY DEF IsKept, RoundsFollow
<1>4. TrentIsDrawn(p, s, L, w)
  BY <1>1 DEF IsKept, TrentIsDrawn
<1> QED
  BY <1>2, <1>3, <1>4 DEF IsKept

-----------------------------------------------------------------------------
(***************************************************************************)
(* The handlers, from the innermost.                                       *)
(***************************************************************************)
LEMMA GoOnIsSimilar ==
  ASSUME NEW s \in Steps
  PROVE  Similar(s, GoOn(s))
<1>1. CASE IsComplete(s, "trent")
  <2> DEFINE marked == Mark(s, "trent", Done)
  <2>1. IsMarkedStep(s, "trent", Done, marked)
    BY MarkedStep DEF Kinds
  <2>2. GoOn(s) = [marked EXCEPT !.gone = TRUE]
    BY <1>1 DEF GoOn
  <2> HIDE DEF marked
  <2>3. /\ GoOn(s) \in Steps /\ GoOn(s).list = marked.list /\ GoOn(s).own = marked.own
        /\ GoOn(s).sum = marked.sum /\ GoOn(s).size = marked.size
        /\ GoOn(s).hasSent = marked.hasSent
    BY <2>1, <2>2 DEF IsMarkedStep, Steps
  <2> QED
    BY <2>1, <2>3 DEF IsMarkedStep, Similar, Kinds
<1>2. CASE ~IsComplete(s, "trent")
  BY <1>2 DEF GoOn, Similar
<1> QED
  BY <1>1, <1>2

LEMMA RestartKeeps ==
  ASSUME NEW p \in Party, NEW s, NEW M, NEW w, IsKept(p, s, M, w), NEW r, r = Restart(p, s)
  PROVE  /\ Keeps(p, r, M, w)
         /\ r.state.size = N /\ r.sent = {ListMessage(p, s)}
<1> DEFINE marks == [k \in Kinds |-> IF k = "list" THEN {p} ELSE {}]
<1>1. s \in Steps
  BY DEF IsKept
<1>2. marks \in [Kinds -> SUBSET (1..Done)]
  BY Slots
<1>3. r.sent = {ListMessage(p, s)}
  BY DEF Restart
<1>4. r.state.size = N /\ r.state.list = s.list /\ r.state.own = s.own /\ r.state \in Steps
  <2>1. r.state = [s EXCEPT !.hasSent = marks, !.size = N, !.trent = {}]
    BY DEF Restart
  <2> HIDE DEF marks
  <2> QED
    BY <1>1, <1>2, <2>1 DEF Steps
<1>5. IsKept(p, r.state, M, w)
  BY <1>4, ShorterIsKept
<1>6. /\ ListMessage(p, s).kind = "list" /\ ListMessage(p, s).from = p
      /\ ListMessage(p, s).list = s.list
  BY DEF ListMessage
<1>7. IsKept(p, r.state, M \cup {ListMessage(p, s)}, w)
  BY <1>4, <1>5, <1>6, ListIsSent
<1>8. IsTrue(ListMessage(p, s), w)
  BY <1>1, <1>6, MessageTypes DEF IsTrue
<1> QED
  BY <1>3, <1>4, <1>6, <1>7, <1>8 DEF Keeps

LEMMA TrentFieldIsSimilar ==
  ASSUME NEW s \in Steps, NEW t \in Users, NEW n, n = [s EXCEPT !.trent = {t}]
  PROVE  Similar(s, n)
  BY DEF Similar, Steps

LEMMA TrentMarkIsSimilar ==
  ASSUME NEW s \in Steps, NEW j \in Party, NEW n, n = Mark(s, "trent", j)
  PROVE  Similar(s, n) /\ n.size = s.size
<1>1. "trent" \in Kinds /\ j \in Party \cup {Done}
  BY KindNames
<1>2. IsMarkedStep(s, "trent", j, n)
  BY <1>1, MarkedStep
<1> QED
  BY <1>2, KindNames DEF IsMarkedStep, Similar

LEMMA AnnounceKeeps ==
  ASSUME NEW p \in Party, NEW s, NEW M, NEW w, IsKept(p, s, M, w),
         NEW t, MayTell(p, s, t, M, w), NEW r, r = Announce(p, s, t)
  PROVE  Keeps(p, r, M, w)
<1> DEFINE known == IF s.trent = {} THEN [s EXCEPT !.trent = {t}] ELSE s
           again == Restart(p, known)
           m == TrentMessage(p, t)
<1>1. s \in Steps /\ t \in Users
  BY DEF IsKept, MayTell
<1>2. Similar(s, known)
  <2>1. Similar(s, [s EXCEPT !.trent = {t}])
    BY <1>1, TrentFieldIsSimilar
  <2>2. Similar(s, s)
    BY <1>1 DEF Similar
  <2> QED
    BY <2>1, <2>2
<1>3. r = IF known.trent = {t}
            THEN [state |-> GoOn(Mark(known, "trent", p)), sent |-> {m}]
            ELSE [state |-> Mark(again.state, "trent", p), sent |-> again.sent \cup {m}]
  BY DEF Announce
<1>4. m.kind = "trent" /\ m.from = p /\ m.trent = t
  BY DEF TrentMessage
<1>5. IsTrue(m, w)
  BY <1>1, <1>4, MessageTypes DEF IsTrue
<1> HIDE DEF m, known, again
<1>6. IsKept(p, known, M, w) /\ known \in Steps
  BY <1>2, SimilarIsKept DEF Similar
<1>7. MayTell(p, known, t, M, w)
  BY <1>2 DEF MayTell, Similar, Settled
<1>8. CASE known.trent = {t}
  <2> DEFINE marked == Mark(known, "trent", p)
             n == GoOn(marked)
  <2>1. Similar(known, marked) /\ marked \in Steps
    BY <1>6, TrentMarkIsSimilar DEF Similar
  <2> HIDE DEF marked
  <2>2. Similar(known, n)
    BY <2>1, GoOnIsSimilar DEF Similar
  <2>3. r.state = n /\ r.sent = {m}
    BY <1>3, <1>8 DEF marked
  <2> HIDE DEF n
  <2>4. IsKept(p, n, M, w)
    BY <1>6, <2>2, SimilarIsKept
  <2>5. MayTell(p, n, t, M, w)
    BY <1>7, <2>2 DEF MayTell, Similar, Settled
  <2>6. IsKept(p, n, M \cup {m}, w)
    BY <1>4, <2>4, <2>5, TrentIsSent
  <2> QED
    BY <1>4, <1>5, <2>3, <2>6 DEF Keeps
<1>9. CASE known.trent # {t}
  <2> DEFINE back == again.state
             n == Mark(back, "trent", p)
             L == M \cup again.sent
  <2>1. Keeps(p, again, M, w) /\ back.size = N /\ again.sent = {ListMessage(p, known)}
    BY <1>6, RestartKeeps DEF again
  <2>2. r.state = n /\ r.sent = again.sent \cup {m}
    BY <1>3, <1>9
  <2>3. IsKept(p, back, L, w) /\ back \in Steps
    BY <2>1 DEF Keeps, IsKept
  <2> HIDE DEF back
  <2>4. Similar(back, n) /\ n.size = N
    BY <2>1, <2>3, TrentMarkIsSimilar
  <2> HIDE DEF n
  <2>5. IsKept(p, n, L, w)
    BY <2>3, <2>4, SimilarIsKept
  <2>6. MayTell(p, n, t, L, w)
    BY <1>7, <2>4, Slots DEF MayTell, ListsOf
  <2> HIDE DEF L
  <2>7. IsKept(p, n, L \cup {m}, w)
    BY <1>4, <2>5, <2>6, TrentIsSent
  <2>8. M \cup r.sent = L \cup {m}
    BY <2>2 DEF L
  <2>9. \A o \in r.sent : o.from = p /\ IsTrue(o, w)
    BY <1>4, <1>5, <2>1, <2>2 DEF Keeps
  <2> QED
    BY <2>2, <2>7, <2>8, <2>9 DEF Keeps
<1> QED
  BY <1>8, <1>9

\* When all numbers are there the sum is the total of them.
LEMMA AllAreCounted ==
  ASSUME NEW p \in Party, NEW s, NEW w \in [Party -> Nat], Party \subseteq s.hasSent["number"]
  PROVE  Counted(p, s, w) = w
  BY DEF Counted

\* The user that is picked is the one that all numbers draw.
LEMMA PickedUser ==
  ASSUME NEW p \in Party, NEW s, NEW M, NEW w \in [Party -> Nat], IsKept(p, s, M, w),
         IsComplete(s, "number"), s.list # << >>,
         NEW t, t = s.list[(s.sum % Len(s.list)) + 1]
  PROVE  Settled(s) /\ t = Drawn(s.list, w) /\ t \in ToSet(s.list) /\ t \in Users
<1>1. s \in Steps /\ s.size = Done /\ Party \subseteq s.hasSent["number"]
  BY DEF IsKept, IsComplete
<1>2. Settled(s)
  BY <1>1 DEF IsKept, RoundsFollow
<1>3. s.list \in Seq(Users) /\ Len(s.list) \in Nat \ {0}
  BY <1>1 DEF Steps
<1>4. s.sum = SumOf(w) % Cycle
  BY <1>1, AllAreCounted DEF IsKept, SumIsOfNumbers
<1>5. s.sum % Len(s.list) = SumOf(w) % Len(s.list)
  <2> DEFINE l == Len(s.list)
             x == SumOf(w)
  <2>1. l \in Nat \ {0} /\ l \in 1..l
    BY <1>3
  <2>2. Cycle % l = 0 /\ Cycle \in Nat \ {0}
    BY <2>1, ConstantsAssumption DEF IsKept, IsShort
  <2>3. x \in Nat
    BY SumIsNumber
  <2> HIDE DEF l, x
  <2>4. (x % Cycle) % l = x % l
    BY <2>1, <2>2, <2>3, RemainderOfRemainder
  <2> QED
    BY <1>4, <2>4 DEF l, x
<1>6. t = Drawn(s.list, w)
  BY <1>5 DEF Drawn
<1>7. t \in ToSet(s.list) /\ t \in Users
  <2>1. s.sum \in Nat
    BY <1>1, ConstantsAssumption DEF Steps
  <2> DEFINE i == (s.sum % Len(s.list)) + 1
  <2>2. i \in 1..Len(s.list)
    BY <1>3, <2>1
  <2>3. t = s.list[i]
    OBVIOUS
  <2> HIDE DEF i
  <2>4. s.list[i] \in Users /\ i \in DOMAIN s.list
    BY <1>3, <2>2
  <2> QED
    BY <2>3, <2>4 DEF ToSet
<1> QED
  BY <1>2, <1>6, <1>7

LEMMA PickKeeps ==
  ASSUME NEW p \in Party, NEW s, NEW M, NEW w \in [Party -> Nat], IsKept(p, s, M, w),
         NEW r, r = Pick(p, s)
  PROVE  Keeps(p, r, M, w)
<1>1. CASE ~IsComplete(s, "number")
  <2>1. r.state = s /\ r.sent = {} /\ M \cup {} = M
    BY <1>1 DEF Pick
  <2> QED
    BY <2>1 DEF Keeps
<1>2. CASE IsComplete(s, "number")
  <2> DEFINE over == Mark(s, "number", Done)
             t == s.list[(s.sum % Len(s.list)) + 1]
  <2>1. s \in Steps /\ s.size = Done /\ Party \subseteq s.hasSent["number"]
    BY <1>2 DEF IsKept, IsComplete
  <2>2. IsMarkedStep(s, "number", Done, over)
    <3>1. "number" \in Kinds /\ Done \in Party \cup {Done}
      BY KindNames
    <3> QED
      BY <2>1, <3>1, MarkedStep
  <2>3. r = IF s.list = << >> THEN [state |-> over, sent |-> {}] ELSE Announce(p, over, t)
    BY <1>2 DEF Pick
  <2> HIDE DEF over
  <2>4. IsKept(p, over, M, w)
    <3>1. ListIsTold(p, over, M) /\ RoundsFollow(p, over, M)
      BY <2>2, KindNames, Slots
      DEF IsKept, IsMarkedStep, ListIsTold, RoundsFollow, Settled
    <3>2. Counted(p, over, w) = Counted(p, s, w)
      BY <2>2, Slots DEF IsMarkedStep, Counted
    <3>3. SumIsOfNumbers(p, over, w)
      BY <2>2, <3>2 DEF IsKept, IsMarkedStep, SumIsOfNumbers
    <3>4. TrentIsDrawn(p, over, M, w)
      BY <2>2, KindNames DEF IsKept, IsMarkedStep, TrentIsDrawn, Settled
    <3> QED
      BY <2>2, <3>1, <3>3, <3>4 DEF IsKept, IsMarkedStep
  <2>5. CASE s.list = << >>
    <3>1. r.state = over /\ r.sent = {} /\ M \cup {} = M
      BY <2>3, <2>5
    <3> QED
      BY <2>4, <3>1 DEF Keeps
  <2>6. CASE s.list # << >>
    <3>1. Settled(s) /\ t = Drawn(s.list, w) /\ t \in ToSet(s.list) /\ t \in Users
      BY <1>2, <2>6, PickedUser
    <3> HIDE DEF t
    <3>2. p \in s.hasSent["list"]
      BY <3>1, Slots DEF Settled
    <3>3. \E o \in ListsOf(p, M) : t \in ToSet(o.list)
      BY <2>1, <3>1, <3>2 DEF IsKept, ListIsTold
    <3>4. MayTell(p, over, t, M, w)
      BY <2>2, <2>6, <3>1, <3>3, KindNames DEF MayTell, IsMarkedStep, Settled
    <3>5. r = Announce(p, over, t)
      BY <2>3, <2>6
    <3> QED
      BY <2>4, <3>4, <3>5, AnnounceKeeps
  <2> QED
    BY <2>5, <2>6
<1> QED
  BY <1>1, <1>2

\* The fields when the number of m is there.
Counts(s, m) ==
  IF m.from \in s.hasSent["number"] THEN s
  ELSE [Mark(s, "number", m.from) EXCEPT !.sum = (@ + m.number) % Cycle]

\* A number is added once, and the own one never.
LEMMA CountsIsKept ==
  ASSUME NEW p \in Party, NEW s, NEW M, NEW w \in [Party -> Nat], IsKept(p, s, M, w),
         NEW m \in M, IsTrue(m, w), m.kind = "number", NEW n, n = Counts(s, m)
  PROVE  /\ IsKept(p, n, M, w)
         /\ n.list = s.list /\ n.size = s.size /\ n.trent = s.trent /\ n.gone = s.gone
         /\ n.hasSent["list"] = s.hasSent["list"]
         /\ n.hasSent["number"] = s.hasSent["number"] \cup {m.from}
         /\ n.hasSent["trent"] = s.hasSent["trent"]
<1> DEFINE j == m.from
           marked == Mark(s, "number", j)
           added == [marked EXCEPT !.sum = (marked.sum + m.number) % Cycle]
<1>1. s \in Steps /\ j \in Party /\ m.number = w[j] /\ w[j] \in Nat
  BY DEF IsKept, IsTrue, Messages
<1>2. n = IF j \in s.hasSent["number"] THEN s ELSE added
  BY DEF Counts
<1>3. IsMarkedStep(s, "number", j, marked)
  <2>1. "number" \in Kinds /\ j \in Party \cup {Done}
    BY <1>1, KindNames
  <2> HIDE DEF j
  <2> QED
    BY <1>1, <2>1, MarkedStep
<1> HIDE DEF marked, j
<1>4. marked.sum \in Nat /\ marked.sum = s.sum /\ marked \in Steps
  BY <1>1, <1>3, ConstantsAssumption DEF IsMarkedStep, Steps
<1>5. (marked.sum + m.number) % Cycle \in 0..(Cycle - 1)
  <2>1. marked.sum + m.number \in Nat
    BY <1>1, <1>4
  <2> QED
    BY <2>1, ConstantsAssumption
<1>6. /\ added \in Steps /\ added.list = s.list /\ added.own = s.own
      /\ added.size = s.size /\ added.hasSent = marked.hasSent
      /\ added.trent = s.trent /\ added.gone = s.gone
      /\ added.sum = (s.sum + w[j]) % Cycle
  <2>1. PICK v \in 0..(Cycle - 1) : v = (marked.sum + m.number) % Cycle
    BY <1>5
  <2>2. added = [marked EXCEPT !.sum = v]
    BY <2>1
  <2> HIDE DEF added
  <2>3. /\ added \in Steps /\ added.list = marked.list /\ added.own = marked.own
        /\ added.size = marked.size /\ added.hasSent = marked.hasSent /\ added.sum = v
        /\ added.trent = marked.trent /\ added.gone = marked.gone
    BY <1>4, <2>2 DEF Steps
  <2>4. v = (s.sum + w[j]) % Cycle
    BY <1>1, <1>4, <2>1, Zenon
  <2> QED
    BY <1>3, <2>3, <2>4 DEF IsMarkedStep
<1> HIDE DEF added
<1>7. ASSUME j \notin s.hasSent["number"]
      PROVE  IsKept(p, added, M, w)
  <2>1. CASE s.size = N
    BY <1>6, <2>1, ShorterIsKept
  <2>2. CASE s.size = Done
    <3>1. j # p
      BY <1>7, <2>2 DEF IsKept, RoundsFollow, j
    <3>2. /\ added.hasSent["list"] = s.hasSent["list"]
          /\ added.hasSent["number"] = s.hasSent["number"] \cup {j}
      BY <1>3, <1>6, KindNames DEF IsMarkedStep
    <3>3. ListIsTold(p, added, M) /\ RoundsFollow(p, added, M)
      BY <1>6, <3>1, <3>2 DEF IsKept, ListIsTold, RoundsFollow, Settled
    <3>4. TrentIsDrawn(p, added, M, w)
      BY <1>6, <3>2 DEF IsKept, TrentIsDrawn, Settled
    <3>5. SumIsOfNumbers(p, added, w)
      <4> DEFINE f == Counted(p, s, w)
                 e == Counted(p, added, w)
      <4>1. f \in [Party -> Nat] /\ f[j] = 0
        BY <1>1, <1>7, <3>1 DEF Counted
      <4>2. e = [f EXCEPT ![j] = w[j]]
        BY <1>1, <3>1, <3>2 DEF Counted
      <4> HIDE DEF f, e
      <4>3. SumOf(e) = SumOf(f) + w[j] /\ SumOf(f) \in Nat
        <5>1. PICK v \in Nat : v = w[j]
          BY <1>1
        <5>2. e = [f EXCEPT ![j] = v] /\ j \in Party
          BY <1>1, <4>2, <5>1
        <5>3. SumOf(e) = SumOf(f) + v
          BY <4>1, <5>2, SumWithOneMore
        <5> QED
          BY <4>1, <5>1, <5>3, SumIsNumber
      <4>4. s.sum = SumOf(f) % Cycle
        BY <2>2 DEF IsKept, SumIsOfNumbers, f
      <4>5. ((SumOf(f) % Cycle) + w[j]) % Cycle = (SumOf(f) + w[j]) % Cycle
        <5> DEFINE x == SumOf(f)
        <5>1. x \in Nat /\ w[j] \in Nat /\ Cycle \in Nat \ {0}
          BY <1>1, <4>3, ConstantsAssumption
        <5> HIDE DEF x
        <5>2. ((x % Cycle) + w[j]) % Cycle = (x + w[j]) % Cycle
          BY <5>1, AddToRemainder
        <5> QED
          BY <5>2 DEF x
      <4>6. added.sum = SumOf(e) % Cycle
        BY <1>6, <4>3, <4>4, <4>5
      <4> QED
        BY <4>6 DEF SumIsOfNumbers, e
    <3>6. added.own = w[p] /\ IsShort(added.list)
      BY <1>6 DEF IsKept
    <3> QED
      BY <1>6, <3>3, <3>4, <3>5, <3>6 DEF IsKept
  <2> QED
    BY <1>1, <2>1, <2>2 DEF Steps
<1>8. CASE j \in s.hasSent["number"]
  BY <1>2, <1>8 DEF j
<1>9. CASE j \notin s.hasSent["number"]
  BY <1>3, <1>6, <1>7, <1>9, <1>2, KindNames DEF IsMarkedStep, j
<1> QED
  BY <1>8, <1>9

LEMMA OnNumberKeeps ==
  ASSUME NEW p \in Party, NEW s, NEW M, NEW w \in [Party -> Nat], IsKept(p, s, M, w),
         NEW m \in M, IsTrue(m, w), m.kind = "number", NEW r, r = OnNumber(p, s, m)
  PROVE  Keeps(p, r, M, w)
<1>1. CASE ~Waits(s, "number")
  <2>1. r.state = s /\ r.sent = {} /\ M \cup {} = M
    BY <1>1 DEF OnNumber
  <2> QED
    BY <2>1 DEF Keeps
<1>2. CASE Waits(s, "number")
  <2>1. r = Pick(p, Counts(s, m))
    BY <1>2 DEF OnNumber, Counts
  <2>2. IsKept(p, Counts(s, m), M, w)
    BY CountsIsKept
  <2> QED
    BY <2>1, <2>2, PickKeeps
<1> QED
  BY <1>1, <1>2

LEMMA ListMarkIsKept ==
  ASSUME NEW p \in Party, NEW s, NEW M, NEW w, IsKept(p, s, M, w),
         NEW j \in Party, j = p => ListsOf(p, M) # {}, NEW n, n = Mark(s, "list", j)
  PROVE  IsKept(p, n, M, w)
<1>1. s \in Steps /\ "list" \in Kinds /\ j \in Party \cup {Done}
  BY KindNames DEF IsKept
<1>2. IsMarkedStep(s, "list", j, n)
  BY <1>1, MarkedStep
<1>3. /\ n \in Steps /\ n.list = s.list /\ n.own = s.own /\ n.sum = s.sum /\ n.size = s.size
      /\ n.hasSent["list"] = s.hasSent["list"] \cup {j}
      /\ n.hasSent["number"] = s.hasSent["number"]
  BY <1>2, KindNames DEF IsMarkedStep
<1>4. ListIsTold(p, n, M)
  BY <1>3 DEF IsKept, ListIsTold
<1>5. RoundsFollow(p, n, M)
  BY <1>3, Slots DEF IsKept, RoundsFollow, Settled
<1>6. Counted(p, n, w) = Counted(p, s, w)
  BY <1>3 DEF Counted
<1>7. SumIsOfNumbers(p, n, w)
  BY <1>3, <1>6 DEF IsKept, SumIsOfNumbers
<1>8. TrentIsDrawn(p, n, M, w)
  BY <1>3 DEF IsKept, TrentIsDrawn, Settled
<1> QED
  BY <1>3, <1>4, <1>5, <1>7, <1>8 DEF IsKept

\* The fields of p when its list is complete, before the numbers are looked at.
SortedStep(p, s) ==
  [s EXCEPT !.list = Sorted(s.list),
            !.hasSent = [k \in Kinds |->
               IF k = "list" THEN s.hasSent[k] \cup {Done}
               ELSE IF k = "number" THEN s.hasSent[k] \cup {p}
               ELSE s.hasSent[k]]]

LEMMA SortedShape ==
  ASSUME NEW p \in Party, NEW s \in Steps, NEW n, n = SortedStep(p, s)
  PROVE  /\ n \in Steps /\ n.list = Sorted(s.list) /\ n.own = s.own /\ n.sum = s.sum
         /\ n.size = s.size /\ n.trent = s.trent /\ n.gone = s.gone
         /\ n.hasSent["list"] = s.hasSent["list"] \cup {Done}
         /\ n.hasSent["number"] = s.hasSent["number"] \cup {p}
         /\ n.hasSent["trent"] = s.hasSent["trent"]
<1> DEFINE marks == [k \in Kinds |->
                      IF k = "list" THEN s.hasSent[k] \cup {Done}
                      ELSE IF k = "number" THEN s.hasSent[k] \cup {p}
                      ELSE s.hasSent[k]]
           list == Sorted(s.list)
<1>1. marks \in [Kinds -> SUBSET (1..Done)] /\ list \in Seq(Users)
  <2>1. \A k \in Kinds : s.hasSent[k] \in SUBSET (1..Done)
    BY DEF Steps
  <2>2. marks \in [Kinds -> SUBSET (1..Done)]
    BY <2>1, Slots
  <2>3. s.list \in Seq(Users)
    BY DEF Steps
  <2> QED
    BY <2>2, <2>3, SortedList
<1>2. /\ marks["list"] = s.hasSent["list"] \cup {Done}
      /\ marks["number"] = s.hasSent["number"] \cup {p}
      /\ marks["trent"] = s.hasSent["trent"]
  BY KindNames
<1>3. n = [s EXCEPT !.list = list, !.hasSent = marks]
  BY DEF SortedStep
<1> HIDE DEF marks, list
<1>4. /\ n \in Steps /\ n.list = list /\ n.own = s.own /\ n.trent = s.trent
      /\ n.gone = s.gone /\ n.sum = s.sum /\ n.size = s.size /\ n.hasSent = marks
  BY <1>1, <1>3 DEF Steps
<1> QED
  BY <1>2, <1>4 DEF list

LEMMA DrawShape ==
  ASSUME NEW p \in Party, NEW s \in Steps, NEW r, r = Draw(p, s),
         NEW next, next = Pick(p, SortedStep(p, s))
  PROVE  r.state = next.state /\ r.sent = next.sent \cup {NumberMessage(p, s)}
<1>1. [s EXCEPT !.list = Sorted(@),
                !.hasSent["list"] = @ \cup {Done},
                !.hasSent["number"] = @ \cup {p}] = SortedStep(p, s)
  BY Zenon DEF Steps, Kinds, SortedStep
<1>2. r = [state |-> next.state, sent |-> next.sent \cup {NumberMessage(p, s)}]
  BY <1>1 DEF Draw
<1> QED
  BY <1>2

\* The draw of p keeps what is true before the numbers are looked at.
LEMMA SortedIsKept ==
  ASSUME NEW p \in Party, NEW s, NEW M, NEW w, IsKept(p, s, M, w), IsComplete(s, "list"),
         NEW n, n = SortedStep(p, s), NEW m, m = NumberMessage(p, s)
  PROVE  IsKept(p, n, M \cup {m}, w) /\ m.kind = "number" /\ m.from = p /\ IsTrue(m, w)
<1>1. s \in Steps /\ s.size = Done /\ Party \subseteq s.hasSent["list"] /\ ~Settled(s)
  BY DEF IsKept, IsComplete, Waits, Settled
<1>2. /\ n \in Steps /\ n.list = Sorted(s.list) /\ n.own = s.own
      /\ n.sum = s.sum /\ n.size = Done
      /\ n.hasSent["list"] = s.hasSent["list"] \cup {Done}
      /\ n.hasSent["number"] = s.hasSent["number"] \cup {p}
  BY <1>1, SortedShape
<1>3. IsKept(p, n, M, w)
  <2>1. s.list \in Seq(Users)
    BY <1>1 DEF Steps
  <2>2. ToSet(n.list) = ToSet(s.list) /\ Len(n.list) <= Len(s.list)
        /\ n.list \in Seq(Users)
    BY <1>2, <2>1, SortedList
  <2>3. IsShort(n.list)
    BY <2>1, <2>2 DEF IsKept, IsShort
  <2>4. Settled(n)
    BY <1>1, <1>2, Slots DEF Settled
  <2>5. ListIsTold(p, n, M)
    BY <1>1, <1>2, <2>2 DEF IsKept, ListIsTold
  <2>6. RoundsFollow(p, n, M)
    BY <1>2, <2>4 DEF RoundsFollow
  <2>7. Counted(p, n, w) = Counted(p, s, w)
    BY <1>2 DEF Counted
  <2>8. SumIsOfNumbers(p, n, w)
    BY <1>1, <1>2, <2>7 DEF IsKept, SumIsOfNumbers
  <2>9. TrentIsDrawn(p, n, M, w)
    BY <1>1 DEF IsKept, TrentIsDrawn
  <2>10. n.own = w[p]
    BY <1>2 DEF IsKept
  <2> QED
    BY <1>2, <2>3, <2>5, <2>6, <2>8, <2>9, <2>10 DEF IsKept
<1>4. m.kind = "number" /\ m.from = p /\ m.number = s.own /\ m \in Messages
  BY <1>1, MessageTypes DEF NumberMessage
<1>5. IsTrue(m, w)
  BY <1>4 DEF IsTrue, IsKept
<1>6. IsKept(p, n, M \cup {m}, w)
  BY <1>2, <1>3, <1>4, NumberIsSent
<1> QED
  BY <1>4, <1>5, <1>6

LEMMA DrawKeeps ==
  ASSUME NEW p \in Party, NEW s, NEW M, NEW w \in [Party -> Nat], IsKept(p, s, M, w),
         IsComplete(s, "list"), NEW r, r = Draw(p, s)
  PROVE  Keeps(p, r, M, w)
<1> DEFINE sorted == SortedStep(p, s)
           next == Pick(p, sorted)
           m == NumberMessage(p, s)
<1>1. IsKept(p, sorted, M \cup {m}, w) /\ m.from = p /\ IsTrue(m, w)
  BY SortedIsKept
<1>2. r.state = next.state /\ r.sent = next.sent \cup {m}
  BY DrawShape DEF IsKept
<1> HIDE DEF sorted, m
<1>3. Keeps(p, next, M \cup {m}, w)
  BY <1>1, PickKeeps
<1> HIDE DEF next
<1>4. M \cup r.sent = (M \cup {m}) \cup next.sent
  BY <1>2
<1> QED
  BY <1>1, <1>2, <1>3, <1>4 DEF Keeps

LEMMA OnListKeeps ==
  ASSUME NEW p \in Party, NEW s, NEW M, NEW w \in [Party -> Nat], IsKept(p, s, M, w),
         NEW m \in M, IsTrue(m, w), m.kind = "list", NEW r, r = OnList(p, s, m)
  PROVE  Keeps(p, r, M, w)
<1> DEFINE j == m.from
           list == Filter(s.list, m.list)
           kept == [s EXCEPT !.list = list]
           held == Mark(kept, "list", j)
<1>1. s \in Steps /\ s.list \in Seq(Users) /\ j \in Party /\ M \cup {} = M
  BY DEF IsKept, IsTrue, Messages, Steps
<1>2. r = IF ~Waits(s, "list") THEN [state |-> s, sent |-> {}]
          ELSE IF FilterThrows(s.list, m.list) THEN [state |-> kept, sent |-> {}]
          ELSE IF IsComplete(held, "list") THEN Draw(p, held)
          ELSE [state |-> held, sent |-> {}]
  BY DEF OnList
<1>3. CASE ~Waits(s, "list")
  <2>1. r.state = s /\ r.sent = {}
    BY <1>2, <1>3
  <2> QED
    BY <1>1, <2>1 DEF Keeps
<1>4. CASE Waits(s, "list")
  <2>1. list \in Seq(Users) /\ ToSet(list) \subseteq ToSet(s.list) /\ Len(list) <= Len(s.list)
    BY <1>1, FilteredList
  <2> HIDE DEF list
  <2>2. /\ kept \in Steps /\ kept.list = list /\ kept.own = s.own /\ kept.sum = s.sum
        /\ kept.size = s.size /\ kept.hasSent = s.hasSent
    BY <1>1, <2>1 DEF Steps
  <2> HIDE DEF kept
  <2>3. s.size = Done => ~Settled(s)
    BY <1>4 DEF Waits, Settled
  <2>4. IsKept(p, kept, M, w)
    <3>1. IsShort(kept.list)
      BY <1>1, <2>1, <2>2 DEF IsKept, IsShort
    <3>2. ListIsTold(p, kept, M)
      BY <2>1, <2>2 DEF IsKept, ListIsTold
    <3>3. RoundsFollow(p, kept, M)
      BY <2>2 DEF IsKept, RoundsFollow, Settled
    <3>4. Counted(p, kept, w) = Counted(p, s, w)
      BY <2>2 DEF Counted
    <3>5. SumIsOfNumbers(p, kept, w)
      BY <2>2, <3>4 DEF IsKept, SumIsOfNumbers
    <3>6. TrentIsDrawn(p, kept, M, w)
      BY <2>2, <2>3 DEF IsKept, TrentIsDrawn
    <3>7. kept.own = w[p]
      BY <2>2 DEF IsKept
    <3> QED
      BY <2>2, <3>1, <3>2, <3>3, <3>5, <3>6, <3>7 DEF IsKept
  <2>5. j = p => ListsOf(p, M) # {}
    BY DEF ListsOf
  <2> HIDE DEF j
  <2>6. IsKept(p, held, M, w)
    BY <1>1, <2>4, <2>5, ListMarkIsKept
  <2> HIDE DEF held
  <2>7. CASE r = Draw(p, held) /\ IsComplete(held, "list")
    BY <2>6, <2>7, DrawKeeps
  <2>8. CASE r.state \in {kept, held} /\ r.sent = {}
    BY <1>1, <2>4, <2>6, <2>8 DEF Keeps
  <2> QED
    BY <1>2, <1>4, <2>7, <2>8
<1> QED
  BY <1>3, <1>4

LEMMA OnTrentKeeps ==
  ASSUME NEW p \in Party, NEW s, NEW M, NEW w, IsKept(p, s, M, w),
         NEW m, IsTrue(m, w), m.kind = "trent", NEW r, r = OnTrent(p, s, m)
  PROVE  Keeps(p, r, M, w)
<1> DEFINE j == m.from
           t == m.trent
           marked == Mark(s, "trent", j)
           known == [marked EXCEPT !.trent = {t}]
<1>1. s \in Steps /\ j \in Party /\ t \in Users /\ M \cup {} = M
  BY DEF IsKept, IsTrue, Messages
<1>2. r = IF ~Waits(s, "trent") THEN [state |-> s, sent |-> {}]
          ELSE IF s.trent = {} THEN [state |-> known, sent |-> {}]
          ELSE IF s.trent = {t} THEN [state |-> GoOn(marked), sent |-> {}]
          ELSE Restart(p, s)
  BY DEF OnTrent
<1> HIDE DEF j, t
<1>3. Similar(s, marked) /\ marked \in Steps
  BY <1>1, TrentMarkIsSimilar DEF Similar
<1> HIDE DEF marked
<1>4. Similar(marked, known)
  BY <1>1, <1>3, TrentFieldIsSimilar
<1> HIDE DEF known
<1>5. Similar(marked, GoOn(marked))
  BY <1>3, GoOnIsSimilar
<1>6. Similar(s, s) /\ Similar(s, known) /\ Similar(s, GoOn(marked))
  BY <1>1, <1>3, <1>4, <1>5 DEF Similar
<1>7. CASE r.state \in {s, known, GoOn(marked)} /\ r.sent = {}
  <2>1. Similar(s, r.state)
    BY <1>6, <1>7
  <2>2. IsKept(p, r.state, M, w)
    BY <2>1, SimilarIsKept
  <2> QED
    BY <1>1, <1>7, <2>2 DEF Keeps
<1>8. CASE r = Restart(p, s)
  BY <1>8, RestartKeeps
<1> QED
  BY <1>2, <1>7, <1>8

LEMMA HandleKeeps ==
  ASSUME NEW p \in Party, NEW s, NEW M, NEW w \in [Party -> Nat], IsKept(p, s, M, w),
         NEW m \in M, IsTrue(m, w), NEW r, r = Handle(p, s, m)
  PROVE  Keeps(p, r, M, w)
<1>1. CASE m.kind = "list"
  <2>1. r = OnList(p, s, m)
    BY <1>1 DEF Handle
  <2> QED
    BY <1>1, <2>1, OnListKeeps
<1>2. CASE m.kind = "number"
  <2>1. r = OnNumber(p, s, m)
    BY <1>2 DEF Handle
  <2> QED
    BY <1>2, <2>1, OnNumberKeeps
<1>3. CASE m.kind = "trent"
  <2>1. r = OnTrent(p, s, m)
    BY <1>3 DEF Handle
  <2> QED
    BY <1>3, <2>1, OnTrentKeeps
<1>4. m.kind \in {"list", "number", "trent"}
  BY DEF IsTrue, Messages
<1> QED
  BY <1>1, <1>2, <1>3, <1>4

-----------------------------------------------------------------------------
(***************************************************************************)
(* The invariant.                                                          *)
(***************************************************************************)
Own == [p \in Party |-> step[p].own]

DrawInv ==
  /\ step \in [Party -> Steps]
  /\ started \subseteq Party
  /\ \A m \in net : IsTrue(m, Own)
  /\ \A p \in Party : IsKept(p, step[p], net, Own)

\* A step of p that keeps it so.
KeepsOf(p, r) ==
  /\ Keeps(p, r, net, Own)
  /\ step' = [step EXCEPT ![p] = r.state]
  /\ net' = net \cup r.sent
  /\ started' \subseteq Party

LEMMA OwnIsNumbers ==
  ASSUME DrawInv
  PROVE  Own \in [Party -> Nat]
  BY ConstantsAssumption DEF DrawInv, Own, Steps

LEMMA StartKeeps ==
  ASSUME DrawInv, NEW p \in Party, Start(p)
  PROVE  \E r : KeepsOf(p, r)
<1> DEFINE s == step[p]
           first == ListMessage(p, s)
           told == OnList(p, s, first)
           n == Mark(told.state, "list", p)
           r == [state |-> n, sent |-> told.sent \cup {first}]
           M == net \cup {first}
<1>1. step' = [step EXCEPT ![p] = r.state] /\ net' = net \cup r.sent
      /\ started' \subseteq Party
  BY DEF Start, DrawInv
<1>2. s \in Steps /\ IsKept(p, s, net, Own) /\ Own \in [Party -> Nat]
  BY OwnIsNumbers DEF DrawInv
<1>3. first.kind = "list" /\ first.from = p /\ first.list = s.list /\ first \in Messages
  BY <1>2, MessageTypes DEF ListMessage
<1>4. IsTrue(first, Own)
  BY <1>3 DEF IsTrue
<1> HIDE DEF s, first
<1>5. IsKept(p, s, M, Own) /\ first \in M
  BY <1>2, <1>3, ListIsSent
<1>6. Keeps(p, told, M, Own)
  BY <1>2, <1>3, <1>4, <1>5, OnListKeeps
<1>7. ListsOf(p, M \cup told.sent) # {}
  BY <1>3 DEF ListsOf
<1>8. r.state = n /\ r.sent = told.sent \cup {first}
  OBVIOUS
<1>9. IsKept(p, n, M \cup told.sent, Own)
  <2> DEFINE u == told.state
             L == M \cup told.sent
  <2>1. IsKept(p, u, L, Own) /\ ListsOf(p, L) # {}
    BY <1>6, <1>7 DEF Keeps
  <2> HIDE DEF u, L
  <2>2. IsKept(p, Mark(u, "list", p), L, Own)
    BY <2>1, ListMarkIsKept
  <2> QED
    BY <2>2 DEF u, L
<1> HIDE DEF told, n, r
<1>10. net \cup r.sent = M \cup told.sent
  BY <1>8
<1>11. \A m \in r.sent : m.from = p /\ IsTrue(m, Own)
  BY <1>3, <1>4, <1>6, <1>8 DEF Keeps
<1>12. Keeps(p, r, net, Own)
  BY <1>8, <1>9, <1>10, <1>11 DEF Keeps
<1> QED
  BY <1>1, <1>12 DEF KeepsOf

LEMMA ReceiveKeeps ==
  ASSUME DrawInv, NEW p \in Party, NEW m \in net, Receive(p, m)
  PROVE  \E r : KeepsOf(p, r)
<1> DEFINE r == Handle(p, step[p], m)
<1>1. IsKept(p, step[p], net, Own) /\ IsTrue(m, Own) /\ Own \in [Party -> Nat]
  BY OwnIsNumbers DEF DrawInv
<1>2. step' = [step EXCEPT ![p] = r.state] /\ net' = net \cup r.sent
      /\ started' \subseteq Party
  BY DEF Receive, DrawInv
<1>3. Keeps(p, r, net, Own)
  BY <1>1, HandleKeeps
<1> QED
  BY <1>2, <1>3 DEF KeepsOf

LEMMA KeepsPreserves ==
  ASSUME DrawInv, NEW p \in Party, NEW r, KeepsOf(p, r)
  PROVE  DrawInv'
<1>1. /\ step' = [step EXCEPT ![p] = r.state] /\ net' = net \cup r.sent
      /\ started' \subseteq Party
      /\ IsKept(p, r.state, net', Own)
      /\ \A m \in r.sent : m.from = p /\ IsTrue(m, Own)
  BY DEF KeepsOf, Keeps
<1>2. r.state \in Steps /\ r.state.own = Own[p]
  BY <1>1 DEF IsKept
<1>3. /\ step' \in [Party -> Steps]
      /\ step'[p] = r.state
      /\ \A q \in Party : q # p => step'[q] = step[q]
  BY <1>1, <1>2 DEF DrawInv
<1>4. Own' = Own
  BY <1>2, <1>3 DEF Own
<1>5. \A m \in net' : IsTrue(m, Own)
  BY <1>1 DEF DrawInv
<1>6. ASSUME NEW q \in Party
      PROVE  IsKept(q, step'[q], net', Own)
  <2>1. CASE q = p
    BY <1>1, <1>3, <2>1
  <2>2. CASE q # p
    <3>1. IsKept(q, step[q], net, Own)
      BY DEF DrawInv
    <3>2. net \subseteq net' /\ \A m \in net' : m.from = q => m \in net
      BY <1>1, <2>2
    <3>3. IsKept(q, step[q], net', Own)
      BY <3>1, <3>2, OthersSend
    <3> QED
      BY <1>3, <2>2, <3>3
  <2> QED
    BY <2>1, <2>2
<1>7. \A q \in Party : IsKept(q, step[q], net, Own)'
  BY <1>4, <1>6
<1>8. \A m \in net' : IsTrue(m, Own)'
  BY <1>4, <1>5
<1> QED
  BY <1>1, <1>3, <1>7, <1>8 DEF DrawInv

LEMMA DrawInvInit == Init => DrawInv
<1> SUFFICES ASSUME Init PROVE DrawInv
  OBVIOUS
<1>1. PICK lists \in Lists, numbers \in [Party -> Numbers] :
        step = [p \in Party |->
          [list |-> lists[p], own |-> numbers[p], sum |-> numbers[p] % Cycle,
           hasSent |-> [k \in Kinds |-> {}], size |-> Done, trent |-> {},
           gone |-> FALSE]]
  BY DEF Init
<1>2. net = {} /\ started = {}
  BY DEF Init
<1>3. Own = numbers /\ Own \in [Party -> Nat]
  BY <1>1, ConstantsAssumption DEF Own
<1>4. ASSUME NEW p \in Party
      PROVE  IsKept(p, step[p], net, Own)
  <2> DEFINE s == step[p]
  <2>1. /\ s = [list |-> lists[p], own |-> numbers[p], sum |-> numbers[p] % Cycle,
              hasSent |-> [k \in Kinds |-> {}], size |-> Done, trent |-> {},
              gone |-> FALSE]
    BY <1>1
  <2>2. numbers[p] % Cycle \in 0..(Cycle - 1) /\ lists[p] \in Seq(Users)
    <3>1. numbers[p] \in Nat
      BY ConstantsAssumption
    <3> QED
      BY <3>1, ConstantsAssumption
  <2> HIDE DEF s
  <2>3. s \in Steps
    BY <2>1, <2>2, Slots DEF Steps
  <2>4. s.hasSent["list"] = {} /\ s.hasSent["number"] = {} /\ s.own = Own[p]
    BY <1>3, <2>1, KindNames
  <2>5. IsShort(s.list)
    BY <2>1, ConstantsAssumption DEF IsShort
  <2>6. ListIsTold(p, s, net) /\ RoundsFollow(p, s, net) /\ TrentIsDrawn(p, s, net, Own)
    BY <1>2, <2>4 DEF ListIsTold, ListsOf, RoundsFollow, TrentIsDrawn
  <2>7. SumIsOfNumbers(p, s, Own)
    <3> DEFINE zero == [j \in Party |-> 0]
               e == Counted(p, s, Own)
    <3>1. zero \in [Party -> Nat] /\ zero[p] = 0 /\ e = [zero EXCEPT ![p] = Own[p]]
          /\ Own[p] \in Nat
      BY <1>3, <2>4 DEF Counted
    <3> HIDE DEF zero, e
    <3>2. PICK v \in Nat : v = Own[p]
      BY <3>1
    <3>3. SumOf(e) = SumOf(zero) + v
      BY <3>1, <3>2, SumWithOneMore
    <3>4. SumOf(zero) = 0
      BY SumOfNothing DEF zero
    <3>5. SumOf(e) = Own[p]
      BY <3>2, <3>3, <3>4
    <3> QED
      BY <1>3, <2>1, <3>5 DEF SumIsOfNumbers, e
  <2> QED
    BY <2>3, <2>4, <2>5, <2>6, <2>7 DEF IsKept, s
<1>5. step \in [Party -> Steps]
  <2>1. \A p \in Party : step[p] \in Steps
    BY <1>4 DEF IsKept
  <2> QED
    BY <1>1, <2>1
<1> QED
  BY <1>2, <1>4, <1>5 DEF DrawInv

\* Every reachable state is well typed, and what is published and drawn follows
\* from the lists and the numbers.
THEOREM DrawInvariant == Spec => []DrawInv
<1>1. DrawInv /\ [Next]_vars => DrawInv'
  <2> SUFFICES ASSUME DrawInv, [Next]_vars PROVE DrawInv'
    OBVIOUS
  <2>1. CASE UNCHANGED vars
    BY <2>1 DEF vars, DrawInv, Own
  <2>2. CASE Next
    <3>1. \E p \in Party : \E r : KeepsOf(p, r)
      BY <2>2, StartKeeps, ReceiveKeeps DEF Next
    <3> QED
      BY <3>1, KeepsPreserves
  <2> QED
    BY <2>1, <2>2
<1> QED
  BY <1>1, DrawInvInit, PTL DEF Spec

-----------------------------------------------------------------------------
(***************************************************************************)
(* What follows from it, and from the invariant of the announcements.      *)
(***************************************************************************)

\* The fields of every party and every message keep their types: the filter and
\* the sort never leave the users, and the arrays have one of two lengths.
THEOREM TypeCorrect == Spec => []TypeOK
<1>1. DrawInv => TypeOK
  BY DEF DrawInv, TypeOK, IsTrue
<1> QED
  BY <1>1, DrawInvariant, PTL

\* The Trent of a party that has gone on was published by every party.
LEMMA GoneHasTrent ==
  ASSUME IInv, NEW p \in Party, step[p].gone
  PROVE  /\ step[p].size = Done
         /\ \E t : step[p].trent = {t} /\ \A q \in Party : TrentMessage(q, t) \in net
<1>1. PartyInv(p, step[p])
  BY DEF IInv
<1> QED
  BY <1>1, GoneIsClosed

\* Whatever the parties know and whatever the filter does to their lists, a
\* Trent under whom somebody signs was in a list that every party published.
THEOREM TrentOfAll == Spec => []TrentIsKnownToAll
<1>1. ASSUME IInv, DrawInv, NEW p \in Party, NEW q \in Party, step[p].gone
      PROVE  \E m \in net : m.kind = "list" /\ m.from = q /\ step[p].trent \subseteq ToSet(m.list)
  <2>1. PICK t : step[p].trent = {t} /\ TrentMessage(q, t) \in net
    BY <1>1, GoneHasTrent
  <2>2. TrentIsDrawn(q, step[q], net, Own)
    BY <1>1 DEF DrawInv, IsKept
  <2>3. \E o \in ListsOf(q, net) : t \in ToSet(o.list)
    <3>1. PICK m \in net : m.kind = "trent" /\ m.from = q /\ m.trent = t
      BY <2>1, TrentMessages
    <3> QED
      BY <2>2, <3>1 DEF TrentIsDrawn
  <2> QED
    BY <2>1, <2>3 DEF ListsOf
<1>2. IInv /\ DrawInv => TrentIsKnownToAll
  BY <1>1 DEF TrentIsKnownToAll
<1> QED
  BY <1>2, Invariant, DrawInvariant, PTL

\* For any number of parties, the Trent of those who have gone on is the user
\* whose rank is the sum of all the numbers, each counted once: no order of the
\* messages, and no message found twice, lets a party be left out or count more.
THEOREM DrawnByAll == Spec => []EveryoneDraws
<1>1. ASSUME IInv, DrawInv, NEW p \in Party, step[p].gone
      PROVE  step[p].trent = {step[p].list[(Total % Len(step[p].list)) + 1]}
  <2>1. PICK t : step[p].trent = {t} /\ TrentMessage(p, t) \in net
    BY <1>1, GoneHasTrent
  <2>2. TrentIsDrawn(p, step[p], net, Own) /\ step[p].size = Done
    BY <1>1, GoneHasTrent DEF DrawInv, IsKept
  <2>3. t = Drawn(step[p].list, Own)
    <3>1. PICK m \in net : m.kind = "trent" /\ m.from = p /\ m.trent = t
      BY <2>1, TrentMessages
    <3> QED
      BY <2>2, <3>1 DEF TrentIsDrawn
  <2>4. Total = SumOf(Own)
    BY DEF Total, Own
  <2> QED
    BY <2>1, <2>3, <2>4 DEF Drawn
<1>2. IInv /\ DrawInv => EveryoneDraws
  BY <1>1 DEF EveryoneDraws
<1> QED
  BY <1>2, Invariant, DrawInvariant, PTL
=============================================================================
