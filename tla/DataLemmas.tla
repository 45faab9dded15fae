------------------------------- MODULE DataLemmas -------------------------------
(***************************************************************************)
(* Facts about numbers, sets and sums that the proofs about several modules  *)
(* rest on.                                                                  *)
(***************************************************************************)
EXTENDS Integers, FiniteSetTheorems, FunctionTheorems, WellFoundedInduction, TLAPS

\* A set of natural numbers has a least member.
LEMMA LeastOf ==
  ASSUME NEW A \in SUBSET Nat, A # {}
  PROVE  \E m \in A : \A k \in A : m <= k
<1> DEFINE T == {0..k : k \in A}
<1>1. T \subseteq FiniteSubsetsOf(Nat)
  <2> SUFFICES ASSUME NEW k \in A PROVE 0..k \in FiniteSubsetsOf(Nat)
    OBVIOUS
  <2>1. IsFiniteSet(0..k)
    BY FS_Interval
  <2> QED BY <2>1 DEF FiniteSubsetsOf
<1>2. T # {}
  OBVIOUS
<1>3. IsWellFoundedOn(StrictSubsetOrdering(Nat), FiniteSubsetsOf(Nat))
  BY FS_StrictSubsetOrderingWellFounded
<1> HIDE DEF T
<1>4. PICK S \in T : \A R \in T : <<R, S>> \notin StrictSubsetOrdering(Nat)
  BY <1>1, <1>2, <1>3, WFMin
<1>5. PICK m \in A : S = 0..m
  BY <1>4 DEF T
<1>6. ASSUME NEW k \in A PROVE m <= k
  <2> SUFFICES ASSUME k < m PROVE FALSE
    OBVIOUS
  <2>1. 0..k \in T
    BY DEF T
  <2>2. 0..k \subseteq 0..m /\ m \in 0..m /\ m \notin 0..k
    OBVIOUS
  <2>3. <<0..k, S>> \in StrictSubsetOrdering(Nat)
    BY <1>5, <2>2 DEF StrictSubsetOrdering
  <2> QED BY <1>4, <2>1, <2>3
<1> QED BY <1>6

\* A set of natural numbers with a bound has a greatest member.
LEMMA GreatestOf ==
  ASSUME NEW A \in SUBSET Nat, A # {}, NEW b \in Nat, \A k \in A : k <= b
  PROVE  \E m \in A : \A k \in A : k <= m
<1> DEFINE B == {b - k : k \in A}
<1>1. B \in SUBSET Nat /\ B # {}
  <2>1. \A k \in A : b - k \in Nat
    OBVIOUS
  <2> QED BY <2>1
<1>2. PICK n \in B : \A j \in B : n <= j
  BY <1>1, LeastOf
<1>3. PICK m \in A : n = b - m
  OBVIOUS
<1>4. ASSUME NEW k \in A PROVE k <= m
  <2>1. b - k \in B
    OBVIOUS
  <2>2. b - m <= b - k
    BY <1>2, <1>3, <2>1
  <2> QED BY <2>2
<1> QED BY <1>4

--------------------------------------------------------------------------------
\* s is the sum of d over the finite set S, added up in some order o of its members.
Enumerates(o, S) == o \in Bijection(1..Cardinality(S), S)
OrderOf(S) == CHOOSE o : Enumerates(o, S)
AddsUp(d, S, s) ==
    \E f \in [0..Cardinality(S) -> Int] :
        /\ f[0] = 0 /\ f[Cardinality(S)] = s
        /\ \A i \in 1..Cardinality(S) : f[i] = f[i - 1] + d[OrderOf(S)[i]]

\* A finite set is numbered from one, each member once.
LEMMA OrderOfSet ==
  ASSUME NEW S, IsFiniteSet(S)
  PROVE  /\ Cardinality(S) \in Nat
         /\ OrderOf(S) \in [1..Cardinality(S) -> S]
         /\ \A i, j \in 1..Cardinality(S) : OrderOf(S)[i] = OrderOf(S)[j] => i = j
         /\ \A x \in S : \E i \in 1..Cardinality(S) : OrderOf(S)[i] = x
<1>1. Cardinality(S) \in Nat /\ \E o : Enumerates(o, S)
  BY FS_CardinalityType DEF ExistsBijection, Enumerates
<1>2. Enumerates(OrderOf(S), S)
  BY <1>1 DEF OrderOf
<1>3. OrderOf(S) \in Bijection(1..Cardinality(S), S)
  BY <1>2 DEF Enumerates
<1>4. OrderOf(S) \in Injection(1..Cardinality(S), S) /\ OrderOf(S) \in Surjection(1..Cardinality(S), S)
  BY <1>3, Fun_BijectionProperties
<1> QED BY <1>1, <1>4 DEF Injection, Surjection, IsInjective

\* Nothing adds up to zero,
LEMMA ZerosAddUp ==
  ASSUME NEW S, IsFiniteSet(S), NEW d, \A x \in S : d[x] = 0
  PROVE  AddsUp(d, S, 0)
<1> DEFINE f == [i \in 0..Cardinality(S) |-> 0]
<1>1. /\ f \in [0..Cardinality(S) -> Int]
      /\ f[0] = 0 /\ f[Cardinality(S)] = 0
  BY OrderOfSet
<1>2. \A i \in 1..Cardinality(S) : f[i] = f[i - 1] + d[OrderOf(S)[i]]
  BY OrderOfSet
<1> QED BY <1>1, <1>2 DEF AddsUp

\* and only to zero.
LEMMA ZerosOnly ==
  ASSUME NEW S, IsFiniteSet(S), NEW d, \A x \in S : d[x] = 0, NEW s, AddsUp(d, S, s)
  PROVE  s = 0
<1> DEFINE n == Cardinality(S)
<1>1. n \in Nat /\ \A i \in 1..n : OrderOf(S)[i] \in S
  BY OrderOfSet
<1>2. PICK f \in [0..n -> Int] :
        /\ f[0] = 0 /\ f[n] = s
        /\ \A i \in 1..n : f[i] = f[i - 1] + d[OrderOf(S)[i]]
  BY DEF AddsUp
<1>3. \A i \in 1..n : f[i] = f[i - 1]
  BY <1>1, <1>2
<1> DEFINE A == {i \in 0..n : f[i] # 0}
<1>11. A \in SUBSET Nat
  BY <1>1
<1> HIDE DEF n
<1>4. A = {}
  <2> SUFFICES ASSUME A # {} PROVE FALSE
    OBVIOUS
  <2>1. PICK m \in A : \A k \in A : m <= k
    BY <1>11, LeastOf
  <2>2. m \in 1..n /\ m - 1 \in 0..n
    BY <1>1, <1>2
  <2>3. m - 1 \in A
    BY <1>3, <2>2
  <2> QED BY <2>1, <2>2, <2>3
<1> QED BY <1>1, <1>2, <1>4

\* When one summand changes, so does the sum, by as much.
LEMMA SummandChanges ==
  ASSUME NEW S, IsFiniteSet(S), NEW d, \A x \in S : d[x] \in Int, NEW s \in Int, AddsUp(d, S, s),
         NEW u \in S, NEW e, e[u] \in Int, \A x \in S \ {u} : e[x] = d[x]
  PROVE  AddsUp(e, S, s + (e[u] - d[u]))
<1> DEFINE n == Cardinality(S)
           o == OrderOf(S)
           c == e[u] - d[u]
<1>1. /\ n \in Nat /\ \A i \in 1..n : o[i] \in S
      /\ \A i, j \in 1..n : o[i] = o[j] => i = j
      /\ \E i \in 1..n : o[i] = u
  BY OrderOfSet
<1>2. PICK f \in [0..n -> Int] :
        /\ f[0] = 0 /\ f[n] = s
        /\ \A i \in 1..n : f[i] = f[i - 1] + d[o[i]]
  BY DEF AddsUp
<1>3. PICK k \in 1..n : o[k] = u
  BY <1>1
<1>4. c \in Int
  OBVIOUS
<1> DEFINE g == [i \in 0..n |-> IF i < k THEN f[i] ELSE f[i] + c]
<1> HIDE DEF n, o, c
<1>5. g \in [0..n -> Int]
  BY <1>1, <1>2, <1>4
<1>6. g[0] = 0 /\ g[n] = s + c
  BY <1>1, <1>2, <1>3
<1>7. ASSUME NEW i \in 1..n PROVE g[i] = g[i - 1] + e[o[i]]
  <2>1. f[i] = f[i - 1] + d[o[i]] /\ f[i - 1] \in Int /\ o[i] \in S /\ d[o[i]] \in Int
    BY <1>1, <1>2
  <2>2. CASE i = k
    <3>1. g[i] = f[i] + c /\ g[i - 1] = f[i - 1]
      BY <1>1, <2>2
    <3>2. e[o[i]] = d[o[i]] + c
      BY <1>3, <2>2 DEF c
    <3> QED BY <1>4, <2>1, <3>1, <3>2
  <2>3. CASE i # k
    <3>1. o[i] # u
      BY <1>1, <1>3, <2>3
    <3>2. e[o[i]] = d[o[i]]
      BY <2>1, <3>1
    <3>3. CASE i < k
      BY <1>1, <2>1, <3>2, <3>3
    <3>4. CASE i > k
      BY <1>1, <1>4, <2>1, <3>2, <3>4
    <3> QED BY <1>1, <2>3, <3>3, <3>4
  <2> QED BY <2>2, <2>3
<1> HIDE DEF g
<1> QED BY <1>5, <1>6, <1>7 DEF AddsUp, n, o, c
\* A set without two different members has at most one.
LEMMA AtMostOne ==
  ASSUME NEW S, \A x, y \in S : x = y
  PROVE  Cardinality(S) <= 1
<1>1. CASE S = {}
  BY <1>1, FS_EmptySet
<1>2. ASSUME NEW x \in S PROVE Cardinality(S) <= 1
  <2>1. S = {x}
    OBVIOUS
  <2>2. Cardinality({x}) = 1
    BY FS_Singleton
  <2> QED BY <2>1, <2>2
<1> QED BY <1>1, <1>2

================================================================================
