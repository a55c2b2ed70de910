------------------------------ MODULE Induction ------------------------------
(***************************************************************************)
(* Induction over the natural numbers without an operator as a parameter:  *)
(* the property to be proved is a set of numbers.                          *)
(***************************************************************************)
EXTENDS Naturals, FiniteSetTheorems, WellFoundedInduction, TLAPS

\* A non-empty set of natural numbers has a least element: the intervals below
\* its members are well-founded by strict inclusion.
LEMMA LeastNatural ==
  ASSUME NEW S \in SUBSET Nat, S # {}
  PROVE  \E n \in S : \A m \in S : n <= m
<1> DEFINE R == StrictSubsetOrdering(Nat)
           T == {0..k : k \in S}
<1>1. IsWellFoundedOn(R, FiniteSubsetsOf(Nat))
  BY FS_StrictSubsetOrderingWellFounded
<1>2. T \subseteq FiniteSubsetsOf(Nat)
  <2>1. \A k \in S : 0..k \in SUBSET Nat /\ IsFiniteSet(0..k)
    BY FS_Interval
  <2>2. QED BY <2>1 DEF FiniteSubsetsOf
<1>3. T # {}
  OBVIOUS
<1>4. PICK x \in T : \A y \in T : <<y, x>> \notin R
  <2> HIDE DEF R, T
  <2>1. QED BY <1>1, <1>2, <1>3, WFMin
<1>5. PICK n \in S : x = 0..n
  OBVIOUS
<1>6. \A m \in S : n <= m
  <2> SUFFICES ASSUME NEW m \in S, m < n PROVE FALSE
    OBVIOUS
  <2>1. 0..m \in T /\ 0..m \subseteq 0..n /\ n \in 0..n /\ n \notin 0..m
    OBVIOUS
  <2>2. <<0..m, 0..n>> \in R
    BY <2>1 DEF StrictSubsetOrdering
  <2>3. QED BY <1>4, <1>5, <2>1, <2>2
<1>7. QED BY <1>6

\* A set of natural numbers that has 0 and with every number the next one has
\* them all.
LEMMA SetInduction ==
  ASSUME NEW S \in SUBSET Nat, 0 \in S, \A n \in S : n + 1 \in S
  PROVE  S = Nat
<1> SUFFICES ASSUME Nat \ S # {} PROVE FALSE
  OBVIOUS
<1>1. PICK n \in Nat \ S : \A m \in Nat \ S : n <= m
  BY LeastNatural
<1>2. n - 1 \in Nat /\ n - 1 \in S
  BY <1>1
<1>3. QED BY <1>1, <1>2

\* The same up to a bound.
LEMMA BoundedInduction ==
  ASSUME NEW N \in Nat, NEW S, 0 \in S, \A n \in 1..N : n - 1 \in S => n \in S
  PROVE  \A n \in 0..N : n \in S
<1> DEFINE T == (0..N) \ S
<1> SUFFICES ASSUME T # {} PROVE FALSE
  OBVIOUS
<1>1. PICK n \in T : \A m \in T : n <= m
  <2>1. T \in SUBSET Nat
    OBVIOUS
  <2> HIDE DEF T
  <2>2. QED BY <2>1, LeastNatural
<1>2. n \in 1..N /\ n - 1 \in 0..N /\ ~ (n <= n - 1)
  BY <1>1
<1>3. QED BY <1>1, <1>2

\* A bounded non-empty set of natural numbers has a greatest element.
LEMMA GreatestNatural ==
  ASSUME NEW N \in Nat, NEW S \in SUBSET (0..N), S # {}
  PROVE  \E n \in S : \A m \in S : m <= n
<1> DEFINE U == {n \in Nat : \A m \in S : m <= n}
<1>1. PICK n \in U : \A m \in U : n <= m
  <2>1. N \in U /\ U \in SUBSET Nat
    OBVIOUS
  <2> HIDE DEF U
  <2>2. QED BY <2>1, LeastNatural
<1>2. PICK k \in S : TRUE
  OBVIOUS
<1>3. n \in S
  <2> SUFFICES ASSUME n \notin S PROVE FALSE
    OBVIOUS
  <2>1. \A m \in S : m \in Nat /\ m <= n /\ m # n
    OBVIOUS
  <2>2. n \in Nat
    OBVIOUS
  <2> HIDE DEF U
  <2>3. n - 1 \in Nat /\ \A m \in S : m <= n - 1
    BY <2>1, <2>2, <1>2
  <2>4. n - 1 \in U /\ ~ (n <= n - 1)
    BY <2>2, <2>3 DEF U
  <2>5. QED BY <1>1, <2>4
<1>4. QED BY <1>1, <1>3

\* f starts with v, and step[i] computes its value at i from that at i - 1.
Iterates(f, N, V, v, step) ==
  f \in [0..N -> V] /\ f[0] = v /\ \A i \in 1..N : f[i] = step[i][f[i - 1]]

\* Such a function exists.
LEMMA BoundedRecursion ==
  ASSUME NEW N \in Nat, NEW V, NEW v \in V, NEW step \in [1..N -> [V -> V]]
  PROVE  \E f : Iterates(f, N, V, v, step)
<1> DEFINE Good(f, m) == f[0] = v /\ \A i \in 1..m : f[i] = step[i][f[i - 1]]
           T == {m \in 0..N : \E f \in [0..N -> V] : Good(f, m)}
<1>1. 0 \in T
  <2>1. [i \in 0..N |-> v] \in [0..N -> V] /\ Good([i \in 0..N |-> v], 0)
    OBVIOUS
  <2>2. 0 \in 0..N
    OBVIOUS
  <2>3. QED BY <2>1, <2>2, Zenon
<1>2. ASSUME NEW n \in 1..N, n - 1 \in T PROVE n \in T
  <2>1. PICK f \in [0..N -> V] : Good(f, n - 1)
    BY <1>2, Zenon
  <2> DEFINE g == [f EXCEPT ![n] = step[n][f[n - 1]]]
  <2>2. n \in 0..N /\ n - 1 \in 0..N
    OBVIOUS
  <2>3. step[n][f[n - 1]] \in V
    BY <2>2
  <2>4. /\ g \in [0..N -> V]
        /\ \A i \in 0..N : g[i] = IF i = n THEN step[n][f[n - 1]] ELSE f[i]
    BY <2>2, <2>3
  <2> HIDE DEF g
  <2>5. Good(g, n)
    BY <2>1, <2>2, <2>4
  <2>6. QED BY <2>2, <2>4, <2>5, Zenon
<1>3. N \in T
  <2> HIDE DEF T
  <2>1. \A n \in 0..N : n \in T
    BY <1>1, <1>2, BoundedInduction
  <2>2. QED BY <2>1
<1>4. QED BY <1>3, Zenon DEF Iterates
=============================================================================
