-------------------------- MODULE NaturalRecursion --------------------------
(***************************************************************************)
(* Induction and recursion over the naturals, in a form that needs no      *)
(* operator as a parameter: a property is given as the set of the numbers  *)
(* that have it, a recursion by the function that computes one value from  *)
(* the one before.                                                         *)
(***************************************************************************)
EXTENDS Integers, WellFoundedInduction, TLAPS

(* A set of naturals that is not empty has a least element.                *)
LEMMA LeastNatural ==
  ASSUME NEW S \in SUBSET Nat, S # {}
  PROVE  \E m \in S : \A n \in S : m <= n
<1> DEFINE less == OpToRel(<, Nat)
<1>1. IsWellFoundedOn(less, Nat)
  BY NatLessThanWellFounded
<1>2. \A x, y \in Nat : <<y, x>> \in less <=> y < x
  BY DEF OpToRel
<1> HIDE DEF less
<1>3. PICK m \in S : \A n \in S : ~(<<n, m>> \in less)
  BY <1>1, WFMin
<1>4. ASSUME NEW n \in S PROVE m <= n
  <2>1. n \in Nat /\ m \in Nat
    OBVIOUS
  <2>2. ~(n < m)
    BY <1>2, <1>3, <2>1
  <2> QED BY <2>1, <2>2
<1> QED BY <1>4

(* What holds of 0 and passes from each n below N to n + 1 holds up to N.  *)
LEMMA Induction ==
  ASSUME NEW N \in Nat, NEW S, 0 \in S, \A n \in 0..(N - 1) : n \in S => n + 1 \in S
  PROVE  \A n \in 0..N : n \in S
<1> DEFINE T == {n \in 0..N : n \notin S}
<1> SUFFICES ASSUME T # {} PROVE FALSE
  OBVIOUS
<1>1. PICK m \in T : \A n \in T : m <= n
  <2>1. T \in SUBSET Nat
    OBVIOUS
  <2> HIDE DEF T
  <2> QED BY <2>1, LeastNatural
<1>2. m \in 1..N /\ m - 1 \in 0..(N - 1) /\ (m - 1) + 1 = m
  OBVIOUS
<1>3. m - 1 \in S
  BY <1>1, <1>2
<1> QED BY <1>2, <1>3

(* f has value a at 0 and goes on with d[n] from n - 1 to n.               *)
Computes(f, N, V, a, d) ==
  /\ f \in [0..N -> V] /\ f[0] = a
  /\ \A n \in 1..N : f[n] = d[n][f[n - 1]]

(* A function that is defined by recursion up to N exists.                 *)
LEMMA Recursion ==
  ASSUME NEW N \in Nat, NEW V, NEW a \in V, NEW d \in [1..N -> [V -> V]]
  PROVE  \E f : Computes(f, N, V, a, d)
<1> DEFINE S == {n \in 0..N : \E f : Computes(f, n, V, a, d)}
<1>1. 0 \in S
  <2>1. Computes([i \in 0..0 |-> a], 0, V, a, d)
    BY DEF Computes
  <2> QED BY <2>1
<1>2. ASSUME NEW n \in 0..(N - 1), n \in S PROVE n + 1 \in S
  <2>1. PICK f : Computes(f, n, V, a, d)
    BY <1>2
  <2> DEFINE g == [i \in 0..(n + 1) |-> IF i = n + 1 THEN d[n + 1][f[n]] ELSE f[i]]
  <2>2. f[n] \in V /\ d[n + 1] \in [V -> V] /\ n + 1 \in 0..N
    BY <2>1 DEF Computes
  <2>3. d[n + 1][f[n]] \in V
    BY <2>2
  <2>4. \A i \in 0..n : f[i] \in V
    BY <2>1 DEF Computes
  <2>5. g \in [0..(n + 1) -> V]
    BY <2>3, <2>4
  <2>6. g[0] = a /\ \A i \in 1..(n + 1) : g[i] = d[i][g[i - 1]]
    BY <2>1 DEF Computes
  <2> HIDE DEF g
  <2>7. Computes(g, n + 1, V, a, d)
    BY <2>5, <2>6 DEF Computes
  <2> QED BY <2>2, <2>7
<1> HIDE DEF S
<1>3. \A n \in 0..N : n \in S
  BY <1>1, <1>2, Induction
<1>4. N \in S
  BY <1>3
<1> QED BY <1>4 DEF S
=============================================================================
