--------------------------- MODULE InductionFacts ---------------------------
(***************************************************************************)
(* Induction over the naturals, for sets in place of predicates, and what  *)
(* follows from it: a least element, and that a step taken again and again *)
(* defines a function.                                                     *)
(***************************************************************************)
EXTENDS Naturals, WellFoundedInduction, TLAPS

\* A set of naturals that is not empty has a least element.
LEMMA Least ==
  ASSUME NEW T \in SUBSET Nat, T # {}
  PROVE  \E n \in T : \A m \in T : n <= m
<1>1. PICK n \in T : \A m \in T : ~ (<<m, n>> \in OpToRel(<, Nat))
  BY NatLessThanWellFounded, WFMin
<1>2. \A m \in T : ~ (m < n) BY <1>1 DEF OpToRel
<1> QED BY <1>2

\* What 0 has, and with each number the next one, all have.
LEMMA Induction ==
  ASSUME NEW N \in Nat, NEW T, 0 \in T, \A k \in 0 .. N : k \in T /\ k < N => k + 1 \in T
  PROVE  \A k \in 0 .. N : k \in T
<1> DEFINE Bad == {k \in 0 .. N : k \notin T}
<1> SUFFICES ASSUME Bad # {} PROVE FALSE OBVIOUS
<1>1. Bad \in SUBSET Nat OBVIOUS
<1>2. PICK k \in Bad : \A m \in Bad : k <= m
  <2> HIDE DEF Bad
  <2> QED BY <1>1, Least
<1>3. k \in 0 .. N /\ k # 0 BY <1>2
<1>4. k - 1 \in 0 .. N /\ k - 1 < N /\ ~ (k <= k - 1) /\ k - 1 + 1 = k BY <1>3
<1>5. k - 1 \in T BY <1>2, <1>4
<1> QED BY <1>2, <1>4, <1>5

\* A sequence of values that begins with init and goes on by the steps.
Iterates(s, N, init, step) == s[0] = init /\ \A i \in 1 .. N : s[i] = step[i][s[i - 1]]

\* A start and N steps make a function on 0..N.
LEMMA Iteration ==
  ASSUME NEW N \in Nat, NEW V, NEW init \in V, NEW step \in [1 .. N -> [V -> V]]
  PROVE  \E s \in [0 .. N -> V] : Iterates(s, N, init, step)
<1> DEFINE Upto(k, s) == s[0] = init /\ \A i \in 1 .. k : s[i] = step[i][s[i - 1]]
           T == {k \in 0 .. N : \E s \in [0 .. k -> V] : Upto(k, s)}
<1>1. 0 \in T
  <2> DEFINE s == [i \in 0 .. 0 |-> init]
  <2>1. s \in [0 .. 0 -> V] /\ Upto(0, s) OBVIOUS
  <2>2. 0 \in 0 .. N OBVIOUS
  <2> HIDE DEF s, Upto
  <2> QED BY <2>1, <2>2
<1>2. ASSUME NEW k \in 0 .. N, k \in T, k < N PROVE k + 1 \in T
  <2>1. PICK s \in [0 .. k -> V] : Upto(k, s) BY <1>2
  <2> DEFINE t == [i \in 0 .. k + 1 |-> IF i <= k THEN s[i] ELSE step[k + 1][s[k]]]
  <2>2. k \in 0 .. k /\ k + 1 \in 1 .. N BY <1>2
  <2>3. s[k] \in V /\ step[k + 1] \in [V -> V] BY <2>2
  <2>4. t \in [0 .. k + 1 -> V] BY <2>3
  <2>5. t[0] = init BY <2>1
  <2>6. \A i \in 1 .. k + 1 : t[i] = step[i][t[i - 1]]
    <3> TAKE i \in 1 .. k + 1
    <3>1. CASE i <= k
      <4>1. i \in 1 .. k /\ i \in 0 .. k + 1 /\ i - 1 \in 0 .. k + 1 /\ i - 1 <= k BY <3>1
      <4>2. t[i] = s[i] /\ t[i - 1] = s[i - 1] BY <3>1, <4>1
      <4> QED BY <2>1, <4>1, <4>2
    <3>2. CASE i = k + 1
      <4>1. i \in 0 .. k + 1 /\ k \in 0 .. k + 1 /\ ~ (i <= k) /\ i - 1 = k BY <3>2
      <4> QED BY <3>2, <4>1
    <3> QED BY <3>1, <3>2
  <2>7. k + 1 \in 0 .. N BY <1>2
  <2>8. Upto(k + 1, t) BY <2>5, <2>6
  <2> HIDE DEF t, Upto
  <2> QED BY <2>4, <2>7, <2>8
<1>3. \A k \in 0 .. N : k \in T
  <2> HIDE DEF T
  <2> QED BY <1>1, <1>2, Induction
<1>4. N \in T BY <1>3
<1> QED BY <1>4 DEF Iterates
=============================================================================
