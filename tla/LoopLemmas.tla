----------------------------- MODULE LoopLemmas -----------------------------
(***************************************************************************)
(* Induction in first-order form, over a set of numbers, and what it says  *)
(* of a loop over a sequence: a step is a function of the state so far and *)
(* of the place it has come to.                                            *)
(***************************************************************************)
EXTENDS Naturals, WellFoundedInduction, TLAPS

\* The least element of a set of numbers.
LEMMA LeastNumber ==
  ASSUME NEW S \in SUBSET Nat, S # {}
  PROVE  \E m \in S : \A k \in S : m <= k
<1>1. PICK m \in S : \A k \in S : <<k, m>> \notin OpToRel(<, Nat)
  BY NatLessThanWellFounded, WFMin
<1>2. ASSUME NEW k \in S PROVE m <= k
  <2>1. ~(k < m)
    BY <1>1 DEF OpToRel
  <2>2. QED
    BY <2>1
<1>3. QED
  BY <1>2

\* What holds at 0, and at each number up to n if at the one before, holds up to n.
LEMMA UpToInduction ==
  ASSUME NEW n \in Nat, NEW S, 0 \in S, \A i \in 1..n : i-1 \in S => i \in S
  PROVE  \A i \in 0..n : i \in S
<1> DEFINE Bad == {i \in 0..n : i \notin S}
<1>1. SUFFICES ASSUME Bad # {} PROVE FALSE
  OBVIOUS
<1>2. PICK m \in Bad : \A k \in Bad : m <= k
  <2>1. Bad \in SUBSET Nat
    OBVIOUS
  <2> HIDE DEF Bad
  <2>2. QED
    BY <1>1, <2>1, LeastNumber
<1>3. m \in 1..n
  BY <1>2
<1>4. m-1 \notin Bad /\ m-1 \in 0..n
  BY <1>2, <1>3
<1>5. QED
  BY <1>2, <1>3, <1>4

\* g holds the states of a loop that starts with x, after 0, 1, .., n turns.
IsRun(g, n, X, x, F) ==
  g \in [0..n -> X] /\ g[0] = x /\ \A i \in 1..n : g[i] = F[i][g[i-1]]

\* A loop has a run.
LEMMA LoopRuns ==
  ASSUME NEW n \in Nat, NEW X, NEW x \in X, NEW F \in [1..n -> [X -> X]]
  PROVE  \E g : IsRun(g, n, X, x, F)
<1> DEFINE Run(k, g) == /\ g \in [0..k -> X] /\ g[0] = x
                        /\ \A i \in 1..k : g[i] = F[i][g[i-1]]
           S == {k \in 0..n : \E g : Run(k, g)}
<1>1. 0 \in S
  <2>1. Run(0, [i \in 0..0 |-> x])
    <3>1. 1..0 = {}
      OBVIOUS
    <3>2. QED
      BY <3>1
  <2> HIDE DEF Run
  <2>2. QED
    BY <2>1
<1>2. ASSUME NEW k \in 1..n, k-1 \in S PROVE k \in S
  <2>1. PICK g : Run(k-1, g)
    BY <1>2
  <2> DEFINE h == [i \in 0..k |-> IF i = k THEN F[k][g[k-1]] ELSE g[i]]
  <2>2. F[k][g[k-1]] \in X
    BY <2>1
  <2>3. h \in [0..k -> X] /\ h[0] = x
    BY <2>1, <2>2
  <2>4. \A i \in 1..k : h[i] = F[i][h[i-1]]
    BY <2>1
  <2>5. Run(k, h)
    BY <2>3, <2>4
  <2> HIDE DEF Run, h
  <2>6. QED
    BY <2>5
<1>3. n \in S
  <2> HIDE DEF S
  <2>1. \A i \in 0..n : i \in S
    <3>1. \A k \in 1..n : k-1 \in S => k \in S
      BY <1>2
    <3>2. QED
      BY <1>1, <3>1, UpToInduction
  <2>2. QED
    BY <2>1
<1>4. QED
  BY <1>3 DEF IsRun
=============================================================================
