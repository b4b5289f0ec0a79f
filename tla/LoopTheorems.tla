---------------------------- MODULE LoopTheorems ----------------------------
(***************************************************************************)
(* Induction over the steps of a loop, in a form the provers can use: the  *)
(* induction theorems of the library take an operator as a parameter,      *)
(* these take a set and a function.                                        *)
(*                                                                         *)
(* A loop over N things is written as a recursive function f on 0 .. N,    *)
(* where f[n] is what it has built after its first n steps.                *)
(***************************************************************************)
EXTENDS NaturalsInduction, WellFoundedInduction, TLAPS

\* What holds at the start and is kept by every step holds throughout.
LEMMA SetInduction ==
  ASSUME NEW N \in Nat, NEW S, 0 \in S, \A n \in 0 .. N-1 : n \in S => n+1 \in S
  PROVE  0 .. N \subseteq S
<1> SUFFICES ASSUME (0 .. N) \ S # {} PROVE FALSE
  OBVIOUS
<1> DEFINE T == (0 .. N) \ S
<1>1. IsWellFoundedOn(OpToRel(<, Nat), Nat)
  BY NatLessThanWellFounded
<1>2. T \subseteq Nat /\ T # {}
  OBVIOUS
<1>3. PICK x \in T : \A y \in T : ~(<<y, x>> \in OpToRel(<, Nat))
  <2> HIDE DEF T
  <2> QED BY <1>1, <1>2, WFMin
<1>4. \A y \in T : ~ (y < x)
  BY <1>2, <1>3 DEF OpToRel
<1>5. x # 0 /\ x - 1 \in 0 .. N-1
  OBVIOUS
<1>6. x - 1 \in S
  BY <1>4, <1>5
<1> QED BY <1>5, <1>6

\* f is what the steps of F build from x0 in the set X.
Loop(f, m, X, x0, F) ==
    /\ f \in [0 .. m -> X]
    /\ f[0] = x0
    /\ \A n \in 1 .. m : f[n] = F[<<f[n - 1], n>>]

\* A loop whose step stays within a set has a run.
LEMMA LoopExists ==
  ASSUME NEW X, NEW x0 \in X, NEW N \in Nat, NEW F \in [X \X (1 .. N) -> X]
  PROVE  \E f : Loop(f, N, X, x0, F)
<1> DEFINE S == {m \in 0 .. N : \E f : Loop(f, m, X, x0, F)}
<1>1. 0 \in S
  <2>1. Loop([n \in 0 .. 0 |-> x0], 0, X, x0, F)
    BY DEF Loop
  <2> QED BY <2>1
<1>2. ASSUME NEW m \in 0 .. N - 1, m \in S PROVE m + 1 \in S
  <2>1. PICK f : Loop(f, m, X, x0, F)
    BY <1>2
  <2>2. /\ m \in Nat /\ m + 1 \in 1 .. N /\ m \in 0 .. m
        /\ \A n \in 0 .. m + 1 : n = m + 1 \/ n \in 0 .. m
        /\ \A n \in 1 .. m + 1 : n - 1 \in 0 .. m
        /\ \A n \in 1 .. m : n \in 0 .. m
    OBVIOUS
  <2>3. f \in [0 .. m -> X] /\ f[0] = x0 /\ \A n \in 1 .. m : f[n] = F[<<f[n - 1], n>>]
    BY <2>1 DEF Loop
  <2> DEFINE next == F[<<f[m], m + 1>>]
             more == [n \in 0 .. m + 1 |-> IF n = m + 1 THEN next ELSE f[n]]
  <2>4. next \in X
    BY <2>2, <2>3
  <2>5. more \in [0 .. m + 1 -> X]
    <3> HIDE DEF next
    <3> QED BY <2>2, <2>3, <2>4
  <2>6. more[m + 1] = next /\ \A n \in 0 .. m : more[n] = f[n]
    <3> HIDE DEF next
    <3> QED BY <2>2
  <2> HIDE DEF more
  <2>7. \A n \in 1 .. m + 1 : more[n] = F[<<more[n - 1], n>>]
    <3>1. more[m + 1] = F[<<more[m], m + 1>>] /\ (m + 1) - 1 = m
      BY <2>2, <2>6
    <3>2. \A n \in 1 .. m : more[n] = F[<<more[n - 1], n>>]
      BY <2>2, <2>3, <2>6
    <3> QED BY <2>2, <3>1, <3>2
  <2>8. Loop(more, m + 1, X, x0, F)
    BY <2>2, <2>3, <2>5, <2>6, <2>7 DEF Loop
  <2> QED BY <2>2, <2>8
<1>3. 0 .. N \subseteq S
  <2> HIDE DEF S
  <2> QED BY <1>1, <1>2, SetInduction
<1> QED BY <1>3
=============================================================================
