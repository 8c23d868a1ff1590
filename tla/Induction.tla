------------------------------ MODULE Induction ------------------------------
(***************************************************************************)
(* Induction over the natural numbers and iteration, as facts about sets,  *)
(* from the fact that < is well founded.                                   *)
(***************************************************************************)
EXTENDS Integers, WellFoundedInduction, TLAPS

(***************************************************************************)
(* A set that holds 0 and with every number its successor holds them all.  *)
(***************************************************************************)
LEMMA SetInduction ==
  ASSUME NEW S, 0 \in S, \A n \in Nat : n \in S => n + 1 \in S
  PROVE  Nat \subseteq S
<1> DEFINE R == {ss \in Nat \X Nat : ss[1] < ss[2]}
           T == Nat \ S
<1>1. IsWellFoundedOn(R, Nat)
  BY NatLessThanWellFounded DEF OpToRel
<1>2. SUFFICES ASSUME T # {} PROVE FALSE
  OBVIOUS
<1>3. PICK x \in T : \A y \in T : <<y, x>> \notin R
  <2> HIDE DEF R
  <2> QED BY <1>1, <1>2, WFMin
<1>4. x - 1 \in Nat /\ x - 1 < x /\ (x - 1) + 1 = x
  OBVIOUS
<1>5. x - 1 \notin T
  BY <1>3, <1>4
<1> QED BY <1>4, <1>5

\* g holds the first n values of F, applied again and again to a.
Iteration(g, V, F, a, n) ==
  /\ g \in [0 .. n -> V] /\ g[0] = a
  /\ \A i \in 1 .. n : g[i] = F[g[i - 1]]

(***************************************************************************)
(* A function on a set can be applied again and again.                     *)
(***************************************************************************)
LEMMA IterationExists ==
  ASSUME NEW V, NEW F, F \in [V -> V], NEW a, a \in V, NEW n, n \in Nat
  PROVE  \E g : Iteration(g, V, F, a, n)
<1> DEFINE S == {m \in Nat : \E g : Iteration(g, V, F, a, m)}
<1>1. 0 \in S
  <2>1. Iteration([i \in 0 .. 0 |-> a], V, F, a, 0)
    BY DEF Iteration
  <2> QED BY <2>1
<1>2. ASSUME NEW m \in Nat, m \in S PROVE m + 1 \in S
  <2>1. PICK g : Iteration(g, V, F, a, m)
    BY <1>2
  <2> DEFINE h == [i \in 0 .. m + 1 |-> IF i = m + 1 THEN F[g[m]] ELSE g[i]]
  <2>2. h \in [0 .. m + 1 -> V]
    BY <2>1 DEF Iteration
  <2>3. h[0] = a
    BY <2>1 DEF Iteration
  <2>4. ASSUME NEW i \in 1 .. m + 1 PROVE h[i] = F[h[i - 1]]
    <3>1. CASE i = m + 1
      BY <3>1
    <3>2. CASE i # m + 1
      BY <3>2, <2>1 DEF Iteration
    <3> QED BY <3>1, <3>2
  <2>5. Iteration(h, V, F, a, m + 1)
    BY <2>2, <2>3, <2>4 DEF Iteration
  <2> HIDE DEF h
  <2> QED BY <2>5
<1>3. Nat \subseteq S
  <2> HIDE DEF S
  <2> QED BY <1>1, <1>2, SetInduction
<1> QED BY <1>3
=============================================================================
