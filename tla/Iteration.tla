------------------------------ MODULE Iteration ------------------------------
(***************************************************************************)
(* What the proofs need of a function that is defined by iteration, as the   *)
(* loops of the code are in the models: that there is one, and what holds    *)
(* after every step of it.  Both come from the least member of a set of      *)
(* naturals, which is what well-founded induction gives here.                *)
(***************************************************************************)
EXTENDS Integers, WellFoundedInduction, TLAPS

Before == {p \in Nat \X Nat : p[1] < p[2]}

(* A set of naturals that is not empty has a least member.                      *)
LEMMA LeastOf ==
    ASSUME NEW S \in SUBSET Nat, S # {}
    PROVE  \E x \in S : \A y \in S : x <= y
<1>1. OpToRel(<, Nat) = Before
  BY Zenon DEF OpToRel, Before
<1>2. IsWellFoundedOn(Before, Nat)
  BY NatLessThanWellFounded, <1>1, Zenon
<1>3. PICK x \in S : \A y \in S : ~(<<y, x>> \in Before)
  BY <1>2, WFMin, Zenon
<1>4. ASSUME NEW y \in S PROVE x <= y
  <2>1. <<y, x>> \in Nat \X Nat /\ ~(<<y, x>>[1] < <<y, x>>[2])
    BY <1>3, SMT DEF Before
  <2> QED
    BY <2>1
<1> QED
  BY <1>4

(* What holds at 0, and after each of n steps if before it, holds throughout.   *)
LEMMA Upwards ==
    ASSUME NEW n \in Nat, NEW T, 0 \in T,
           \A i \in 0 .. n - 1 : i \in T => i + 1 \in T
    PROVE  \A i \in 0 .. n : i \in T
<1> DEFINE S == {i \in 0 .. n : i \notin T}
<1> SUFFICES ASSUME S # {} PROVE FALSE
  OBVIOUS
<1>1. PICK x \in S : \A y \in S : x <= y
  <2> HIDE DEF S
  <2>1. S \in SUBSET Nat
    BY DEF S
  <2> QED
    BY <2>1, LeastOf
<1>2. x # 0 /\ x - 1 \in 0 .. n - 1 /\ x - 1 \notin S
  BY <1>1
<1> QED
  BY <1>2

(* A function defined by iteration exists: what n steps make of a.  (The two    *)
(* operators keep the statement small for the provers, which unfold it no       *)
(* further than a proof asks.)                                                  *)
Steps(A, n) == [1 .. n -> [A -> A]]
Iterations(A, a, n, step) ==
    {g \in [0 .. n -> A] : g[0] = a /\ \A i \in 1 .. n : g[i] = step[i][g[i - 1]]}

LEMMA IterationExists ==
    ASSUME NEW A, NEW a \in A, NEW n \in Nat, NEW step \in Steps(A, n)
    PROVE  \E g : g \in Iterations(A, a, n, step)
<1> DEFINE Upto(m) == \E g \in [0 .. m -> A] :
                         g[0] = a /\ \A i \in 1 .. m : g[i] = step[i][g[i - 1]]
           T == {m \in 0 .. n : Upto(m)}
<1>1. 0 \in T
  <2> DEFINE g == [i \in 0 .. 0 |-> a]
  <2>1. g \in [0 .. 0 -> A] /\ g[0] = a /\ \A i \in 1 .. 0 : g[i] = step[i][g[i - 1]]
    OBVIOUS
  <2> HIDE DEF g
  <2>2. Upto(0)
    BY <2>1
  <2> QED
    BY <2>2
<1>2. ASSUME NEW m \in 0 .. n - 1, m \in T PROVE m + 1 \in T
  <2>1. PICK g \in [0 .. m -> A] :
               g[0] = a /\ \A i \in 1 .. m : g[i] = step[i][g[i - 1]]
    BY <1>2
  <2> DEFINE h == [i \in 0 .. m + 1 |-> IF i = m + 1 THEN step[m + 1][g[m]] ELSE g[i]]
  <2>2. m + 1 \in 1 .. n /\ g[m] \in A /\ step[m + 1] \in [A -> A]
    BY <2>1 DEF Steps
  <2>3. h \in [0 .. m + 1 -> A]
    BY <2>1, <2>2
  <2>4. h[0] = a /\ \A i \in 1 .. m + 1 : h[i] = step[i][h[i - 1]]
    BY <2>1, <2>2
  <2> HIDE DEF h
  <2>5. Upto(m + 1)
    BY <2>3, <2>4
  <2> QED
    BY <2>2, <2>5
<1> HIDE DEF T
<1>3. \A i \in 0 .. n : i \in T
  BY <1>1, <1>2, Upwards
<1>4. n \in T
  BY <1>3
<1> QED
  BY <1>4 DEF T, Iterations
==============================================================================
