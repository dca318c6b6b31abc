----------------------------- MODULE MCNfcHandler -----------------------------
(* NfcHandler with two locks, of which one has two front ends                   *)
EXTENDS NfcHandler, TLC

CONSTANTS front, back, r1, r2

MCLockOf == (r1 :> front) @@ (r2 :> front)

(* users and credentials of a lock *)
Held(l) == Cardinality(Users(lock[l])) + Cardinality(Credentials(lock[l]))

(* bound: one lock is used alone, with all there is, or both are, with two     *)
(* users or credentials between them and no transaction                       *)
Bound ==
    \/ lock[back] = Factory /\ saver # back
    \/ Running = {} /\ Held(front) + Held(back) <= 2

Symmetry ==
    Permutations(Reader) \cup Permutations(FabricIndex)
        \cup Permutations(CredentialType)
=============================================================================
