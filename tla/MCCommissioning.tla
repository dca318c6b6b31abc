---------------------------- MODULE MCCommissioning ----------------------------
(* Commissioning with one exchange, two identifiers and one fabric index     *)
EXTENDS Commissioning, TLC

FabricSymmetry == Permutations(FabricIdentity)
================================================================================
