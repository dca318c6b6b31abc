--------------------------- MODULE MCSubscriptions ---------------------------
(* A request whose events are not urgent and whose maximum is too short to leave *)
(* five seconds, and one that is told of changes and urgent events               *)
EXTENDS Subscriptions, TLC

CONSTANTS state, alarm

MCRequest ==
    {[attributes |-> {}, events |-> {alarm}, urgent |-> {}, min |-> 1, max |-> 4],
     [attributes |-> {state}, events |-> {alarm}, urgent |-> {alarm}, min |-> 2,
      max |-> 8]}

Symmetry == Permutations(Object) \cup Permutations(FabricIndex)
=============================================================================
