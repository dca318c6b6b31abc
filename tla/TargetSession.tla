----------------------------- MODULE TargetSession -----------------------------
(***************************************************************************)
(* What a reader's front end promises: one target at a time is in play, and  *)
(* it operates the bolt at most once.  A new target ends the one before it.   *)
(***************************************************************************)
CONSTANTS Interaction, None

VARIABLES
    active,             (* the target in play or None                        *)
    operated            (* whether a target operated the bolt                 *)

vars == <<active, operated>>

Init ==
    /\ active = None
    /\ operated = [i \in Interaction |-> FALSE]

Begin(i) ==
    /\ i # active
    /\ active' = i
    /\ operated' = [operated EXCEPT ![i] = FALSE]

Operate(i) ==
    /\ i = active
    /\ ~operated[i]
    /\ operated' = [operated EXCEPT ![i] = TRUE]
    /\ UNCHANGED active

End ==
    /\ active # None
    /\ active' = None
    /\ UNCHANGED operated

Next ==
    \/ \E i \in Interaction : Begin(i) \/ Operate(i)
    \/ End

Spec == Init /\ [][Next]_vars
=============================================================================
