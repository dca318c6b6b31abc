------------------------- MODULE MessageReception -------------------------
(***************************************************************************)
(* Replay and duplicate protection of one session: a MessageReceptionState *)
(* that meets the counters of the frames of its peer.  The network loses,  *)
(* repeats and reorders frames, so every counter may arrive at any time,   *)
(* any number of times.  kind says whether the session is encrypted        *)
(* (process_reception_encrypted, has_maximum=True, the only way the code   *)
(* calls it) or unsecured (process_reception_unencrypted).                 *)
(*                                                                         *)
(* times and sinceMove are history: how often an encrypted session         *)
(* accepted each counter (a count that stops at three) and which counters  *)
(* were accepted since max_message_counter last changed, that change       *)
(* included.                                                               *)
(***************************************************************************)
EXTENDS ReceptionWindow

VARIABLES kind, reception_state, times, sinceMove

receptionVars == <<kind, reception_state, times, sinceMove>>

Kinds == {"encrypted", "unencrypted"}

CountCap == 3   (* bound of the history count, one above what is claimed *)

ReceptionTypeOK ==
    /\ kind \in Kinds
    /\ reception_state \in ReceptionStates
    /\ times \in [Counter -> 0 .. CountCap]
    /\ sinceMove \in SUBSET Counter

Duplicate(c) ==
    \/ kind = "encrypted" /\ DuplicateEncrypted(reception_state, c)
    \/ kind = "unencrypted" /\ DuplicateUnencrypted(reception_state, c)

(* Secure sessions are created with MessageReceptionState.init(0); an      *)
(* unsecured one with the counter of its first message, which is accepted. *)
InitEncrypted ==
    /\ kind = "encrypted"
    /\ reception_state = InitReception(0)
    /\ times = [c \in Counter |-> 0]
    /\ sinceMove = {}

InitUnencrypted ==
    /\ kind = "unencrypted"
    /\ \E first \in Counter :
          /\ reception_state = InitReception(first)
          /\ times = [c \in Counter |-> 0]
          /\ sinceMove = {first}

ReceptionInit == InitEncrypted \/ InitUnencrypted

(* a frame with counter c that is not a duplicate; a duplicate changes     *)
(* nothing                                                                 *)
Accept(c) ==
    /\ ~Duplicate(c)
    /\ reception_state' = AfterAccepting(reception_state, c)
    /\ times' = IF kind = "encrypted" /\ times[c] < CountCap
                THEN [times EXCEPT ![c] = @ + 1]
                ELSE times
    /\ sinceMove' =
          IF reception_state'.max_message_counter = reception_state.max_message_counter
          THEN sinceMove \cup {c}
          ELSE {c}
    /\ UNCHANGED kind

ReceptionNext == \E c \in Counter : Accept(c)

ReceptionSpec == ReceptionInit /\ [][ReceptionNext]_receptionVars
-----------------------------------------------------------------------------
(* An encrypted session hands the same counter to its handlers at most     *)
(* twice, whatever the network repeats and however late: once as the new   *)
(* maximum, and once more because _update_max leaves the bit of the old    *)
(* maximum clear.                                                          *)
AtMostTwice == kind = "encrypted" => \A c \in Counter : times[c] <= 2

(* What the comment over process_reception_encrypted promises: a repeated  *)
(* counter is reported as a duplicate.                                     *)
AtMostOnce == kind = "encrypted" => \A c \in Counter : times[c] <= 1

(* A frame of an encrypted session that comes late for the first time is   *)
(* not taken for a duplicate as long as it is within WindowSize of the     *)
(* maximum.  Counter 0 is lost while it is the initial maximum, and the    *)
(* last counters before the wrap are lost while the window below the       *)
(* maximum wraps onto them.                                                *)
FreshIsAccepted ==
    kind = "encrypted" =>
        \A c \in Counter \ {0} :
            /\ times[c] = 0
            /\ reception_state.max_message_counter - WindowSize <= c
            /\ c < reception_state.max_message_counter + CounterMod - WindowSize
            => ~Duplicate(c)

(* On either kind of session a counter is accepted a second time only      *)
(* after the maximum has moved: everything accepted since is still         *)
(* remembered, whatever arrived in between.                                *)
RepeatNeedsMove == \A c \in sinceMove : Duplicate(c)
=============================================================================
