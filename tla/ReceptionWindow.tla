-------------------------- MODULE ReceptionWindow --------------------------
(***************************************************************************)
(* MessageReceptionState of matter/message/message_layer.py: the highest   *)
(* message counter received on a session and the bitmap of the counters    *)
(* just below it, as operators on a record, so that the receiver           *)
(* (MessageReception) and the exchange layer (ExchangeLayer) share them.     *)
(*                                                                         *)
(* The bitmap is the set of the positions whose bit is one; position p     *)
(* stands for the counter max_message_counter - 1 - p.  The integer of the *)
(* code is never masked, but no bit at or above the window is ever read    *)
(* and bits only move up, so the set keeps the positions of the window.    *)
(***************************************************************************)
EXTENDS Integers

CONSTANTS
    CounterMod,    (* number of values of a message counter: 2 ** 32         *)
    WindowSize     (* MSG_COUNTER_WINDOW_SIZE: 32                            *)

ASSUME CounterAssumption ==
    /\ CounterMod \in Nat
    /\ WindowSize \in Nat \ {0}
    /\ WindowSize < CounterMod

Counter == 0 .. CounterMod - 1
Position == 0 .. WindowSize - 1

ReceptionStates ==
    [max_message_counter : Counter, reception_bitmap : SUBSET Position]

(* init: every bit set, the counter given becomes the maximum *)
InitReception(c) ==
    [max_message_counter |-> c, reception_bitmap |-> Position]

PositionOf(rs, c) == (rs.max_message_counter - 1 - c) % CounterMod

CounterInRange(rs, c) == PositionOf(rs, c) \in Position

(* the reading half of _in_range_duplicate *)
BitIsSet(rs, c) == PositionOf(rs, c) \in rs.reception_bitmap

(* the writing half of _in_range_duplicate *)
SetBit_Forgotten(rs, c) == rs
SetBit(rs, c) ==
    [rs EXCEPT !.reception_bitmap = @ \cup {PositionOf(rs, c)}]

(* the bitmap moved up by d positions, as far as it can be read again *)
ShiftBitmap_Fill(bitmap, d) ==
    {p \in Position : p - d \in bitmap \/ p < d}
ShiftBitmap(bitmap, d) == {p \in Position : p - d \in bitmap}

(* _update_max: the bit of the old maximum is not set *)
UpdateMax(rs, c) ==
    [max_message_counter |-> c,
     reception_bitmap    |-> ShiftBitmap(rs.reception_bitmap,
                                (c - rs.max_message_counter) % CounterMod)]

(* what process_reception_encrypted(c, has_maximum=True) returns ... *)
DuplicateEncrypted(rs, c) ==
    \/ c = rs.max_message_counter
    \/ CounterInRange(rs, c) /\ BitIsSet(rs, c)
    \/ ~CounterInRange(rs, c) /\ c < rs.max_message_counter + 1

(* ... and what process_reception_unencrypted(c) returns *)
DuplicateUnencrypted(rs, c) ==
    \/ c = rs.max_message_counter
    \/ CounterInRange(rs, c) /\ BitIsSet(rs, c)

(* the state both leave behind when they return False *)
AfterAccepting(rs, c) ==
    IF CounterInRange(rs, c) THEN SetBit(rs, c) ELSE UpdateMax(rs, c)
=============================================================================
