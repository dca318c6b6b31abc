------------------------------ MODULE NfcHandler ------------------------------
(***************************************************************************)
(* Readers operating the bolt: nfc_handler takes the credentials of the lock  *)
(* when a target appears and awaits the transaction, during which commands    *)
(* may clear or replace them.  A transaction is abstracted to what            *)
(* TargetSession says of it: a new target ends the one before it, and the one *)
(* in play may succeed once.  Its cryptography is abstracted to the choice of *)
(* a credential it verified.                                                  *)
(***************************************************************************)
EXTENDS DoorLock

CONSTANTS
    Reader,             (* the front ends                                     *)
    LockOf              (* the lock each front end belongs to                 *)

ASSUME NfcHandlerAssumption ==
    /\ IsFiniteSet(Reader)
    /\ LockOf \in [Reader -> Lock]
    /\ None \notin [known : SUBSET Slot]

VARIABLES
    transaction,        (* the credentials a front end's transaction knows     *)
    late                (* history: uses of a credential since it was cleared  *)

handlerVars == <<vars, transaction, late>>

NfcHandlerTypeOK ==
    /\ DoorLockTypeOK
    /\ transaction \in [Reader -> [known : SUBSET Slot] \cup {None}]
    /\ late \in [Lock -> [Slot -> Nat]]

Running == {r \in Reader : transaction[r] # None}
-----------------------------------------------------------------------------
(* the keys a transaction starts with; bytes never verify                      *)
Known_Everything(l) == Slot
Known(l) == {c \in Credentials(lock[l]) : lock[l].credentials[c].data = "key"}

(* nfc_handler up to its first await                                           *)
NewTarget(r) ==
    /\ process = "running"
    /\ lock[LockOf[r]].aliro_reader_config
    /\ transaction' = [transaction EXCEPT ![r] = [known |-> Known(LockOf[r])]]
    /\ UNCHANGED <<vars, late>>

(* run_aliro returned: the bolt moves to where it is not by now                 *)
Succeed(r) ==
    LET l == LockOf[r]
    IN  /\ r \in Running
        /\ SetLocked(l, ~lock[l].locked)
        /\ \E c \in transaction[r].known :
              late' = IF c \notin Credentials(lock[l])
                      THEN [late EXCEPT ![l][c] = @ + 1]
                      ELSE late
        /\ transaction' = [transaction EXCEPT ![r] = None]

(* run_aliro raised or found no credential, or the target went away             *)
Fail(r) ==
    /\ r \in Running
    /\ transaction' = [transaction EXCEPT ![r] = None]
    /\ UNCHANGED <<vars, late>>

(* a command while transactions wait                                           *)
Invoke(l) ==
    /\ Operate(l) \/ Administer(l)
    /\ late' = [late EXCEPT ![l] =
                  [c \in Slot |->
                     IF c \in Credentials(lock[l]) \ Credentials(lock'[l])
                     THEN 0 ELSE @[c]]]
    /\ UNCHANGED transaction

Restarts ==
    /\ Stop \/ StopInSave \/ Start
    /\ transaction' = [r \in Reader |-> None]
    /\ late' = [l \in Lock |-> [c \in Slot |-> 0]]
-----------------------------------------------------------------------------
HandlerInit ==
    /\ Init
    /\ transaction = [r \in Reader |-> None]
    /\ late = [l \in Lock |-> [c \in Slot |-> 0]]

HandlerNext ==
    \/ \E r \in Reader : NewTarget(r) \/ Succeed(r) \/ Fail(r)
    \/ \E l \in Lock : Invoke(l)
    \/ Restarts

HandlerSpec == HandlerInit /\ [][HandlerNext]_handlerVars
-----------------------------------------------------------------------------
(* A credential that was cleared still operates the bolt, for the transactions  *)
(* that took it before: at most one for each front end, however long they run.   *)
ClearedSoonUseless ==
    \A l \in Lock, c \in Slot : late[l][c] <= Cardinality(Reader)
=============================================================================
