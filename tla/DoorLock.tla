------------------------------- MODULE DoorLock -------------------------------
(***************************************************************************)
(* The door lock cluster's handlers and the device state behind them:       *)
(* users, credentials, the Aliro reader configuration and the bolt, with    *)
(* the file in which they are saved.  Handlers do not await, so each is one  *)
(* step; a handler that raises part way leaves what it had already changed.  *)
(*                                                                         *)
(* A request whose handler changes nothing (an index in use, a key of the   *)
(* wrong length, the wrong fabric, no free user index) is a stuttering      *)
(* step.  Names and unique ids are left out: who gave them is kept.  Of     *)
(* status, type and rule, which any fabric may modify, the status is kept.  *)
(***************************************************************************)
EXTENDS Absent, Integers, FiniteSets

CONSTANTS
    Lock,               (* the configured locks                              *)
    FabricIndex,        (* local_fabric_index of the sessions, 0 for PASE     *)
    MaxUserIndex,       (* 0xFFFE: the last index an allocation tries, and    *)
                        (* the one that means every user when clearing        *)
    CredentialType,     (* the three Aliro credential types                   *)
    CredentialIndex,    (* indices of credentials                             *)
    EveryIndex,         (* 0xFFFE: when clearing, every credential of a type  *)
    MaxFailures         (* bound: failed handlers since a lock last saved     *)

ASSUME DoorLockAssumption ==
    /\ Lock # {}
    /\ MaxUserIndex \in Nat \ {0}
    /\ MaxFailures \in Nat

VARIABLES
    lock,               (* what each DoorLockDevice holds                     *)
    file,               (* state_door_lock.json, None if it holds no JSON     *)
    process,            (* whether it runs, or where it was when it stopped    *)
    reported,           (* lock_state at the last attributes_changed          *)
    saved,              (* history: what a lock held when it last saved or    *)
                        (* started                                            *)
    saver,              (* history: the lock that saved last since the start   *)
    failures            (* history: handlers of a lock that raised after a    *)
                        (* change, since its last save                        *)

vars == <<lock, file, process, reported, saved, saver, failures>>

UserIndex == 1 .. MaxUserIndex
Slot == CredentialType \X CredentialIndex

(* named_by is history: the fabric that gave the name and the unique id      *)
LockUser == [creator_fabric_index : FabricIndex, named_by : FabricIndex,
             user_status : {"OccupiedEnabled", "OccupiedDisabled"}]

(* data is a decoded key or the bytes of a request; supplied_by is history   *)
LockCredential == [user_index : UserIndex, creator_fabric_index : FabricIndex,
                   data : {"key", "bytes"}, supplied_by : FabricIndex]

LockState == [locked : BOOLEAN,
              users : [UserIndex -> LockUser \cup {None}],
              credentials : [Slot -> LockCredential \cup {None}],
              aliro_reader_config : BOOLEAN]

ASSUME NoLockAssumption ==
    /\ None \notin LockUser
    /\ None \notin LockCredential
    /\ None \notin LockState
    /\ None \notin Lock

DoorLockTypeOK ==
    /\ lock \in [Lock -> LockState]
    /\ file \in LockState \cup {None}
    /\ process \in {"running", "stopped", "stopped in a save"}
    /\ reported \in [Lock -> BOOLEAN]
    /\ saved \in [Lock -> LockState]
    /\ saver \in Lock \cup {None}
    /\ failures \in [Lock -> 0 .. MaxFailures]

Users(s) == {u \in UserIndex : s.users[u] # None}
Credentials(s) == {c \in Slot : s.credentials[c] # None}
-----------------------------------------------------------------------------
(* load_state without a readable file *)
Factory == [locked |-> TRUE,
            users |-> [u \in UserIndex |-> None],
            credentials |-> [c \in Slot |-> None],
            aliro_reader_config |-> FALSE]

(* save_state asks every credential for public_bytes, which bytes lack, and  *)
(* only then opens the file                                                  *)
Serializable(s) == \A c \in Credentials(s) : s.credentials[c].data = "key"

(* a handler of l leaves s and raises before it saves *)
Raises(l, s) ==
    /\ process = "running"
    /\ failures[l] < MaxFailures
    /\ lock' = [lock EXCEPT ![l] = s]
    /\ failures' = [failures EXCEPT ![l] = @ + 1]
    /\ UNCHANGED <<file, process, saved, saver>>

SaveSucceeds(l, s) ==
    /\ process = "running"
    /\ Serializable(s)
    /\ lock' = [lock EXCEPT ![l] = s]
    /\ file' = s
    /\ saved' = [saved EXCEPT ![l] = s]
    /\ saver' = l
    /\ failures' = [failures EXCEPT ![l] = 0]
    /\ UNCHANGED process

(* a handler of l leaves s and calls save_state, which may raise *)
Saves_OpensFirst(l, s) ==
    \/ SaveSucceeds(l, s)
    \/ /\ ~Serializable(s) /\ process = "running" /\ failures[l] < MaxFailures
       /\ lock' = [lock EXCEPT ![l] = s]
       /\ failures' = [failures EXCEPT ![l] = @ + 1]
       /\ file' = None
       /\ UNCHANGED <<process, saved, saver>>
Saves(l, s) ==
    \/ SaveSucceeds(l, s)
    \/ ~Serializable(s) /\ Raises(l, s)
-----------------------------------------------------------------------------
(* handle_lock_door and handle_unlock_door; the transaction of a reader      *)
(* does the same.  attributes_changed comes after the save                    *)
SetLocked_ReportLost(l, b) ==
    /\ Saves(l, [lock[l] EXCEPT !.locked = b])
    /\ UNCHANGED reported
SetLocked(l, b) ==
    LET s == [lock[l] EXCEPT !.locked = b]
    IN  /\ Saves(l, s)
        /\ reported' = IF Serializable(s) THEN [reported EXCEPT ![l] = b]
                                          ELSE reported

NewUser(f, status) ==
    [creator_fabric_index |-> f, named_by |-> f, user_status |-> status]

NewCredential(u, f) ==
    [user_index |-> u, creator_fabric_index |-> f, data |-> "key",
     supplied_by |-> f]

(* handle_set_user, Add: a bad enumeration value raises before the insertion *)
AddUser(l, u, f, status) ==
    /\ u \notin Users(lock[l])
    /\ Saves(l, [lock[l] EXCEPT !.users[u] = NewUser(f, status)])

IsCreator(l, u, f) == f = lock[l].users[u].creator_fabric_index

(* handle_set_user, Modify: names only by the creator; a bad enumeration     *)
(* value raises with the fields before it already assigned                    *)
ModifyUser(l, u, f, names, status, valid) ==
    LET s == [lock[l] EXCEPT !.users[u].named_by = IF names THEN f ELSE @,
                             !.users[u].user_status = status]
    IN  /\ u \in Users(lock[l])
        /\ names => IsCreator(l, u, f)
        /\ IF valid THEN Saves(l, s) ELSE Raises(l, s)

(* handle_clear_user: 0xFFFE clears everything, any other index clears the   *)
(* user and its credentials of every type; no fabric is asked for             *)
ClearUser_KeepsCredentials(l, u) ==
    /\ u \in Users(lock[l]) \/ u = MaxUserIndex
    /\ Saves(l, [lock[l] EXCEPT !.users[u] = None])
ClearUser(l, u) ==
    LET cleared == IF u = MaxUserIndex THEN UserIndex ELSE {u}
    IN  /\ u \in Users(lock[l]) \/ u = MaxUserIndex
        /\ Saves(l, [lock[l] EXCEPT
              !.users = [v \in UserIndex |->
                           IF v \in cleared THEN None ELSE @[v]],
              !.credentials = [c \in Slot |->
                 IF @[c] # None /\ @[c].user_index \in cleared THEN None
                                                               ELSE @[c]]])

(* next(i for i in range(1, 65535) if i not in users) *)
IsNextUserIndex(u, users) ==
    /\ u \in UserIndex \ users
    /\ 1 .. u - 1 \subseteq users

(* handle_set_credential, Add without a user: the user is inserted before    *)
(* the key is decoded, and the answer is INVALID_COMMAND even on success      *)
AddCredentialAndUser(l, c, f, status, valid) ==
    /\ c \notin Credentials(lock[l])
    /\ \E u \in UserIndex :
          /\ IsNextUserIndex(u, Users(lock[l]))
          /\ LET s == [lock[l] EXCEPT !.users[u] = NewUser(f, status)]
             IN  IF valid
                 THEN Saves(l, [s EXCEPT !.credentials[c] = NewCredential(u, f)])
                 ELSE Raises(l, s)

(* handle_set_credential, Add for a user, by the fabric that created it       *)
AddCredential(l, c, u, f) ==
    /\ c \notin Credentials(lock[l])
    /\ u \in Users(lock[l])
    /\ IsCreator(l, u, f)
    /\ Saves(l, [lock[l] EXCEPT !.credentials[c] = NewCredential(u, f)])

(* handle_set_credential, Modify: keeps the bytes of the request, so         *)
(* save_state raises, now and until the credential is cleared                 *)
ModifyCredential(l, c, f) ==
    /\ c \in Credentials(lock[l])
    /\ f = lock[l].credentials[c].creator_fabric_index
    /\ Saves(l, [lock[l] EXCEPT !.credentials[c].data = "bytes",
                                !.credentials[c].supplied_by = f])

(* handle_clear_credential: all of them, those of a type, or one              *)
ClearCredentials(l, slots) ==
    Saves(l, [lock[l] EXCEPT !.credentials =
                 [c \in Slot |-> IF c \in slots THEN None ELSE @[c]]])

ClearCredential(l) ==
    \/ ClearCredentials(l, Slot)
    \/ \E t \in CredentialType : ClearCredentials(l, {t} \X CredentialIndex)
    \/ \E c \in Credentials(lock[l]) :
          c[2] # EveryIndex /\ ClearCredentials(l, {c})

(* handle_set_aliro_reader_config answers INVALID_IN_STATE when there is one  *)
SetAliroReaderConfig(l) ==
    /\ ~lock[l].aliro_reader_config
    /\ Saves(l, [lock[l] EXCEPT !.aliro_reader_config = TRUE])

ClearAliroReaderConfig(l) ==
    Saves(l, [lock[l] EXCEPT !.aliro_reader_config = FALSE])

(* the process stops between two handlers                                    *)
Stop ==
    /\ process = "running"
    /\ process' = "stopped"
    /\ UNCHANGED <<lock, file, reported, saved, saver, failures>>

(* or after save_custom_state opened the file, which truncates it.  Some      *)
(* handler can always get there: clearing every credential does               *)
StopInSave ==
    /\ process = "running"
    /\ process' = "stopped in a save"
    /\ file' = None
    /\ UNCHANGED <<lock, reported, saved, saver, failures>>

(* every lock of a process that starts loads the same file; without JSON in   *)
(* it the first lock saves the factory state                                 *)
Start ==
    LET s == IF file = None THEN Factory ELSE file
    IN  /\ process # "running"
        /\ process' = "running"
        /\ lock' = [l \in Lock |-> s]
        /\ file' = s
        /\ reported' = [l \in Lock |-> s.locked]
        /\ saved' = [l \in Lock |-> s]
        /\ saver' = None
        /\ failures' = [l \in Lock |-> 0]
-----------------------------------------------------------------------------
Init ==
    /\ lock = [l \in Lock |-> Factory]
    /\ file = Factory
    /\ process = "running"
    /\ reported = [l \in Lock |-> TRUE]
    /\ saved = lock
    /\ saver = None
    /\ failures = [l \in Lock |-> 0]

Operate(l) == \E b \in BOOLEAN : SetLocked(l, b)

Status == {"OccupiedEnabled", "OccupiedDisabled"}

SetUser(l, f) ==
    \E u \in UserIndex, status \in Status :
        \/ AddUser(l, u, f, status)
        \/ \E names, valid \in BOOLEAN : ModifyUser(l, u, f, names, status, valid)

SetCredential(l, f) ==
    \E c \in Slot :
        \/ \E status \in Status, valid \in BOOLEAN :
              AddCredentialAndUser(l, c, f, status, valid)
        \/ \E u \in UserIndex : AddCredential(l, c, u, f)
        \/ ModifyCredential(l, c, f)

Configure(l) == SetAliroReaderConfig(l) \/ ClearAliroReaderConfig(l)

Administer(l) ==
    /\ \/ \E f \in FabricIndex : SetUser(l, f) \/ SetCredential(l, f)
       \/ \E u \in UserIndex : ClearUser(l, u)
       \/ ClearCredential(l)
       \/ Configure(l)
    /\ UNCHANGED reported

Next ==
    \/ \E l \in Lock : Operate(l) \/ Administer(l)
    \/ Stop \/ StopInSave \/ Start

Spec == Init /\ [][Next]_vars
-----------------------------------------------------------------------------
(* Referential integrity, across clears of users, failed additions, reuse of  *)
(* user indices and restarts: a credential belongs to a user that exists and  *)
(* to the fabric that created that user.                                      *)
Consistent(s) ==
    \A c \in Credentials(s) :
        LET credential == s.credentials[c]
        IN  /\ credential.user_index \in Users(s)
            /\ credential.creator_fabric_index
                 = s.users[credential.user_index].creator_fabric_index

(* What only the creator may decide was decided by the creator: the name of   *)
(* a user and the key of a credential, however the two were modified.         *)
DecidedByCreator(s) ==
    /\ \A u \in Users(s) : s.users[u].named_by = s.users[u].creator_fabric_index
    /\ \A c \in Credentials(s) :
          s.credentials[c].supplied_by
            = s.users[s.credentials[c].user_index].creator_fabric_index

CredentialsBelongToUsers ==
    \A l \in Lock : Consistent(lock[l]) /\ DecidedByCreator(lock[l])

(* A start never fails: the file holds only credentials that load, of users   *)
(* that exist, whatever handlers raised before the process stopped.           *)
FileLoads == file # None => Serializable(file) /\ Consistent(file)

(* A start brings every lock back to what it held when it last saved: what a   *)
(* handler left that raised, before its save or in it, neither survives by    *)
(* itself nor costs what was saved before.  There are two exceptions.  All     *)
(* locks share one file, so a lock gets what another held if that one saved  *)
(* last; and a stop in the middle of a save costs every lock all it had.      *)
StartsAsSaved ==
    [][process # "running" /\ process' = "running"
         => \A l \in Lock :
               \/ lock'[l] = saved[l]
               \/ saver \in Lock \ {l} /\ lock'[l] = saved[saver]
               \/ process = "stopped in a save" /\ lock'[l] = Factory]_vars

(* A change of the bolt goes unreported to subscribers only when the save     *)
(* before the report failed.                                                  *)
BoltIsReported ==
    [][\A l \in Lock :
          lock'[l].locked # lock[l].locked
             => reported'[l] = lock'[l].locked \/ ~Serializable(lock'[l])]_vars
=============================================================================
