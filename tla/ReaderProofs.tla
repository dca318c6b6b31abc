---------------------------- MODULE ReaderProofs ----------------------------
(***************************************************************************)
(* Proofs about the lock and its readers: DoorLock, NfcHandler and           *)
(* NfcInteract, for any locks, fabrics, indices, front ends, targets,         *)
(* requests and failures.                                                   *)
(*                                                                         *)
(* What a handler of the door lock leaves is well formed, and what is well    *)
(* formed may be saved.  Readers and commands together implement the door    *)
(* lock, and a credential that was cleared is used at most once more for     *)
(* each front end: each use ends the transaction that still held the         *)
(* credential, and none that begins afterwards holds it.                    *)
(*                                                                         *)
(* The queues and tasks of a front end implement TargetSession, and a reader  *)
(* that takes turns gets its response to the transaction it is for           *)
(* (TurnTaking).                                                            *)
(***************************************************************************)
EXTENDS NfcHandler, NfcInteract, FiniteSetTheorems, TLAPS

WellFormed(s) == s \in LockState /\ Consistent(s) /\ DecidedByCreator(s)

(* What the file holds is well formed too, or a start would spoil the locks.   *)
DoorLockInv ==
    /\ DoorLockTypeOK
    /\ \A l \in Lock : WellFormed(lock[l])
    /\ file # None => WellFormed(file) /\ Serializable(file)

LEMMA FactoryWellFormed == WellFormed(Factory) /\ Serializable(Factory)
BY DEF WellFormed, Factory, LockState, Consistent, DecidedByCreator, Users,
       Credentials, Serializable

(* A handler that raises leaves a well formed lock and the file as it was.     *)
LEMMA RaisesKeeps ==
    ASSUME DoorLockInv, NEW l \in Lock, NEW s, WellFormed(s), Raises(l, s),
           reported' \in [Lock -> BOOLEAN]
    PROVE  DoorLockInv'
<1> USE DEF DoorLockInv, DoorLockTypeOK
<1>1. lock' \in [Lock -> LockState]
  BY DEF Raises, WellFormed
<1>2. failures' \in [Lock -> 0 .. MaxFailures]
  BY DoorLockAssumption DEF Raises
<1>3. \A m \in Lock : WellFormed(lock'[m])
  BY DEF Raises
<1>4. UNCHANGED <<file, process, saved, saver>>
  BY DEF Raises
<1> QED
  BY <1>1, <1>2, <1>3, <1>4 DEF WellFormed, Consistent, DecidedByCreator,
     Serializable, Users, Credentials

LEMMA SavesKeeps ==
    ASSUME DoorLockInv, NEW l \in Lock, NEW s, WellFormed(s), Saves(l, s),
           reported' \in [Lock -> BOOLEAN]
    PROVE  DoorLockInv'
<1>1. CASE Raises(l, s)
  BY <1>1, RaisesKeeps
<1>2. CASE SaveSucceeds(l, s)
  <2>0. /\ Serializable(s)
        /\ lock' = [lock EXCEPT ![l] = s]
        /\ file' = s
        /\ saved' = [saved EXCEPT ![l] = s]
        /\ saver' = l
        /\ failures' = [failures EXCEPT ![l] = 0]
        /\ UNCHANGED process
    BY <1>2 DEF SaveSucceeds
  <2>1. /\ lock' \in [Lock -> LockState]
        /\ file' \in LockState
        /\ saved' \in [Lock -> LockState]
        /\ failures' \in [Lock -> 0 .. MaxFailures]
    <3>1. s \in LockState
      BY DEF WellFormed
    <3>2. 0 \in 0 .. MaxFailures
      BY DoorLockAssumption
    <3>3. /\ lock \in [Lock -> LockState] /\ saved \in [Lock -> LockState]
          /\ failures \in [Lock -> 0 .. MaxFailures]
      BY DEF DoorLockInv, DoorLockTypeOK
    <3> QED
      BY <2>0, <3>1, <3>2, <3>3
  <2>2. \A m \in Lock : WellFormed(lock'[m])
    BY <2>0 DEF DoorLockInv, DoorLockTypeOK
  <2> QED
    BY <2>0, <2>1, <2>2
    DEF DoorLockInv, DoorLockTypeOK, WellFormed, Consistent, DecidedByCreator,
        Serializable, Users, Credentials
<1> QED
  BY <1>1, <1>2 DEF Saves
-----------------------------------------------------------------------------
(* What each handler leaves is well formed.  A user inserted where there was   *)
(* none disturbs no credential: none refers to it.                             *)
LEMMA NewUserWellFormed ==
    ASSUME NEW s, WellFormed(s), NEW u \in UserIndex \ Users(s),
           NEW f \in FabricIndex, NEW status \in Status
    PROVE  /\ WellFormed([s EXCEPT !.users[u] = NewUser(f, status)])
           /\ Users([s EXCEPT !.users[u] = NewUser(f, status)])
                = Users(s) \cup {u}
<1> DEFINE t == [s EXCEPT !.users[u] = NewUser(f, status)]
<1>1. NewUser(f, status) \in LockUser /\ NewUser(f, status) # None
  BY NoLockAssumption DEF NewUser, LockUser, Status
<1>2. t \in LockState
  BY <1>1 DEF WellFormed, LockState
<1>3. /\ t.users[u] = NewUser(f, status)
      /\ \A v \in UserIndex \ {u} : t.users[v] = s.users[v]
      /\ t.credentials = s.credentials
  BY DEF WellFormed, LockState
<1>4. Users(t) = Users(s) \cup {u} /\ Credentials(t) = Credentials(s)
  BY <1>1, <1>3 DEF Users, Credentials
<1>5. \A c \in Credentials(s) : s.credentials[c].user_index \in Users(s) \ {u}
  BY DEF WellFormed, Consistent
<1>6. Consistent(t)
  BY <1>3, <1>4, <1>5 DEF WellFormed, Consistent, Users
<1>7. DecidedByCreator(t)
  BY <1>3, <1>4, <1>5 DEF WellFormed, DecidedByCreator, Users, NewUser
<1> QED
  BY <1>2, <1>4, <1>6, <1>7 DEF WellFormed

(* A credential stored by the creator of its user.                             *)
LEMMA NewCredentialWellFormed ==
    ASSUME NEW s, WellFormed(s), NEW c \in Slot, NEW u \in Users(s),
           NEW f \in FabricIndex, f = s.users[u].creator_fabric_index
    PROVE  WellFormed([s EXCEPT !.credentials[c] = NewCredential(u, f)])
<1> DEFINE t == [s EXCEPT !.credentials[c] = NewCredential(u, f)]
<1>1. NewCredential(u, f) \in LockCredential /\ NewCredential(u, f) # None
  BY NoLockAssumption DEF NewCredential, LockCredential, Users
<1>2. t \in LockState
  BY <1>1 DEF WellFormed, LockState
<1>3. /\ t.credentials[c] = NewCredential(u, f)
      /\ \A d \in Slot \ {c} : t.credentials[d] = s.credentials[d]
      /\ t.users = s.users
  BY DEF WellFormed, LockState
<1>4. Users(t) = Users(s) /\ Credentials(t) = Credentials(s) \cup {c}
  BY <1>1, <1>3 DEF Users, Credentials
<1>5. Consistent(t)
  BY <1>3, <1>4 DEF WellFormed, Consistent, NewCredential
<1>6. DecidedByCreator(t)
  BY <1>3, <1>4 DEF WellFormed, DecidedByCreator, NewCredential
<1> QED
  BY <1>2, <1>5, <1>6 DEF WellFormed

LEMMA ModifiedUserWellFormed ==
    ASSUME NEW s, WellFormed(s), NEW u \in Users(s), NEW f \in FabricIndex,
           NEW status \in Status, NEW names \in BOOLEAN,
           names => f = s.users[u].creator_fabric_index
    PROVE  WellFormed([s EXCEPT !.users[u].named_by = IF names THEN f ELSE @,
                                !.users[u].user_status = status])
<1> DEFINE user == [s.users[u] EXCEPT !.named_by = IF names THEN f ELSE @,
                                      !.user_status = status]
           t == [s EXCEPT !.users[u] = user]
<1>1. s.users[u] \in LockUser
  BY DEF WellFormed, LockState, Users
<1>2. user \in LockUser /\ user # None
  BY <1>1, NoLockAssumption DEF LockUser, Status
<1>3. t \in LockState
  BY <1>2 DEF WellFormed, LockState, Users
<1>4. /\ t.users[u] = user
      /\ \A v \in UserIndex \ {u} : t.users[v] = s.users[v]
      /\ t.credentials = s.credentials
  BY DEF WellFormed, LockState, Users
<1>5. Users(t) = Users(s) /\ Credentials(t) = Credentials(s)
  BY <1>2, <1>4 DEF Users, Credentials
<1>6. /\ user.creator_fabric_index = s.users[u].creator_fabric_index
      /\ user.named_by = s.users[u].creator_fabric_index
  BY <1>1 DEF LockUser, WellFormed, DecidedByCreator
<1>7. Consistent(t)
  BY <1>4, <1>5, <1>6 DEF WellFormed, Consistent, Users
<1>8. DecidedByCreator(t)
  BY <1>4, <1>5, <1>6 DEF WellFormed, Consistent, DecidedByCreator, Users
<1>9. t = [s EXCEPT !.users[u].named_by = IF names THEN f ELSE @,
                    !.users[u].user_status = status]
  BY <1>1 DEF WellFormed, LockState, Users, LockUser
<1> QED
  BY <1>3, <1>7, <1>8, <1>9 DEF WellFormed

(* handle_set_credential, Modify, by the creator: only the data changes.       *)
LEMMA ModifiedCredentialWellFormed ==
    ASSUME NEW s, WellFormed(s), NEW c \in Credentials(s), NEW f \in FabricIndex,
           f = s.credentials[c].creator_fabric_index
    PROVE  WellFormed([s EXCEPT !.credentials[c].data = "bytes",
                                !.credentials[c].supplied_by = f])
<1> DEFINE credential == [s.credentials[c] EXCEPT !.data = "bytes",
                                                  !.supplied_by = f]
           t == [s EXCEPT !.credentials[c] = credential]
<1>1. s.credentials[c] \in LockCredential
  BY DEF WellFormed, LockState, Credentials
<1>2. credential \in LockCredential /\ credential # None
  BY <1>1, NoLockAssumption DEF LockCredential
<1>3. t \in LockState
  BY <1>2 DEF WellFormed, LockState, Credentials
<1>4. /\ t.credentials[c] = credential
      /\ \A d \in Slot \ {c} : t.credentials[d] = s.credentials[d]
      /\ t.users = s.users
  BY DEF WellFormed, LockState, Credentials
<1>5. Users(t) = Users(s) /\ Credentials(t) = Credentials(s)
  BY <1>2, <1>4 DEF Users, Credentials
<1>6. /\ credential.creator_fabric_index = f
      /\ credential.supplied_by = f
      /\ credential.user_index = s.credentials[c].user_index
  BY <1>1 DEF LockCredential
<1>7. Consistent(t)
  BY <1>4, <1>5, <1>6 DEF WellFormed, Consistent, Credentials
<1>8. DecidedByCreator(t)
  BY <1>4, <1>5, <1>6
  DEF WellFormed, Consistent, DecidedByCreator, Credentials
<1>9. t = [s EXCEPT !.credentials[c].data = "bytes",
                    !.credentials[c].supplied_by = f]
  BY <1>1 DEF WellFormed, LockState, Credentials, LockCredential
<1> QED
  BY <1>3, <1>7, <1>8, <1>9 DEF WellFormed

(* Users may go when the credentials that refer to them go with them; the      *)
(* credentials that stay are as they were.                                     *)
LEMMA RemovalWellFormed ==
    ASSUME NEW s, WellFormed(s), NEW gone \in SUBSET UserIndex,
           NEW slots \in SUBSET Slot,
           \A c \in Credentials(s) : s.credentials[c].user_index \in gone
                                        => c \in slots
    PROVE  WellFormed([s EXCEPT
              !.users = [v \in UserIndex |-> IF v \in gone THEN None ELSE @[v]],
              !.credentials = [c \in Slot |->
                                 IF c \in slots THEN None ELSE @[c]]])
<1> DEFINE t == [s EXCEPT
              !.users = [v \in UserIndex |-> IF v \in gone THEN None ELSE @[v]],
              !.credentials = [c \in Slot |->
                                 IF c \in slots THEN None ELSE @[c]]]
<1>1. t \in LockState
  BY DEF WellFormed, LockState
<1>2. /\ \A v \in UserIndex \ gone : t.users[v] = s.users[v]
      /\ \A v \in gone : t.users[v] = None
      /\ \A c \in Slot \ slots : t.credentials[c] = s.credentials[c]
      /\ \A c \in slots : t.credentials[c] = None
  BY DEF WellFormed, LockState
<1>3. /\ Users(t) = Users(s) \ gone
      /\ Credentials(t) = Credentials(s) \ slots
  BY <1>2 DEF Users, Credentials
<1> HIDE DEF t
<1>4. ASSUME NEW c \in Credentials(t)
      PROVE  /\ c \in Credentials(s) /\ t.credentials[c] = s.credentials[c]
             /\ s.credentials[c].user_index \in Users(t)
             /\ t.users[s.credentials[c].user_index] = s.users[s.credentials[c].user_index]
  <2>1. /\ c \in Credentials(s) /\ c \notin slots
        /\ s.credentials[c].user_index \in Users(s) \ gone
    BY <1>3, <1>4 DEF WellFormed, Consistent
  <2> QED
    BY <1>2, <1>3, <2>1 DEF Users, Credentials
<1>5. Consistent(t)
  BY <1>4 DEF WellFormed, Consistent
<1>6. DecidedByCreator(t)
  BY <1>2, <1>3, <1>4 DEF WellFormed, DecidedByCreator, Users
<1> QED
  BY <1>1, <1>5, <1>6 DEF WellFormed, t

(* The bolt and the reader configuration have nothing to do with users.        *)
LEMMA SwitchesWellFormed ==
    ASSUME NEW s, WellFormed(s), NEW b \in BOOLEAN
    PROVE  /\ WellFormed([s EXCEPT !.locked = b])
           /\ WellFormed([s EXCEPT !.aliro_reader_config = b])
BY DEF WellFormed, LockState, Consistent, DecidedByCreator, Users, Credentials
-----------------------------------------------------------------------------
(* The handlers, one lemma for each.                                           *)
LEMMA OperateKeeps ==
    ASSUME DoorLockInv, NEW l \in Lock, Operate(l)
    PROVE  DoorLockInv'
<1>1. PICK b \in BOOLEAN : SetLocked(l, b)
  BY DEF Operate
<1>2. reported' \in [Lock -> BOOLEAN]
  BY <1>1 DEF SetLocked, DoorLockInv, DoorLockTypeOK
<1>3. WellFormed([lock[l] EXCEPT !.locked = b])
  BY SwitchesWellFormed DEF DoorLockInv
<1> QED
  BY <1>1, <1>2, <1>3, SavesKeeps DEF SetLocked

LEMMA SetUserKeeps ==
    ASSUME DoorLockInv, NEW l \in Lock, NEW f \in FabricIndex, SetUser(l, f),
           UNCHANGED reported
    PROVE  DoorLockInv'
<1>1. PICK u \in UserIndex, status \in Status :
          \/ AddUser(l, u, f, status)
          \/ \E names, valid \in BOOLEAN : ModifyUser(l, u, f, names, status, valid)
  BY DEF SetUser
<1>2. reported' \in [Lock -> BOOLEAN] /\ WellFormed(lock[l])
  BY DEF DoorLockInv, DoorLockTypeOK
<1>3. CASE AddUser(l, u, f, status)
  <2>1. WellFormed([lock[l] EXCEPT !.users[u] = NewUser(f, status)])
    BY <1>2, <1>3, NewUserWellFormed DEF AddUser
  <2> QED
    BY <1>2, <1>3, <2>1, SavesKeeps DEF AddUser
<1>4. ASSUME NEW names \in BOOLEAN, NEW valid \in BOOLEAN,
             ModifyUser(l, u, f, names, status, valid)
      PROVE  DoorLockInv'
  <2> DEFINE s == [lock[l] EXCEPT !.users[u].named_by = IF names THEN f ELSE @,
                                  !.users[u].user_status = status]
  <2>1. u \in Users(lock[l]) /\ (Saves(l, s) \/ Raises(l, s))
    BY <1>4 DEF ModifyUser
  <2>2. names => f = lock[l].users[u].creator_fabric_index
    BY <1>4 DEF ModifyUser, IsCreator
  <2>3. WellFormed(s)
    BY <1>2, <2>1, <2>2, ModifiedUserWellFormed
  <2> HIDE DEF s
  <2> QED
    BY <1>2, <2>1, <2>3, SavesKeeps, RaisesKeeps
<1> QED
  BY <1>1, <1>3, <1>4

LEMMA ClearUserKeeps ==
    ASSUME DoorLockInv, NEW l \in Lock, NEW u \in UserIndex, ClearUser(l, u),
           UNCHANGED reported
    PROVE  DoorLockInv'
<1> DEFINE gone == IF u = MaxUserIndex THEN UserIndex ELSE {u}
           slots == {c \in Slot : /\ lock[l].credentials[c] # None
                                  /\ lock[l].credentials[c].user_index \in gone}
           s == [lock[l] EXCEPT
              !.users = [v \in UserIndex |-> IF v \in gone THEN None ELSE @[v]],
              !.credentials = [c \in Slot |->
                                 IF c \in slots THEN None ELSE @[c]]]
<1>1. reported' \in [Lock -> BOOLEAN] /\ WellFormed(lock[l])
  BY DEF DoorLockInv, DoorLockTypeOK
<1>2. Saves(l, [lock[l] EXCEPT
              !.users = [v \in UserIndex |-> IF v \in gone THEN None ELSE @[v]],
              !.credentials = [c \in Slot |->
                 IF @[c] # None /\ @[c].user_index \in gone THEN None
                                                            ELSE @[c]]])
  BY DEF ClearUser
<1>3. [c \in Slot |-> IF /\ lock[l].credentials[c] # None
                         /\ lock[l].credentials[c].user_index \in gone
                      THEN None ELSE lock[l].credentials[c]]
      = [c \in Slot |-> IF c \in slots THEN None ELSE lock[l].credentials[c]]
  OBVIOUS
<1>4. Saves(l, s)
  BY <1>2, <1>3
<1>5. WellFormed(s)
  <2>1. gone \in SUBSET UserIndex /\ slots \in SUBSET Slot
    OBVIOUS
  <2>2. \A c \in Credentials(lock[l]) :
           lock[l].credentials[c].user_index \in gone => c \in slots
    BY DEF Credentials
  <2> HIDE DEF gone, slots
  <2> QED
    BY <1>1, <2>1, <2>2, RemovalWellFormed
<1> HIDE DEF s
<1> QED
  BY <1>1, <1>4, <1>5, SavesKeeps

LEMMA SetCredentialKeeps ==
    ASSUME DoorLockInv, NEW l \in Lock, NEW f \in FabricIndex,
           SetCredential(l, f), UNCHANGED reported
    PROVE  DoorLockInv'
<1>1. reported' \in [Lock -> BOOLEAN] /\ WellFormed(lock[l])
  BY DEF DoorLockInv, DoorLockTypeOK
<1>2. PICK c \in Slot :
          \/ \E status \in Status, valid \in BOOLEAN :
                AddCredentialAndUser(l, c, f, status, valid)
          \/ \E u \in UserIndex : AddCredential(l, c, u, f)
          \/ ModifyCredential(l, c, f)
  BY DEF SetCredential
<1>3. ASSUME NEW status \in Status, NEW valid \in BOOLEAN,
             AddCredentialAndUser(l, c, f, status, valid)
      PROVE  DoorLockInv'
  <2>1. PICK u \in UserIndex :
            /\ IsNextUserIndex(u, Users(lock[l]))
            /\ LET s == [lock[l] EXCEPT !.users[u] = NewUser(f, status)]
               IN  IF valid
                   THEN Saves(l, [s EXCEPT !.credentials[c] = NewCredential(u, f)])
                   ELSE Raises(l, s)
    BY <1>3 DEF AddCredentialAndUser
  <2> DEFINE s == [lock[l] EXCEPT !.users[u] = NewUser(f, status)]
             t == [s EXCEPT !.credentials[c] = NewCredential(u, f)]
  <2>2. u \in UserIndex \ Users(lock[l])
    BY <2>1 DEF IsNextUserIndex
  <2>3. WellFormed(s) /\ u \in Users(s)
    BY <1>1, <2>2, NewUserWellFormed
  <2>4. f = s.users[u].creator_fabric_index
    BY <1>1 DEF WellFormed, LockState, NewUser
  <2>5. Raises(l, s) \/ Saves(l, t)
    BY <2>1
  <2> HIDE DEF s
  <2>6. WellFormed(t)
    BY <2>3, <2>4, NewCredentialWellFormed
  <2> HIDE DEF t
  <2> QED
    BY <1>1, <2>3, <2>5, <2>6, SavesKeeps, RaisesKeeps
<1>4. ASSUME NEW u \in UserIndex, AddCredential(l, c, u, f)
      PROVE  DoorLockInv'
  <2>1. WellFormed([lock[l] EXCEPT !.credentials[c] = NewCredential(u, f)])
    BY <1>1, <1>4, NewCredentialWellFormed DEF AddCredential, IsCreator
  <2> QED
    BY <1>1, <1>4, <2>1, SavesKeeps DEF AddCredential
<1>5. CASE ModifyCredential(l, c, f)
  <2>1. WellFormed([lock[l] EXCEPT !.credentials[c].data = "bytes",
                                   !.credentials[c].supplied_by = f])
    BY <1>1, <1>5, ModifiedCredentialWellFormed DEF ModifyCredential
  <2> QED
    BY <1>1, <1>5, <2>1, SavesKeeps DEF ModifyCredential
<1> QED
  BY <1>2, <1>3, <1>4, <1>5

LEMMA ClearCredentialsKeeps ==
    ASSUME DoorLockInv, NEW l \in Lock, NEW slots \in SUBSET Slot,
           ClearCredentials(l, slots), UNCHANGED reported
    PROVE  DoorLockInv'
<1> DEFINE nobody == {}
           s == [lock[l] EXCEPT
              !.users = [v \in UserIndex |->
                           IF v \in nobody THEN None ELSE @[v]],
              !.credentials = [c \in Slot |->
                                 IF c \in slots THEN None ELSE @[c]]]
<1>1. reported' \in [Lock -> BOOLEAN] /\ WellFormed(lock[l])
  BY DEF DoorLockInv, DoorLockTypeOK
<1>2. WellFormed(s)
  <2>1. /\ nobody \in SUBSET UserIndex
        /\ \A c \in Credentials(lock[l]) :
              lock[l].credentials[c].user_index \in nobody => c \in slots
    OBVIOUS
  <2> HIDE DEF nobody
  <2> QED
    BY <1>1, <2>1, RemovalWellFormed
<1>3. s = [lock[l] EXCEPT !.credentials =
              [c \in Slot |-> IF c \in slots THEN None ELSE @[c]]]
  BY <1>1 DEF WellFormed, LockState
<1> HIDE DEF s
<1> QED
  BY <1>1, <1>2, <1>3, SavesKeeps DEF ClearCredentials

LEMMA ClearCredentialKeeps ==
    ASSUME DoorLockInv, NEW l \in Lock, ClearCredential(l), UNCHANGED reported
    PROVE  DoorLockInv'
<1>1. PICK slots \in SUBSET Slot : ClearCredentials(l, slots)
  BY DEF ClearCredential, Credentials, Slot
<1> QED
  BY <1>1, ClearCredentialsKeeps

LEMMA ConfigureKeeps ==
    ASSUME DoorLockInv, NEW l \in Lock, Configure(l), UNCHANGED reported
    PROVE  DoorLockInv'
<1>1. PICK b \in BOOLEAN :
          Saves(l, [lock[l] EXCEPT !.aliro_reader_config = b])
  BY DEF Configure, SetAliroReaderConfig, ClearAliroReaderConfig
<1>2. /\ reported' \in [Lock -> BOOLEAN]
      /\ WellFormed([lock[l] EXCEPT !.aliro_reader_config = b])
  BY SwitchesWellFormed DEF DoorLockInv, DoorLockTypeOK
<1> QED
  BY <1>1, <1>2, SavesKeeps

LEMMA StopKeepsLock ==
    ASSUME DoorLockInv, Stop \/ StopInSave
    PROVE  DoorLockInv'
<1>1. /\ UNCHANGED <<lock, reported, saved, saver, failures>>
      /\ process' \in {"stopped", "stopped in a save"}
      /\ file' \in {file, None}
  BY DEF Stop, StopInSave
<1> QED
  BY <1>1
  DEF DoorLockInv, DoorLockTypeOK, WellFormed, Consistent, DecidedByCreator,
      Serializable, Users, Credentials

LEMMA StartKeeps ==
    ASSUME DoorLockInv, Start
    PROVE  DoorLockInv'
<1> DEFINE s == IF file = None THEN Factory ELSE file
<1>1. WellFormed(s) /\ Serializable(s)
  BY FactoryWellFormed DEF DoorLockInv
<1>2. /\ process' = "running"
      /\ lock' = [l \in Lock |-> s]
      /\ file' = s
      /\ reported' = [l \in Lock |-> s.locked]
      /\ saved' = [l \in Lock |-> s]
      /\ saver' = None
      /\ failures' = [l \in Lock |-> 0]
  BY DEF Start
<1> HIDE DEF s
<1>3. DoorLockTypeOK'
  BY <1>1, <1>2, DoorLockAssumption DEF DoorLockTypeOK, WellFormed, LockState
<1>4. /\ \A l \in Lock : lock'[l] = s
      /\ file' = s
  BY <1>2
<1> QED
  BY <1>1, <1>3, <1>4
  DEF DoorLockInv, WellFormed, Consistent, DecidedByCreator, Serializable,
      Users, Credentials
-----------------------------------------------------------------------------
LEMMA InitInv == Init => DoorLockInv
BY FactoryWellFormed, DoorLockAssumption
DEF Init, DoorLockInv, DoorLockTypeOK, WellFormed

LEMMA StepInv == DoorLockInv /\ [Next]_vars => DoorLockInv'
<1> SUFFICES ASSUME DoorLockInv, [Next]_vars
             PROVE  DoorLockInv'
  OBVIOUS
<1>1. ASSUME NEW l \in Lock, Operate(l) PROVE DoorLockInv'
  BY <1>1, OperateKeeps
<1>2. ASSUME NEW l \in Lock, Administer(l) PROVE DoorLockInv'
  BY <1>2, SetUserKeeps, SetCredentialKeeps, ClearUserKeeps,
     ClearCredentialKeeps, ConfigureKeeps DEF Administer
<1>3. CASE Stop \/ StopInSave
  BY <1>3, StopKeepsLock
<1>4. CASE Start
  BY <1>4, StartKeeps
<1>5. CASE UNCHANGED vars
  BY <1>5
  DEF vars, DoorLockInv, DoorLockTypeOK, WellFormed, Consistent,
      DecidedByCreator, Serializable, Users, Credentials
<1> QED
  BY <1>1, <1>2, <1>3, <1>4, <1>5 DEF Next

LEMMA Invariance == Spec => []DoorLockInv
BY InitInv, StepInv, PTL DEF Spec

(* Types, for any locks, fabrics and indices.                                  *)
THEOREM DoorLockTypeCorrect == Spec => []DoorLockTypeOK
<1>1. DoorLockInv => DoorLockTypeOK
  BY DEF DoorLockInv
<1> QED
  BY <1>1, Invariance, PTL

(* No sequence of commands, failures and restarts leaves a credential without  *)
(* its user or with a creator other than its user's, nor lets another fabric   *)
(* decide a name or a key.                                                     *)
THEOREM CredentialsAlwaysBelong == Spec => []CredentialsBelongToUsers
<1>1. DoorLockInv => CredentialsBelongToUsers
  BY DEF DoorLockInv, CredentialsBelongToUsers, WellFormed
<1> QED
  BY <1>1, Invariance, PTL

(* Whatever handlers raised, the file can be loaded and is consistent.         *)
THEOREM FileAlwaysLoads == Spec => []FileLoads
<1>1. DoorLockInv => FileLoads
  BY DEF DoorLockInv, FileLoads, WellFormed
<1> QED
  BY <1>1, Invariance, PTL
-----------------------------------------------------------------------------
Writes(l) ==
    \E s : s.locked = lock[l].locked /\ (Saves(l, s) \/ Raises(l, s))

(* Every command that does not operate the bolt writes a state that keeps it.  *)
LEMMA AdministerWrites ==
    ASSUME DoorLockInv, NEW l \in Lock, Administer(l)
    PROVE  Writes(l)
<1> USE DEF Writes
<1>1. lock[l] \in LockState
  BY DEF DoorLockInv, DoorLockTypeOK
<1>2. ASSUME NEW u \in UserIndex, NEW f \in FabricIndex, NEW status \in Status,
             AddUser(l, u, f, status)
      PROVE  Writes(l)
  BY <1>1, <1>2 DEF AddUser, LockState
<1>3. ASSUME NEW u \in UserIndex, NEW f \in FabricIndex, NEW status \in Status,
             NEW names \in BOOLEAN, NEW valid \in BOOLEAN,
             ModifyUser(l, u, f, names, status, valid)
      PROVE  Writes(l)
  BY <1>1, <1>3 DEF ModifyUser, LockState
<1>4. ASSUME NEW c \in Slot, NEW f \in FabricIndex, NEW status \in Status,
             NEW valid \in BOOLEAN, AddCredentialAndUser(l, c, f, status, valid)
      PROVE  Writes(l)
  <2>1. PICK u \in UserIndex :
            LET s == [lock[l] EXCEPT !.users[u] = NewUser(f, status)]
            IN  IF valid
                THEN Saves(l, [s EXCEPT !.credentials[c] = NewCredential(u, f)])
                ELSE Raises(l, s)
    BY <1>4, Zenon DEF AddCredentialAndUser
  <2> DEFINE s == [lock[l] EXCEPT !.users[u] = NewUser(f, status)]
             t == [s EXCEPT !.credentials[c] = NewCredential(u, f)]
  <2>2. s.locked = lock[l].locked /\ t.locked = lock[l].locked
    BY <1>1 DEF LockState
  <2>3. Saves(l, t) \/ Raises(l, s)
    BY <2>1, Zenon
  <2> HIDE DEF s, t
  <2> QED
    BY <2>2, <2>3
<1>5. ASSUME NEW c \in Slot, NEW u \in UserIndex, NEW f \in FabricIndex,
             AddCredential(l, c, u, f)
      PROVE  Writes(l)
  BY <1>1, <1>5 DEF AddCredential, LockState
<1>6. ASSUME NEW c \in Slot, NEW f \in FabricIndex, ModifyCredential(l, c, f)
      PROVE  Writes(l)
  BY <1>1, <1>6 DEF ModifyCredential, LockState
<1>7. ASSUME NEW u \in UserIndex, ClearUser(l, u) PROVE Writes(l)
  BY <1>1, <1>7 DEF ClearUser, LockState
<1>8. CASE ClearCredential(l)
  BY <1>1, <1>8 DEF ClearCredential, ClearCredentials, LockState
<1>9. CASE Configure(l)
  BY <1>1, <1>9
  DEF Configure, SetAliroReaderConfig, ClearAliroReaderConfig, LockState
<1> HIDE DEF Writes
<1>10. ASSUME NEW f \in FabricIndex, SetUser(l, f) PROVE Writes(l)
  BY <1>2, <1>3, <1>10 DEF SetUser
<1>11. ASSUME NEW f \in FabricIndex, SetCredential(l, f) PROVE Writes(l)
  BY <1>4, <1>5, <1>6, <1>11 DEF SetCredential
<1> QED
  BY <1>7, <1>8, <1>9, <1>10, <1>11 DEF Administer
-----------------------------------------------------------------------------
(* The file holds what the lock that saved last then held, whatever was raised *)
(* since: a start sets every lock to it, and a save that fails leaves it be.    *)
FileIsSaved ==
    /\ file = None <=> process = "stopped in a save"
    /\ file # None => /\ saver = None => \A l \in Lock : saved[l] = file
                      /\ saver # None => saved[saver] = file

LEMMA InitFileIsSaved == Init => FileIsSaved
BY FactoryWellFormed, NoLockAssumption DEF Init, FileIsSaved, WellFormed

LEMMA FileStaysSaved ==
    DoorLockInv /\ FileIsSaved /\ [Next]_vars => FileIsSaved'
<1> SUFFICES ASSUME DoorLockInv, FileIsSaved, [Next]_vars
             PROVE  FileIsSaved'
  OBVIOUS
<1>1. ASSUME NEW l \in Lock, NEW s, Raises(l, s) PROVE FileIsSaved'
  BY <1>1 DEF Raises, FileIsSaved
<1>2. ASSUME NEW l \in Lock, NEW s, SaveSucceeds(l, s), file' # None
      PROVE  FileIsSaved'
  BY <1>2, NoLockAssumption
  DEF SaveSucceeds, FileIsSaved, DoorLockInv, DoorLockTypeOK
<1>3. ASSUME NEW l \in Lock, NEW s, Saves(l, s), file' # None
      PROVE  FileIsSaved'
  BY <1>1, <1>2, <1>3 DEF Saves
<1>4. ASSUME NEW l \in Lock, Operate(l) \/ Administer(l) PROVE FileIsSaved'
  <2>1. PICK s : Saves(l, s) \/ Raises(l, s)
    BY <1>4, AdministerWrites DEF Writes, Operate, SetLocked
  <2>2. file' # None
    <3>1. DoorLockInv' /\ lock'[l] \in LockState
      BY <1>4, StepInv DEF Next, DoorLockInv, DoorLockTypeOK
    <3>2. lock'[l] = s
      BY <2>1 DEF Saves, SaveSucceeds, Raises, DoorLockInv, DoorLockTypeOK
    <3>3. file' \in {file, s} /\ process = "running"
      BY <2>1 DEF Saves, SaveSucceeds, Raises
    <3> QED
      BY <3>1, <3>2, <3>3, NoLockAssumption DEF FileIsSaved
  <2> QED
    BY <1>1, <1>3, <2>1, <2>2
<1>5. CASE Stop \/ StopInSave
  BY <1>5 DEF Stop, StopInSave, FileIsSaved
<1>6. CASE Start
  <2> DEFINE s == IF file = None THEN Factory ELSE file
  <2>1. /\ process' = "running" /\ file' = s
        /\ saved' = [l \in Lock |-> s] /\ saver' = None
    BY <1>6 DEF Start
  <2>2. s # None
    BY FactoryWellFormed, NoLockAssumption DEF WellFormed
  <2> HIDE DEF s
  <2> QED
    BY <2>1, <2>2 DEF FileIsSaved
<1>7. CASE UNCHANGED vars
  BY <1>7 DEF vars, FileIsSaved
<1> QED
  BY <1>4, <1>5, <1>6, <1>7 DEF Next

StartStep ==
    process # "running" /\ process' = "running"
        => \A l \in Lock :
              \/ lock'[l] = saved[l]
              \/ saver \in Lock \ {l} /\ lock'[l] = saved[saver]
              \/ process = "stopped in a save" /\ lock'[l] = Factory

(* For any number of locks, what a start gives a lock is what it held when it   *)
(* last saved, unless another lock saved later or the stop cut a save short.   *)
THEOREM StartsAsSavedHolds == Spec => StartsAsSaved
<1>1. DoorLockInv /\ FileIsSaved /\ [Next]_vars => [StartStep]_vars
  <2> SUFFICES ASSUME DoorLockInv, FileIsSaved, Next,
                      process # "running", process' = "running",
                      NEW l \in Lock
               PROVE  \/ lock'[l] = saved[l]
                      \/ saver \in Lock \ {l} /\ lock'[l] = saved[saver]
                      \/ process = "stopped in a save" /\ lock'[l] = Factory
    BY DEF StartStep
  <2>1. ASSUME NEW m \in Lock, Operate(m) \/ Administer(m) PROVE FALSE
    <3>1. PICK s : Saves(m, s) \/ Raises(m, s)
      BY <2>1, AdministerWrites DEF Writes, Operate, SetLocked
    <3> QED
      BY <3>1 DEF Saves, SaveSucceeds, Raises
  <2>2. Start
    BY <2>1 DEF Next, Stop, StopInSave
  <2>3. lock'[l] = IF file = None THEN Factory ELSE file
    BY <2>2 DEF Start
  <2>4. saver \in Lock \cup {None}
    BY DEF DoorLockInv, DoorLockTypeOK
  <2> QED
    BY <2>3, <2>4 DEF FileIsSaved
<1>2. Spec => []FileIsSaved
  BY InitFileIsSaved, FileStaysSaved, Invariance, PTL DEF Spec
<1>3. Spec => [][StartStep]_vars
  BY <1>1, <1>2, Invariance, PTL DEF Spec
<1> QED
  BY <1>3 DEF StartsAsSaved, StartStep
-----------------------------------------------------------------------------
BoltStep ==
    \A l \in Lock :
        lock'[l].locked # lock[l].locked
           => reported'[l] = lock'[l].locked \/ ~Serializable(lock'[l])

(* Only operating the bolt and a start move it.                                *)
LEMMA OthersKeepBolt ==
    ASSUME DoorLockInv, NEW l \in Lock, NEW s, s.locked = lock[l].locked,
           Saves(l, s) \/ Raises(l, s)
    PROVE  BoltStep
BY DEF Saves, SaveSucceeds, Raises, BoltStep, DoorLockInv, DoorLockTypeOK

LEMMA AdministerKeepsBolt ==
    ASSUME DoorLockInv, NEW l \in Lock, Administer(l)
    PROVE  BoltStep
<1>1. PICK s : s.locked = lock[l].locked /\ (Saves(l, s) \/ Raises(l, s))
  BY AdministerWrites DEF Writes
<1> QED
  BY <1>1, OthersKeepBolt

(* The bolt never moves unreported while saving works.                         *)
THEOREM BoltAlwaysReported == Spec => BoltIsReported
<1>1. DoorLockInv /\ [Next]_vars => [BoltStep]_vars
  <2> SUFFICES ASSUME DoorLockInv, Next PROVE BoltStep
    OBVIOUS
  <2>1. ASSUME NEW l \in Lock, Operate(l) PROVE BoltStep
    <3>1. PICK b \in BOOLEAN : SetLocked(l, b)
      BY <2>1 DEF Operate
    <3> DEFINE s == [lock[l] EXCEPT !.locked = b]
    <3>2. s.locked = b /\ (Saves(l, s) \/ Raises(l, s))
      BY <3>1 DEF SetLocked, DoorLockInv, DoorLockTypeOK, LockState
    <3>3. reported' = IF Serializable(s) THEN [reported EXCEPT ![l] = b]
                                         ELSE reported
      BY <3>1 DEF SetLocked
    <3> HIDE DEF s
    <3>4. lock' = [lock EXCEPT ![l] = s]
      BY <3>2 DEF Saves, SaveSucceeds, Raises
    <3> QED
      BY <3>2, <3>3, <3>4 DEF BoltStep, DoorLockInv, DoorLockTypeOK
  <2>2. CASE Stop \/ StopInSave \/ Start
    <3>1. CASE Stop \/ StopInSave
      BY <3>1 DEF Stop, StopInSave, BoltStep
    <3>2. CASE Start
      <4>1. PICK s : lock' = [m \in Lock |-> s] /\ reported' = [m \in Lock |-> s.locked]
        BY <3>2, Zenon DEF Start
      <4> QED
        BY <4>1 DEF BoltStep
    <3> QED
      BY <2>2, <3>1, <3>2
  <2> QED
    BY <2>1, <2>2, AdministerKeepsBolt DEF Next
<1>2. Spec => [][BoltStep]_vars
  BY <1>1, Invariance, PTL DEF Spec
<1> QED
  BY <1>2 DEF BoltIsReported, BoltStep
-----------------------------------------------------------------------------
Holding(l, c) ==
    {r \in Running : LockOf[r] = l /\ c \in transaction[r].known}

UsesLeft(l, c) ==
    /\ late[l][c] <= Cardinality(Reader)
    /\ c \notin Credentials(lock[l])
         => late[l][c] + Cardinality(Holding(l, c)) <= Cardinality(Reader)

HandlerInv ==
    /\ DoorLockInv
    /\ transaction \in [Reader -> [known : SUBSET Slot] \cup {None}]
    /\ late \in [Lock -> [Slot -> Nat]]
    /\ \A l \in Lock, c \in Slot : UsesLeft(l, c)
-----------------------------------------------------------------------------
(* Every step of readers and commands is a step of the door lock or a stutter.  *)
LEMMA StepImplements == ASSUME [HandlerNext]_handlerVars PROVE [Next]_vars
<1>1. ASSUME NEW r \in Reader, NewTarget(r) \/ Fail(r) PROVE UNCHANGED vars
  BY <1>1 DEF NewTarget, Fail
<1>2. ASSUME NEW r \in Reader, Succeed(r) PROVE Next
  <2>1. LockOf[r] \in Lock
    BY NfcHandlerAssumption
  <2>2. (~lock[LockOf[r]].locked) \in BOOLEAN
    OBVIOUS
  <2>3. Operate(LockOf[r])
    BY <1>2, <2>2 DEF Succeed, Operate
  <2> QED
    BY <2>1, <2>3 DEF Next
<1>3. ASSUME NEW l \in Lock, Invoke(l) PROVE Next
  BY <1>3 DEF Invoke, Next
<1>4. CASE Restarts
  BY <1>4 DEF Restarts, Next
<1>5. CASE UNCHANGED handlerVars
  BY <1>5 DEF handlerVars
<1> QED
  BY <1>1, <1>2, <1>3, <1>4, <1>5 DEF HandlerNext

(* nfc_handler does to the lock only what a command may do.                     *)
THEOREM HandlerImplementsDoorLock == HandlerSpec => Spec
<1>1. HandlerInit => Init
  BY DEF HandlerInit
<1> QED
  BY <1>1, StepImplements, PTL DEF HandlerSpec, Spec
-----------------------------------------------------------------------------
(* A command for one lock leaves the others as they are.                        *)
LEMMA OthersStay ==
    ASSUME DoorLockInv, NEW l \in Lock, NEW s, Saves(l, s) \/ Raises(l, s)
    PROVE  \A m \in Lock \ {l} : lock'[m] = lock[m]
BY DEF Saves, SaveSucceeds, Raises, DoorLockInv, DoorLockTypeOK

LEMMA CommandIsLocal ==
    ASSUME DoorLockInv, NEW l \in Lock, Operate(l) \/ Administer(l)
    PROVE  \A m \in Lock \ {l} : lock'[m] = lock[m]
<1>1. CASE Operate(l)
  <2>1. PICK s : Saves(l, s)
    BY <1>1 DEF Operate, SetLocked
  <2> QED
    BY <2>1, OthersStay
<1>2. CASE Administer(l)
  <2>1. PICK s : Saves(l, s) \/ Raises(l, s)
    BY <1>2, AdministerWrites DEF Writes
  <2> QED
    BY <2>1, OthersStay
<1> QED
  BY <1>1, <1>2

(* Moving the bolt leaves every lock its credentials.                           *)
LEMMA BoltKeepsCredentials ==
    ASSUME DoorLockInv, NEW l \in Lock, NEW b \in BOOLEAN, SetLocked(l, b)
    PROVE  \A m \in Lock : Credentials(lock'[m]) = Credentials(lock[m])
<1> DEFINE s == [lock[l] EXCEPT !.locked = b]
<1>1. s.credentials = lock[l].credentials
  BY DEF DoorLockInv, DoorLockTypeOK, LockState
<1>2. lock' = [lock EXCEPT ![l] = s]
  BY DEF SetLocked, Saves, SaveSucceeds, Raises
<1> HIDE DEF s
<1> QED
  BY <1>1, <1>2 DEF Credentials, DoorLockInv, DoorLockTypeOK

LEMMA HoldingIsFinite ==
    ASSUME NEW l, NEW c
    PROVE  /\ IsFiniteSet(Holding(l, c))
           /\ Cardinality(Holding(l, c)) \in Nat
           /\ Cardinality(Reader) \in Nat
           /\ Cardinality(Holding(l, c)) <= Cardinality(Reader)
<1>1. Holding(l, c) \in SUBSET Reader
  BY DEF Holding, Running
<1> QED
  BY <1>1, NfcHandlerAssumption, FS_Subset, FS_CardinalityType

(* Uses do not grow where fewer transactions hold what was cleared.             *)
LEMMA FewerHolders ==
    ASSUME NEW l \in Lock, NEW c \in Slot, UsesLeft(l, c),
           late \in [Lock -> [Slot -> Nat]],
           late'[l][c] = late[l][c],
           Credentials(lock'[l]) = Credentials(lock[l]),
           c \notin Credentials(lock[l]) => Holding(l, c)' \subseteq Holding(l, c)
    PROVE  UsesLeft(l, c)'
<1>1. CASE c \in Credentials(lock[l])
  BY <1>1 DEF UsesLeft
<1>2. CASE c \notin Credentials(lock[l])
  <2>1. Holding(l, c)' \in SUBSET Holding(l, c)
    BY <1>2
  <2>2. /\ IsFiniteSet(Holding(l, c)')
        /\ Cardinality(Holding(l, c)') <= Cardinality(Holding(l, c))
    BY <2>1, HoldingIsFinite, FS_Subset
  <2>3. Cardinality(Holding(l, c)') \in Nat
    BY <2>2, FS_CardinalityType
  <2>4. late[l][c] \in Nat
    OBVIOUS
  <2> HIDE DEF Holding
  <2> QED
    BY <1>2, <2>2, <2>3, <2>4, HoldingIsFinite DEF UsesLeft
<1> QED
  BY <1>1, <1>2
-----------------------------------------------------------------------------
LEMMA BeginKeeps ==
    ASSUME HandlerInv, NEW r \in Reader, NewTarget(r)
    PROVE  HandlerInv'
<1>1. DoorLockInv'
  BY StepInv DEF NewTarget, HandlerInv
<1>2. /\ UNCHANGED <<vars, late>>
      /\ transaction' =
            [transaction EXCEPT ![r] = [known |-> Known(LockOf[r])]]
  BY DEF NewTarget
<1>3. Known(LockOf[r]) \in SUBSET Slot
  BY DEF Known, Credentials
<1>4. transaction' \in [Reader -> [known : SUBSET Slot] \cup {None}]
  BY <1>2, <1>3 DEF HandlerInv
<1>5. ASSUME NEW l \in Lock, NEW c \in Slot, c \notin Credentials(lock[l])
      PROVE  Holding(l, c)' \subseteq Holding(l, c)
  BY <1>2, <1>5 DEF Holding, Running, Known, HandlerInv
<1>6. ASSUME NEW l \in Lock, NEW c \in Slot PROVE UsesLeft(l, c)'
  <2>1. lock' = lock /\ late' = late
    BY <1>2 DEF vars
  <2> QED
    BY <1>5, <2>1, FewerHolders DEF HandlerInv
<1> QED
  BY <1>1, <1>2, <1>4, <1>6 DEF HandlerInv

LEMMA FailKeeps ==
    ASSUME HandlerInv, NEW r \in Reader, Fail(r)
    PROVE  HandlerInv'
<1>1. DoorLockInv'
  BY StepInv DEF Fail, HandlerInv
<1>2. /\ UNCHANGED <<vars, late>>
      /\ transaction' = [transaction EXCEPT ![r] = None]
  BY DEF Fail
<1>3. ASSUME NEW l \in Lock, NEW c \in Slot PROVE UsesLeft(l, c)'
  <2>1. Holding(l, c)' \subseteq Holding(l, c)
    BY <1>2 DEF Holding, Running, HandlerInv
  <2>2. lock' = lock /\ late' = late
    BY <1>2 DEF vars
  <2> QED
    BY <2>1, <2>2, FewerHolders DEF HandlerInv
<1> QED
  BY <1>1, <1>2, <1>3 DEF HandlerInv

(* A late use takes a holder away for the use it counts.                        *)
LEMMA SucceedKeeps ==
    ASSUME HandlerInv, NEW r \in Reader, Succeed(r)
    PROVE  HandlerInv'
<1> DEFINE l == LockOf[r]
<1>1. l \in Lock
  BY NfcHandlerAssumption
<1>2. SetLocked(l, ~lock[l].locked) /\ (~lock[l].locked) \in BOOLEAN
  BY DEF Succeed
<1>3. DoorLockInv'
  BY <1>1, <1>2, StepInv DEF Next, Operate, HandlerInv
<1>4. \A m \in Lock : Credentials(lock'[m]) = Credentials(lock[m])
  BY <1>1, <1>2, BoltKeepsCredentials DEF HandlerInv
<1>5. PICK c \in transaction[r].known :
          late' = IF c \notin Credentials(lock[l])
                  THEN [late EXCEPT ![l][c] = @ + 1] ELSE late
  BY DEF Succeed
<1>6. r \in Running /\ transaction' = [transaction EXCEPT ![r] = None]
  BY DEF Succeed
<1>7. c \in Slot
  BY <1>5, <1>6 DEF HandlerInv, Running
<1>8. late' \in [Lock -> [Slot -> Nat]]
  BY <1>1, <1>5, <1>7 DEF HandlerInv
<1>9. \A m \in Lock, d \in Slot : Holding(m, d)' \subseteq Holding(m, d)
  BY <1>6 DEF Holding, Running, HandlerInv
<1>10. ASSUME NEW m \in Lock, NEW d \in Slot PROVE UsesLeft(m, d)'
  <2>1. CASE late'[m][d] = late[m][d]
    BY <1>4, <1>9, <2>1, FewerHolders DEF HandlerInv
  <2>2. CASE late'[m][d] # late[m][d]
    <3>1. m = l /\ d = c /\ c \notin Credentials(lock[l])
      BY <1>1, <1>5, <1>7, <2>2 DEF HandlerInv
    <3>2. late'[l][c] = late[l][c] + 1 /\ late[l][c] \in Nat
      BY <1>1, <1>5, <1>7, <3>1 DEF HandlerInv
    <3>3. r \in Holding(l, c)
      BY <1>5, <1>6 DEF Holding
    <3>4. Holding(l, c)' \in SUBSET (Holding(l, c) \ {r})
      BY <1>6, <1>9, <1>1, <1>7 DEF Holding, Running, HandlerInv
    <3>5. /\ IsFiniteSet(Holding(l, c) \ {r})
          /\ Cardinality(Holding(l, c) \ {r}) = Cardinality(Holding(l, c)) - 1
      BY <3>3, HoldingIsFinite, FS_RemoveElement
    <3>6. /\ Cardinality(Holding(l, c)') <= Cardinality(Holding(l, c)) - 1
          /\ Cardinality(Holding(l, c)') \in Nat
      BY <3>4, <3>5, FS_Subset, FS_CardinalityType
    <3>7. late[l][c] + Cardinality(Holding(l, c)) <= Cardinality(Reader)
      BY <1>1, <1>7, <3>1 DEF HandlerInv, UsesLeft
    <3> HIDE DEF Holding, l
    <3> QED
      BY <3>1, <3>2, <3>6, <3>7, HoldingIsFinite DEF UsesLeft
  <2> QED
    BY <2>1, <2>2
<1> QED
  BY <1>3, <1>6, <1>8, <1>10 DEF HandlerInv

LEMMA InvokeKeeps ==
    ASSUME HandlerInv, NEW l \in Lock, Invoke(l)
    PROVE  HandlerInv'
<1>1. DoorLockInv'
  BY StepInv DEF Invoke, HandlerInv, Next
<1>2. /\ late' = [late EXCEPT ![l] =
            [c \in Slot |->
               IF c \in Credentials(lock[l]) \ Credentials(lock'[l])
               THEN 0 ELSE @[c]]]
      /\ UNCHANGED transaction
  BY DEF Invoke
<1>3. \A m \in Lock \ {l} : lock'[m] = lock[m]
  BY CommandIsLocal DEF Invoke, HandlerInv
<1>4. late' \in [Lock -> [Slot -> Nat]]
  BY <1>2 DEF HandlerInv
<1>5. \A m, c : Holding(m, c)' = Holding(m, c)
  BY <1>2 DEF Holding, Running
<1>6. ASSUME NEW m \in Lock, NEW c \in Slot PROVE UsesLeft(m, c)'
  <2> USE <1>5, HoldingIsFinite
  <2> HIDE DEF Holding
  <2>1. UsesLeft(m, c) /\ late[m][c] \in Nat
    BY DEF HandlerInv
  <2>2. CASE m # l
    <3>1. late'[m][c] = late[m][c] /\ lock'[m] = lock[m]
      BY <1>2, <1>3, <2>2 DEF HandlerInv
    <3> QED
      BY <2>1, <3>1 DEF UsesLeft
  <2>3. CASE m = l /\ c \in Credentials(lock[l]) \ Credentials(lock'[l])
    <3>1. late'[m][c] = 0
      BY <1>2, <2>3 DEF HandlerInv
    <3> QED
      BY <3>1 DEF UsesLeft
  <2>4. CASE m = l /\ c \notin Credentials(lock[l]) \ Credentials(lock'[l])
    <3>1. late'[m][c] = late[m][c]
      BY <1>2, <2>4 DEF HandlerInv
    <3> QED
      BY <2>1, <2>4, <3>1 DEF UsesLeft
  <2> QED
    BY <2>2, <2>3, <2>4
<1> QED
  BY <1>1, <1>2, <1>4, <1>6 DEF HandlerInv

LEMMA RestartsKeep ==
    ASSUME HandlerInv, Restarts
    PROVE  HandlerInv'
<1>1. DoorLockInv'
  BY StepInv DEF Restarts, HandlerInv, Next
<1>2. /\ transaction' = [r \in Reader |-> None]
      /\ late' = [l \in Lock |-> [c \in Slot |-> 0]]
  BY DEF Restarts
<1>3. \A l, c : Holding(l, c)' = {}
  BY <1>2 DEF Holding, Running
<1>4. ASSUME NEW l \in Lock, NEW c \in Slot PROVE UsesLeft(l, c)'
  <2>1. late'[l][c] = 0 /\ Cardinality(Holding(l, c)') = 0
    BY <1>2, <1>3, FS_EmptySet
  <2> QED
    BY <2>1, HoldingIsFinite DEF UsesLeft
<1> QED
  BY <1>1, <1>2, <1>4 DEF HandlerInv
-----------------------------------------------------------------------------
LEMMA HandlerInitInv == HandlerInit => HandlerInv
<1> SUFFICES ASSUME HandlerInit PROVE HandlerInv
  OBVIOUS
<1>1. \A l, c : Holding(l, c) = {}
  BY DEF HandlerInit, Holding, Running
<1>2. \A l \in Lock, c \in Slot : UsesLeft(l, c)
  BY <1>1, HoldingIsFinite, FS_EmptySet DEF HandlerInit, UsesLeft
<1> QED
  BY <1>2, InitInv DEF HandlerInit, HandlerInv

LEMMA HandlerStepInv == HandlerInv /\ [HandlerNext]_handlerVars => HandlerInv'
<1> SUFFICES ASSUME HandlerInv, [HandlerNext]_handlerVars PROVE HandlerInv'
  OBVIOUS
<1>1. CASE UNCHANGED handlerVars
  <2>1. DoorLockInv'
    BY <1>1, StepInv DEF handlerVars, HandlerInv
  <2>2. \A l \in Lock, c \in Slot : UsesLeft(l, c)'
    BY <1>1 DEF handlerVars, vars, HandlerInv, UsesLeft, Holding, Running
  <2> QED
    BY <1>1, <2>1, <2>2 DEF handlerVars, HandlerInv
<1> QED
  BY <1>1, BeginKeeps, SucceedKeeps, FailKeeps, InvokeKeeps, RestartsKeep
  DEF HandlerNext

LEMMA HandlerInvariance == HandlerSpec => []HandlerInv
BY HandlerInitInv, HandlerStepInv, PTL DEF HandlerSpec

(* Types, for any number of front ends and locks.                               *)
THEOREM NfcHandlerTypeCorrect == HandlerSpec => []NfcHandlerTypeOK
<1>1. HandlerInv => NfcHandlerTypeOK
  BY DEF HandlerInv, NfcHandlerTypeOK, DoorLockInv
<1> QED
  BY <1>1, HandlerInvariance, PTL

(* A cleared credential moves the bolt at most once more for each front end.    *)
THEOREM ClearedIsSoonUseless == HandlerSpec => []ClearedSoonUseless
<1>1. HandlerInv => ClearedSoonUseless
  BY DEF HandlerInv, UsesLeft, ClearedSoonUseless
<1> QED
  BY <1>1, HandlerInvariance, PTL
-----------------------------------------------------------------------------
(* The queue of a target that is not in play stays shut and empty, so its        *)
(* handler receives nothing; a transaction succeeds once, at its end.            *)
OthersShut == \A i \in Interaction : i # current => IsGone(response[i])

SuccessIsLast ==
    \A i \in Interaction :
        /\ handler[i] \in {"new", "done"} => ~sent[i]
        /\ operated[i] => handler[i] \in {"notify", "done"}

Targeted ==
    \A p \in Post : post[p].state # "idle" => post[p].target \in Interaction

InteractInv == NfcInteractTypeOK /\ Targeted /\ OthersShut /\ SuccessIsLast

LEMMA AfterType == \A c \in Command : After(c) \subseteq Command \cup {"done"}
BY DEF After, Command

LEMMA NoneApart == None \notin Interaction /\ None \notin Post
BY NfcInteractAssumption

(* What the queue operations and the steps of a handler leave is typed.          *)
LEMMA ContinueType ==
    ASSUME NfcInteractTypeOK, NEW i \in Interaction,
           NEW c \in Command \cup {"done"}, Continue(i, c)
    PROVE  /\ handler' = [handler EXCEPT ![i] = c]
           /\ sent' \in [Interaction -> BOOLEAN]
           /\ \A j \in Interaction \ {i} : sent'[j] = sent[j]
           /\ c = "done" => ~sent'[i]
           /\ command' \in [Interaction -> CommandQueue]
<1>1. "done" \notin Command
  BY DEF Command
<1>2. CASE c = "done"
  <2>1. End(i)
    BY <1>2 DEF Continue
  <2>2. Shut(command[i]) \in CommandQueue
    BY DEF Shut, CommandQueue
  <2> QED
    BY <1>2, <2>1, <2>2 DEF End, NfcInteractTypeOK
<1>3. CASE c \in Command
  <2>1. Transmit(i, c)
    BY <1>1, <1>3 DEF Continue
  <2>2. [command[i] EXCEPT !.item = c] \in CommandQueue
    BY <1>3 DEF CommandQueue, NfcInteractTypeOK
  <2>3. command' \in [Interaction -> CommandQueue]
    BY <2>1, <2>2 DEF Transmit, NfcInteractTypeOK
  <2>4. (~IsFull(command[i])) \in BOOLEAN
    BY DEF IsFull
  <2> QED
    BY <1>1, <1>3, <2>1, <2>3, <2>4 DEF Transmit, NfcInteractTypeOK
<1> QED
  BY <1>2, <1>3

LEMMA HandlerStep ==
    ASSUME InteractInv, NEW i \in Interaction, NEW c \in Command \cup {"done"},
           Continue(i, c), UNCHANGED <<current, post, readerVars, orderly>>,
           response' \in [Interaction -> ResponseQueue], OthersShut',
           operated' \in [Interaction -> BOOLEAN],
           \A j \in Interaction : operated'[j] # operated[j] => j = i,
           operated'[i] => c \in {"notify", "done"}
    PROVE  InteractInv'
<1>1. /\ handler' = [handler EXCEPT ![i] = c]
      /\ sent' \in [Interaction -> BOOLEAN]
      /\ \A j \in Interaction \ {i} : sent'[j] = sent[j]
      /\ c = "done" => ~sent'[i]
      /\ command' \in [Interaction -> CommandQueue]
  BY ContinueType DEF InteractInv
<1>2. NfcInteractTypeOK'
  BY <1>1 DEF InteractInv, NfcInteractTypeOK, readerVars
<1>3. SuccessIsLast'
  <2>1. "new" \notin Command
    BY DEF Command
  <2>2. \A j \in Interaction : handler[j] \in Command \cup {"new", "done"}
    BY DEF InteractInv, NfcInteractTypeOK
  <2> QED
    BY <1>1, <2>1, <2>2 DEF InteractInv, SuccessIsLast, NfcInteractTypeOK
<1> QED
  BY <1>2, <1>3 DEF InteractInv, Targeted

LEMMA HandlerKeeps ==
    ASSUME InteractInv, NEW i \in Interaction, Handler(i)
    PROVE  InteractInv'
<1> USE DEF InteractInv
<1>0. orderly' = orderly
  BY DEF Handler
<1> USE <1>0
<1>1. CASE RunHandler(i)
  <2>1. PICK c \in {"select", "done"} : Continue(i, c)
    BY <1>1 DEF RunHandler
  <2>2. c \in Command \cup {"done"}
    BY DEF Command
  <2>3. ~operated[i]
    BY <1>1 DEF RunHandler, SuccessIsLast
  <2> QED
    BY <1>1, <2>1, <2>2, <2>3, HandlerStep
    DEF RunHandler, NfcInteractTypeOK, OthersShut
<1>2. CASE PutCommand(i)
  <2>1. handler[i] \in Command /\ "new" \notin Command /\ "done" \notin Command
    BY <1>2 DEF PutCommand, Command
  <2>2. [command[i] EXCEPT !.item = handler[i]] \in CommandQueue
    BY <2>1 DEF CommandQueue, NfcInteractTypeOK
  <2>3. NfcInteractTypeOK'
    BY <1>2, <2>2 DEF PutCommand, NfcInteractTypeOK, readerVars
  <2> QED
    BY <1>2, <2>1, <2>3
    DEF PutCommand, NfcInteractTypeOK, Targeted, OthersShut, SuccessIsLast
<1>3. CASE ReceiveResponse(i)
  <2>1. PICK c \in After(handler[i]) :
            /\ Continue(i, c)
            /\ operated' = [operated EXCEPT ![i] = @ \/ c = "notify"]
    BY <1>3 DEF ReceiveResponse
  <2>2. handler[i] \in Command
    BY <1>3 DEF ReceiveResponse, SuccessIsLast, NfcInteractTypeOK
  <2>3. c \in Command \cup {"done"}
    BY <2>2, AfterType
  <2>4. Taken(response[i]) \in ResponseQueue
    BY DEF Taken, ResponseQueue, NfcInteractTypeOK
  <2>5. response' = [response EXCEPT ![i] = Taken(@)]
    BY <1>3 DEF ReceiveResponse
  <2>6. response' \in [Interaction -> ResponseQueue]
    BY <2>4, <2>5 DEF NfcInteractTypeOK
  <2>7. UNCHANGED <<current, post, readerVars>>
    BY <1>3 DEF ReceiveResponse
  <2>8. i = current
    BY <1>3 DEF ReceiveResponse, OthersShut, IsGone, IsFull
  <2>9. OthersShut'
    BY <2>5, <2>7, <2>8 DEF OthersShut, NfcInteractTypeOK
  <2>10. /\ operated' \in [Interaction -> BOOLEAN]
         /\ \A j \in Interaction : operated'[j] # operated[j] => j = i
    BY <2>1 DEF NfcInteractTypeOK
  <2>11. operated'[i] => c \in {"notify", "done"}
    <3>1. CASE operated[i]
      BY <2>2, <3>1, <2>1 DEF SuccessIsLast, After, Command
    <3>2. CASE ~operated[i]
      BY <2>1, <3>2 DEF NfcInteractTypeOK
    <3> QED
      BY <3>1, <3>2
  <2> QED
    BY <2>1, <2>3, <2>6, <2>7, <2>9, <2>10, <2>11, HandlerStep
<1>4. CASE LoseTarget(i)
  <2>1. handler[i] \in Command
    BY <1>4 DEF LoseTarget, SuccessIsLast, NfcInteractTypeOK
  <2>2. AfterGone(handler[i]) \in Command \cup {"done"}
    BY DEF AfterGone, Command
  <2>3. operated[i] => AfterGone(handler[i]) \in {"notify", "done"}
    BY <2>1 DEF SuccessIsLast, AfterGone
  <2> QED
    BY <1>4, <2>2, <2>3, HandlerStep
    DEF LoseTarget, NfcInteractTypeOK, OthersShut
<1> QED
  BY <1>1, <1>2, <1>3, <1>4 DEF Handler

LEMMA AnswerType ==
    ASSUME NfcInteractTypeOK, Targeted, NEW p \in Post,
           NEW item \in Tag \cup {None}, Answer(p, item)
    PROVE  /\ Targeted'
           /\ post' \in [Post -> [state : {"idle", "putting", "getting"},
                                  target : Interaction \cup {None},
                                  item : Tag \cup {None}]]
           /\ awaited' \in Post \cup {None}
           /\ holding' \in Tag \cup {None}
BY DEF Answer, Idle, NfcInteractTypeOK, Targeted, readerVars

LEMMA PutType ==
    ASSUME NfcInteractTypeOK, Targeted, NEW p \in Post,
           NEW i \in Interaction, NEW item \in Tag \cup {None},
           PutResponse(p, i, item)
    PROVE  /\ Targeted'
           /\ post' \in [Post -> [state : {"idle", "putting", "getting"},
                                  target : Interaction \cup {None},
                                  item : Tag \cup {None}]]
           /\ response' \in [Interaction -> ResponseQueue]
           /\ \A j \in Interaction \ {i} : response'[j] = response[j]
<1>1. [response[i] EXCEPT !.item = item] \in ResponseQueue
  BY DEF ResponseQueue, NfcInteractTypeOK
<1> QED
  BY <1>1 DEF PutResponse, NfcInteractTypeOK, Targeted

LEMMA RenderKeeps ==
    ASSUME InteractInv, NEW p \in Post, Render(p)
    PROVE  InteractInv'
<1> USE DEF InteractInv
<1>0. orderly' = orderly
  BY DEF Render
<1> USE <1>0
<1> DEFINE i == post[p].target
<1>1. CASE ResumePut(p) /\ response[i].shut
  <2>1. Answer(p, None) /\ UNCHANGED <<current, handler, sent, command,
                                       response, operated>>
    BY <1>1 DEF ResumePut
  <2> QED
    BY <2>1, AnswerType DEF NfcInteractTypeOK, OthersShut, SuccessIsLast
<1>2. CASE ResumePut(p) /\ ~response[i].shut
  <2>1. /\ PutResponse(p, i, post[p].item)
        /\ UNCHANGED <<current, handler, sent, command, operated, readerVars>>
    BY <1>2 DEF ResumePut
  <2>2. post[p].item \in Tag \cup {None} /\ i \in Interaction
    BY <1>2 DEF ResumePut, NfcInteractTypeOK, Targeted
  <2>3. NfcInteractTypeOK' /\ Targeted'
    BY <2>1, <2>2, PutType DEF NfcInteractTypeOK, readerVars
  <2>4. i = current
    BY <1>2, <2>2 DEF OthersShut, IsGone
  <2>5. OthersShut'
    BY <2>1, <2>2, <2>4, PutType DEF OthersShut, IsGone
  <2> QED
    BY <2>1, <2>3, <2>5 DEF SuccessIsLast
<1>3. CASE GetCommand(p)
  <2>1. CASE IsGone(command[i]) /\ Answer(p, None) /\ UNCHANGED command
    BY <1>3, <2>1, AnswerType
    DEF GetCommand, NfcInteractTypeOK, OthersShut, SuccessIsLast
  <2>2. CASE /\ IsFull(command[i])
             /\ command' = [command EXCEPT ![i] = Taken(@)]
             /\ Answer(p, <<i, command[i].item>>)
    <3>1. i \in Interaction
      BY <1>3 DEF GetCommand, Targeted
    <3>2. <<i, command[i].item>> \in Tag
      BY <2>2, <3>1 DEF Tag, NfcInteractTypeOK, CommandQueue, IsFull
    <3>3. Taken(command[i]) \in CommandQueue
      BY <3>1 DEF Taken, CommandQueue, NfcInteractTypeOK
    <3>4. command' \in [Interaction -> CommandQueue]
      BY <2>2, <3>1, <3>3 DEF NfcInteractTypeOK
    <3>5. UNCHANGED <<current, handler, sent, response, operated>>
      BY <1>3 DEF GetCommand
    <3>6. NfcInteractTypeOK' /\ Targeted'
      BY <2>2, <3>2, <3>4, <3>5, AnswerType DEF NfcInteractTypeOK
    <3> QED
      BY <3>5, <3>6 DEF OthersShut, SuccessIsLast
  <2> QED
    BY <1>3, <2>1, <2>2 DEF GetCommand
<1> QED
  BY <1>1, <1>2, <1>3 DEF Render

LEMMA ReaderKeeps ==
    ASSUME InteractInv, ReaderStep
    PROVE  InteractInv'
<1> USE DEF InteractInv
<1>0. orderly' = orderly
  BY DEF ReaderStep
<1> USE <1>0
<1>1. ShutCurrent \in [Interaction -> ResponseQueue]
  BY DEF ShutCurrent, Shut, ResponseQueue, NfcInteractTypeOK
<1>2. \A j \in Interaction : j = current => IsGone(ShutCurrent[j])
  BY DEF ShutCurrent, Shut, IsGone
<1>3. \A j \in Interaction : j # current => ShutCurrent[j] = response[j]
  BY DEF ShutCurrent
<1>4. CASE Delete
  <2>1. NfcInteractTypeOK' /\ Targeted' /\ SuccessIsLast'
    BY <1>1, <1>4 DEF Delete, NfcInteractTypeOK, Targeted, SuccessIsLast
  <2>2. OthersShut'
    BY <1>2, <1>3, <1>4 DEF Delete, OthersShut, IsGone
  <2> QED
    BY <2>1, <2>2
<1>5. ASSUME NEW p \in Post, AnnounceTarget(p) PROVE InteractInv'
  <2>1. PICK i \in Interaction :
            /\ Unused(i)
            /\ current' = i
            /\ response' = [ShutCurrent EXCEPT ![i] = Open]
            /\ command' = [command EXCEPT ![i] = Open]
            /\ handler' = [handler EXCEPT ![i] = "new"]
            /\ operated' = [operated EXCEPT ![i] = FALSE]
            /\ post' = [post EXCEPT ![p] =
                          [state |-> "getting", target |-> i, item |-> None]]
    BY <1>5 DEF AnnounceTarget
  <2>2. awaited' = p /\ holding' = None /\ UNCHANGED sent
    BY <1>5 DEF AnnounceTarget
  <2>3. Open \in ResponseQueue /\ Open \in CommandQueue
    BY DEF Open, ResponseQueue, CommandQueue
  <2>4. /\ current' \in Interaction \cup {None}
        /\ response' \in [Interaction -> ResponseQueue]
        /\ command' \in [Interaction -> CommandQueue]
        /\ handler' \in [Interaction -> Command \cup {"new", "done"}]
        /\ operated' \in [Interaction -> BOOLEAN]
    BY <1>1, <2>1, <2>3 DEF NfcInteractTypeOK
  <2>5. NfcInteractTypeOK' /\ Targeted'
    BY <2>1, <2>2, <2>4 DEF NfcInteractTypeOK, Targeted
  <2>6. OthersShut'
    BY <1>1, <1>2, <1>3, <2>1 DEF OthersShut
  <2>7. SuccessIsLast'
    BY <2>1, <2>2 DEF SuccessIsLast, NfcInteractTypeOK, Unused
  <2> QED
    BY <2>5, <2>6, <2>7
<1>6. ASSUME NEW p \in Post, Respond(p) PROVE InteractInv'
  <2>1. /\ holding' \in Tag \cup {None}
        /\ UNCHANGED <<current, handler, sent, command, operated>>
    BY <1>6 DEF Respond, NfcInteractTypeOK
  <2>2. CASE current = None
    BY <1>6, <2>1, <2>2
    DEF Respond, NfcInteractTypeOK, Targeted, OthersShut, SuccessIsLast
  <2>3. CASE current \in Interaction
    <3>1. awaited' = p /\ PutResponse(p, current, holding)
      BY <1>6, <2>3, NoneApart DEF Respond
    <3>2. holding \in Tag \cup {None}
      BY DEF NfcInteractTypeOK
    <3>3. NfcInteractTypeOK' /\ Targeted'
      BY <2>1, <2>3, <3>1, <3>2, PutType DEF NfcInteractTypeOK
    <3>4. OthersShut' /\ SuccessIsLast'
      BY <2>1, <2>3, <3>1, <3>2, PutType DEF OthersShut, SuccessIsLast
    <3> QED
      BY <3>3, <3>4
  <2> QED
    BY <2>2, <2>3 DEF NfcInteractTypeOK
<1> QED
  BY <1>4, <1>5, <1>6 DEF ReaderStep

LEMMA InitInteractInv == InteractInit => InteractInv
BY DEF InteractInit, InteractInv, NfcInteractTypeOK, Targeted, OthersShut, SuccessIsLast, Idle,
       Shut, Open, IsGone, CommandQueue, ResponseQueue

LEMMA InteractStepInv == InteractInv /\ [InteractNext]_interactVars => InteractInv'
<1> SUFFICES ASSUME InteractInv, [InteractNext]_interactVars PROVE InteractInv'
  OBVIOUS
<1>1. CASE UNCHANGED interactVars
  BY <1>1 DEF interactVars, queueVars, readerVars, InteractInv, NfcInteractTypeOK, Targeted,
              OthersShut, SuccessIsLast
<1> QED
  BY <1>1, HandlerKeeps, RenderKeeps, ReaderKeeps DEF InteractNext

LEMMA InteractInvHolds == InteractSpec => []InteractInv
BY InitInteractInv, InteractStepInv, PTL DEF InteractSpec

(* Types, for any number of targets and requests.                               *)
THEOREM NfcInteractTypeCorrect == InteractSpec => []NfcInteractTypeOK
<1>1. InteractInv => NfcInteractTypeOK
  BY DEF InteractInv
<1> QED
  BY <1>1, InteractInvHolds, PTL
-----------------------------------------------------------------------------
(* The refinement: what each step is to the session.                            *)
SessionStep == [Session!Next]_<<Active, operated>>

LEMMA InitRefines == InteractInit => Session!Init
BY NoneApart DEF InteractInit, Session!Init, Active

(* A handler's step ends the session, operates the bolt for it, or is not seen.  *)
LEMMA HandlerRefines ==
    ASSUME InteractInv, NEW i \in Interaction, NEW c \in Command \cup {"done"},
           Continue(i, c), handler[i] # "done", UNCHANGED current,
           \/ UNCHANGED operated
           \/ /\ i = current /\ ~operated[i] /\ c = "notify"
              /\ operated' = [operated EXCEPT ![i] = TRUE]
    PROVE  SessionStep
<1>1. handler' = [handler EXCEPT ![i] = c]
  BY ContinueType DEF InteractInv
<1>2. handler \in [Interaction -> Command \cup {"new", "done"}]
  BY DEF InteractInv, NfcInteractTypeOK
<1>3. current \in Interaction \cup {None}
  BY DEF InteractInv, NfcInteractTypeOK
<1>4. CASE UNCHANGED operated /\ i = current /\ c = "done"
  <2>1. Active = i /\ Active' = None
    BY <1>1, <1>2, <1>4, NoneApart DEF Active
  <2>2. Session!End
    BY <1>4, <2>1, NoneApart DEF Session!End
  <2> QED
    BY <2>2 DEF SessionStep, Session!Next
<1>5. CASE UNCHANGED operated /\ (i # current \/ c # "done")
  <2>1. Active' = Active
    BY <1>1, <1>2, <1>3, <1>5, NoneApart DEF Active
  <2> QED
    BY <1>5, <2>1 DEF SessionStep
<1>6. CASE /\ i = current /\ ~operated[i] /\ c = "notify"
           /\ operated' = [operated EXCEPT ![i] = TRUE]
  <2>1. Active = i /\ Active' = i
    BY <1>1, <1>2, <1>6, NoneApart DEF Active
  <2>2. Session!Operate(i)
    BY <1>6, <2>1 DEF Session!Operate
  <2> QED
    BY <2>2 DEF SessionStep, Session!Next
<1> QED
  BY <1>4, <1>5, <1>6

(* A handler receives only for the target in play, and only once a success.      *)
LEMMA ReceiveRefines ==
    ASSUME InteractInv, NEW i \in Interaction, ReceiveResponse(i)
    PROVE  SessionStep
<1>1. PICK c \in After(handler[i]) :
          /\ Continue(i, c)
          /\ operated' = [operated EXCEPT ![i] = @ \/ c = "notify"]
  BY DEF ReceiveResponse
<1>2. handler[i] \in Command
  BY DEF InteractInv, ReceiveResponse, SuccessIsLast, NfcInteractTypeOK
<1>3. c \in Command \cup {"done"} /\ "done" \notin Command
  BY <1>2, AfterType DEF Command
<1>4. i = current
  BY DEF InteractInv, ReceiveResponse, OthersShut, IsGone, IsFull
<1>5. c = "notify" => ~operated[i]
  BY <1>2 DEF InteractInv, SuccessIsLast, After, Command
<1>6. operated \in [Interaction -> BOOLEAN]
  BY DEF InteractInv, NfcInteractTypeOK
<1>7. CASE c = "notify"
  <2>1. operated' = [operated EXCEPT ![i] = TRUE]
    BY <1>1, <1>7
  <2> QED
    BY <1>1, <1>2, <1>3, <1>4, <1>5, <1>7, <2>1, HandlerRefines
    DEF ReceiveResponse
<1>8. CASE c # "notify"
  <2>1. operated' = operated
    BY <1>1, <1>6, <1>8
  <2> QED
    BY <1>1, <1>2, <1>3, <2>1, HandlerRefines DEF ReceiveResponse
<1> QED
  BY <1>7, <1>8

LEMMA StepRefines ==
    ASSUME InteractInv, [InteractNext]_interactVars
    PROVE  SessionStep
<1>1. ASSUME NEW i \in Interaction, RunHandler(i) PROVE SessionStep
  <2>1. PICK c \in {"select", "done"} : Continue(i, c)
    BY <1>1 DEF RunHandler
  <2> QED
    BY <1>1, <2>1, HandlerRefines DEF RunHandler, Command
<1>2. ASSUME NEW i \in Interaction, PutCommand(i) PROVE SessionStep
  BY <1>2 DEF PutCommand, SessionStep, Active
<1>3. ASSUME NEW i \in Interaction, LoseTarget(i) PROVE SessionStep
  <2>1. AfterGone(handler[i]) \in Command \cup {"done"}
    BY DEF AfterGone, Command
  <2>2. handler[i] # "done"
    BY <1>3 DEF LoseTarget, InteractInv, SuccessIsLast
  <2> QED
    BY <1>3, <2>1, <2>2, HandlerRefines DEF LoseTarget
<1>4. ASSUME NEW p \in Post, Render(p) \/ Respond(p) PROVE SessionStep
  BY <1>4
  DEF Render, ResumePut, GetCommand, Respond, SessionStep, Active
<1>5. ASSUME NEW p \in Post, AnnounceTarget(p) PROVE SessionStep
  <2>1. PICK i \in Interaction :
            /\ Unused(i)
            /\ current' = i
            /\ handler' = [handler EXCEPT ![i] = "new"]
            /\ operated' = [operated EXCEPT ![i] = FALSE]
    BY <1>5 DEF AnnounceTarget
  <2>2. Active' = i
    BY <2>1, NoneApart DEF Active, InteractInv, NfcInteractTypeOK
  <2>3. i # Active
    BY <2>1, NoneApart DEF Active, Unused
  <2>4. Session!Begin(i)
    BY <2>1, <2>2, <2>3 DEF Session!Begin
  <2> QED
    BY <2>4 DEF SessionStep, Session!Next
<1>6. CASE Delete
  <2>1. Active' = None /\ UNCHANGED operated
    BY <1>6 DEF Delete, Active
  <2>2. CASE Active = None
    BY <2>1, <2>2 DEF SessionStep
  <2>3. CASE Active # None
    BY <2>1, <2>3 DEF SessionStep, Session!Next, Session!End
  <2> QED
    BY <2>2, <2>3
<1>7. CASE UNCHANGED interactVars
  BY <1>7 DEF interactVars, SessionStep, Active
<1> QED
  BY <1>1, <1>2, <1>3, <1>4, <1>5, <1>6, <1>7, ReceiveRefines
  DEF InteractNext, Handler, ReaderStep

(* Interact with its queues implements the session: for any reader, only the     *)
(* target in play operates the bolt, and once.                                  *)
THEOREM InteractImplementsSession == InteractSpec => OneTargetAtATime
<1>1. InteractInv /\ [InteractNext]_interactVars => [Session!Next]_(Session!vars)
  BY StepRefines DEF SessionStep, Session!vars
<1> QED
  BY <1>1, InitRefines, InteractInvHolds, PTL DEF InteractSpec, OneTargetAtATime, Session!Spec
-----------------------------------------------------------------------------
(* With an orderly reader one POST at most waits for the target in play, and     *)
(* there is one token: the handler's command, in the command queue or with the  *)
(* reader, or the response to it.  ResponseFitsCommand needs all of it: a        *)
(* response fits because the reader held the command the handler still waits on. *)
OneWaits ==
    /\ \A p \in Post :
          p = awaited <=> post[p].state # "idle" /\ post[p].target = current
    /\ awaited # None => post[awaited].state = "getting" /\ holding = None

OneTurn(i) ==
    /\ ~response[i].shut
    /\ command[i].shut => handler[i] = "done"
    /\ IsFull(command[i]) =>
          /\ sent[i] /\ command[i].item = handler[i]
          /\ ~IsFull(response[i]) /\ holding = None
    /\ IsFull(response[i]) =>
          /\ sent[i] /\ response[i].item = <<i, handler[i]>>
          /\ awaited # None
    /\ holding # None => sent[i] /\ holding = <<i, handler[i]>>

TurnTaking ==
    orderly =>
       /\ OneWaits
       /\ current = None => holding = None
       /\ \A i \in Interaction : i = current => OneTurn(i)

LEMMA TurnsFit == InteractInv /\ TurnTaking => ResponseFitsCommand
BY DEF InteractInv, OthersShut, IsGone, IsFull, TurnTaking, OneTurn,
       ResponseFitsCommand

(* A handler's step concerns its own target's turn only.                        *)
LEMMA TurnOfOthers ==
    ASSUME TurnTaking, NEW i \in Interaction,
           UNCHANGED <<current, post, readerVars, orderly>>,
           \A j \in Interaction \ {i} :
              /\ handler'[j] = handler[j] /\ sent'[j] = sent[j]
              /\ command'[j] = command[j] /\ response'[j] = response[j],
           i = current /\ orderly => OneTurn(i)'
    PROVE  TurnTaking'
<1> SUFFICES ASSUME orderly
             PROVE  /\ OneWaits'
                    /\ current' = None => holding' = None
                    /\ \A j \in Interaction : j = current' => OneTurn(j)'
  BY DEF TurnTaking
<1>1. OneWaits' /\ (current' = None => holding' = None)
  BY DEF TurnTaking, OneWaits, readerVars
<1>2. ASSUME NEW j \in Interaction, j = current' PROVE OneTurn(j)'
  <2>1. CASE j = i
    BY <1>2, <2>1
  <2>2. CASE j # i
    BY <1>2, <2>2 DEF TurnTaking, OneTurn, readerVars, IsFull
  <2> QED
    BY <2>1, <2>2
<1> QED
  BY <1>1, <1>2

(* A handler that has no command out begins its turn, or ends, with both queues  *)
(* empty and the reader waiting.                                                *)
LEMMA ContinueTurn ==
    ASSUME InteractInv, NEW i \in Interaction, NEW c \in Command \cup {"done"},
           Continue(i, c), holding' = None,
           ~IsFull(command[i]), ~command[i].shut,
           ~IsFull(response'[i]), ~response'[i].shut
    PROVE  OneTurn(i)'
<1>1. handler' = [handler EXCEPT ![i] = c]
  BY ContinueType DEF InteractInv
<1>2. /\ handler \in [Interaction -> Command \cup {"new", "done"}]
      /\ command \in [Interaction -> CommandQueue]
      /\ sent \in [Interaction -> BOOLEAN]
  BY DEF InteractInv, NfcInteractTypeOK
<1>3. "done" \notin Command
  BY DEF Command
<1>4. CASE c = "done"
  <2>1. command'[i] = Shut(command[i]) /\ handler'[i] = "done"
    BY <1>1, <1>2, <1>4 DEF Continue, End
  <2> QED
    BY <2>1 DEF OneTurn, IsFull, Shut
<1>5. CASE c \in Command
  <2>1. sent'[i] /\ command'[i] = [command[i] EXCEPT !.item = c]
    BY <1>2, <1>3, <1>5 DEF Continue, Transmit
  <2>2. command'[i].item = c /\ ~command'[i].shut
    BY <1>2, <2>1 DEF CommandQueue
  <2> QED
    BY <1>1, <1>2, <2>1, <2>2 DEF OneTurn, IsFull
<1> QED
  BY <1>4, <1>5

LEMMA ContinueOthers ==
    ASSUME InteractInv, NEW i \in Interaction, NEW c \in Command \cup {"done"},
           Continue(i, c)
    PROVE  \A j \in Interaction \ {i} :
              /\ handler'[j] = handler[j] /\ sent'[j] = sent[j]
              /\ command'[j] = command[j]
BY DEF Continue, End, Transmit, InteractInv, NfcInteractTypeOK

LEMMA HandlerTurn ==
    ASSUME InteractInv, TurnTaking, NEW i \in Interaction, Handler(i)
    PROVE  TurnTaking'
<1>0. orderly' = orderly
  BY DEF Handler
<1>1. CASE RunHandler(i)
  <2>1. PICK c \in {"select", "done"} : Continue(i, c)
    BY <1>1 DEF RunHandler
  <2>2. c \in Command \cup {"done"}
    BY DEF Command
  <2>3. UNCHANGED <<current, response, post, readerVars>>
    BY <1>1 DEF RunHandler
  <2>4. ASSUME i = current, orderly PROVE OneTurn(i)'
    <3>1. OneTurn(i) /\ ~sent[i]
      BY <1>1, <2>4 DEF RunHandler, InteractInv, SuccessIsLast, TurnTaking
    <3>2. ~command[i].shut /\ holding = None
      BY <1>1, <3>1 DEF RunHandler, OneTurn
    <3> QED
      BY <2>1, <2>2, <2>3, <3>1, <3>2, ContinueTurn DEF OneTurn, readerVars
  <2> QED
    BY <1>0, <2>1, <2>2, <2>3, <2>4, TurnOfOthers, ContinueOthers
<1>2. CASE PutCommand(i)
  <2>1. ASSUME i = current, orderly PROVE OneTurn(i)'
    <3>1. OneTurn(i) /\ ~sent[i]
      BY <1>2, <2>1 DEF PutCommand, TurnTaking
    <3>2. sent'[i] /\ command'[i] = [command[i] EXCEPT !.item = handler[i]]
      BY <1>2 DEF PutCommand, InteractInv, NfcInteractTypeOK
    <3>3. /\ command'[i].item = handler[i] /\ handler[i] # "done"
          /\ command'[i].shut = command[i].shut
      BY <1>2, <3>2 DEF PutCommand, Command, InteractInv, NfcInteractTypeOK,
                        CommandQueue
    <3> QED
      BY <1>2, <3>1, <3>2, <3>3 DEF PutCommand, OneTurn, readerVars, IsFull
  <2>2. /\ UNCHANGED <<current, handler, response, post, readerVars>>
        /\ \A j \in Interaction \ {i} :
              sent'[j] = sent[j] /\ command'[j] = command[j]
    BY <1>2 DEF PutCommand, InteractInv, NfcInteractTypeOK
  <2> QED
    BY <1>0, <2>1, <2>2, TurnOfOthers
<1>3. CASE ReceiveResponse(i)
  <2>1. PICK c \in After(handler[i]) : Continue(i, c)
    BY <1>3 DEF ReceiveResponse
  <2>2. handler[i] \in Command
    BY <1>3 DEF ReceiveResponse, InteractInv, SuccessIsLast, NfcInteractTypeOK
  <2>3. c \in Command \cup {"done"}
    BY <2>2, AfterType
  <2>4. UNCHANGED <<current, post, readerVars>>
    BY <1>3 DEF ReceiveResponse
  <2>5. /\ response'[i] = Taken(response[i])
        /\ \A j \in Interaction \ {i} : response'[j] = response[j]
    BY <1>3 DEF ReceiveResponse, InteractInv, NfcInteractTypeOK
  <2>6. ASSUME i = current, orderly PROVE OneTurn(i)'
    <3>1. OneTurn(i) /\ OneWaits /\ IsFull(response[i])
      BY <1>3, <2>6 DEF ReceiveResponse, TurnTaking
    <3>2. /\ holding = None /\ ~IsFull(command[i]) /\ ~response[i].shut
          /\ ~command[i].shut
      BY <2>2, <3>1 DEF OneTurn, OneWaits, Command
    <3>3. ~IsFull(response'[i]) /\ ~response'[i].shut
      BY <2>5, <3>2 DEF Taken, IsFull, InteractInv, NfcInteractTypeOK, ResponseQueue
    <3> QED
      BY <2>1, <2>3, <2>4, <3>2, <3>3, ContinueTurn DEF readerVars
  <2> QED
    BY <1>0, <2>1, <2>3, <2>4, <2>5, <2>6, TurnOfOthers, ContinueOthers
<1>4. CASE LoseTarget(i)
  <2>1. AfterGone(handler[i]) \in Command \cup {"done"}
    BY DEF AfterGone, Command
  <2>2. i = current => ~orderly
    BY <1>4 DEF LoseTarget, IsGone, TurnTaking, OneTurn
  <2>3. /\ UNCHANGED <<current, response, post, readerVars>>
        /\ Continue(i, AfterGone(handler[i]))
    BY <1>4 DEF LoseTarget
  <2> QED
    BY <1>0, <2>1, <2>2, <2>3, TurnOfOthers, ContinueOthers
<1> QED
  BY <1>1, <1>2, <1>3, <1>4 DEF Handler

(* The answer to the POST that waits hands the handler's command to the reader;  *)
(* the answer to any other is nobody's turn.                                    *)
LEMMA RenderTurn ==
    ASSUME InteractInv, TurnTaking, NEW p \in Post, Render(p)
    PROVE  TurnTaking'
<1>0. orderly' = orderly /\ UNCHANGED current
  BY DEF Render, ResumePut, GetCommand
<1> SUFFICES ASSUME orderly
             PROVE  /\ OneWaits'
                    /\ current' = None => holding' = None
                    /\ \A j \in Interaction : j = current' => OneTurn(j)'
  BY <1>0 DEF TurnTaking
<1>1. /\ OneWaits /\ (current = None => holding = None)
      /\ \A j \in Interaction : j = current => OneTurn(j)
  BY DEF TurnTaking
<1>2. PICK i \in Interaction : i = post[p].target
  BY DEF Render, ResumePut, GetCommand, InteractInv, Targeted
<1>3. post[p].state # "idle" /\ p # None
  BY NoneApart DEF Render, ResumePut, GetCommand
<1>4. post \in [Post -> [state : {"idle", "putting", "getting"},
                         target : Interaction \cup {None},
                         item : Tag \cup {None}]]
  BY DEF InteractInv, NfcInteractTypeOK
<1>5. CASE ResumePut(p)
  <2>1. p # awaited /\ i # current
    BY <1>1, <1>2, <1>3, <1>5 DEF ResumePut, OneWaits
  <2>2. response[i].shut
    BY <1>2, <2>1 DEF InteractInv, OthersShut, IsGone
  <2>3. /\ post' = [post EXCEPT ![p] = Idle]
        /\ UNCHANGED <<handler, sent, command, response, readerVars>>
    BY <1>2, <1>5, <2>1, <2>2 DEF ResumePut, Answer
  <2>4. OneWaits'
    BY <1>0, <1>1, <1>2, <1>3, <1>4, <2>1, <2>3 DEF OneWaits, Idle, readerVars
  <2> QED
    BY <1>0, <1>1, <2>3, <2>4 DEF OneTurn, readerVars
<1>6. CASE GetCommand(p) /\ p # awaited
  <2>1. i # current
    BY <1>1, <1>2, <1>3, <1>6 DEF OneWaits
  <2>2. /\ post' = [post EXCEPT ![p] = Idle]
        /\ UNCHANGED <<handler, sent, response, readerVars>>
        /\ \A j \in Interaction \ {i} : command'[j] = command[j]
    BY <1>2, <1>6 DEF GetCommand, Answer, InteractInv, NfcInteractTypeOK
  <2>3. OneWaits'
    BY <1>0, <1>1, <1>2, <1>3, <1>4, <1>6, <2>1, <2>2 DEF OneWaits, Idle, readerVars
  <2> QED
    BY <1>0, <1>1, <2>1, <2>2, <2>3 DEF OneTurn, readerVars
<1>7. CASE GetCommand(p) /\ p = awaited
  <2>1. i = current /\ OneTurn(i) /\ current # None
    BY <1>1, <1>2, <1>3, <1>7, NoneApart DEF OneWaits
  <2>2. /\ post' = [post EXCEPT ![p] = Idle] /\ awaited' = None
        /\ UNCHANGED <<handler, sent, response>>
    BY <1>7 DEF GetCommand, Answer
  <2>3. OneWaits'
    BY <1>0, <1>1, <1>2, <1>3, <1>4, <1>7, <2>2, NoneApart DEF OneWaits, Idle
  <2>4. CASE /\ IsFull(command[i])
             /\ command' = [command EXCEPT ![i] = Taken(@)]
             /\ Answer(p, <<i, command[i].item>>)
    <3>1. holding' = <<i, command[i].item>>
      BY <1>7, <2>4 DEF Answer
    <3>2. ~IsFull(command'[i]) /\ command'[i].shut = command[i].shut
      BY <1>2, <2>4 DEF IsFull, Taken, InteractInv, NfcInteractTypeOK, CommandQueue
    <3>3. OneTurn(i)'
      BY <2>1, <2>2, <2>4, <3>1, <3>2 DEF OneTurn, IsFull
    <3> QED
      BY <1>0, <2>1, <2>3, <3>3
  <2>5. CASE IsGone(command[i]) /\ Answer(p, None) /\ UNCHANGED command
    <3>1. holding' = None
      BY <1>7, <2>5 DEF Answer
    <3>2. ~IsFull(response[i])
      BY <2>1, <2>5 DEF IsGone, OneTurn, InteractInv, SuccessIsLast
    <3>3. OneTurn(i)'
      BY <2>1, <2>2, <2>5, <3>1, <3>2 DEF OneTurn, IsFull
    <3> QED
      BY <1>0, <2>1, <2>3, <3>3
  <2> QED
    BY <1>2, <1>7, <2>4, <2>5 DEF GetCommand
<1> QED
  BY <1>5, <1>6, <1>7 DEF Render

(* A new target starts with both queues empty and its POST the one that waits;   *)
(* a response is taken in only while nothing else is out.                        *)
LEMMA ReaderTurn ==
    ASSUME InteractInv, TurnTaking, ReaderStep
    PROVE  TurnTaking'
<1>0. orderly' = orderly
  BY DEF ReaderStep
<1> SUFFICES ASSUME orderly
             PROVE  /\ OneWaits'
                    /\ current' = None => holding' = None
                    /\ \A j \in Interaction : j = current' => OneTurn(j)'
  BY <1>0 DEF TurnTaking
<1>1. /\ OneWaits /\ (current = None => holding = None)
      /\ \A j \in Interaction : j = current => OneTurn(j)
  BY DEF TurnTaking
<1>2. post \in [Post -> [state : {"idle", "putting", "getting"},
                         target : Interaction \cup {None},
                         item : Tag \cup {None}]]
  BY DEF InteractInv, NfcInteractTypeOK
<1>3. CASE Delete
  BY <1>1, <1>3, NoneApart DEF Delete, OneWaits, InteractInv, Targeted
<1>4. ASSUME NEW p \in Post, AnnounceTarget(p)
      PROVE  /\ OneWaits'
             /\ current' = None => holding' = None
             /\ \A j \in Interaction : j = current' => OneTurn(j)'
  <2>1. PICK i \in Interaction :
            /\ Unused(i)
            /\ current' = i
            /\ response' = [ShutCurrent EXCEPT ![i] = Open]
            /\ command' = [command EXCEPT ![i] = Open]
            /\ handler' = [handler EXCEPT ![i] = "new"]
            /\ post' = [post EXCEPT ![p] =
                          [state |-> "getting", target |-> i, item |-> None]]
    BY <1>4 DEF AnnounceTarget
  <2>2. awaited' = p /\ holding' = None
    BY <1>4 DEF AnnounceTarget
  <2>3. OneWaits'
    BY <1>2, <2>1, <2>2 DEF OneWaits, Unused
  <2>4. response'[i] = Open /\ command'[i] = Open
    BY <2>1 DEF InteractInv, NfcInteractTypeOK, ShutCurrent
  <2> QED
    BY <2>1, <2>2, <2>3, <2>4 DEF OneTurn, IsFull, Open
<1>5. ASSUME NEW p \in Post, Respond(p)
      PROVE  /\ OneWaits'
             /\ current' = None => holding' = None
             /\ \A j \in Interaction : j = current' => OneTurn(j)'
  <2>1. PICK i \in Interaction : i = current
    BY <1>1, <1>5 DEF Respond, InteractInv, NfcInteractTypeOK
  <2>2. /\ awaited = None /\ holding = <<i, handler[i]>> /\ sent[i]
        /\ ~IsFull(command[i]) /\ ~IsFull(response[i])
    BY <1>1, <1>5, <2>1 DEF Respond, OneTurn
  <2>3. /\ awaited' = p /\ holding' = None
        /\ post' = [post EXCEPT ![p] =
                      [state |-> "getting", target |-> i, item |-> None]]
        /\ response' = [response EXCEPT ![i].item = holding]
        /\ UNCHANGED <<current, handler, sent, command>>
    BY <1>5, <2>1, <2>2, NoneApart DEF Respond, PutResponse
  <2>4. OneWaits'
    BY <1>1, <1>2, <2>1, <2>2, <2>3, NoneApart DEF OneWaits
  <2>5. response'[i].item = holding /\ response'[i].shut = response[i].shut
    BY <2>3 DEF InteractInv, NfcInteractTypeOK, ResponseQueue
  <2>6. OneTurn(i)'
    BY <1>1, <2>1, <2>2, <2>3, <2>5, NoneApart DEF OneTurn, IsFull
  <2> QED
    BY <2>1, <2>3, <2>4, <2>6, NoneApart
<1> QED
  BY <1>3, <1>4, <1>5 DEF ReaderStep

(* Once the reader takes turns, no response reaches a handler that waits on       *)
(* another command: with any number of targets and of POSTs served at once.      *)
THEOREM ResponseFitsCommandHolds == InteractSpec => []ResponseFitsCommand
<1>1. InteractInit => TurnTaking
  BY NoneApart DEF InteractInit, TurnTaking, OneWaits, Idle
<1>2. InteractInv /\ TurnTaking /\ [InteractNext]_interactVars => TurnTaking'
  <2>1. ASSUME UNCHANGED interactVars, TurnTaking PROVE TurnTaking'
    BY <2>1
    DEF interactVars, queueVars, readerVars, TurnTaking, OneWaits, OneTurn, IsFull
  <2> QED
    BY <2>1, HandlerTurn, RenderTurn, ReaderTurn DEF InteractNext
<1> QED
  BY <1>1, <1>2, InteractInvHolds, TurnsFit, PTL DEF InteractSpec
=============================================================================
