------------------------- MODULE CommissioningProofs -------------------------
(***************************************************************************)
(* Proofs about SessionTable and Commissioning, for every number of          *)
(* exchanges, identifiers, fabrics and cancel tasks.  Commissioning          *)
(* implements SessionTable, so that what is proved of the session table      *)
(* holds of it.                                                              *)
(***************************************************************************)
EXTENDS Commissioning, TLAPS

(* The pending half of SessionsHaveTheirFabric: the fabric a CASE handshake  *)
(* captured is still installed, or was removed since.                        *)
PendingHaveTheirFabric ==
    \A x \in Exchange :
        case_state[x] # None =>
            \/ fabrics[case_state[x].index] = case_state[x].fabric
            \/ <<case_state[x].index, case_state[x].fabric>> \in outlived

(* A CASE session has an index from its first moment, so AddNOC never gives   *)
(* it one.                                                                    *)
CaseHasIndex ==
    \A s \in secure_unicast_session_context :
        s.session_type = "CASE" => s.local_fabric_index # 0

Ids == TypeOK /\ IdsAreReserved /\ OneOwnerPerId
Owners == SessionsHaveTheirFabric /\ PendingHaveTheirFabric /\ CaseHasIndex

(* An identifier that allocate_session_id returns is one nobody holds.       *)
LEMMA AllocatedIsFree ==
    ASSUME TypeOK, NEW id \in Allocated
    PROVE  id \in SessionId /\ id \notin in_use_session_ids
BY DEF Allocated, Lowest, FreeIds, TypeOK

(* The initial state satisfies the invariant. *)
LEMMA InitInv == SessionInit => Ids /\ Owners
<1> SUFFICES ASSUME SessionInit PROVE Ids /\ Owners
    OBVIOUS
<1> USE DEF SessionInit
<1>1. TypeOK
    BY SessionAssumption DEF TypeOK, PASEState, CASEState
<1>2. \A x \in Exchange : Pending(x) = {}
    BY DEF Pending
<1>3. IdsAreReserved /\ OneOwnerPerId
    BY <1>2 DEF IdsAreReserved, OneOwnerPerId
<1>4. Owners
    BY DEF Owners, SessionsHaveTheirFabric, PendingHaveTheirFabric, CaseHasIndex
<1> QED BY <1>1, <1>3, <1>4 DEF Ids

(* Every step keeps the types. *)
LEMMA NextType == TypeOK /\ [SessionNext]_sessionVars => TypeOK'
<1> SUFFICES ASSUME TypeOK, [SessionNext]_sessionVars PROVE TypeOK'
    OBVIOUS
<1> USE DEF TypeOK
<1>1. ASSUME NEW x \in Exchange, StatusReportFailure(x) PROVE TypeOK'
    BY <1>1 DEF StatusReportFailure
<1>2. ASSUME NEW x \in Exchange, PbkdfParamRequest(x) PROVE TypeOK'
  <2>1. PICK id \in Allocated :
           /\ in_use_session_ids' = in_use_session_ids \cup {id}
           /\ pase_state' = [pase_state EXCEPT ![x] = [id |-> id, ca |-> FALSE]]
        BY <1>2 DEF PbkdfParamRequest
  <2>2. id \in SessionId
        BY AllocatedIsFree
  <2>3. pase_state' \in [Exchange -> PASEState \cup {None}]
        BY <2>1, <2>2 DEF PASEState
  <2> QED BY <1>2, <2>1, <2>2, <2>3 DEF PbkdfParamRequest
<1>3. ASSUME NEW x \in Exchange, PasePake1(x) PROVE TypeOK'
  <2>1. pase_state[x] \in PASEState
        BY <1>3 DEF PasePake1
  <2>2. [pase_state[x] EXCEPT !.ca = TRUE] \in PASEState
        BY <2>1 DEF PASEState
  <2>3. pase_state' \in [Exchange -> PASEState \cup {None}]
        BY <1>3, <2>2 DEF PasePake1
  <2> QED BY <1>3, <2>3 DEF PasePake1
<1>4. ASSUME NEW x \in Exchange, NEW confirmed \in BOOLEAN,
             PasePake3(x, confirmed)
      PROVE  TypeOK'
  <2>1. pase_state[x] \in PASEState
        BY <1>4 DEF PasePake3
  <2>2. secure_unicast_session_context' \in SUBSET Session
        BY <1>4, <2>1 DEF PasePake3, Entered, Session, PASEState
  <2> QED BY <1>4, <2>2 DEF PasePake3
<1>5. ASSUME NEW x \in Exchange, NEW validKey \in BOOLEAN, CaseSigma1(x, validKey)
      PROVE  TypeOK'
  <2>1. PICK id \in Allocated, i \in FabricIndex :
           /\ TargetFabric(i)
           /\ in_use_session_ids' = in_use_session_ids \cup {id}
           /\ case_state' =
                IF validKey
                THEN [case_state EXCEPT
                        ![x] = [id |-> id, index |-> i, fabric |-> fabrics[i]]]
                ELSE case_state
        BY <1>5 DEF CaseSigma1
  <2>2. id \in SessionId
        BY AllocatedIsFree
  <2>3. fabrics[i] \in FabricIdentity
        BY <2>1 DEF TargetFabric, Installed
  <2>4. case_state' \in [Exchange -> CASEState \cup {None}]
        BY <2>1, <2>2, <2>3 DEF CASEState
  <2> QED BY <1>5, <2>1, <2>2, <2>4 DEF CaseSigma1
<1>6. ASSUME NEW x \in Exchange, NEW verified \in BOOLEAN, CaseSigma3(x, verified)
      PROVE  TypeOK'
  <2>1. case_state[x] \in CASEState
        BY <1>6 DEF CaseSigma3
  <2>2. secure_unicast_session_context' \in SUBSET Session
        BY <1>6, <2>1 DEF CaseSigma3, Entered, Session, CASEState
  <2> QED BY <1>6, <2>2 DEF CaseSigma3
<1>7. ASSUME NEW s \in Requesters, CounterWraps(s)
      PROVE  TypeOK'
    BY <1>7 DEF CounterWraps, Leave
<1>8. ASSUME TerminateAllPaseSessions PROVE TypeOK'
    BY <1>8 DEF TerminateAllPaseSessions, Leave, PaseSessions, IdsOf
<1>9. ASSUME NEW s \in detached, Drained(s) PROVE TypeOK'
    BY <1>9 DEF Drained
<1>10. ASSUME NEW s \in Requesters, NEW identity \in FabricIdentity,
              NEW i \in FabricIndex, AddFabric(s, identity, i)
       PROVE  TypeOK'
  <2>1. \A t \in Session : WithIndex(t, i) \in Session
        BY DEF WithIndex, Session
  <2> QED BY <1>10, <2>1 DEF AddFabric
<1>11. ASSUME NEW i \in FabricIndex, RemoveFabric(i) PROVE TypeOK'
  <2>1. outlived' \in SUBSET (FabricIndex \X FabricIdentity)
        BY <1>11 DEF RemoveFabric, CASEState
  <2> QED BY <1>11, <2>1 DEF RemoveFabric, Leave, SessionsOf
<1>12. ASSUME Restart PROVE TypeOK'
    BY <1>12 DEF Restart, Installed
<1>13. CASE UNCHANGED sessionVars
    BY <1>13 DEF sessionVars
<1> QED
    BY <1>1, <1>2, <1>3, <1>4, <1>5, <1>6, <1>7, <1>8, <1>9, <1>10, <1>11,
       <1>12, <1>13 DEF SessionNext

(* Every step keeps the identifiers reserved and each with one owner: a new   *)
(* one is held by nobody, a completed handshake hands its own over, and       *)
(* RemoveFabric releases none that a session left in the table or a pending   *)
(* handshake holds.                                                           *)
LEMMA NextIds == Ids /\ TypeOK' /\ [SessionNext]_sessionVars => Ids'
<1> SUFFICES ASSUME Ids, TypeOK', [SessionNext]_sessionVars
             PROVE  IdsAreReserved' /\ OneOwnerPerId'
    BY DEF Ids
<1> USE DEF Ids, TypeOK, IdsAreReserved, OneOwnerPerId, Pending
<1>1. ASSUME NEW x \in Exchange, StatusReportFailure(x)
      PROVE  IdsAreReserved' /\ OneOwnerPerId'
    BY <1>1 DEF StatusReportFailure
<1>2. ASSUME NEW x \in Exchange, PbkdfParamRequest(x)
      PROVE  IdsAreReserved' /\ OneOwnerPerId'
  <2>1. PICK id \in Allocated :
           /\ in_use_session_ids' = in_use_session_ids \cup {id}
           /\ pase_state' = [pase_state EXCEPT ![x] = [id |-> id, ca |-> FALSE]]
        BY <1>2 DEF PbkdfParamRequest
  <2>2. id \in SessionId /\ id \notin in_use_session_ids
        BY AllocatedIsFree
  <2> QED BY <1>2, <2>1, <2>2 DEF PbkdfParamRequest
<1>3. ASSUME NEW x \in Exchange, PasePake1(x)
      PROVE  IdsAreReserved' /\ OneOwnerPerId'
  <2>1. pase_state'[x].id = pase_state[x].id
        BY <1>3 DEF PasePake1, PASEState
  <2> QED BY <1>3, <2>1 DEF PasePake1
<1>4. ASSUME NEW x \in Exchange, NEW confirmed \in BOOLEAN,
             PasePake3(x, confirmed)
      PROVE  IdsAreReserved' /\ OneOwnerPerId'
  <2>1. pase_state[x] # None /\ pase_state[x] \in PASEState
        BY <1>4 DEF PasePake3
  <2>2. pase_state[x].id \in SessionId
        BY <2>1 DEF PASEState
  <2> QED BY <1>4, <2>1, <2>2 DEF PasePake3, Entered, Session
<1>5. ASSUME NEW x \in Exchange, NEW validKey \in BOOLEAN, CaseSigma1(x, validKey)
      PROVE  IdsAreReserved' /\ OneOwnerPerId'
  <2>1. PICK id \in Allocated, i \in FabricIndex :
           /\ in_use_session_ids' = in_use_session_ids \cup {id}
           /\ case_state' =
                IF validKey
                THEN [case_state EXCEPT
                        ![x] = [id |-> id, index |-> i, fabric |-> fabrics[i]]]
                ELSE case_state
        BY <1>5 DEF CaseSigma1
  <2>2. id \in SessionId /\ id \notin in_use_session_ids
        BY AllocatedIsFree
  <2>3. UNCHANGED <<secure_unicast_session_context, pase_state>>
        BY <1>5 DEF CaseSigma1
  <2>4. CASE ~validKey
        BY <2>1, <2>3, <2>4
  <2>5. CASE validKey
    <3>1. case_state' = [case_state EXCEPT
                           ![x] = [id |-> id, index |-> i, fabric |-> fabrics[i]]]
          BY <2>1, <2>5
    <3>2. case_state'[x].id = id
          BY <3>1
    <3>3. Pending(x)' \subseteq Pending(x) \cup {id}
          BY <3>1, <3>2, <2>3
    <3>4. \A y \in Exchange : y # x => Pending(y)' = Pending(y)
          BY <3>1, <2>3
    <3>5. IdsAreReserved'
          BY <2>1, <2>3, <3>3, <3>4
    <3>6. pase_state'[x] # None /\ case_state'[x] # None
            => pase_state'[x].id # case_state'[x].id
          BY <3>2, <2>2, <2>3 DEF PASEState
    <3>7. \A y \in Exchange : pase_state'[y] # None /\ case_state'[y] # None
            => pase_state'[y].id # case_state'[y].id
          BY <3>1, <3>6, <2>3
    <3> HIDE DEF Pending
    <3> QED BY <2>2, <2>3, <3>3, <3>4, <3>5, <3>7
  <2> QED BY <2>4, <2>5
<1>6. ASSUME NEW x \in Exchange, NEW verified \in BOOLEAN, CaseSigma3(x, verified)
      PROVE  IdsAreReserved' /\ OneOwnerPerId'
  <2> DEFINE c == case_state[x].id
  <2>1. case_state[x] # None /\ case_state[x] \in CASEState
        BY <1>6 DEF CaseSigma3
  <2>2. c \in SessionId /\ c \in Pending(x)
        BY <2>1 DEF CASEState
  <2>3. /\ case_state' = [case_state EXCEPT ![x] = None]
        /\ UNCHANGED <<in_use_session_ids, pase_state>>
        BY <1>6 DEF CaseSigma3
  <2>4. Pending(x)' \subseteq Pending(x) \ {c}
        BY <2>1, <2>3
  <2>5. \A y \in Exchange : y # x => Pending(y)' = Pending(y)
        BY <2>3
  <2>6. \A s \in secure_unicast_session_context' :
           \/ s \in secure_unicast_session_context
           \/ s.local_session_identifier = c
        BY <1>6 DEF CaseSigma3, Entered
  <2>7. \A s, t \in secure_unicast_session_context' :
           s.local_session_identifier = t.local_session_identifier => s = t
        BY <1>6 DEF CaseSigma3, Entered
  <2>8. IdsAreReserved'
        BY <2>2, <2>3, <2>4, <2>5, <2>6
  <2>9. \A y \in Exchange : pase_state'[y] # None /\ case_state'[y] # None
           => pase_state'[y].id # case_state'[y].id
        BY <2>3
  <2> HIDE DEF Pending
  <2> QED BY <2>2, <2>4, <2>5, <2>6, <2>7, <2>8, <2>9
<1>7. ASSUME NEW s \in Requesters, CounterWraps(s)
      PROVE  IdsAreReserved' /\ OneOwnerPerId'
    BY <1>7 DEF CounterWraps, Leave
<1>8. ASSUME TerminateAllPaseSessions
      PROVE  IdsAreReserved' /\ OneOwnerPerId'
    BY <1>8 DEF TerminateAllPaseSessions, Leave, PaseSessions, IdsOf
<1>9. ASSUME NEW s \in detached, Drained(s)
      PROVE  IdsAreReserved' /\ OneOwnerPerId'
    BY <1>9 DEF Drained
<1>10. ASSUME NEW s \in Requesters, NEW identity \in FabricIdentity,
              NEW i \in FabricIndex, AddFabric(s, identity, i)
       PROVE  IdsAreReserved' /\ OneOwnerPerId'
  <2>1. \A t \in Session : WithIndex(t, i).local_session_identifier
                             = t.local_session_identifier
        BY DEF WithIndex, Session
  <2> QED BY <1>10, <2>1 DEF AddFabric
<1>11. ASSUME NEW i \in FabricIndex, RemoveFabric(i)
       PROVE  IdsAreReserved' /\ OneOwnerPerId'
    BY <1>11 DEF RemoveFabric, Leave, Released, SessionsOf, IdsOf
<1>12. ASSUME Restart PROVE IdsAreReserved' /\ OneOwnerPerId'
    BY <1>12 DEF Restart
<1>13. CASE UNCHANGED sessionVars
    BY <1>13 DEF sessionVars
<1> QED
    BY <1>1, <1>2, <1>3, <1>4, <1>5, <1>6, <1>7, <1>8, <1>9, <1>10, <1>11,
       <1>12, <1>13 DEF SessionNext

(* Every step keeps each session and each pending handshake with its fabric:  *)
(* a fabric is replaced only after RemoveFabric, which takes its sessions out *)
(* of the table and records the handshakes pending for it in outlived.        *)
LEMMA NextOwners ==
    TypeOK /\ Owners /\ TypeOK' /\ [SessionNext]_sessionVars => Owners'
<1> SUFFICES ASSUME TypeOK, Owners, TypeOK', [SessionNext]_sessionVars
             PROVE  Owners'
    OBVIOUS
<1> USE DEF TypeOK, Owners, SessionsHaveTheirFabric, PendingHaveTheirFabric,
            CaseHasIndex, Installed
<1>1. ASSUME NEW x \in Exchange, StatusReportFailure(x) PROVE Owners'
    BY <1>1 DEF StatusReportFailure
<1>2. ASSUME NEW x \in Exchange, PbkdfParamRequest(x) PROVE Owners'
    BY <1>2 DEF PbkdfParamRequest
<1>3. ASSUME NEW x \in Exchange, PasePake1(x) PROVE Owners'
    BY <1>3 DEF PasePake1
<1>4. ASSUME NEW x \in Exchange, NEW confirmed \in BOOLEAN,
             PasePake3(x, confirmed)
      PROVE  Owners'
    BY <1>4 DEF PasePake3, Entered
<1>5. ASSUME NEW x \in Exchange, NEW validKey \in BOOLEAN, CaseSigma1(x, validKey)
      PROVE  Owners'
    BY <1>5 DEF CaseSigma1
<1>6. ASSUME NEW x \in Exchange, NEW verified \in BOOLEAN, CaseSigma3(x, verified)
      PROVE  Owners'
  <2> DEFINE c == case_state[x]
             t == [session_type |-> "CASE", local_session_identifier |-> c.id,
                   local_fabric_index |-> c.index, fabric |-> c.fabric]
  <2>1. c # None /\ c \in CASEState
        BY <1>6 DEF CaseSigma3
  <2>2. c.index \in FabricIndex /\ c.fabric \in FabricIdentity
        BY <2>1 DEF CASEState
  <2>3. \/ fabrics[c.index] = c.fabric
        \/ <<c.index, c.fabric>> \in outlived
        BY <2>1
  <2>4. \/ fabrics[c.index] # None /\ fabrics[c.index] = c.fabric
        \/ <<c.index, c.fabric>> \in outlived
        BY <2>2, <2>3, SessionAssumption
  <2>5. \A s \in secure_unicast_session_context' :
           s \in secure_unicast_session_context \/ s = t
        BY <1>6 DEF CaseSigma3, Entered
  <2>6. UNCHANGED <<fabrics, outlived>>
        BY <1>6 DEF CaseSigma3
  <2>7. SessionsHaveTheirFabric'
    <3> SUFFICES ASSUME NEW s \in secure_unicast_session_context',
                        s.local_fabric_index # 0
                 PROVE  \/ /\ s.local_fabric_index \in Installed
                           /\ s.session_type = "CASE"
                                => fabrics[s.local_fabric_index] = s.fabric
                        \/ <<s.local_fabric_index, s.fabric>> \in outlived
        BY <2>6
    <3>1. CASE s \in secure_unicast_session_context
          BY <3>1
    <3>2. CASE s = t
      <4>1. s.local_fabric_index = c.index /\ s.fabric = c.fabric
            BY <3>2
      <4> QED BY <2>2, <2>4, <4>1
    <3> QED BY <2>5, <3>1, <3>2
  <2>8. PendingHaveTheirFabric'
        BY <1>6, <2>6 DEF CaseSigma3
  <2>9. CaseHasIndex'
    <3>1. t.local_fabric_index # 0
          BY <2>2, SessionAssumption DEF FabricIndex
    <3> QED BY <2>5, <3>1
  <2> QED BY <2>7, <2>8, <2>9
<1>7. ASSUME NEW s \in Requesters, CounterWraps(s)
      PROVE  Owners'
    BY <1>7 DEF CounterWraps, Leave
<1>8. ASSUME TerminateAllPaseSessions PROVE Owners'
    BY <1>8 DEF TerminateAllPaseSessions, Leave, PaseSessions, IdsOf
<1>9. ASSUME NEW s \in detached, Drained(s) PROVE Owners'
    BY <1>9 DEF Drained
<1>10. ASSUME NEW s \in Requesters, NEW identity \in FabricIdentity,
              NEW i \in FabricIndex, AddFabric(s, identity, i)
       PROVE  Owners'
  <2>1. fabrics[i] = None /\ identity # None
        BY <1>10, SessionAssumption DEF AddFabric
  <2>2. fabrics' = [fabrics EXCEPT ![i] = identity] /\ UNCHANGED <<case_state, outlived>>
        BY <1>10 DEF AddFabric
  <2>3. \A j \in FabricIndex : fabrics[j] # None => fabrics'[j] = fabrics[j]
        BY <2>1, <2>2
  <2>4. PendingHaveTheirFabric'
    <3> SUFFICES ASSUME NEW x \in Exchange, case_state[x] # None
                 PROVE  \/ fabrics'[case_state[x].index] = case_state[x].fabric
                        \/ <<case_state[x].index, case_state[x].fabric>> \in outlived
        BY <2>2
    <3>1. case_state[x].index \in FabricIndex /\ case_state[x].fabric # None
        BY SessionAssumption DEF CASEState
    <3> QED BY <2>3, <3>1
  <2>5. SessionsHaveTheirFabric'
    <3> SUFFICES ASSUME NEW s2 \in secure_unicast_session_context',
                        s2.local_fabric_index # 0
                 PROVE  \/ /\ s2.local_fabric_index \in Installed'
                           /\ s2.session_type = "CASE"
                                => fabrics'[s2.local_fabric_index] = s2.fabric
                        \/ <<s2.local_fabric_index, s2.fabric>> \in outlived
        BY <2>2
    <3>1. PICK t \in secure_unicast_session_context :
             s2 = IF t = s THEN WithIndex(t, i) ELSE t
        BY <1>10 DEF AddFabric
    <3>2. CASE s2 = t
        BY <2>2, <2>3, <3>2
    <3>3. CASE s2 = WithIndex(t, i) /\ t.local_fabric_index # 0
      <4>1. s2 = t
            BY <3>3 DEF WithIndex, Session
      <4> QED BY <3>2, <4>1
    <3>4. CASE s2 = WithIndex(t, i) /\ t.local_fabric_index = 0
      <4>1. /\ s2.local_fabric_index = i
            /\ s2.session_type = t.session_type
            BY <3>4 DEF WithIndex, Session
      <4>2. s2.session_type # "CASE"
            BY <3>4, <4>1
      <4>3. i \in Installed'
            BY <2>1, <2>2
      <4> QED BY <4>1, <4>2, <4>3
    <3> QED BY <3>1, <3>2, <3>3, <3>4
  <2>6. CaseHasIndex'
    <3>1. \A t \in Session : /\ WithIndex(t, i).session_type = t.session_type
                             /\ t.local_fabric_index # 0
                                  => WithIndex(t, i).local_fabric_index # 0
          BY DEF WithIndex, Session
    <3> QED BY <1>10, <3>1 DEF AddFabric
  <2> QED BY <2>4, <2>5, <2>6
<1>11. ASSUME NEW i \in FabricIndex, RemoveFabric(i) PROVE Owners'
    BY <1>11 DEF RemoveFabric, Leave, SessionsOf
<1>12. ASSUME Restart PROVE Owners'
    BY <1>12 DEF Restart
<1>13. CASE UNCHANGED sessionVars
    BY <1>13 DEF sessionVars
<1> QED
    BY <1>1, <1>2, <1>3, <1>4, <1>5, <1>6, <1>7, <1>8, <1>9, <1>10, <1>11,
       <1>12, <1>13 DEF SessionNext

(* The inductive invariant holds in every reachable state. *)
THEOREM Invariance == SessionSpec => [](Ids /\ Owners)
<1>1. Ids /\ Owners /\ [SessionNext]_sessionVars => (Ids /\ Owners)'
    BY NextType, NextIds, NextOwners DEF Ids
<1> QED BY InitInv, <1>1, PTL DEF SessionSpec

(* Type correctness of the session table and of the pending handshakes. *)
THEOREM TypeCorrect == SessionSpec => []TypeOK
<1>1. Ids /\ Owners => TypeOK
    BY DEF Ids
<1> QED BY Invariance, <1>1, PTL

(* Every identifier held by a session or by a pending handshake is reserved,  *)
(* whatever handshakes fail, restart or complete and whatever is removed.     *)
THEOREM IdsAreReservedHolds == SessionSpec => []IdsAreReserved
<1>1. Ids /\ Owners => IdsAreReserved
    BY DEF Ids
<1> QED BY Invariance, <1>1, PTL

(* No two sessions or pending handshakes hold the same identifier: a          *)
(* handshake that completes never replaces another session of the table.      *)
THEOREM OneOwnerPerIdHolds == SessionSpec => []OneOwnerPerId
<1>1. Ids /\ Owners => OneOwnerPerId
    BY DEF Ids
<1> QED BY Invariance, <1>1, PTL

(* A CASE session belongs to the fabric it was verified against unless that   *)
(* fabric was removed while the handshake was pending.                        *)
THEOREM SessionsHaveTheirFabricHolds == SessionSpec => []SessionsHaveTheirFabric
<1>1. Ids /\ Owners => SessionsHaveTheirFabric
    BY DEF Owners
<1> QED BY Invariance, <1>1, PTL
-----------------------------------------------------------------------------
(* Every step is a step of the session table or leaves it alone. *)
LEMMA StepIsSessionStep ==
    CommissioningTypeOK /\ [Next]_vars => [SessionNext]_sessionVars
<1> SUFFICES ASSUME CommissioningTypeOK, [Next]_vars
             PROVE  [SessionNext]_sessionVars
    OBVIOUS
<1>1. CASE SessionLayer
    BY <1>1 DEF SessionLayer, SessionNext
<1>2. ASSUME NEW s \in Requesters, Command(s) PROVE [SessionNext]_sessionVars
  <2>1. CASE HandleCommissioningComplete(s)
        BY <2>1 DEF HandleCommissioningComplete, SessionNext
  <2>2. ASSUME NEW v \in BOOLEAN, HandleOpenCommissioningWindow(s, v)
        PROVE  UNCHANGED sessionVars
        BY <2>2 DEF HandleOpenCommissioningWindow
  <2>3. CASE HandleOpenBasicCommissioningWindow(s)
        BY <2>3 DEF HandleOpenBasicCommissioningWindow
  <2>4. CASE HandleRevokeCommissioningWindow
        BY <2>4 DEF HandleRevokeCommissioningWindow
  <2>5. CASE HandleCertificateRequest
        BY <2>5 DEF HandleCertificateRequest
  <2>6. ASSUME NEW f \in FabricIdentity, HandleAddTrustedRootCertificate(f)
        PROVE  UNCHANGED sessionVars
        BY <2>6 DEF HandleAddTrustedRootCertificate
  <2>7. CASE HandleAddNoc(s)
    <3>1. PICK i \in FabricIndex : AddFabric(s, candidate_root_ca, i)
          BY <2>7 DEF HandleAddNoc
    <3>2. candidate_root_ca \in FabricIdentity
          BY <2>7 DEF HandleAddNoc, CommissioningTypeOK
    <3> QED BY <3>1, <3>2 DEF SessionNext
  <2>8. ASSUME NEW i \in FabricIndex, HandleRemoveFabric(i)
        PROVE  SessionNext
        BY <2>8 DEF HandleRemoveFabric, SessionNext
  <2>9. ASSUME NEW modes \in SUBSET WrittenModes, WriteAcl(s, modes)
        PROVE  UNCHANGED sessionVars
        BY <2>9 DEF WriteAcl
  <2> QED
      BY <1>2, <2>1, <2>2, <2>3, <2>4, <2>5, <2>6, <2>7, <2>8, <2>9
      DEF Command
<1>3. CASE CancelCommissioning
    BY <1>3 DEF CancelCommissioning
<1>4. CASE StopAndLoad
    BY <1>4 DEF StopAndLoad, SessionNext
<1>5. CASE UNCHANGED vars
    BY <1>5 DEF vars
<1>6. CASE SaveState
    BY <1>6 DEF SaveState
<1> QED BY <1>1, <1>2, <1>3, <1>4, <1>5, <1>6 DEF Next

(* The handshakes and the end of a removed session leave everything but the   *)
(* session table alone, fabrics included.                                     *)
LEMMA SessionLayerKeeps ==
    SessionLayer => UNCHANGED <<windowVars, candidateVars, stateVars, fabrics>>
BY DEF SessionLayer, StatusReportFailure, PbkdfParamRequest, PasePake1,
       PasePake3, CaseSigma1, CaseSigma3, CounterWraps, Drained

(* A session that issues a command is well formed. *)
LEMMA RequesterIsSession ==
    ASSUME TypeOK, NEW s \in Requesters
    PROVE  /\ s \in Session
           /\ s.local_fabric_index \in FabricIndex \cup {0}
           /\ s.local_fabric_index # None
BY CommissioningAssumption DEF TypeOK, Requesters, Session

(* Types hold initially ... *)
LEMMA InitCommissioningType == Init => CommissioningTypeOK
<1> SUFFICES ASSUME Init PROVE CommissioningTypeOK
    OBVIOUS
<1>1. TypeOK
    BY InitInv DEF Init, Ids
<1>2. saved \in [fabrics : [FabricIndex -> FabricIdentity \cup {None}],
                  acl : SUBSET ACLEntry]
    BY <1>1 DEF Init, TypeOK
<1>3. cancel_tasks \in 0 .. MaxCancelTasks
    BY CommissioningAssumption DEF Init
<1> QED BY <1>1, <1>2, <1>3 DEF Init, CommissioningTypeOK

(* ... and every step keeps them. *)
LEMMA NextCommissioningType ==
    CommissioningTypeOK /\ [Next]_vars => CommissioningTypeOK'
<1> SUFFICES ASSUME CommissioningTypeOK, [Next]_vars PROVE CommissioningTypeOK'
    OBVIOUS
<1>a. TypeOK /\ TypeOK'
    BY StepIsSessionStep, NextType DEF CommissioningTypeOK
<1>b. fabrics \in [FabricIndex -> FabricIdentity \cup {None}]
    BY <1>a DEF TypeOK
<1>c. fabrics' \in [FabricIndex -> FabricIdentity \cup {None}]
    BY <1>a DEF TypeOK
<1> USE CommissioningAssumption DEF CommissioningTypeOK
<1>1. CASE SessionLayer
    BY <1>a, <1>1, SessionLayerKeeps DEF windowVars, candidateVars, stateVars
<1>2. ASSUME NEW s \in Requesters, Command(s) PROVE CommissioningTypeOK'
  <2>0. s.local_fabric_index \in FabricIndex \cup {0}
        BY <1>a, RequesterIsSession
  <2>1. CASE HandleCommissioningComplete(s)
        BY <1>a, <1>c, <2>1 DEF HandleCommissioningComplete, Saved, candidateVars
  <2>2. ASSUME NEW v \in BOOLEAN, HandleOpenCommissioningWindow(s, v)
        PROVE  CommissioningTypeOK'
    <3>1. cancel_tasks' \in 0 .. MaxCancelTasks
          BY <2>2 DEF HandleOpenCommissioningWindow, TimeoutTask
    <3>2. CASE v
      <4>1. OpenedBy(s)
            BY <2>2, <3>2 DEF HandleOpenCommissioningWindow
      <4>2. /\ in_commissioning_mode' \in BOOLEAN
            /\ current_admin_fabric_index' \in FabricIndex \cup {0, None}
            /\ current_admin_vendor_id' \in FabricIdentity \cup {None}
            BY <1>b, <2>0, <4>1 DEF OpenedBy, Installed
      <4> QED BY <1>a, <2>2, <3>1, <3>2, <4>2
              DEF HandleOpenCommissioningWindow, candidateVars, stateVars
    <3>3. CASE ~v
          BY <1>a, <2>2, <3>1, <3>3
          DEF HandleOpenCommissioningWindow, candidateVars, stateVars
    <3> QED BY <3>2, <3>3
  <2>3. CASE HandleOpenBasicCommissioningWindow(s)
        BY <1>a, <1>b, <2>0, <2>3 DEF HandleOpenBasicCommissioningWindow,
           OpenedBy, TimeoutTask, candidateVars, stateVars, Installed
  <2>4. CASE HandleRevokeCommissioningWindow
        BY <1>a, <2>4 DEF HandleRevokeCommissioningWindow, candidateVars,
           stateVars
  <2>5. CASE HandleCertificateRequest
        BY <1>a, <2>5 DEF HandleCertificateRequest, windowVars, stateVars
  <2>6. ASSUME NEW f \in FabricIdentity, HandleAddTrustedRootCertificate(f)
        PROVE  CommissioningTypeOK'
        BY <1>a, <2>6 DEF HandleAddTrustedRootCertificate, windowVars, stateVars
  <2>7. CASE HandleAddNoc(s)
    <3>1. acl' \in SUBSET ACLEntry
          BY <2>7 DEF HandleAddNoc, ACLEntry
    <3> QED BY <1>a, <2>7, <3>1 DEF HandleAddNoc, windowVars, candidateVars
  <2>8. ASSUME NEW i \in FabricIndex, HandleRemoveFabric(i)
        PROVE  CommissioningTypeOK'
    <3>1. acl' \in SUBSET ACLEntry
          BY <2>8 DEF HandleRemoveFabric, AclWithout
    <3>2. in_commissioning_mode' \in BOOLEAN
          BY <2>8 DEF HandleRemoveFabric, ModeAfterRemoval
    <3> QED BY <1>a, <1>c, <2>8, <3>1, <3>2
            DEF HandleRemoveFabric, Saved, candidateVars
  <2>9. ASSUME NEW modes \in SUBSET WrittenModes, WriteAcl(s, modes)
        PROVE  CommissioningTypeOK'
    <3>1. OwnEntries(s, modes) \in SUBSET ACLEntry
      <4>1. FabricOf(s.local_fabric_index) \in FabricIdentity \cup {None}
            BY <1>b DEF FabricOf
      <4>2. \A m \in modes : m \in {"PASE", "CASE"}
            OBVIOUS
      <4> QED BY <2>0, <4>1, <4>2 DEF OwnEntries, ACLEntry
    <3>2. acl' \in SUBSET ACLEntry
          BY <2>9, <3>1 DEF WriteAcl, AclWithout
    <3>3. overtaken' \in BOOLEAN
          BY <2>9 DEF WriteAcl
    <3> QED BY <1>a, <1>c, <2>9, <3>2, <3>3
            DEF WriteAcl, Saved, windowVars, candidateVars
  <2> QED
      BY <1>2, <2>1, <2>2, <2>3, <2>4, <2>5, <2>6, <2>7, <2>8, <2>9
      DEF Command
<1>3. CASE CancelCommissioning
  <2>1. cancel_tasks' \in 0 .. MaxCancelTasks
        BY <1>3 DEF CancelCommissioning
  <2>2. lapsed' \in BOOLEAN
        BY <1>3 DEF CancelCommissioning
  <2>3. CASE WindowOpen
        BY <1>a, <1>3, <2>1, <2>2, <2>3
        DEF CancelCommissioning, WindowReset, candidateVars, stateVars
  <2>4. CASE ~WindowOpen
        BY <1>a, <1>3, <2>1, <2>2, <2>4
        DEF CancelCommissioning, candidateVars, stateVars
  <2> QED BY <2>3, <2>4
<1>4. CASE StopAndLoad
  <2>1. in_commissioning_mode' \in BOOLEAN
        BY <1>4 DEF StopAndLoad
  <2>2. cancel_tasks' \in 0 .. MaxCancelTasks
        BY <1>4 DEF StopAndLoad
  <2>3. acl' \in SUBSET ACLEntry
        BY <1>4 DEF StopAndLoad
  <2> QED BY <1>a, <1>4, <2>1, <2>2, <2>3 DEF StopAndLoad
<1>5. CASE UNCHANGED vars
    BY <1>a, <1>5 DEF vars, windowVars, candidateVars, stateVars
<1>6. CASE SaveState
    BY <1>a, <1>c, <1>6 DEF SaveState, Saved, windowVars, candidateVars
<1> QED BY <1>1, <1>2, <1>3, <1>4, <1>5, <1>6 DEF Next

(***************************************************************************)
(* The commissioning window.                                               *)
(***************************************************************************)
Window == WindowHasTimeout /\ VerifierFollowsWindow /\ AdminFollowsWindow

(* A window opens only when none is, with a task of its own, and whatever     *)
(* cancels it resets everything it set.                                       *)
LEMMA NextWindow ==
    CommissioningTypeOK /\ Window /\ [Next]_vars => Window'
<1> SUFFICES ASSUME CommissioningTypeOK, Window, [Next]_vars PROVE Window'
    OBVIOUS
<1> USE CommissioningAssumption DEF Window, WindowHasTimeout,
        VerifierFollowsWindow, AdminFollowsWindow, WindowOpen
<1>a. cancel_tasks \in Nat
    BY DEF CommissioningTypeOK
<1>1. CASE SessionLayer
    BY <1>1, SessionLayerKeeps DEF windowVars
<1>2. ASSUME NEW s \in Requesters, Command(s) PROVE Window'
  <2>0. s.local_fabric_index # None
        BY RequesterIsSession DEF CommissioningTypeOK
  <2>1. CASE HandleCommissioningComplete(s)
        BY <2>1 DEF HandleCommissioningComplete
  <2>2. ASSUME NEW v \in BOOLEAN, HandleOpenCommissioningWindow(s, v)
        PROVE  Window'
    <3>1. CASE v
          BY <1>a, <2>0, <2>2, <3>1 DEF HandleOpenCommissioningWindow,
             OpenedBy, TimeoutTask, CanOpen
    <3>2. CASE ~v
          BY <1>a, <2>2, <3>2 DEF HandleOpenCommissioningWindow, CanOpen
    <3> QED BY <3>1, <3>2
  <2>3. CASE HandleOpenBasicCommissioningWindow(s)
        BY <1>a, <2>0, <2>3 DEF HandleOpenBasicCommissioningWindow, OpenedBy,
           TimeoutTask, CanOpen
  <2>4. CASE HandleRevokeCommissioningWindow
        BY <1>a, <2>4 DEF HandleRevokeCommissioningWindow
  <2>5. CASE HandleCertificateRequest
        BY <2>5 DEF HandleCertificateRequest, windowVars
  <2>6. ASSUME NEW f \in FabricIdentity, HandleAddTrustedRootCertificate(f)
        PROVE  Window'
        BY <2>6 DEF HandleAddTrustedRootCertificate, windowVars
  <2>7. CASE HandleAddNoc(s)
        BY <2>7 DEF HandleAddNoc, windowVars
  <2>8. ASSUME NEW i \in FabricIndex, HandleRemoveFabric(i)
        PROVE  Window'
        BY <2>8 DEF HandleRemoveFabric
  <2>9. ASSUME NEW modes \in SUBSET WrittenModes, WriteAcl(s, modes)
        PROVE  Window'
        BY <2>9 DEF WriteAcl, windowVars
  <2> QED
      BY <1>2, <2>1, <2>2, <2>3, <2>4, <2>5, <2>6, <2>7, <2>8, <2>9
      DEF Command
<1>3. CASE CancelCommissioning
  <2>1. CASE WindowOpen
        BY <1>3, <2>1 DEF CancelCommissioning, WindowReset
  <2>2. CASE ~WindowOpen
        BY <1>3, <2>2 DEF CancelCommissioning
  <2> QED BY <2>1, <2>2
<1>4. CASE StopAndLoad
    BY <1>4 DEF StopAndLoad
<1>5. CASE UNCHANGED vars
    BY <1>5 DEF vars, windowVars
<1>6. CASE SaveState
    BY <1>6 DEF SaveState, windowVars
<1> QED BY <1>1, <1>2, <1>3, <1>4, <1>5, <1>6 DEF Next

(***************************************************************************)
(* What the fabrics leave behind.                                          *)
(***************************************************************************)

(* The file agrees with itself as memory does: an entry kept for a fabric is  *)
(* kept with that fabric.                                                     *)
SavedGrants ==
    \A e \in saved.acl : \/ e.owner = None
                         \/ /\ e.fabric_index \in FabricIndex
                            /\ saved.fabrics[e.fabric_index] = e.owner

(* An entry under an index without an owner was written after its fabric was  *)
(* removed.                                                                   *)
Overtaken(entries) ==
    \A e \in entries : e.owner = None /\ e.fabric_index # 0 => overtaken

Kept == /\ RemovedStaysRemoved /\ GrantsAreNotInherited /\ SavedGrants
        /\ Overtaken(acl) /\ Overtaken(saved.acl)

(* AddNOC fills an empty index, RemoveFabric empties memory and file at once, *)
(* and a write names the fabric of its session, or none.                      *)
LEMMA NextKept == CommissioningTypeOK /\ Kept /\ [Next]_vars => Kept'
<1> SUFFICES ASSUME CommissioningTypeOK, Kept, [Next]_vars PROVE Kept'
    OBVIOUS
<1> USE CommissioningAssumption DEF Kept, RemovedStaysRemoved,
        GrantsAreNotInherited, SavedGrants, Overtaken, Installed
<1>a. /\ fabrics \in [FabricIndex -> FabricIdentity \cup {None}]
      /\ acl \subseteq ACLEntry
      /\ saved \in [fabrics : [FabricIndex -> FabricIdentity \cup {None}],
                    acl : SUBSET ACLEntry]
    BY DEF CommissioningTypeOK, TypeOK
<1>1. CASE SessionLayer
    BY <1>1, SessionLayerKeeps DEF stateVars
<1>2. ASSUME NEW s \in Requesters, Command(s) PROVE Kept'
  <2>0. s.local_fabric_index \in FabricIndex \cup {0}
        BY RequesterIsSession DEF CommissioningTypeOK
  <2>1. CASE HandleCommissioningComplete(s)
        BY <1>a, <2>1 DEF HandleCommissioningComplete, Saved,
           TerminateAllPaseSessions
  <2>2. ASSUME NEW v \in BOOLEAN, HandleOpenCommissioningWindow(s, v)
        PROVE  Kept'
        BY <2>2 DEF HandleOpenCommissioningWindow, sessionVars, stateVars
  <2>3. CASE HandleOpenBasicCommissioningWindow(s)
        BY <2>3 DEF HandleOpenBasicCommissioningWindow, sessionVars, stateVars
  <2>4. CASE HandleRevokeCommissioningWindow
        BY <2>4 DEF HandleRevokeCommissioningWindow, sessionVars, stateVars
  <2>5. CASE HandleCertificateRequest
        BY <2>5 DEF HandleCertificateRequest, sessionVars, stateVars
  <2>6. ASSUME NEW f \in FabricIdentity, HandleAddTrustedRootCertificate(f)
        PROVE  Kept'
        BY <2>6 DEF HandleAddTrustedRootCertificate, sessionVars, stateVars
  <2>7. CASE HandleAddNoc(s)
    <3>1. PICK i \in FabricIndex :
             /\ AddFabric(s, candidate_root_ca, i)
             /\ acl' = acl \cup {[fabric_index |-> i,
                                  authentication_mode |-> "CASE",
                                  owner |-> candidate_root_ca]}
          BY <2>7 DEF HandleAddNoc
    <3>2. candidate_root_ca # None /\ UNCHANGED <<saved, overtaken>>
          BY <2>7 DEF HandleAddNoc
    <3>3. fabrics[i] = None
          /\ fabrics' = [fabrics EXCEPT ![i] = candidate_root_ca]
          BY <3>1 DEF AddFabric
    <3>4. RemovedStaysRemoved'
          BY <1>a, <3>2, <3>3
    <3>5. GrantsAreNotInherited'
          BY <1>a, <3>1, <3>2, <3>3
    <3>6. Overtaken(acl)'
          BY <3>1, <3>2
    <3> QED BY <3>2, <3>4, <3>5, <3>6
  <2>8. ASSUME NEW i \in FabricIndex, HandleRemoveFabric(i)
        PROVE  Kept'
    <3>1. fabrics' = [fabrics EXCEPT ![i] = None]
          BY <2>8 DEF HandleRemoveFabric, RemoveFabric
    <3>2. /\ acl' = {e \in acl : e.fabric_index # i}
          /\ saved' = [fabrics |-> fabrics', acl |-> acl']
          /\ UNCHANGED overtaken
          BY <2>8 DEF HandleRemoveFabric, AclWithout, Saved
    <3> QED BY <1>a, <3>1, <3>2
  <2>9. ASSUME NEW modes \in SUBSET WrittenModes, WriteAcl(s, modes)
        PROVE  Kept'
    <3> DEFINE k == s.local_fabric_index
    <3>1. \A e \in acl' : \/ e \in acl
                          \/ e.fabric_index = k /\ e.owner = FabricOf(k)
          BY <2>9 DEF WriteAcl, AclWithout, OwnEntries
    <3>2. /\ saved' = [fabrics |-> fabrics', acl |-> acl']
          /\ fabrics' = fabrics
          /\ overtaken' = (overtaken \/ k \notin Installed \cup {0})
          BY <2>9 DEF WriteAcl, Saved, sessionVars
    <3>3. \/ FabricOf(k) = None /\ k \notin Installed
          \/ k \in Installed /\ fabrics[k] = FabricOf(k)
          BY <2>0 DEF FabricOf
    <3>4. overtaken => overtaken'
          BY <3>2
    <3>5. RemovedStaysRemoved'
          BY <3>2
    <3>6. GrantsAreNotInherited'
          BY <3>1, <3>2, <3>3
    <3>7. Overtaken(acl)'
      <4> SUFFICES ASSUME NEW e \in acl', e.owner = None, e.fabric_index # 0
                   PROVE  overtaken'
          OBVIOUS
      <4>1. CASE e \in acl
            BY <3>4, <4>1
      <4>2. CASE e.fabric_index = k /\ e.owner = FabricOf(k)
            BY <3>2, <3>3, <4>2
      <4> QED BY <3>1, <4>1, <4>2
    <3> QED BY <3>2, <3>5, <3>6, <3>7
  <2> QED
      BY <1>2, <2>1, <2>2, <2>3, <2>4, <2>5, <2>6, <2>7, <2>8, <2>9
      DEF Command
<1>3. CASE CancelCommissioning
    BY <1>3 DEF CancelCommissioning, sessionVars, stateVars
<1>4. CASE StopAndLoad
    BY <1>a, <1>4 DEF StopAndLoad
<1>5. CASE UNCHANGED vars
    BY <1>5 DEF vars, sessionVars, stateVars
<1>6. CASE SaveState
    BY <1>a, <1>6 DEF SaveState, Saved, sessionVars
<1> QED BY <1>1, <1>2, <1>3, <1>4, <1>5, <1>6 DEF Next

(* Commissioning mode ends on a device without fabrics in one of the two ways *)
(* recorded: CommissioningComplete needs a grant under the session's index,   *)
(* and without a fabric at that index only an entry written too late is one.  *)
LEMMA NextEmpty ==
    CommissioningTypeOK /\ Kept /\ EmptyIsCommissionable /\ [Next]_vars
      => EmptyIsCommissionable'
<1> SUFFICES ASSUME CommissioningTypeOK, Kept, EmptyIsCommissionable,
                    [Next]_vars
             PROVE  EmptyIsCommissionable'
    OBVIOUS
<1> USE CommissioningAssumption DEF EmptyIsCommissionable, Installed
<1>a. fabrics \in [FabricIndex -> FabricIdentity \cup {None}]
    BY DEF CommissioningTypeOK, TypeOK
<1>1. CASE SessionLayer
    BY <1>1, SessionLayerKeeps DEF windowVars, stateVars
<1>2. ASSUME NEW s \in Requesters, Command(s) PROVE EmptyIsCommissionable'
  <2>1. CASE HandleCommissioningComplete(s)
    <3>1. /\ s.session_type = "CASE" /\ s.local_fabric_index # 0
          /\ UNCHANGED <<fabrics, overtaken>>
          BY <2>1 DEF HandleCommissioningComplete, TerminateAllPaseSessions
    <3>2. PICK e \in acl : e.fabric_index = s.local_fabric_index
          BY <1>2, <3>1 DEF Command, MayAdminister
    <3>3. Installed = {} => overtaken
          BY <3>1, <3>2 DEF Kept, GrantsAreNotInherited, Overtaken
    <3> QED BY <3>1, <3>3
  <2>2. ASSUME NEW v \in BOOLEAN, HandleOpenCommissioningWindow(s, v)
        PROVE  EmptyIsCommissionable'
        BY <2>2 DEF HandleOpenCommissioningWindow, OpenedBy, sessionVars,
           stateVars
  <2>3. CASE HandleOpenBasicCommissioningWindow(s)
        BY <2>3 DEF HandleOpenBasicCommissioningWindow, OpenedBy, sessionVars,
           stateVars
  <2>4. CASE HandleRevokeCommissioningWindow
        BY <2>4 DEF HandleRevokeCommissioningWindow, sessionVars, stateVars
  <2>5. CASE HandleCertificateRequest
        BY <2>5 DEF HandleCertificateRequest, sessionVars, windowVars, stateVars
  <2>6. ASSUME NEW f \in FabricIdentity, HandleAddTrustedRootCertificate(f)
        PROVE  EmptyIsCommissionable'
        BY <2>6 DEF HandleAddTrustedRootCertificate, sessionVars, windowVars,
           stateVars
  <2>7. CASE HandleAddNoc(s)
    <3>1. PICK i \in FabricIndex : AddFabric(s, candidate_root_ca, i)
          BY <2>7 DEF HandleAddNoc
    <3>2. fabrics'[i] # None
          BY <1>a, <2>7, <3>1 DEF AddFabric, HandleAddNoc
    <3> QED BY <3>2
  <2>8. ASSUME NEW i \in FabricIndex, HandleRemoveFabric(i)
        PROVE  EmptyIsCommissionable'
        BY <2>8 DEF HandleRemoveFabric, ModeAfterRemoval
  <2>9. ASSUME NEW modes \in SUBSET WrittenModes, WriteAcl(s, modes)
        PROVE  EmptyIsCommissionable'
        BY <2>9 DEF WriteAcl, sessionVars, windowVars
  <2> QED
      BY <1>2, <2>1, <2>2, <2>3, <2>4, <2>5, <2>6, <2>7, <2>8, <2>9
      DEF Command
<1>3. CASE CancelCommissioning
  <2>1. CASE WindowOpen
        BY <1>3, <2>1 DEF CancelCommissioning, sessionVars
  <2>2. CASE ~WindowOpen
        BY <1>3, <2>2 DEF CancelCommissioning, sessionVars, stateVars
  <2> QED BY <2>1, <2>2
<1>4. CASE StopAndLoad
    BY <1>4 DEF StopAndLoad
<1>5. CASE UNCHANGED vars
    BY <1>5 DEF vars, sessionVars, windowVars, stateVars
<1>6. CASE SaveState
    BY <1>6 DEF SaveState, sessionVars, windowVars
<1> QED BY <1>1, <1>2, <1>3, <1>4, <1>5, <1>6 DEF Next
-----------------------------------------------------------------------------
CInv == CommissioningTypeOK /\ Window /\ Kept /\ EmptyIsCommissionable

(* The inductive invariant of commissioning holds in every reachable state. *)
THEOREM CommissioningInvariance == Spec => []CInv
<1>1. Init => CInv
  <2> SUFFICES ASSUME Init PROVE CInv
      OBVIOUS
  <2>1. CommissioningTypeOK
        BY InitCommissioningType
  <2>2. Window
        BY DEF Init, Window, WindowHasTimeout, VerifierFollowsWindow,
           AdminFollowsWindow, WindowOpen
  <2>3. Kept
        BY DEF Init, SessionInit, Kept, RemovedStaysRemoved,
           GrantsAreNotInherited, SavedGrants, Overtaken
  <2>4. EmptyIsCommissionable
        BY DEF Init, EmptyIsCommissionable
  <2> QED BY <2>1, <2>2, <2>3, <2>4 DEF CInv
<1>2. CInv /\ [Next]_vars => CInv'
    BY NextCommissioningType, NextWindow, NextKept, NextEmpty DEF CInv
<1> QED BY <1>1, <1>2, PTL DEF Spec

(* Commissioning implements the session table: what is proved of SessionSpec  *)
(* holds whatever commands run on top of it.                                  *)
THEOREM ImplementsSessionTable == Spec => SessionSpec
<1>1. Init => SessionInit
    BY DEF Init
<1>2. CInv /\ [Next]_vars => [SessionNext]_sessionVars
    BY StepIsSessionStep DEF CInv
<1> QED BY <1>1, <1>2, CommissioningInvariance, PTL DEF Spec, SessionSpec

(* An identifier has one owner while commands add and remove fabrics, end     *)
(* PASE sessions and restart the process.                                     *)
THEOREM CommissioningKeepsIds == Spec => []OneOwnerPerId
BY ImplementsSessionTable, OneOwnerPerIdHolds, PTL

(* Every open window has a cancel task to close it. *)
THEOREM WindowHasTimeoutHolds == Spec => []WindowHasTimeout
<1>1. CInv => WindowHasTimeout
    BY DEF CInv, Window
<1> QED BY CommissioningInvariance, <1>1, PTL

(* The passcode verifier is the window's exactly while it is open. *)
THEOREM VerifierFollowsWindowHolds == Spec => []VerifierFollowsWindow
<1>1. CInv => VerifierFollowsWindow
    BY DEF CInv, Window
<1> QED BY CommissioningInvariance, <1>1, PTL

(* A fabric inherits no grant from the fabric that had its index before.      *)
THEOREM GrantsAreNotInheritedHolds == Spec => []GrantsAreNotInherited
<1>1. CInv => GrantsAreNotInherited
    BY DEF CInv, Kept
<1> QED BY CommissioningInvariance, <1>1, PTL

(* A restart never brings a removed fabric back. *)
THEOREM RemovedStaysRemovedHolds == Spec => []RemovedStaysRemoved
<1>1. CInv => RemovedStaysRemoved
    BY DEF CInv, Kept
<1> QED BY CommissioningInvariance, <1>1, PTL

(* A device without fabrics can be commissioned, the two recorded exceptions  *)
(* apart.                                                                     *)
THEOREM EmptyIsCommissionableHolds == Spec => []EmptyIsCommissionable
<1>1. CInv => EmptyIsCommissionable
    BY DEF CInv
<1> QED BY CommissioningInvariance, <1>1, PTL
=============================================================================
