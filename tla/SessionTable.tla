---------------------------- MODULE SessionTable ----------------------------
(***************************************************************************)
(* Who owns a local session identifier, and which fabric a session belongs *)
(* to.  The identifiers are drawn by MessageLayer.allocate_session_id, held *)
(* by the PASE and CASE handshakes of SecureChannel (pase_state and         *)
(* case_state, keyed by exchange), handed to the table of secure sessions   *)
(* when a handshake ends well, and released when RemoveFabric or the end of *)
(* commissioning takes a session out of the table.                          *)
(*                                                                         *)
(* A handler that reaches no await between two of its writes is one action; *)
(* the one await inside a handler here, sending a frame on a UDP socket     *)
(* that takes it at once, does not yield.  Requests already dispatched as   *)
(* tasks outlive the session that carried them: RemoveFabric and            *)
(* terminate_all_pase_sessions leave such sessions in detached.             *)
(***************************************************************************)
EXTENDS Integers, FiniteSets

CONSTANTS
    Exchange,           (* exchanges a handshake message may arrive on     *)
    MaxSessionId,       (* 0xFFFF                                          *)
    MaxFabricIndex,     (* 253, the last of range(1, 254)                  *)
    FabricIdentity,     (* root key, fabric id, node id and IPK of a fabric *)
    MaxDetached,        (* bound: sessions in detached                     *)
    None

ASSUME SessionAssumption ==
    /\ MaxSessionId \in Nat
    /\ MaxFabricIndex \in Nat
    /\ MaxDetached \in Nat
    /\ None \notin FabricIdentity

VARIABLES
    in_use_session_ids,
    secure_unicast_session_context,   (* the sessions in the table         *)
    pase_state,         (* exchange -> pending PASE handshake or None      *)
    case_state,         (* exchange -> pending CASE handshake or None      *)
    fabrics,            (* fabric index -> identity or None                *)
    detached,           (* sessions out of the table, requests yet to run  *)
    outlived            (* history: <<index, identity>> of the fabrics     *)
                        (* removed while a CASE handshake for them was     *)
                        (* pending                                         *)

sessionVars == <<in_use_session_ids, secure_unicast_session_context,
                 pase_state, case_state, fabrics, detached, outlived>>

SessionId == 1 .. MaxSessionId
FabricIndex == 1 .. MaxFabricIndex

(* fabric is the identity a CASE handshake was run against: the session     *)
(* keeps its node id, its keys are derived from its IPK                      *)
Session ==
    [session_type : {"PASE", "CASE"},
     local_session_identifier : SessionId,
     local_fabric_index : FabricIndex \cup {0},
     fabric : FabricIdentity \cup {None}]

PASEState == [id : SessionId, ca : BOOLEAN]   (* ca: no longer b""          *)
CASEState == [id : SessionId, index : FabricIndex, fabric : FabricIdentity]

Installed == {i \in FabricIndex : fabrics[i] # None}

TypeOK ==
    /\ in_use_session_ids \in SUBSET SessionId
    /\ secure_unicast_session_context \in SUBSET Session
    /\ pase_state \in [Exchange -> PASEState \cup {None}]
    /\ case_state \in [Exchange -> CASEState \cup {None}]
    /\ fabrics \in [FabricIndex -> FabricIdentity \cup {None}]
    /\ detached \in SUBSET Session
    /\ outlived \in SUBSET (FabricIndex \X FabricIdentity)
-----------------------------------------------------------------------------
(* allocate_session_id: the lowest free identifier; with none left it        *)
(* raises and the handler ends there                                         *)
FreeIds == SessionId \ in_use_session_ids

Lowest(ids) == {id \in ids : \A other \in ids : id <= other}

Allocated_IfNotInTable ==
    Lowest({id \in SessionId : \A s \in secure_unicast_session_context :
                                   s.local_session_identifier # id})
Allocated == Lowest(FreeIds)

(* secure_unicast_session_context[s.local_session_identifier] = s            *)
Entered(s) ==
    secure_unicast_session_context' =
        {t \in secure_unicast_session_context :
            t.local_session_identifier # s.local_session_identifier} \cup {s}

(* handle_status_report with general code FAILURE                            *)
StatusReportFailure(x) ==
    /\ pase_state[x] # None \/ case_state[x] # None
    /\ pase_state' = [pase_state EXCEPT ![x] = None]
    /\ case_state' = [case_state EXCEPT ![x] = None]
    /\ UNCHANGED <<in_use_session_ids, secure_unicast_session_context,
                   fabrics, detached, outlived>>

(* pkbdf_param_request: a repeated one replaces the pending handshake        *)
PbkdfParamRequest(x) ==
    \E id \in Allocated :
        /\ in_use_session_ids' = in_use_session_ids \cup {id}
        /\ pase_state' = [pase_state EXCEPT ![x] = [id |-> id, ca |-> FALSE]]
        /\ UNCHANGED <<secure_unicast_session_context, case_state, fabrics,
                       detached, outlived>>

(* pase_pake_1                                                               *)
PasePake1(x) ==
    /\ pase_state[x] # None
    /\ pase_state' = [pase_state EXCEPT ![x].ca = TRUE]
    /\ UNCHANGED <<in_use_session_ids, secure_unicast_session_context,
                   case_state, fabrics, detached, outlived>>

(* pase_pake_3: the confirmation is 32 bytes long and never the b"" of a     *)
(* handshake that saw no PAKE 1                                              *)
PasePake3(x, confirmed) ==
    /\ pase_state[x] # None
    /\ confirmed => pase_state[x].ca
    /\ IF confirmed
       THEN Entered([session_type |-> "PASE",
                     local_session_identifier |-> pase_state[x].id,
                     local_fabric_index |-> 0, fabric |-> None])
       ELSE UNCHANGED secure_unicast_session_context
    /\ pase_state' = [pase_state EXCEPT ![x] = None]
    /\ UNCHANGED <<in_use_session_ids, case_state, fabrics, detached, outlived>>

(* the fabric whose destination identifier matches; with equal fabrics the   *)
(* one that was added first, whose index need not be the lowest               *)
TargetFabric(i) == i \in Installed

(* case_sigma_1: the identifier is drawn before the initiator's key is       *)
(* decoded; a key off the curve raises and the identifier stays in use       *)
CaseSigma1(x, validKey) ==
    \E id \in Allocated, i \in FabricIndex :
        /\ TargetFabric(i)
        /\ in_use_session_ids' = in_use_session_ids \cup {id}
        /\ case_state' =
             IF validKey
             THEN [case_state EXCEPT
                     ![x] = [id |-> id, index |-> i, fabric |-> fabrics[i]]]
             ELSE case_state
        /\ UNCHANGED <<secure_unicast_session_context, pase_state, fabrics,
                       detached, outlived>>

(* case_sigma_3: verified against the fabric that sigma 1 captured           *)
CaseSigma3(x, verified) ==
    /\ case_state[x] # None
    /\ IF verified
       THEN Entered([session_type |-> "CASE",
                     local_session_identifier |-> case_state[x].id,
                     local_fabric_index |-> case_state[x].index,
                     fabric |-> case_state[x].fabric])
       ELSE UNCHANGED secure_unicast_session_context
    /\ case_state' = [case_state EXCEPT ![x] = None]
    /\ UNCHANGED <<in_use_session_ids, pase_state, fabrics, detached, outlived>>
-----------------------------------------------------------------------------
(* sessions leave the table; some still have dispatched requests             *)
Leave(gone) ==
    /\ secure_unicast_session_context' = secure_unicast_session_context \ gone
    /\ \E waiting \in SUBSET gone :
          /\ Cardinality(detached \cup waiting) <= MaxDetached
          /\ detached' = detached \cup waiting

(* send_with_session: the message counter of s wraps to 0.  The entry under   *)
(* its identifier is deleted, which by then may be another session's          *)
CounterWraps(s) ==
    /\ Leave({t \in secure_unicast_session_context :
                t.local_session_identifier = s.local_session_identifier})
    /\ UNCHANGED <<in_use_session_ids, pase_state, case_state, fabrics, outlived>>

IdsOf(sessions) == {s.local_session_identifier : s \in sessions}

(* terminate_all_pase_sessions                                               *)
PaseSessions == {s \in secure_unicast_session_context : s.session_type = "PASE"}

TerminateAllPaseSessions ==
    /\ Leave(PaseSessions)
    /\ in_use_session_ids' = in_use_session_ids \ IdsOf(PaseSessions)
    /\ UNCHANGED <<pase_state, case_state, fabrics, outlived>>

(* the last dispatched request of a session out of the table has run         *)
Drained(s) ==
    /\ detached' = detached \ {s}
    /\ UNCHANGED <<in_use_session_ids, secure_unicast_session_context,
                   pase_state, case_state, fabrics, outlived>>

(* the tail of handle_add_noc: the lowest free index, which also becomes     *)
(* that of a session that has none                                           *)
WithIndex(t, i) ==
    [t EXCEPT !.local_fabric_index = IF @ = 0 THEN i ELSE @]

AddFabric(s, identity, i) ==
    /\ i \in FabricIndex \ Installed
    /\ \A j \in FabricIndex \ Installed : i <= j
    /\ fabrics' = [fabrics EXCEPT ![i] = identity]
    /\ secure_unicast_session_context' =
         {IF t = s THEN WithIndex(t, i) ELSE t : t \in secure_unicast_session_context}
    /\ detached' = {IF t = s THEN WithIndex(t, i) ELSE t : t \in detached}
    /\ UNCHANGED <<in_use_session_ids, pase_state, case_state, outlived>>

(* the session half of handle_remove_fabric: sessions of the index leave     *)
(* the table and release their identifiers; pending handshakes stay          *)
SessionsOf_Case(i) ==
    {s \in secure_unicast_session_context :
        s.local_fabric_index = i /\ s.session_type = "CASE"}
SessionsOf(i) ==
    {s \in secure_unicast_session_context : s.local_fabric_index = i}

Released_Pending(i) ==
    IdsOf(SessionsOf(i)) \cup
    {case_state[x].id : x \in {y \in Exchange :
                                 case_state[y] # None /\ case_state[y].index = i}}
Released(i) == IdsOf(SessionsOf(i))

RemoveFabric(i) ==
    /\ i \in Installed
    /\ fabrics' = [fabrics EXCEPT ![i] = None]
    /\ Leave(SessionsOf(i))
    /\ in_use_session_ids' = in_use_session_ids \ Released(i)
    /\ outlived' = outlived \cup
         {<<i, case_state[x].fabric>> :
             x \in {y \in Exchange : case_state[y] # None /\ case_state[y].index = i}}
    /\ UNCHANGED <<pase_state, case_state>>
-----------------------------------------------------------------------------
(* the process starts with the fabrics kept on disk, some or all of those    *)
(* it had, and no session                                                    *)
Restart ==
    /\ \E kept \in SUBSET Installed :
          fabrics' = [i \in FabricIndex |->
                        IF i \in kept THEN fabrics[i] ELSE None]
    /\ in_use_session_ids' = {}
    /\ secure_unicast_session_context' = {}
    /\ pase_state' = [x \in Exchange |-> None]
    /\ case_state' = [x \in Exchange |-> None]
    /\ detached' = {}
    /\ outlived' = {}

SessionInit ==
    /\ in_use_session_ids = {}
    /\ secure_unicast_session_context = {}
    /\ pase_state = [x \in Exchange |-> None]
    /\ case_state = [x \in Exchange |-> None]
    /\ fabrics = [i \in FabricIndex |-> None]
    /\ detached = {}
    /\ outlived = {}

Requesters == secure_unicast_session_context \cup detached

SessionNext ==
    \/ \E x \in Exchange :
        \/ StatusReportFailure(x)
        \/ PbkdfParamRequest(x)
        \/ PasePake1(x)
        \/ \E confirmed \in BOOLEAN : PasePake3(x, confirmed)
        \/ \E validKey \in BOOLEAN : CaseSigma1(x, validKey)
        \/ \E verified \in BOOLEAN : CaseSigma3(x, verified)
    \/ \E s \in Requesters : CounterWraps(s)
    \/ TerminateAllPaseSessions
    \/ \E s \in detached : Drained(s)
    \/ \E s \in Requesters, identity \in FabricIdentity, i \in FabricIndex :
          AddFabric(s, identity, i)
    \/ \E i \in FabricIndex : RemoveFabric(i)
    \/ Restart

SessionSpec == SessionInit /\ [][SessionNext]_sessionVars
-----------------------------------------------------------------------------
(* the identifiers that the pending handshakes of x hold *)
Pending(x) ==
    {id \in SessionId :
        \/ pase_state[x] # None /\ pase_state[x].id = id
        \/ case_state[x] # None /\ case_state[x].id = id}

(* Every identifier a session of the table or a pending handshake holds is   *)
(* in in_use_session_ids, so that no later handshake draws it, although      *)
(* RemoveFabric releases identifiers while other handshakes are pending.     *)
IdsAreReserved ==
    /\ \A s \in secure_unicast_session_context :
          s.local_session_identifier \in in_use_session_ids
    /\ \A x \in Exchange : Pending(x) \subseteq in_use_session_ids

(* An identifier has one owner: two sessions of the table, a session and a   *)
(* pending handshake, or two pending handshakes never hold the same one, so  *)
(* that no handshake that completes replaces a session it does not own.      *)
OneOwnerPerId ==
    /\ \A s, t \in secure_unicast_session_context :
          s.local_session_identifier = t.local_session_identifier => s = t
    /\ \A s \in secure_unicast_session_context, x \in Exchange :
          s.local_session_identifier \notin Pending(x)
    /\ \A x, y \in Exchange : x # y => Pending(x) \cap Pending(y) = {}
    /\ \A x \in Exchange :
          pase_state[x] # None /\ case_state[x] # None
            => pase_state[x].id # case_state[x].id

(* A session of the table belongs to an installed fabric, a CASE session to  *)
(* the very fabric it was verified against and not to a later one under the  *)
(* same index, unless the fabric was removed between its sigma 1 and its     *)
(* sigma 3: case_sigma_3 does not look the fabric up again.                  *)
SessionsHaveTheirFabric ==
    \A s \in secure_unicast_session_context :
        s.local_fabric_index # 0 =>
            \/ /\ s.local_fabric_index \in Installed
               /\ s.session_type = "CASE" => fabrics[s.local_fabric_index] = s.fabric
            \/ <<s.local_fabric_index, s.fabric>> \in outlived
=============================================================================
