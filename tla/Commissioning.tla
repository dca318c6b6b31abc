---------------------------- MODULE Commissioning ----------------------------
(***************************************************************************)
(* The root node's commissioning: GeneralCommissioning,                     *)
(* AdministratorCommissioning, OperationalCredentials and the write side of *)
(* AccessControl, on top of the session table, with the device state that   *)
(* save_state keeps and load_state brings back.                             *)
(*                                                                         *)
(* A command runs on behalf of a session, in the table or left with a       *)
(* dispatched request, and only when the access check grants Administer,    *)
(* the privilege all of these commands and writes ask for.  ACL entries are *)
(* Administer entries for every subject and target: no other entry decides  *)
(* whether a command here runs.  A command whose handler changes nothing    *)
(* (wrong state, bad certificate, full table) is a stuttering step.         *)
(***************************************************************************)
EXTENDS SessionTable

CONSTANTS
    MaxCancelTasks,     (* bound: cancel_commissioning tasks waiting at once *)
    WrittenModes        (* authentication modes of the entries written        *)

ASSUME CommissioningAssumption ==
    /\ MaxCancelTasks \in Nat
    /\ WrittenModes \subseteq {"PASE", "CASE"}
    /\ None \notin FabricIndex \cup {0}

VARIABLES
    in_commissioning_mode,
    enhanced_commissioning,
    basic_commissioning,
    pbkdf_params,                 (* "basic" or the "window"'s own          *)
    pake_values_responder,        (* "basic" or the "window"'s own          *)
    current_admin_fabric_index,
    current_admin_vendor_id,      (* the fabric whose vendor id it is        *)
    cancel_tasks,                 (* cancel_commissioning tasks pending      *)
    candidate_operational_key,    (* whether there is one                    *)
    candidate_root_ca,            (* the fabric it certifies or None         *)
    acl,
    saved,                        (* device_state.json                       *)
    overtaken,                    (* history: a session wrote entries after  *)
                                  (* its fabric was removed                  *)
    lapsed                        (* history: a window closed on a device    *)
                                  (* without fabrics                         *)

windowVars == <<in_commissioning_mode, enhanced_commissioning,
                basic_commissioning, pbkdf_params, pake_values_responder,
                current_admin_fabric_index, current_admin_vendor_id,
                cancel_tasks, lapsed>>
candidateVars == <<candidate_operational_key, candidate_root_ca>>
stateVars == <<acl, saved, overtaken>>
vars == <<sessionVars, windowVars, candidateVars, stateVars>>

(* owner is a history field: the fabric on whose behalf the entry was        *)
(* written, None when its writer had none                                    *)
ACLEntry == [fabric_index : FabricIndex \cup {0},
             authentication_mode : {"PASE", "CASE"},
             owner : FabricIdentity \cup {None}]

CommissioningTypeOK ==
    /\ TypeOK
    /\ in_commissioning_mode \in BOOLEAN
    /\ enhanced_commissioning \in BOOLEAN
    /\ basic_commissioning \in BOOLEAN
    /\ pbkdf_params \in {"basic", "window"}
    /\ pake_values_responder \in {"basic", "window"}
    /\ current_admin_fabric_index \in FabricIndex \cup {0, None}
    /\ current_admin_vendor_id \in FabricIdentity \cup {None}
    /\ cancel_tasks \in 0 .. MaxCancelTasks
    /\ candidate_operational_key \in BOOLEAN
    /\ candidate_root_ca \in FabricIdentity \cup {None}
    /\ acl \in SUBSET ACLEntry
    /\ saved \in [fabrics : [FabricIndex -> FabricIdentity \cup {None}],
                  acl : SUBSET ACLEntry]
    /\ overtaken \in BOOLEAN
    /\ lapsed \in BOOLEAN

WindowOpen == enhanced_commissioning \/ basic_commissioning

FabricOf(i) == IF i \in FabricIndex THEN fabrics[i] ELSE None
-----------------------------------------------------------------------------
(* handle_message builds the subject, get_granted_privileges decides         *)
MayAdminister(s) ==
    \/ s.session_type = "PASE" /\ in_commissioning_mode
    \/ \E e \in acl :
          /\ e.fabric_index # 0
          /\ e.fabric_index = s.local_fabric_index
          /\ e.authentication_mode = s.session_type

(* save_state *)
Saved_Before == saved' = [fabrics |-> fabrics, acl |-> acl]
Saved == saved' = [fabrics |-> fabrics', acl |-> acl']

(* handle_commissioning_complete: the window flags are left as they are      *)
HandleCommissioningComplete(s) ==
    /\ s.session_type = "CASE" /\ s.local_fabric_index # 0
    /\ in_commissioning_mode' = FALSE
    /\ TerminateAllPaseSessions
    /\ UNCHANGED <<enhanced_commissioning, basic_commissioning, pbkdf_params,
                   pake_values_responder, current_admin_fabric_index,
                   current_admin_vendor_id, cancel_tasks, lapsed,
                   candidateVars, acl, overtaken>>
    /\ Saved

(* both open commands; the vendor id is looked up last, and a session whose  *)
(* fabric is not installed raises KeyError after everything else is set      *)
OpenedBy(s) ==
    /\ in_commissioning_mode' = TRUE
    /\ current_admin_fabric_index' = s.local_fabric_index
    /\ current_admin_vendor_id' =
         IF s.local_fabric_index \in Installed THEN fabrics[s.local_fabric_index]
                                               ELSE current_admin_vendor_id

CanOpen == ~in_commissioning_mode /\ ~WindowOpen

TimeoutTask_Forgotten == UNCHANGED cancel_tasks
TimeoutTask ==
    /\ cancel_tasks < MaxCancelTasks
    /\ cancel_tasks' = cancel_tasks + 1

(* handle_open_commissioning_window: a verifier that does not decode raises  *)
(* with the timeout task and the PBKDF parameters already in place           *)
HandleOpenCommissioningWindow(s, validVerifier) ==
    /\ CanOpen
    /\ TimeoutTask
    /\ pbkdf_params' = "window"
    /\ IF validVerifier
       THEN /\ pake_values_responder' = "window"
            /\ enhanced_commissioning' = TRUE
            /\ OpenedBy(s)
       ELSE UNCHANGED <<pake_values_responder, enhanced_commissioning,
                        in_commissioning_mode, current_admin_fabric_index,
                        current_admin_vendor_id>>
    /\ UNCHANGED <<basic_commissioning, lapsed, sessionVars, candidateVars,
                   stateVars>>

HandleOpenBasicCommissioningWindow(s) ==
    /\ CanOpen
    /\ TimeoutTask
    /\ basic_commissioning' = TRUE
    /\ OpenedBy(s)
    /\ UNCHANGED <<enhanced_commissioning, pbkdf_params, pake_values_responder,
                   lapsed, sessionVars, candidateVars, stateVars>>

(* handle_revoke_commissioning_window: a task that cancels without delay;    *)
(* the timeout task of the window stays                                      *)
HandleRevokeCommissioningWindow ==
    /\ WindowOpen
    /\ cancel_tasks < MaxCancelTasks
    /\ cancel_tasks' = cancel_tasks + 1
    /\ UNCHANGED <<in_commissioning_mode, enhanced_commissioning,
                   basic_commissioning, pbkdf_params, pake_values_responder,
                   current_admin_fabric_index, current_admin_vendor_id, lapsed,
                   sessionVars, candidateVars, stateVars>>

(* what cancel_commissioning resets when a window is open                    *)
WindowReset_KeepsVerifier ==
    /\ pbkdf_params' = "basic"
    /\ current_admin_fabric_index' = None
    /\ UNCHANGED pake_values_responder
WindowReset_KeepsAdmin ==
    /\ pbkdf_params' = "basic"
    /\ pake_values_responder' = "basic"
    /\ UNCHANGED current_admin_fabric_index
WindowReset ==
    /\ pbkdf_params' = "basic"
    /\ pake_values_responder' = "basic"
    /\ current_admin_fabric_index' = None

CancelCommissioning ==
    /\ cancel_tasks > 0
    /\ cancel_tasks' = cancel_tasks - 1
    /\ IF WindowOpen
       THEN /\ WindowReset
            /\ in_commissioning_mode' = FALSE
            /\ basic_commissioning' = FALSE
            /\ enhanced_commissioning' = FALSE
            /\ current_admin_vendor_id' = None
            /\ lapsed' = (lapsed \/ Installed = {})
       ELSE UNCHANGED <<in_commissioning_mode, enhanced_commissioning,
                        basic_commissioning, pbkdf_params, lapsed,
                        pake_values_responder, current_admin_fabric_index,
                        current_admin_vendor_id>>
    /\ UNCHANGED <<sessionVars, candidateVars, stateVars>>
-----------------------------------------------------------------------------
HandleCertificateRequest ==
    /\ candidate_operational_key' = TRUE
    /\ UNCHANGED <<candidate_root_ca, sessionVars, windowVars, stateVars>>

HandleAddTrustedRootCertificate(identity) ==
    /\ candidate_root_ca' = identity
    /\ UNCHANGED <<candidate_operational_key, sessionVars, windowVars, stateVars>>

(* handle_add_noc, the certificates verified: nothing is saved and the       *)
(* candidates stay                                                           *)
HandleAddNoc(s) ==
    /\ candidate_operational_key
    /\ candidate_root_ca # None
    /\ \E i \in FabricIndex :
          /\ AddFabric(s, candidate_root_ca, i)
          /\ acl' = acl \cup {[fabric_index |-> i, authentication_mode |-> "CASE",
                               owner |-> candidate_root_ca]}
    /\ UNCHANGED <<windowVars, candidateVars, saved, overtaken>>

AclWithout_Nothing(i) == acl
AclWithout(i) == {e \in acl : e.fabric_index # i}

ModeAfterRemoval_Unchanged == UNCHANGED in_commissioning_mode
ModeAfterRemoval ==
    in_commissioning_mode' =
        (in_commissioning_mode \/ \A i \in FabricIndex : fabrics'[i] = None)

HandleRemoveFabric(i) ==
    /\ RemoveFabric(i)
    /\ acl' = AclWithout(i)
    /\ Saved
    /\ ModeAfterRemoval
    /\ UNCHANGED <<enhanced_commissioning, basic_commissioning, pbkdf_params,
                   pake_values_responder, current_admin_fabric_index,
                   current_admin_vendor_id, cancel_tasks, lapsed, candidateVars,
                   overtaken>>

(* replace_acl writes entries under the session's own index.  add_acl is out *)
(* of reach: write_attribute compares a decoded Null with the class Null,    *)
(* which is never equal, and answers INVALID_ACTION to every list addition.  *)
OwnEntries(s, modes) ==
    {[fabric_index |-> s.local_fabric_index, authentication_mode |-> m,
      owner |-> FabricOf(s.local_fabric_index)] : m \in modes}

WriteAcl(s, modes) ==
    /\ acl' = AclWithout(s.local_fabric_index) \cup OwnEntries(s, modes)
    /\ overtaken' = (overtaken \/ s.local_fabric_index \notin Installed \cup {0})
    /\ UNCHANGED <<sessionVars, windowVars, candidateVars>>
    /\ Saved

(* handle_update_fabric_label, handle_set_regulatory_config, and             *)
(* report_event, for any session, a reader's success and the start           *)
SaveState ==
    /\ UNCHANGED <<sessionVars, windowVars, candidateVars, acl, overtaken>>
    /\ Saved

(* the process stops at any point between two handlers; load_state           *)
StopAndLoad ==
    /\ Restart
    /\ fabrics' = saved.fabrics
    /\ acl' = saved.acl
    /\ in_commissioning_mode' = (\A i \in FabricIndex : saved.fabrics[i] = None)
    /\ enhanced_commissioning' = FALSE /\ basic_commissioning' = FALSE
    /\ pbkdf_params' = "basic" /\ pake_values_responder' = "basic"
    /\ current_admin_fabric_index' = None /\ current_admin_vendor_id' = None
    /\ cancel_tasks' = 0
    /\ candidate_operational_key' = FALSE /\ candidate_root_ca' = None
    /\ lapsed' = FALSE
    /\ UNCHANGED <<saved, overtaken>>
-----------------------------------------------------------------------------
(* init_state, a device that never ran *)
Init ==
    /\ SessionInit
    /\ in_commissioning_mode = TRUE
    /\ enhanced_commissioning = FALSE /\ basic_commissioning = FALSE
    /\ pbkdf_params = "basic" /\ pake_values_responder = "basic"
    /\ current_admin_fabric_index = None /\ current_admin_vendor_id = None
    /\ cancel_tasks = 0
    /\ candidate_operational_key = FALSE /\ candidate_root_ca = None
    /\ acl = {}
    /\ saved = [fabrics |-> fabrics, acl |-> {}]
    /\ overtaken = FALSE
    /\ lapsed = FALSE

(* what the peers' handshakes do, and the end of a removed session           *)
SessionLayer ==
    /\ \/ \E x \in Exchange :
             \/ StatusReportFailure(x)
             \/ PbkdfParamRequest(x)
             \/ PasePake1(x)
             \/ \E confirmed \in BOOLEAN : PasePake3(x, confirmed)
             \/ \E validKey \in BOOLEAN : CaseSigma1(x, validKey)
             \/ \E verified \in BOOLEAN : CaseSigma3(x, verified)
       \/ \E s \in Requesters : CounterWraps(s)
       \/ \E s \in detached : Drained(s)
    /\ UNCHANGED <<windowVars, candidateVars, stateVars>>

Command(s) ==
    /\ MayAdminister(s)
    /\ \/ HandleCommissioningComplete(s)
       \/ \E validVerifier \in BOOLEAN :
             HandleOpenCommissioningWindow(s, validVerifier)
       \/ HandleOpenBasicCommissioningWindow(s)
       \/ HandleRevokeCommissioningWindow
       \/ HandleCertificateRequest
       \/ \E identity \in FabricIdentity : HandleAddTrustedRootCertificate(identity)
       \/ HandleAddNoc(s)
       \/ \E i \in FabricIndex : HandleRemoveFabric(i)
       \/ \E modes \in SUBSET WrittenModes : WriteAcl(s, modes)

Next ==
    \/ SessionLayer
    \/ \E s \in Requesters : Command(s)
    \/ SaveState
    \/ CancelCommissioning
    \/ StopAndLoad

Spec == Init /\ [][Next]_vars
-----------------------------------------------------------------------------
(* An open window has a cancel task that will close it: none of the paths    *)
(* that leave cancel tasks behind (revoke, commissioning complete, an        *)
(* invalid verifier) uses up the task of a window opened later.              *)
WindowHasTimeout == WindowOpen => cancel_tasks > 0

(* PASE verifies against the passcode of the enhanced window exactly while   *)
(* that window is open, however it was closed, and the PBKDF parameters      *)
(* announced are then the window's too.                                      *)
VerifierFollowsWindow ==
    /\ pake_values_responder = "window" <=> enhanced_commissioning
    /\ enhanced_commissioning => pbkdf_params = "window"

(* AdminFabricIndex is null exactly while no window is open, and at most one *)
(* kind of window is open.                                                   *)
AdminFollowsWindow ==
    /\ current_admin_fabric_index # None <=> WindowOpen
    /\ ~(enhanced_commissioning /\ basic_commissioning)

(* A device without fabrics accepts commissioning, unless a window outlived  *)
(* its last fabric (RemoveFabric reopens commissioning, and the window's     *)
(* cancel task then closes it for good) or a session left itself grants      *)
(* after its fabric was removed and used them for CommissioningComplete.     *)
EmptyIsCommissionable ==
    Installed = {} => in_commissioning_mode \/ lapsed \/ overtaken

(* No fabric inherits the grants of a fabric that had its index before: an   *)
(* entry of an installed fabric was written for that fabric, or by a session *)
(* whose own fabric was gone when its request ran.                           *)
GrantsAreNotInherited ==
    \A e \in acl : \/ e.owner = None
                   \/ /\ e.fabric_index \in Installed
                      /\ fabrics[e.fabric_index] = e.owner

(* What a restart brings back was installed when the process stopped: a      *)
(* removed fabric does not return.                                           *)
RemovedStaysRemoved ==
    \A i \in FabricIndex : saved.fabrics[i] \in {None, fabrics[i]}
=============================================================================
