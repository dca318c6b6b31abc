--------------------------- MODULE AccessControl ---------------------------
(***************************************************************************)
(* The access control list and its evaluation, get_granted_privileges, and    *)
(* what replace_acl, AddNOC and RemoveFabric make of the list.  The list      *)
(* keeps its order, which the evaluation depends on.  Dispatch composes this  *)
(* module with the requests that read and change the list; Commissioning     *)
(* abstracts the entries to Administer entries for everything and models     *)
(* what surrounds the list.                                                  *)
(***************************************************************************)
EXTENDS Integers, Sequences, SequencesExt, FiniteSetsExt

CONSTANTS
    None,
    DeviceTypes,        (* endpoint -> its device types                      *)
    AdminSubject        (* case_admin_subject of every AddNOC                *)

Implied == [View |-> {"View"},
            Operate |-> {"View", "Operate"},
            Manage |-> {"View", "Operate", "Manage"},
            Administer |-> {"View", "Operate", "Manage", "Administer"}]
Privileges == DOMAIN Implied
-----------------------------------------------------------------------------
(* A subject is a node id or a CASE authenticated tag with a version         *)
SubjectMatches(subject, isd) ==
    \/ subject = isd.node_id
    \/ \E cat \in isd.cats :
          cat.id = subject.id /\ subject.version >= cat.version

EntryApplies_AnyFabric(entry, isd) ==
    /\ entry.fabric_index # 0
    /\ entry.authentication_mode = isd.authentication_mode
    /\ \/ entry.subjects = <<>>
       \/ \E subject \in ToSet(entry.subjects) : SubjectMatches(subject, isd)
EntryApplies(entry, isd) ==
    /\ entry.fabric_index # 0
    /\ entry.fabric_index = isd.fabric_index
    /\ entry.authentication_mode = isd.authentication_mode
    /\ \/ entry.subjects = <<>>
       \/ \E subject \in ToSet(entry.subjects) : SubjectMatches(subject, isd)

(* the two preconditions asserted of every target looked at *)
IsEmpty(target) ==
    target.cluster = None /\ target.endpoint = None /\ target.device_type = None
IsAmbiguous(target) == target.endpoint # None /\ target.device_type # None

(* no device types for an endpoint there is not                              *)
DeviceTypesOf(endpoint) ==
    IF endpoint \in DOMAIN DeviceTypes THEN DeviceTypes[endpoint] ELSE {}

TargetMatches(target, object) ==
    /\ target.cluster \in {None, object[2]}
    /\ target.endpoint \in {None, object[1]}
    /\ target.device_type \in DeviceTypesOf(object[1]) \cup {None}

(* the loop over the targets ends at the first that matches or fails an      *)
(* assertion                                                                 *)
TargetOutcome(entry, object) ==
    LET stops == {i \in DOMAIN entry.targets :
                     \/ IsEmpty(entry.targets[i]) \/ IsAmbiguous(entry.targets[i])
                     \/ TargetMatches(entry.targets[i], object)}
        target == entry.targets[Min(stops)]
    IN  CASE entry.targets = <<>> -> "match"
          [] entry.targets # <<>> /\ stops = {} -> "no match"
          [] stops # {} /\ IsEmpty(target) -> "empty target"
          [] stops # {} /\ IsAmbiguous(target) -> "ambiguous target"
          [] OTHER -> "match"

After(result, entry, object) ==
    LET outcome == TargetOutcome(entry, object)
    IN  CASE outcome = "match" ->
                [result EXCEPT !.granted = @ \cup Implied[entry.privilege_level]]
          [] outcome = "no match" -> result
          [] OTHER -> [result EXCEPT !.failed = outcome]

Visited(result, entry, isd, object) ==
    IF \/ result.failed # None
       \/ "Administer" \in result.granted
       \/ ~EntryApplies(entry, isd)
    THEN result
    ELSE After(result, entry, object)

(* the privileges granted, and the assertion that failed instead, if one did *)
GetGrantedPrivileges(list, isd, object) ==
    LET result[n \in 0 .. Len(list)] ==
            IF n > 0 THEN Visited(result[n - 1], list[n], isd, object)
            ELSE [granted |-> IF /\ isd.authentication_mode = "PASE"
                                 /\ isd.is_commissioning
                              THEN Privileges ELSE {},
                  failed |-> None]
    IN  result[Len(list)]

-----------------------------------------------------------------------------
(* `x or None': zero is as good as absent                                    *)
OrNone(x) == IF x = 0 THEN None ELSE x

Stored(struct, i) ==
    [fabric_index |-> i, privilege_level |-> struct.privilege,
     authentication_mode |-> struct.auth_mode, subjects |-> struct.subjects,
     targets |-> [n \in DOMAIN struct.targets |->
                    [cluster |-> OrNone(struct.targets[n].cluster),
                     endpoint |-> OrNone(struct.targets[n].endpoint),
                     device_type |-> OrNone(struct.targets[n].device_type)]]]

Without(list, i) ==
    LET kept[n \in 0 .. Len(list)] ==
            IF n = 0 THEN <<>>
            ELSE IF list[n].fabric_index = i THEN kept[n - 1]
            ELSE Append(kept[n - 1], list[n])
    IN  kept[Len(list)]

(* replace_acl                                                               *)
Replaced(list, i, data) ==
    Without(list, i) \o [n \in DOMAIN data |-> Stored(data[n], i)]

(* handle_add_noc                                                            *)
Administrator(i) ==
    [fabric_index |-> i, privilege_level |-> "Administer",
     authentication_mode |-> "CASE", subjects |-> <<AdminSubject>>,
     targets |-> <<>>]
WithAdministrator(list, i) == Append(list, Administrator(i))
-----------------------------------------------------------------------------
(* What a session deserves, without the order, the early exits and the       *)
(* assertions of the loop: everything any matching entry implies, and        *)
(* everything for the commissioner.                                          *)
Deserved(list, isd, object) ==
    UNION ({Implied[entry.privilege_level] :
               entry \in {e \in ToSet(list) :
                   /\ e.fabric_index = isd.fabric_index /\ isd.fabric_index # 0
                   /\ e.authentication_mode = isd.authentication_mode
                   /\ \/ e.subjects = <<>>
                      \/ \E s \in ToSet(e.subjects) : SubjectMatches(s, isd)
                   /\ \/ e.targets = <<>>
                      \/ \E t \in ToSet(e.targets) : TargetMatches(t, object)}}
           \cup {Privileges : x \in {n \in {isd} : /\ n.is_commissioning
                                                   /\ n.authentication_mode = "PASE"}})
============================================================================
