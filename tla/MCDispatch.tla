----------------------------- MODULE MCDispatch -----------------------------
EXTENDS Dispatch

CONSTANTS WrittenEntries, MaxWritten

(* endpoint 0 is the root node, 1 and 2 are door locks                       *)
MCServers == [e \in 0 .. 2 |-> IF e = 0 THEN {3, 31, 60, 62} ELSE {3, 257}]
MCDeviceTypes == [e \in 0 .. 2 |-> IF e = 0 THEN {22} ELSE {10}]

Attribute(read, write, access, returns) ==
    [read |-> read, write |-> write, access |-> access, timed |-> FALSE,
     getter |-> TRUE, setter |-> access # "Read", returns |-> returns]
MCAttributes ==
    3 :> [identify_time |-> Attribute("View", "Operate", "ReadWrite", "nothing")]
    @@ 31 :> [acl |-> Attribute("Administer", "Administer", "ReadWrite", "status")]
    @@ 60 :> [window_status |-> Attribute("View", "View", "Read", "status")]
    @@ 62 :> [nocs |-> Attribute("Administer", "Administer", "Read", "status")]
    @@ 257 :> [lock_state |-> Attribute("View", "View", "Read", "status"),
               aliro_reader_group_identifier |->
                   Attribute("Administer", "Administer", "Read", "status")]

Command(privilege, timed, decodes, returns) ==
    [privilege |-> privilege, timed |-> timed, decodes |-> decodes,
     handled |-> returns # "no handler", returns |-> returns]
MCCommands ==
    3 :> [identify |-> Command("Manage", FALSE, TRUE, "nothing")]
    @@ 31 :> [c \in {} |-> c]
    @@ 60 :> [revoke_commissioning_window |-> Command("Administer", TRUE, FALSE, "pair")]
    @@ 62 :> [add_noc |-> Command("Administer", FALSE, TRUE, "data"),
              remove_fabric |-> Command("Administer", FALSE, TRUE, "data"),
              update_noc |-> Command("Administer", FALSE, TRUE, "no handler")]
    @@ 257 :> [lock_door |-> Command("Operate", TRUE, FALSE, "status"),
               get_user |-> Command("Administer", FALSE, TRUE, "data")]
MCEvents ==
    3 :> [v \in {} |-> v] @@ 60 :> [v \in {} |-> v] @@ 62 :> [v \in {} |-> v]
    @@ 31 :> [access_control_entry_changed |-> "Administer"]
    @@ 257 :> [lock_operation |-> "View"]

Node(n) == [id |-> n, version |-> None]
Tag(v) == [id |-> 900, version |-> v]
MCAdminSubject == Node(1)

Session(mode, i, node, cats, commissioning) ==
    [authentication_mode |-> mode, is_commissioning |-> commissioning,
     node_id |-> node, cats |-> cats, fabric_index |-> i]
MCISD ==
    {Session("CASE", i, Node(1), {}, FALSE) : i \in FabricIndex}
    \cup {Session("CASE", i, Node(2), {[id |-> 900, version |-> 2]}, FALSE) : i \in FabricIndex}
    \cup {Session("PASE", 0, Node(0), {}, TRUE), Session("PASE", 1, Node(0), {}, TRUE),
          Session("PASE", 1, Node(0), {}, FALSE), Session("NoAuth", 0, Node(0), {}, FALSE)}

Target(e, c, d) == [endpoint |-> e, cluster |-> c, device_type |-> d]
AclStruct(p, m, subjects, targets) ==
    [privilege |-> p, auth_mode |-> m, subjects |-> subjects, targets |-> targets]
Admin == AclStruct("Administer", "CASE", <<Node(1)>>, <<>>)
MCWrittenEntries ==
    {Admin,
     AclStruct("Administer", "CASE", <<>>, <<Target(None, 31, None), Target(1, None, 10)>>),
     AclStruct("Operate", "CASE", <<Node(7), Tag(3)>>, <<Target(0, 62, None), Target(None, None, 10)>>),
     AclStruct("Operate", "CASE", <<Tag(1), Node(2), Node(1)>>, <<Target(0, None, None)>>)}
-----------------------------------------------------------------------------
Path(node, e, c, a) ==
    [compressed |-> FALSE, node |-> node, endpoint |-> e, cluster |-> c, attribute |-> a]
MCReadPaths == {<<Path(None, None, None, None)>>, <<Path(None, 7, None, None)>>,
                <<Path(None, 1, None, None),
                  [Path(None, None, 257, "lock_state") EXCEPT !.compressed = TRUE],
                  Path(None, None, 257, "lock_state")>>}

Ends(ending) == [e \in DOMAIN MCServers |-> ending]
At2(ending) == [Ends("returns") EXCEPT ![2] = ending]

Item(compressed, path, index, data) ==
    [compressed |-> compressed, node |-> path.node, endpoint |-> path.endpoint,
     cluster |-> path.cluster, attribute |-> path.attribute, list_index |-> index,
     data |-> data, ends |-> Ends("returns")]
Acl(data) == Item(FALSE, Path(None, 0, 31, "acl"), None, data)
Again(data) == Item(TRUE, Path(None, None, None, None), None, data)
Write(items, chunked) ==
    [kind |-> "write", items |-> items, timed |-> FALSE, chunked |-> chunked]
Writes ==
    {Write(<<Acl(data)>>, FALSE) :
        data \in {d \in BoundedSeq(WrittenEntries, MaxWritten) : IsInjective(d)}}
    \cup {Write(<<Acl(<<entry>>), Again(<<Admin>>)>>, FALSE) : entry \in WrittenEntries}
    \cup {Write(<<[Acl(<<Admin>>) EXCEPT !.ends = Ends(ending)], Acl(<<>>)>>, FALSE) :
             ending \in {"raises before", "raises after"}}
    \cup {Write(<<Acl(<<Admin>>)>>, TRUE),
          Write(<<Acl(Malformed), Acl(<<AclStruct("Other", "CASE", <<>>, <<>>)>>),
                  Acl(<<Admin, AclStruct("View", "Other", <<>>, <<>>)>>)>>, FALSE),
          Write(<<Acl(<<Admin>>), Acl(Broken), Acl(<<>>)>>, FALSE),
          Write(<<Item(FALSE, Path(None, 1, 3, "identify_time"), None, <<>>), Acl(<<Admin>>)>>, FALSE),
          Write(<<Item(FALSE, Path(5, 0, 31, "acl"), None, <<>>),
                  Item(FALSE, Path(None, 7, 31, "acl"), None, <<>>),
                  Item(FALSE, Path(None, 1, 31, "acl"), None, <<>>),
                  Item(FALSE, Path(None, 0, 31, "acl"), 0, <<>>),
                  Item(FALSE, Path(None, 0, 31, "other"), None, <<>>),
                  Item(FALSE, Path(None, 1, 257, "lock_state"), None, <<>>)>>, FALSE)}

Com(e, c, name, fields) ==
    [endpoint |-> e, cluster |-> c, command |-> name, fields |-> fields,
     ends |-> Ends("returns")]
Invoke(items, timed) ==
    [kind |-> "invoke", items |-> items, timed |-> timed, chunked |-> FALSE]
Invokes ==
    {Invoke(<<Com(0, 62, "remove_fabric", i), Com(None, 257, "lock_door", 0)>>, TRUE) : i \in FabricIndex}
    \cup {Invoke(<<[Com(0, 62, "add_noc", 0) EXCEPT !.ends = Ends(ending)],
                   Com(0, 62, "add_noc", 0)>>, FALSE) :
             ending \in {"raises before", "raises after"}}
    \cup {Invoke(<<Com(0, 62, "add_noc", 0), Com(e, c, name, 0)>>, TRUE) :
             e \in {None, 0}, c \in {None, 62}, name \in {None, "add_noc"}}
    \cup {Invoke(<<Com(None, 257, "get_user", Broken)>>, FALSE),
          Invoke(<<[Com(None, 257, "lock_door", 0) EXCEPT !.ends = At2("raises before")],
                   Com(1, 257, "lock_door", 0)>>, TRUE)}
    \cup {Invoke(<<Com(0, 62, "add_noc", 0), Com(0, 62, "add_noc", Malformed)>>, FALSE),
          Invoke(<<Com(None, 257, "lock_door", 0)>>, TRUE),
          Invoke(<<Com(None, 257, "lock_door", 0), Com(1, 257, "lock_door", 0)>>, FALSE),
          Invoke(<<Com(None, 257, "get_user", 1)>>, FALSE),
          Invoke(<<Com(None, 3, "identify", 1)>>, FALSE),
          Invoke(<<Com(None, 60, "revoke_commissioning_window", 0)>>, TRUE),
          Invoke(<<Com(0, 60, "revoke_commissioning_window", 0), Com(0, 60, "other", 0),
                   Com(7, 60, "other", 0), Com(1, 60, "other", 0)>>, TRUE),
          Invoke(<<Com(0, 62, "update_noc", 0)>>, FALSE)}
MCRequest == Writes \cup Invokes
============================================================================
