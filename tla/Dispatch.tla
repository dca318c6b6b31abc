------------------------------ MODULE Dispatch ------------------------------
(***************************************************************************)
(* How the interaction model serves a request: the paths of a read, a write   *)
(* or an invocation, with their wildcards and their tag compression, the     *)
(* checks in the order the code makes them, and the writers and handlers     *)
(* that run.  The items of a request are served one by one, each under the    *)
(* list the earlier ones left; nothing else runs in between, so a request is *)
(* one step.  The state is the access control list and the fabrics; what     *)
(* other handlers change is the state of other modules, and appears here as  *)
(* a call.                                                                   *)
(*                                                                         *)
(* Sessions are the descriptors handle_message builds.  A request that raises *)
(* or returns early ends silently: what it did stays, and no answer is sent. *)
(***************************************************************************)
EXTENDS AccessControl

CONSTANTS
    FabricIndex,        (* the fabric indices AddNOC hands out               *)
    ISD,                (* the subject descriptors of the sessions there are *)
    Servers,            (* endpoint -> the clusters it serves                *)
    Attributes,         (* cluster -> attribute -> its declaration           *)
    Commands,           (* cluster -> command -> its declaration             *)
    Events,             (* cluster -> event -> the privilege it needs        *)
    ReadPaths,          (* the path lists of reads and subscriptions         *)
    Request,            (* the writes and invocations clients send           *)
    Malformed,          (* data and fields whose decoding raises ValueError  *)
    Broken,             (* those whose decoding raises something else        *)
    MaxEntries          (* bound: entries in the list                        *)

IsList(s) == s \in Seq(ToSet(s))

(* declarations are complete, endpoints are numbered without a gap, and the   *)
(* handlers that change the list or the fabrics declare a type for their data *)
ASSUME DispatchAssumption ==
    /\ FabricIndex \subseteq Nat \ {0} /\ MaxEntries \in Nat
    /\ Max(DOMAIN Servers) \in Nat
    /\ DOMAIN Servers = 0 .. Max(DOMAIN Servers)
    /\ \A e \in DOMAIN Servers :
          Servers[e] \subseteq DOMAIN Attributes \cap DOMAIN Commands \cap DOMAIN Events
    /\ \A c \in DOMAIN Attributes : \A name \in DOMAIN Attributes[c] :
          Attributes[c][name].timed \in BOOLEAN
    /\ \A c \in DOMAIN Commands : \A name \in DOMAIN Commands[c] :
          /\ Commands[c][name].timed \in BOOLEAN
          /\ Commands[c][name].returns \in
                {"nothing", "status", "data", "pair", "no handler"}
          /\ name \in {"add_noc", "remove_fabric"} => Commands[c][name].decodes

ASSUME NoneAssumption ==
    /\ Malformed # Broken
    /\ None \notin {"empty target", "ambiguous target",
                     "nothing", "status", "data", "pair", "no handler"}
    /\ \A e \in DOMAIN Servers : None # e /\ None \notin Servers[e]
    /\ \A c \in DOMAIN Attributes : None \notin DOMAIN Attributes[c]
    /\ \A c \in DOMAIN Events : None \notin DOMAIN Events[c]

(* How the code that a writer or handler runs ends: it returns, or it raises  *)
(* before or after what it does to the list and the fabrics.  Why it raises    *)
(* (the window, the candidate certificates, the users, the file) is the state *)
(* of other modules, so a request comes with how it ends at each endpoint.     *)
Endings == {"returns", "raises before", "raises after"}
Undecodable == {Malformed, Broken}

(* what the decoder makes of a request: a written item has data, a list where *)
(* lists are written, and an invoked one all its fields                      *)
ASSUME RequestAssumption ==
    \A request \in Request :
        /\ request.kind \in {"write", "invoke"} /\ request.timed \in BOOLEAN
        /\ IsList(request.items)
        /\ \A item \in ToSet(request.items) :
              "ends" \in DOMAIN item /\ item.ends \in [DOMAIN Servers -> Endings]
        /\ request.kind = "write" =>
              \A item \in ToSet(request.items) :
                 /\ "data" \in DOMAIN item
                 /\ item.data \notin Undecodable =>
                       /\ IsList(item.data)
                       /\ \A struct \in ToSet(item.data) : IsList(struct.targets)
        /\ request.kind = "invoke" =>
              \A item \in ToSet(request.items) :
                 {"endpoint", "cluster", "command", "fields"} \subseteq DOMAIN item

(* the decoder gives a path all its fields, those left out as None            *)
ASSUME ReadAssumption ==
    \A paths \in ReadPaths : \A n \in DOMAIN paths :
        {"node", "endpoint", "cluster", "attribute"} \subseteq DOMAIN paths[n]

VARIABLES
    acl,
    fabrics             (* the indices in use                                *)

vars == <<acl, fabrics>>

Endpoint == DOMAIN Servers
Object == UNION {{<<e, c>> : c \in Servers[e]} : e \in Endpoint}

(* the entries replace_acl and AddNOC make                                    *)
Struct ==
    LET written == UNION {ToSet(r.items) : r \in {q \in Request : q.kind = "write"}}
    IN  UNION {ToSet(item.data) : item \in {w \in written : w.data \notin Undecodable}}
AuthenticationModes == {"PASE", "CASE", "Group"}
Entry ==
    {e \in {Stored(struct, i) : struct \in Struct, i \in FabricIndex \cup {0}}
           \cup {Administrator(i) : i \in FabricIndex} :
        /\ e.privilege_level \in Privileges
        /\ e.authentication_mode \in AuthenticationModes}

DispatchTypeOK ==
    /\ acl \in Seq(Entry)
    /\ fabrics \subseteq FabricIndex

Granted_AtStart(list, isd, object) == GetGrantedPrivileges(acl, isd, object)
Granted(list, isd, object) == GetGrantedPrivileges(list, isd, object)
-----------------------------------------------------------------------------
(* A compressed path takes what it leaves out from the last path before it   *)
(* that is not compressed.                                                   *)
DecompressedPaths(paths) ==
    LET Whole(n) == {k \in 1 .. n - 1 : ~paths[k].compressed}
        Inherited(n, field) ==
            IF Whole(n) = {} THEN None ELSE paths[Max(Whole(n))][field]
        Inherits == {"node", "endpoint", "cluster", "attribute"}
    IN  [n \in DOMAIN paths |->
            [field \in DOMAIN paths[n] |->
                IF /\ paths[n].compressed /\ field \in Inherits
                   /\ paths[n][field] = None
                THEN Inherited(n, field) ELSE paths[n][field]]]

Located(object) ==
    IF object[1] \notin Endpoint THEN "UNSUPPORTED_ENDPOINT"
    ELSE IF object[2] \notin Servers[object[1]] THEN "UNSUPPORTED_CLUSTER"
    ELSE "SUCCESS"

Matching(path) == {o \in Object : path.endpoint \in {None, o[1]}
                                  /\ path.cluster \in {None, o[2]}}
(* self._endpoints[e] of an endpoint there is not                            *)
LooksUpNothing(path) ==
    path.cluster = None /\ path.endpoint \notin Endpoint \cup {None}

Supported(attribute) == attribute.getter \/ attribute.setter
Readable(attribute) == attribute.getter /\ attribute.access # "Write"
Writable(attribute) == attribute.setter /\ attribute.access # "Read"

ReadStatus(granted, object, name) ==
    IF "View" \notin granted THEN "UNSUPPORTED_ACCESS"
    ELSE IF Located(object) # "SUCCESS" THEN Located(object)
    ELSE IF name \notin DOMAIN Attributes[object[2]] THEN "UNSUPPORTED_ATTRIBUTE"
    ELSE IF Attributes[object[2]][name].read \notin granted THEN "UNSUPPORTED_ACCESS"
    ELSE IF ~Readable(Attributes[object[2]][name]) THEN "UNSUPPORTED_READ"
    ELSE "SUCCESS"

(* current: the objects whose data version the filters of the request name   *)
(* or exceed; what is read is a set of <<endpoint, cluster, attribute>>      *)
ConcreteRead(list, isd, path, current) ==
    LET object == <<path.endpoint, path.cluster>>
        result == Granted(list, isd, object)
    IN  [silent |-> result.failed # None,
         data |-> {<<object[1], object[2], path.attribute>> :
                     x \in {o \in {object} \ current :
                        ReadStatus(result.granted, object, path.attribute) = "SUCCESS"}}]

Attrs(cluster, name) ==
    IF name = None THEN {a \in DOMAIN Attributes[cluster] : Supported(Attributes[cluster][a])}
    ELSE {name} \cap DOMAIN Attributes[cluster]

(* what of one object a wildcard path reads, once View is granted             *)
Readables(object, name, granted) ==
    {a \in Attrs(object[2], name) : /\ Attributes[object[2]][a].read \in granted
                                    /\ Readable(Attributes[object[2]][a])}

WildcardRead(list, isd, path, current) ==
    LET result == [o \in Matching(path) |-> Granted(list, isd, o)]
        viewed == {o \in Matching(path) \ current : "View" \in result[o].granted}
    IN  [silent |-> \/ LooksUpNothing(path)
                    \/ \E o \in Matching(path) : result[o].failed # None,
         data |-> UNION {{<<o[1], o[2], a>> :
                            a \in Readables(o, path.attribute, result[o].granted)} :
                         o \in viewed}]

IsWildcard(path) == None \in {path.endpoint, path.cluster, path.attribute}
ReadAttribute(list, isd, path, current) ==
    IF path.node # None THEN [silent |-> FALSE, data |-> {}]
    ELSE IF IsWildcard(path) THEN WildcardRead(list, isd, path, current)
    ELSE ConcreteRead(list, isd, path, current)

ReadRequest(list, isd, paths, current) ==
    LET reads == [n \in DOMAIN paths |->
                    ReadAttribute(list, isd, DecompressedPaths(paths)[n], current)]
    IN  [silent |-> \E n \in DOMAIN reads : reads[n].silent,
         data |-> UNION {reads[n].data : n \in DOMAIN reads}]

(* the events a subscription registers, of a cluster View is granted for; a   *)
(* wildcard path that names its event puts the declaration of the event in    *)
(* the place of the endpoint, and registers a key no report has              *)
ConcreteEvents(list, isd, path) ==
    LET object == <<path.endpoint, path.cluster>>
        granted == Granted(list, isd, object).granted
    IN  {<<path.endpoint, path.cluster, path.attribute>> :
            x \in {o \in {object} \cap Object :
                      /\ "View" \in granted
                      /\ path.attribute \in DOMAIN Events[path.cluster]
                      /\ Events[path.cluster][path.attribute] \in granted}}
WildcardEvents(list, isd, path) ==
    LET Registered(o, granted) ==
            {ev \in DOMAIN Events[o[2]] : /\ "View" \in granted
                                          /\ Events[o[2]][ev] \in granted
                                          /\ path.attribute \in {None, ev}}
    IN  UNION {{<<IF path.attribute = None THEN o[1] ELSE ev, o[2], ev>> :
                  ev \in Registered(o, Granted(list, isd, o).granted)} : o \in Matching(path)}
-----------------------------------------------------------------------------
(* A request being served                                                    *)
Serving == [acl |-> acl, fabrics |-> fabrics,
            calls |-> <<>>, answers |-> <<>>, silent |-> FALSE]
Answered(m, status) == [m EXCEPT !.answers = Append(@, status)]
Silent(m) == [m EXCEPT !.silent = TRUE]
Called(m, object, needs, timed, fields) ==
    [m EXCEPT !.calls = Append(@, [object |-> object, needs |-> needs,
                                   timed |-> timed, fields |-> fields,
                                   list |-> m.acl])]

(* a decoded Null is never equal to the class Null, so an item with a list    *)
(* index of any kind is refused                                              *)
WriteStatus(granted, path, timed) ==
    LET object == <<path.endpoint, path.cluster>>
    IN  IF "View" \notin granted THEN "UNSUPPORTED_ACCESS"
        ELSE IF path.node # None THEN "UNSUPPORTED_NODE"
        ELSE IF Located(object) # "SUCCESS" THEN Located(object)
        ELSE IF path.list_index # None THEN "INVALID_ACTION"
        ELSE IF path.attribute \notin DOMAIN Attributes[path.cluster]
             THEN "UNSUPPORTED_ATTRIBUTE"
        ELSE IF Attributes[path.cluster][path.attribute].write \notin granted
             THEN "UNSUPPORTED_ACCESS"
        ELSE IF ~Writable(Attributes[path.cluster][path.attribute])
             THEN "UNSUPPORTED_WRITE"
        ELSE IF Attributes[path.cluster][path.attribute].timed /\ ~timed
             THEN "NEEDS_TIMED_INTERACTION"
        ELSE "SUCCESS"

(* replace_acl checks every entry before it touches the list                 *)
Admissible(data) ==
    \A entry \in ToSet(data) :
        entry.privilege \in Privileges /\ entry.auth_mode \in AuthenticationModes
WriteAcl_Unanswered(m, isd, data) ==
    IF ~Admissible(data) THEN m
    ELSE Answered([m EXCEPT !.acl = Replaced(@, isd.fabric_index, data)], "SUCCESS")
WriteAcl(m, isd, data) ==
    IF ~Admissible(data) THEN Answered(m, "CONSTRAINT_ERROR")
    ELSE Answered([m EXCEPT !.acl = Replaced(@, isd.fabric_index, data)], "SUCCESS")

(* a writer that returns nothing raises where its status is looked at        *)
RunWriter(m, isd, path) ==
    LET attribute == Attributes[path.cluster][path.attribute]
        ending == path.ends[path.endpoint]
        after == IF path.attribute = "acl" THEN WriteAcl(m, isd, path.data)
                 ELSE Answered(m, "SUCCESS")
    IN  IF ending = "raises before" THEN Silent(m)
        ELSE IF ending = "raises after" \/ attribute.returns = "nothing"
             THEN Silent([after EXCEPT !.answers = m.answers])
        ELSE after

WriteAttribute(m, isd, path, timed) ==
    LET object == <<path.endpoint, path.cluster>>
        result == Granted(m.acl, isd, object)
        status == WriteStatus(result.granted, path, timed)
        attribute == Attributes[path.cluster][path.attribute]
    IN  IF m.silent THEN m
        ELSE IF result.failed # None THEN Silent(m)
        ELSE IF status # "SUCCESS" THEN Answered(m, status)
        ELSE IF path.data = Malformed THEN Answered(m, "INVALID_ACTION")
        ELSE IF path.data = Broken THEN Silent(m)
        ELSE RunWriter(Called(m, object, {"View", attribute.write}, attribute.timed,
                              path.data), isd, path)

WriteItems(isd, request) ==
    LET paths == DecompressedPaths(request.items)
        m[n \in 0 .. Len(paths)] ==
            IF n = 0 THEN Serving
            ELSE WriteAttribute(m[n - 1], isd, paths[n], request.timed)
    IN  IF request.chunked THEN Silent(Serving) ELSE m[Len(paths)]
-----------------------------------------------------------------------------
InvokeStatus(granted, object, name, timed) ==
    IF "Operate" \notin granted THEN "UNSUPPORTED_ACCESS"
    ELSE IF Located(object) # "SUCCESS" THEN Located(object)
    ELSE IF name \notin DOMAIN Commands[object[2]] THEN "UNSUPPORTED_COMMAND"
    ELSE IF Commands[object[2]][name].privilege \notin granted THEN "UNSUPPORTED_ACCESS"
    ELSE IF Commands[object[2]][name].timed /\ ~timed THEN "NEEDS_TIMED_INTERACTION"
    ELSE "SUCCESS"

(* what the handlers do to the list and the fabrics                          *)
AddNoc(m) ==
    IF FabricIndex \subseteq m.fabrics THEN m
    ELSE LET i == Min(FabricIndex \ m.fabrics)
         IN  [m EXCEPT !.fabrics = @ \cup {i}, !.acl = WithAdministrator(@, i)]
RemoveFabric(m, i) ==
    IF i \notin m.fabrics THEN m
    ELSE [m EXCEPT !.fabrics = @ \ {i}, !.acl = Without(@, i)]
Effect(m, name, fields) ==
    CASE name = "add_noc" -> AddNoc(m)
      [] name = "remove_fabric" -> RemoveFabric(m, fields)
      [] OTHER -> m

(* Command.__call__: what it leaves, and the kind of result or None if it     *)
(* raised, which a result of None does in invoke_command                     *)
Run_DecodesLater(m, object, name, fields, ending) ==
    LET command == Commands[object[2]][name]
    IN  [after |-> Effect(Called(m, object, {"Operate", command.privilege},
                                 command.timed, fields), name, fields),
         kind |-> IF command.handled THEN command.returns ELSE None]
Run(m, object, name, fields, ending) ==
    LET command == Commands[object[2]][name]
        called == Called(m, object, {"Operate", command.privilege}, command.timed, fields)
    IN  IF ~command.handled \/ (command.decodes /\ fields = Broken)
        THEN [after |-> m, kind |-> None]
        ELSE IF command.decodes /\ fields = Malformed
        THEN [after |-> m, kind |-> "status"]
        ELSE [after |-> IF ending = "raises before" THEN called
                        ELSE Effect(called, name, fields),
              kind |-> IF ending # "returns" \/ command.returns = "nothing" THEN None
                       ELSE command.returns]

InvokeConcrete(m, isd, item, timed) ==
    LET object == <<item.endpoint, item.cluster>>
        result == Granted(m.acl, isd, object)
        status == InvokeStatus(result.granted, object, item.command, timed)
        run == Run(m, object, item.command, item.fields, item.ends[item.endpoint])
    IN  IF result.failed # None THEN Silent(m)
        ELSE IF status # "SUCCESS" THEN Answered(m, status)
        ELSE IF run.kind = None THEN Silent(run.after)
        ELSE Answered(run.after, run.kind)

(* The result of one endpoint takes the place of the fields for the next, and *)
(* no handler can decode it.  A pair of statuses has no value, and raises.   *)
InvokeAt(w, isd, item, timed, e) ==
    LET object == <<e, item.cluster>>
        result == Granted(w.m.acl, isd, object)
        run == Run(w.m, object, item.command, w.fields, item.ends[e])
    IN  IF w.m.silent \/ Located(object) # "SUCCESS" THEN w
        ELSE IF result.failed # None THEN [w EXCEPT !.m = Silent(@)]
        ELSE IF InvokeStatus(result.granted, object, item.command, timed) # "SUCCESS" THEN w
        ELSE IF run.kind \in {None, "pair"} THEN [w EXCEPT !.m = Silent(run.after)]
        ELSE [m |-> Answered(run.after, run.kind), fields |-> Malformed]

InvokeWildcard(m, isd, item, timed) ==
    LET w[n \in 0 .. Max(Endpoint) + 1] ==
            IF n = 0 THEN [m |-> m, fields |-> item.fields]
            ELSE InvokeAt(w[n - 1], isd, item, timed, n - 1)
    IN  w[Max(Endpoint) + 1].m

(* the line that logs the path raises where the cluster or the command is not *)
(* given                                                                     *)
InvokeCommand(m, isd, item, timed) ==
    IF m.silent THEN m
    ELSE IF None \in {item.cluster, item.command} THEN Silent(m)
    ELSE IF item.endpoint = None THEN InvokeWildcard(m, isd, item, timed)
    ELSE InvokeConcrete(m, isd, item, timed)

InvokeItems(isd, request) ==
    LET m[n \in 0 .. Len(request.items)] ==
            IF n = 0 THEN Serving
            ELSE InvokeCommand(m[n - 1], isd, request.items[n], request.timed)
    IN  m[Len(request.items)]

Served(isd, request) ==
    IF request.kind = "write" THEN WriteItems(isd, request) ELSE InvokeItems(isd, request)
-----------------------------------------------------------------------------
Become(m) ==
    /\ Len(m.acl) <= MaxEntries
    /\ acl' = m.acl /\ fabrics' = m.fabrics

WriteRequest(isd, request) == request.kind = "write" /\ Become(WriteItems(isd, request))
InvokeRequest(isd, request) == request.kind = "invoke" /\ Become(InvokeItems(isd, request))

Init ==
    /\ acl = <<>>
    /\ fabrics = {}

(* RemoveFabric takes the sessions of the fabric with it; what a request that *)
(* was already dispatched can still do is part of Commissioning              *)
Present == {s \in ISD : s.fabric_index \in fabrics \cup {0}}
Next ==
    \E isd \in Present, request \in Request :
        WriteRequest(isd, request) \/ InvokeRequest(isd, request)

Spec == Init /\ [][Next]_vars
-----------------------------------------------------------------------------
(* An evaluation that gets to its end grants what the list says, neither     *)
(* more nor less, although the loop stops at the first Administer entry and   *)
(* at the first target that matches.                                         *)
GrantsMatchReference ==
    \A isd \in ISD, object \in Object :
        LET result == GetGrantedPrivileges(acl, isd, object)
        IN  result.failed = None => result.granted = Deserved(acl, isd, object)

(* get_granted_privileges: "Precondition: target cannot be empty" and            *)
(* "Precondition: target cannot specify both endpoint and device type".         *)
TargetsMeetPreconditions ==
    \A isd \in ISD, object \in Object :
        GetGrantedPrivileges(acl, isd, object).failed
            \notin {"empty target", "ambiguous target"}

(* No writer and no handler runs for a session that does not deserve, under   *)
(* the list as the earlier items of the request left it, every privilege it  *)
(* takes, nor outside a timed request where one is needed: for concrete      *)
(* paths, compressed ones and wildcards.                                     *)
CallsAreDeserved ==
    \A isd \in Present, request \in Request :
        \A call \in ToSet(Served(isd, request).calls) :
            /\ call.needs \subseteq Deserved(call.list, isd, call.object)
            /\ call.timed => request.timed

(* A wildcard path reads, and registers the events of, what the concrete      *)
(* paths it stands for would, one by one, with and without data version       *)
(* filters, and never shows what the concrete path refuses.                  *)
ReadsMatchConcrete ==
    \A isd \in Present, paths \in ReadPaths,
       current \in {{}, {o \in Object : o[1] = Max(Endpoint)}} :
        LET At(path, o, name) == [path EXCEPT !.endpoint = o[1], !.cluster = o[2],
                                              !.attribute = name]
            ReadAt(path) ==
                UNION {UNION {ReadAttribute(acl, isd, At(path, o, name), current).data :
                                name \in Attrs(o[2], path.attribute)} :
                         o \in Matching(path)}
            EventsAt(path) ==
                UNION {UNION {ConcreteEvents(acl, isd, At(path, o, ev)) :
                                ev \in DOMAIN Events[o[2]]} : o \in Matching(path)}
            read == ReadRequest(acl, isd, paths, current)
            asked == ToSet(DecompressedPaths(paths))
        IN  /\ ~read.silent => read.data = UNION {ReadAt(path) : path \in asked}
            /\ \A path \in asked :
                  path.attribute = None => WildcardEvents(acl, isd, path) = EventsAt(path)

(* A wildcard invocation runs the command where the concrete ones would, in   *)
(* the order of the endpoints and without passing one over, and never on     *)
(* fields the client did not send.                                           *)
InOrder(calls, endpoints) ==
    /\ \A n \in DOMAIN calls :
          {calls[k].object[1] : k \in 1 .. n} = {e \in endpoints : e <= calls[n].object[1]}
    /\ \A n, k \in DOMAIN calls : k < n => calls[k].object[1] < calls[n].object[1]

CallsMatchConcrete ==
    \A isd \in Present :
        \A request \in {r \in Request : r.kind = "invoke"} : \A item \in ToSet(request.items) :
            LET Concrete(e) == InvokeConcrete(Serving, isd, [item EXCEPT !.endpoint = e],
                                              request.timed)
                runs == {e \in Endpoint : Concrete(e).calls # <<>>}
                calls == InvokeWildcard(Serving, isd, item, request.timed).calls
            IN  \/ item.endpoint # None
                \/ \E o \in Object : Granted(acl, isd, o).failed # None
                \/ /\ InOrder(calls, runs)
                   /\ \A call \in ToSet(calls) :
                         /\ call.object[2] = item.cluster
                         /\ Commands[item.cluster][item.command].decodes =>
                               call.fields = item.fields

(* Wildcards do what the concrete paths they stand for would, and nothing     *)
(* that those would not: for reads and subscriptions, and for invocations.   *)
WildcardsMatchConcrete == ReadsMatchConcrete /\ CallsMatchConcrete

(* A request that was decoded and begun comes to its answer, a write with a    *)
(* status for every item, unless an access control target that cannot be     *)
(* matched is met or written, the write is chunked, or one of its items is    *)
(* such that serving it may raise: the cluster or command of an invocation is *)
(* not given, its data or fields make the decoder raise another error than   *)
(* the one that is caught, the writer or handler raises, returns nothing or   *)
(* is not there, or a pair of statuses meets a wildcard.  Nothing catches     *)
(* what such an item raises, and nobody is answered.  (A request may ask      *)
(* that its answer not be sent: served, it then ends without.)                *)
Unusable(struct) ==
    \E target \in ToSet(struct.targets) : IsEmpty(target) \/ IsAmbiguous(target)
WritesUnusable(item) ==
    /\ item.data \notin Undecodable
    /\ \E n \in DOMAIN item.data : Unusable(Stored(item.data[n], 1))
WriterRaises(item) ==
    \/ item.data = Broken
    \/ item.endpoint \in Endpoint /\ item.ends[item.endpoint] # "returns"
    \/ /\ item.cluster \in DOMAIN Attributes
       /\ item.attribute \in DOMAIN Attributes[item.cluster]
       /\ Attributes[item.cluster][item.attribute].returns = "nothing"
CommandRaises(command, item) ==
    \/ ~command.handled \/ command.returns = "nothing"
    \/ command.decodes /\ item.fields = Broken
    \/ \E e \in Endpoint : item.endpoint \in {None, e} /\ item.ends[e] # "returns"
    \/ command.returns = "pair" /\ item.endpoint = None
Raises(request, item) ==
    \/ request.kind = "write" /\ (WriterRaises(item) \/ WritesUnusable(item))
    \/ request.kind = "invoke" /\ None \in {item.cluster, item.command}
    \/ /\ request.kind = "invoke" /\ item.cluster \in DOMAIN Commands
       /\ item.command \in DOMAIN Commands[item.cluster]
       /\ CommandRaises(Commands[item.cluster][item.command], item)
RequestsAreAnswered ==
    \A isd \in Present, request \in Request :
        LET served == Served(isd, request)
            items == IF request.kind = "write" THEN DecompressedPaths(request.items)
                     ELSE request.items
            excused == \/ request.chunked
                       \/ \E item \in ToSet(items) : Raises(request, item)
                       \/ \E entry \in ToSet(acl) : Unusable(entry)
        IN  ~excused => /\ ~served.silent
                        /\ request.kind = "write" =>
                              Len(served.answers) = Len(request.items)
============================================================================
