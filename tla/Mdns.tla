---------------------------------- MODULE Mdns ----------------------------------
(***************************************************************************)
(* The mDNS responder (mdns.py): how it answers queries from the state of   *)
(* the device, and the tasks by which it announces the device and each new  *)
(* fabric.  Of the commands that change what it publishes (root_node.py)    *)
(* there is what they do to that, at any time their guards allow;           *)
(* Commissioning has them in full.                                          *)
(*                                                                         *)
(* A name is a pair of its kind and what it is made from.  An rrset the     *)
(* code builds holds one rdata, so it is a record here.  A task that sends  *)
(* waits while the socket is full: its packet is made before and goes out   *)
(* after.  Answering changes nothing here: Response says what is sent, and   *)
(* the properties ask it in every state.                                    *)
(***************************************************************************)
EXTENDS Absent, Integers, FiniteSets

CONSTANTS
    FabricIndex,      (* 1 .. 253 *)
    Fabric,           (* what AddNOC may install: [compressed_fabric_id, node_id] *)
    Discriminator,
    BasicDiscriminator,
    PartialOf,        (* the upper bits of a discriminator                    *)
    Interface,        (* the adapters with an IPv6 address                    *)
    Address,          (* the addresses of each                                *)
    Query,            (* [questions, known]: see Response                     *)
    MaxCount          (* 8 *)

ASSUME MdnsAssumption ==
    /\ FabricIndex \subseteq Nat \ {0}
    /\ \A f \in Fabric : DOMAIN f = {"compressed_fabric_id", "node_id"}
    /\ BasicDiscriminator \in Discriminator
    /\ DOMAIN PartialOf = Discriminator
    /\ Interface \subseteq Nat /\ Interface # {} /\ DOMAIN Address = Interface
    /\ MaxCount \in Nat
    /\ None \notin Fabric

VARIABLES
    in_commissioning_mode,
    window,           (* whether one is open, of either kind *)
    instance_name,    (* "base", or the random one of the window              *)
    discriminator,
    fabrics,          (* per index: the fabric that holds it, or None         *)
    saved,            (* the fabrics in the state file                        *)
    task,             (* an announcing task, or None: any one of those there  *)
                      (* are, which share nothing but the socket              *)
    due               (* history: what it was begun for and has not announced *)
                      (* yet: the index of a fabric, 0 for the window         *)

device == <<in_commissioning_mode, window, instance_name, discriminator, fabrics, saved>>
mdnsVars == <<device, task, due>>

Installed == {fabrics[i] : i \in FabricIndex} \ {None}
-----------------------------------------------------------------------------
(* the names *)
ServicesName == <<"_services", 0>>
MatterName == <<"_matterc", 0>>
CoapsName == <<"_aliro-coaps", 0>>
FabricName == <<"_matter", 0>>
CommissioningName == <<"_CM", 0>>
HostName == <<"host", 0>>
InstanceName == <<"instance", instance_name>>
CoapsInstanceName == <<"coaps instance", "base">>
FabricInstanceName(f) == <<"fabric instance", f>>
FabricDiscriminatorName(f) == <<"_I", f.compressed_fabric_id>>

(* the sub-types the device is found by, whatever its state                  *)
SubtypeNames ==
    {<<"_L", discriminator>>, <<"_S", PartialOf[discriminator]>>,
     <<"_V", 0>>, <<"_D", 0>>}

Record(name, type, data) == [name |-> name, type |-> type, data |-> data]
Pointer(name, target) == Record(name, "PTR", target)

Srv == Record(InstanceName, "SRV", <<"matter port", HostName>>)
CoapsSrv == Record(CoapsInstanceName, "SRV", <<"coaps port", HostName>>)
FabricSrv(f) == Record(FabricInstanceName(f), "SRV", <<"matter port", HostName>>)
Txt == Record(InstanceName, "TXT",
              <<"device", [D |-> discriminator, CM |-> in_commissioning_mode]>>)
CoapsTxt == Record(CoapsInstanceName, "TXT", <<"coaps", 0>>)
FabricTxt(f) == Record(FabricInstanceName(f), "TXT", <<"fabric", 0>>)
Aaaa(interface) == {Record(HostName, "AAAA", <<"address", a>>) : a \in Address[interface]}

(* the pointers to the device's two instances                                *)
CommissioningNames ==
    IF in_commissioning_mode THEN {CommissioningName} ELSE {}
DevicePointers ==
    {Pointer(CoapsName, CoapsInstanceName)} \cup
    {Pointer(name, InstanceName) :
        name \in {MatterName} \cup CommissioningNames \cup SubtypeNames}
-----------------------------------------------------------------------------
(* process_message.  A question is [name, type, class], the class "IN", "QU"  *)
(* (IN with the bit that asks for a unicast answer) or another.              *)
Sections(answers, additional) ==
    {[section |-> "answer", record |-> r] : r \in answers} \cup
    {[section |-> "additional", record |-> r] : r \in additional}

AboutFabric(f, name, interface) ==
    Sections({Pointer(name, FabricInstanceName(f))},
             {FabricSrv(f), FabricTxt(f)} \cup Aaaa(interface))

PtrReplies(name, interface) ==
    LET pointers == {r \in DevicePointers : r.name = name} IN
    IF name = ServicesName
    THEN Sections({Pointer(name, MatterName), Pointer(name, CoapsName)}, {})
    ELSE IF pointers # {}
    THEN Sections(pointers, {Srv, CoapsSrv, Txt, CoapsTxt} \cup Aaaa(interface))
    ELSE UNION {AboutFabric(f, name, interface) :
                   f \in {g \in Installed :
                            name \in {FabricName, FabricDiscriminatorName(g)}}}

(* SRV and TXT questions: the instance's records of both types, the one asked *)
(* for as the answer                                                         *)
Pairs == {<<Srv, Txt>>, <<CoapsSrv, CoapsTxt>>} \cup
         {<<FabricSrv(f), FabricTxt(f)>> : f \in Installed}

SrvReplies(name, interface) ==
    UNION {Sections({p[1]}, {p[2]} \cup Aaaa(interface)) :
              p \in {q \in Pairs : q[1].name = name}}
TxtReplies(name, interface) ==
    UNION {Sections({p[2]}, {p[1]} \cup Aaaa(interface)) :
              p \in {q \in Pairs : q[2].name = name}}

Replies(question, interface) ==
    IF question.class \notin {"IN", "QU"} THEN {} ELSE
    CASE question.type = "PTR" -> PtrReplies(question.name, interface)
      [] question.type = "SRV" -> SrvReplies(question.name, interface)
      [] question.type = "TXT" -> TxtReplies(question.name, interface)
      [] question.type = "AAAA" -> IF question.name = HostName
                                   THEN Sections(Aaaa(interface), {}) ELSE {}
      [] OTHER -> {}

(* add_dns_response: the querier lists what it knows, as rrsets with a time   *)
(* to live that has passed its half or has not                               *)
Needed_ByName(known, r) ==
    \A k \in known : k.name = r.name /\ k.type = r.type => ~k.fresh
Needed(known, r) ==
    \A k \in known : k.name = r.name /\ k.type = r.type =>
                        ~k.fresh \/ r.data \notin k.data

Response(query, interface) ==
    {x \in UNION {Replies(q, interface) : q \in query.questions} :
        Needed(query.known, x.record)}

InSection(response, section) ==
    {x.record : x \in {y \in response : y.section = section}}

(* sent only if something answers (to the querier alone if one of the classes  *)
(* is "QU")                                                                  *)
Sent(response) ==
    IF InSection(response, "answer") = {} THEN {}
    ELSE InSection(response, "answer") \cup InSection(response, "additional")

(* the packets of the announcing tasks; that of a fabric carries the text of  *)
(* the device's instance, not of its own                                     *)
DevicePacket(interface) ==
    DevicePointers \cup {Srv, CoapsSrv, Txt, CoapsTxt} \cup Aaaa(interface)
FabricPacket(f, interface) ==
    {Pointer(FabricName, FabricInstanceName(f)),
     Pointer(FabricDiscriminatorName(f), FabricInstanceName(f)),
     FabricSrv(f), Txt} \cup Aaaa(interface)
-----------------------------------------------------------------------------
(* fabric_index 0: a task of send_unsolicited_packets; interface and packet:  *)
(* what it sends; left: interfaces it has yet to send on; outdated (history):  *)
(* the device has changed since the task looked                              *)
Task(index, count) ==
    [fabric_index |-> index, count |-> count, fabric |-> None,
     left |-> {}, interface |-> None, packet |-> {}, outdated |-> FALSE]

(* the tasks whose packet is the one given *)
TaskWith(packet) ==
    [fabric_index : FabricIndex \cup {0}, count : 0 .. MaxCount,
     fabric : Fabric \cup {None}, left : SUBSET Interface,
     interface : Interface \cup {None}, packet : {packet}, outdated : BOOLEAN]

MdnsTypeOK ==
    /\ in_commissioning_mode \in BOOLEAN
    /\ window \in BOOLEAN
    /\ instance_name \in {"base", "window"}
    /\ discriminator \in Discriminator
    /\ fabrics \in [FabricIndex -> Fabric \cup {None}]
    /\ saved \in [FabricIndex -> Fabric \cup {None}]
    /\ task # None => task \in TaskWith(task.packet)
    /\ due \in SUBSET (FabricIndex \cup {0})

IsSending == task # None /\ task.interface # None

(* the device changes while the task has a packet with the socket            *)
Unheeded == task' = IF IsSending THEN [task EXCEPT !.outdated = TRUE] ELSE task

(* a new task may be the one that is followed *)
BeginFabric_Not(index) == Unheeded
BeginFabric(index) == task' = Task(index, 0)

Begin(index) ==
    \/ task = None /\ BeginFabric(index) /\ due' = {index}
    \/ Unheeded /\ UNCHANGED due

(* the open commands: that of an enhanced window sets the discriminator, and  *)
(* the other leaves it.  The opener's fabric may be gone by then: KeyError    *)
(* before the task is made.                                                  *)
OpenWindow(d) ==
    /\ ~in_commissioning_mode /\ ~window
    /\ window' = TRUE
    /\ in_commissioning_mode' = TRUE
    /\ instance_name' = "window"
    /\ discriminator' = d
    /\ \/ Begin(0)
       \/ Unheeded /\ UNCHANGED due
    /\ UNCHANGED <<fabrics, saved>>

CancelCommissioning ==
    /\ window
    /\ window' = FALSE
    /\ in_commissioning_mode' = FALSE
    /\ instance_name' = "base"
    /\ discriminator' = BasicDiscriminator
    /\ due' = due \ {0}
    /\ Unheeded
    /\ UNCHANGED <<fabrics, saved>>

CommissioningComplete ==
    /\ Installed # {}
    /\ in_commissioning_mode' = FALSE
    /\ saved' = fabrics
    /\ due' = due \ {0}
    /\ Unheeded
    /\ UNCHANGED <<window, instance_name, discriminator, fabrics>>

AddNoc(f) ==
    \E i \in FabricIndex :
       /\ fabrics[i] = None /\ \A j \in FabricIndex : j < i => fabrics[j] # None
       /\ fabrics' = [fabrics EXCEPT ![i] = f]
       /\ Begin(i)
       /\ UNCHANGED <<in_commissioning_mode, window, instance_name, discriminator, saved>>

RemoveFabric(i) ==
    /\ fabrics[i] # None
    /\ fabrics' = [fabrics EXCEPT ![i] = None]
    /\ saved' = fabrics'
    /\ in_commissioning_mode' = (in_commissioning_mode \/ Installed' = {})
    /\ due' = due \ {i}
    /\ Unheeded
    /\ UNCHANGED <<window, instance_name, discriminator>>

(* the process starts again: MDNS.__init__, load_state, and process_packets,  *)
(* which announces the device                                                *)
Restart ==
    /\ fabrics' = saved
    /\ in_commissioning_mode' = (Installed' = {})
    /\ window' = FALSE /\ instance_name' = "base"
    /\ discriminator' = BasicDiscriminator
    /\ task' = Task(0, 0)
    /\ due' = {}
    /\ UNCHANGED saved
-----------------------------------------------------------------------------
(* one round of an announcing task: it looks up its fabric, then makes and    *)
(* sends one packet after the other                                          *)
PacketOf_Once(t, interface) ==
    IF t.packet # {} THEN t.packet
    ELSE IF t.fabric_index = 0 THEN DevicePacket(interface)
    ELSE FabricPacket(t.fabric, interface)
PacketOf(t, interface) ==
    IF t.fabric_index = 0 THEN DevicePacket(interface)
                          ELSE FabricPacket(t.fabric, interface)

Sending(t) ==
    LET interface == CHOOSE i \in t.left : \A j \in t.left : i <= j IN
    [t EXCEPT !.interface = interface, !.left = @ \ {interface},
              !.packet = PacketOf(t, interface),
              !.outdated = @ /\ t.fabric_index # 0]

Round(t) ==
    [t EXCEPT !.left = Interface,
              !.fabric = IF t.fabric_index = 0 THEN None ELSE fabrics[t.fabric_index]]

(* the sleep ends, or the task is run for the first time                     *)
Wake ==
    /\ task # None /\ ~IsSending
    /\ task' = IF task.fabric_index # 0 /\ Round(task).fabric = None
               THEN None ELSE Sending(Round(task))
    /\ UNCHANGED <<device, due>>

Announced(packet) ==
    {i \in due : IF i = 0
                 THEN Pointer(CommissioningName, <<"instance", "window">>) \in packet
                 ELSE Pointer(FabricName, FabricInstanceName(fabrics[i])) \in packet}

(* the socket takes the packet, or refuses it, which the task does not notice: *)
(* it counts as announced all the same (a fabric's packet is sent a second    *)
(* time right after, which is left out).  After the last one the task starts *)
(* its successor, which sleeps twice as long.                                *)
Send ==
    /\ IsSending
    /\ due' = due \ Announced(task.packet)
    /\ task' = CASE task.left # {} -> Sending(task)
                 [] task.left = {} /\ task.count < MaxCount ->
                       Task(task.fabric_index, task.count + 1)
                 [] OTHER -> None
    /\ UNCHANGED device
-----------------------------------------------------------------------------
MdnsInit ==
    /\ in_commissioning_mode = TRUE
    /\ window = FALSE /\ instance_name = "base"
    /\ discriminator = BasicDiscriminator
    /\ fabrics = [i \in FabricIndex |-> None] /\ saved = fabrics
    /\ task = Task(0, 0)
    /\ due = {}

Command ==
    \/ \E d \in Discriminator : OpenWindow(d)
    \/ CancelCommissioning
    \/ CommissioningComplete
    \/ \E f \in Fabric : AddNoc(f)
    \/ \E i \in FabricIndex : RemoveFabric(i)

MdnsNext ==
    \/ Command
    \/ Restart
    \/ Wake
    \/ Send

MdnsSpec == MdnsInit /\ [][MdnsNext]_mdnsVars

(* sleeps end and the socket takes packets again; nothing else is owed       *)
MdnsFairSpec == MdnsSpec /\ WF_mdnsVars(Wake) /\ WF_mdnsVars(Send)
-----------------------------------------------------------------------------
(* what is true of the device, with its addresses on an interface            *)
FabricPointers ==
    UNION {{Pointer(name, FabricInstanceName(f)) :
              name \in {FabricName, FabricDiscriminatorName(f)}} : f \in Installed}

Zone(interface) ==
    {Pointer(ServicesName, MatterName), Pointer(ServicesName, CoapsName)}
    \cup DevicePointers \cup Aaaa(interface)
    \cup FabricPointers
    \cup UNION {{p[1], p[2]} : p \in Pairs}

Knows(query, r) ==
    \E k \in query.known : /\ k.name = r.name /\ k.type = r.type
                           /\ k.fresh /\ r.data \in k.data

(* With what the querier knows and its knowledge is not half expired, an      *)
(* answer is true and complete for each of its questions, for every state of  *)
(* the window and set of fabrics, whatever the other questions are; and an    *)
(* instance it points to comes with where to reach it.                       *)
AnswersSuffice ==
    \A query \in Query, interface \in Interface :
       LET response == Response(query, interface)
           answers == InSection(response, "answer")
           Has(r) == r \in Sent(response) \/ Knows(query, r)
       IN  /\ Sent(response) \subseteq Zone(interface)
           /\ \A q \in query.questions, r \in Zone(interface) :
                 q.class \in {"IN", "QU"} /\ r.name = q.name /\ r.type = q.type
                 => Has(r)
           /\ \A r \in answers :
                 r.type = "PTR" /\ r.name # ServicesName =>
                    \A type \in {"SRV", "TXT"} :
                       \E s \in Zone(interface) :
                          s.name = r.data /\ s.type = type /\ Has(s)

(* A packet with the socket is true unless the device changed since its task  *)
(* looked: for the device's own, since the packet was made, and for a         *)
(* fabric's, since the round began.                                          *)
PacketsAreTrue ==
    IsSending /\ ~task.outdated => task.packet \subseteq Zone(task.interface)

(* A window that was opened and a fabric that was added are announced, unless *)
(* they are gone before, however the tasks of others interleave: not after a  *)
(* restart, which forgets them (load_state begins no announcement of fabrics). *)
AnnouncedInTheEnd ==
    \A i \in FabricIndex \cup {0} : []<>(i \notin due)
=============================================================================
