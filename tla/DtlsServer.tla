------------------------------- MODULE DtlsServer -------------------------------
(***************************************************************************)
(* The DTLS server that readers reach the device through (coap/dtls.py) and *)
(* the tasks of CoAP that use its connections (coap/coap.py).  One task     *)
(* runs the server: it waits for a datagram or for the earliest timeout,    *)
(* deals with it without awaiting, and waits again.  Beside it each         *)
(* connection has a task that reads, and tasks that write.                  *)
(*                                                                         *)
(* wolfSSL is external: a call may return any of the results the code tells *)
(* apart.  An object stands for the pointer to its WOLFSSL, which nothing   *)
(* else has while the object lives, and for its connection id, eight random *)
(* bytes that are compared with those in use.  Contents are left out, and   *)
(* so is the device that the verify callback notes.                         *)
(***************************************************************************)
EXTENDS Absent, Integers, FiniteSets

CONSTANTS
    Object,             (* bound: DTLSInternalConnection objects, numbered    *)
    Peer,               (* addresses *)
    HandshakeTimeouts,  (* what wolfSSL asks for, a quick quarter included;   *)
                        (* 0: nothing                                         *)
    IdleTimeout,        (* 120 seconds *)
    MaxRetries,         (* timeouts of a handshake that wolfSSL answers       *)
    MaxQueue            (* bound: records of a connection not yet read        *)

ASSUME DtlsAssumption ==
    /\ Object \subseteq Nat
    /\ HandshakeTimeouts \subseteq Nat
    /\ IdleTimeout \in Nat \ {0} /\ MaxRetries \in Nat /\ MaxQueue \in Nat
    /\ None \notin Nat

VARIABLES
    conn,         (* the objects *)
    conn_by_cid,  (* the objects entered under their connection id            *)
    conn_by_peer,
    conn_by_ptr,  (* per pointer: its object, or one whose WOLFSSL was freed  *)
    timeouts,     (* time left *)
    listen_ssl,
    waiting,      (* what the server's task waits for, and whom the timeout   *)
                  (* is for                                                   *)
    reader,       (* per object: its process_connection task                  *)
    writer,       (* per object: a write                                      *)
    writable_fut  (* the objects whose writes await sock_writable_fut         *)

tables == <<conn_by_cid, conn_by_peer, timeouts>>
tasks == <<reader, writer, writable_fut>>
vars == <<conn, tables, conn_by_ptr, listen_ssl, waiting, tasks>>

Blank == [phase |-> "none", init_done |-> FALSE, retries |-> 0,
          read_queue |-> 0, shut |-> FALSE]

TypeOK ==
    /\ conn \in [Object ->
           [phase : {"none", "listening", "negotiating", "finished"},
            init_done : BOOLEAN,
            retries : 0 .. MaxRetries,
            read_queue : 0 .. MaxQueue,
            shut : BOOLEAN]]
    /\ conn_by_cid \in SUBSET Object
    /\ conn_by_peer \in [Peer -> Object \cup {None}]
    /\ conn_by_ptr \in [Object -> {"none", "object", "freed"}]
    /\ timeouts \in [Object -> Nat \cup {None}]
    /\ listen_ssl \in Object
    /\ waiting \in [kind : {"datagram", "either", "expired"},
                    conn : Object \cup {None}, left : Nat]
    /\ reader \in [Object -> {"none", "reading", "ended", "failed"}]
    /\ writer \in [Object -> {"none", "waiting", "ready"}]
    /\ writable_fut \in SUBSET Object

Accepted(o) == conn[o].phase \in {"negotiating", "finished"}
Reachable(o) == o \in conn_by_cid
Established(o) == Reachable(o) /\ conn[o].phase = "finished"
-----------------------------------------------------------------------------
(* get_next_timeout; with no time left wait_for does not look at the socket  *)
Earliest_Latest(o, ts) ==
    ts[o] # None /\ \A q \in Object : ts[q] # None => ts[o] >= ts[q]
Earliest(o, ts) ==
    ts[o] # None /\ \A q \in Object : ts[q] # None => ts[o] <= ts[q]

NextTimeout(ts) ==
    IF \A o \in Object : ts[o] = None
    THEN {[kind |-> "datagram", conn |-> None, left |-> 0]}
    ELSE {[kind |-> IF ts[o] = 0 THEN "expired" ELSE "either",
           conn |-> o, left |-> ts[o]] : o \in {p \in Object : Earliest(p, ts)}}

WaitAgain == waiting' \in NextTimeout(timeouts')

(* remove_connection of an object that is by now as in c *)
WithoutPeer_Nothing(o) == conn_by_peer
WithoutPeer(o) == [a \in Peer |-> IF conn_by_peer[a] = o THEN None
                                                            ELSE conn_by_peer[a]]

WithoutTimeout_Nothing(o) == timeouts
WithoutTimeout(o) == [timeouts EXCEPT ![o] = None]

RemoveConnection(o, c) ==
    /\ conn' = [conn EXCEPT ![o] = [c EXCEPT !.shut = TRUE]]
    /\ conn_by_ptr' = [conn_by_ptr EXCEPT ![o] = "none"]
    /\ conn_by_cid' = conn_by_cid \ {o}
    /\ conn_by_peer' = WithoutPeer(o)
    /\ timeouts' = WithoutTimeout(o)

(* register_timeout: the old entry goes, also when there is no new one       *)
NewTimeout(c) ==
    IF c.phase = "finished" THEN {IdleTimeout}
    ELSE {IF t = 0 THEN None ELSE t : t \in HandshakeTimeouts}

RegisterTimeout(o, c) ==
    /\ conn' = [conn EXCEPT ![o] = c]
    /\ \E t \in NewTimeout(c) : timeouts' = [WithoutTimeout(o) EXCEPT ![o] = t]
    /\ UNCHANGED <<conn_by_cid, conn_by_peer, conn_by_ptr>>

(* new_ssl; conns and ptrs are the objects and the keys by then.  Bound: the  *)
(* lowest pointer not in use.                                                *)
NewSsl(conns, ptrs) ==
    LET unused == {o \in Object : conns[o].phase = "none"} IN
    \E n \in unused :
       /\ \A m \in unused : n <= m
       /\ conn' = [conns EXCEPT ![n] = [Blank EXCEPT !.phase = "listening"]]
       /\ conn_by_ptr' = [ptrs EXCEPT ![n] = "object"]
       /\ listen_ssl' = n

(* find_con: by connection id, else by the sender's address                  *)
FindCon(cid, a) == IF cid \in conn_by_cid THEN cid ELSE conn_by_peer[a]
-----------------------------------------------------------------------------
(* despatch_new_connection: accept_stateless returns 1, -1 or neither.  The  *)
(* new connection is not given a timeout.                                    *)
AcceptStateless(a) ==
    LET l == listen_ssl IN
    /\ NewSsl([conn EXCEPT ![l].phase = "negotiating"], conn_by_ptr)
    /\ conn_by_cid' = conn_by_cid \cup {l}
    /\ conn_by_peer' = [conn_by_peer EXCEPT ![a] = l]
    /\ UNCHANGED <<timeouts, tasks>>

(* the WOLFSSL is freed, its pointer stays a key                             *)
FatalStateless ==
    LET l == listen_ssl IN
    /\ NewSsl([conn EXCEPT ![l] = Blank], [conn_by_ptr EXCEPT ![l] = "freed"])
    /\ UNCHANGED <<tables, tasks>>

NotYetStateless == UNCHANGED <<conn, tables, conn_by_ptr, listen_ssl, tasks>>

(* despatch_existing_connection while the handshake lasts; an answer of the  *)
(* peer sets wolfSSL's timeout back                                          *)
Negotiate(o) ==
    /\ conn[o].phase = "negotiating"
    /\ \/ \E phase \in {"negotiating", "finished"} :
             RegisterTimeout(o, [conn[o] EXCEPT !.phase = phase, !.retries = 0])
       \/ RemoveConnection(o, conn[o])
    /\ UNCHANGED <<tasks, listen_ssl>>

(* run: the first datagram that is taken after the handshake hands the       *)
(* connection out, and accept_connections gives it a task                    *)
HandOut_Records(o, c) ==
    reader' = IF ~conn[o].init_done /\ c.init_done /\ c.read_queue > 0
              THEN [reader EXCEPT ![o] = "reading"] ELSE reader
HandOut(o, c) ==
    reader' = IF ~conn[o].init_done /\ c.init_done
              THEN [reader EXCEPT ![o] = "reading"] ELSE reader

(* once the handshake is over: a record is queued, a datagram without one is *)
(* passed over, a closing or a bad one ends the connection                   *)
ReadRecord(o) ==
    LET c == [conn[o] EXCEPT !.init_done = TRUE]
        r == [c EXCEPT !.read_queue = @ + 1]
    IN  /\ conn[o].phase = "finished"
        /\ \/ /\ c.read_queue < MaxQueue
              /\ RegisterTimeout(o, r)
              /\ HandOut(o, r)
           \/ RegisterTimeout(o, c) /\ HandOut(o, c)
           \/ RemoveConnection(o, c) /\ UNCHANGED reader
        /\ UNCHANGED <<listen_ssl, writer, writable_fut>>

(* run: a datagram from address a that bears the id of connection cid, an id *)
(* that is not in use or none; first copies, late ones and strays            *)
Receive(a, cid) ==
    /\ waiting.kind # "expired"
    /\ LET o == FindCon(cid, a) IN
       IF o = None
       THEN AcceptStateless(a) \/ FatalStateless \/ NotYetStateless
       ELSE Negotiate(o) \/ ReadRecord(o)
    /\ WaitAgain

(* run: the wait timed out.  A connection that negotiates is retransmitted   *)
(* to; one that is finished is shut down, a second time if a write removed   *)
(* it meanwhile.                                                             *)
TimedOut ==
    LET o == waiting.conn IN
    /\ waiting.kind # "datagram"
    /\ waiting.left = 0
    /\ \/ RemoveConnection(o, conn[o])
       \/ /\ conn[o].phase = "negotiating"
          /\ conn[o].retries < MaxRetries
          /\ RegisterTimeout(o, [conn[o] EXCEPT !.retries = @ + 1])
    /\ WaitAgain
    /\ UNCHANGED <<listen_ssl, tasks>>

LessOne(t) == IF t = None \/ t = 0 THEN t ELSE t - 1

Tick ==
    /\ waiting.left > 0 \/ \E o \in Object : timeouts[o] \notin {None, 0}
    /\ timeouts' = [o \in Object |-> LessOne(timeouts[o])]
    /\ waiting' = [waiting EXCEPT !.left = LessOne(@)]
    /\ UNCHANGED <<conn, conn_by_cid, conn_by_peer, conn_by_ptr, listen_ssl, tasks>>
-----------------------------------------------------------------------------
(* process_connection: a record is decoded and dispatched, one that does not *)
(* decode ends the task; the shut queue gives None once it is empty          *)
ReadQueue(o) ==
    /\ reader[o] = "reading"
    /\ IF conn[o].read_queue > 0
       THEN /\ conn' = [conn EXCEPT ![o].read_queue = @ - 1]
            /\ \E next \in {"reading", "failed"} :
                  reader' = [reader EXCEPT ![o] = next]
       ELSE /\ conn[o].shut
            /\ reader' = [reader EXCEPT ![o] = "ended"]
            /\ UNCHANGED conn
    /\ UNCHANGED <<tables, conn_by_ptr, listen_ssl, waiting, writer, writable_fut>>

(* send, then write up to its wait: the first to wait makes the future, the  *)
(* others await the same; a response may outlive its connection              *)
JoinsWaiters_Replaces(o) == writable_fut' = {o}
JoinsWaiters(o) == writable_fut' = writable_fut \cup {o}

StartWrite(o) ==
    /\ reader[o] # "none"
    /\ writer[o] = "none"
    /\ writer' = [writer EXCEPT ![o] = "waiting"]
    /\ JoinsWaiters(o)
    /\ UNCHANGED <<conn, tables, conn_by_ptr, listen_ssl, waiting, reader>>

OnWritable ==
    /\ writable_fut # {}
    /\ writer' = [o \in Object |-> IF o \in writable_fut THEN "ready"
                                                         ELSE writer[o]]
    /\ writable_fut' = {}
    /\ UNCHANGED <<conn, tables, conn_by_ptr, listen_ssl, waiting, reader>>

(* the rest of write: only 0 removes the connection, an error drops the      *)
(* message.  What the server's task waits for stays as it is.                *)
FinishWrite(o) ==
    /\ writer[o] = "ready"
    /\ writer' = [writer EXCEPT ![o] = "none"]
    /\ \/ RemoveConnection(o, conn[o])
       \/ UNCHANGED <<conn, tables, conn_by_ptr>>
    /\ UNCHANGED <<listen_ssl, waiting, reader, writable_fut>>

(* __del__, once nothing refers to the object: its pointer may come again    *)
Delete(o) ==
    /\ Accepted(o)
    /\ ~Reachable(o) /\ conn_by_ptr[o] = "none"
    /\ timeouts[o] = None /\ waiting.conn # o
    /\ reader[o] # "reading" /\ writer[o] = "none"
    /\ conn' = [conn EXCEPT ![o] = Blank]
    /\ reader' = [reader EXCEPT ![o] = "none"]
    /\ UNCHANGED <<tables, conn_by_ptr, listen_ssl, waiting, writer, writable_fut>>
-----------------------------------------------------------------------------
Init ==
    /\ listen_ssl \in Object
    /\ \A o \in Object : listen_ssl <= o
    /\ conn = [[o \in Object |-> Blank] EXCEPT ![listen_ssl].phase = "listening"]
    /\ conn_by_ptr = [o \in Object |-> IF o = listen_ssl THEN "object" ELSE "none"]
    /\ conn_by_cid = {}
    /\ conn_by_peer = [a \in Peer |-> None]
    /\ timeouts = [o \in Object |-> None]
    /\ waiting = [kind |-> "datagram", conn |-> None, left |-> 0]
    /\ reader = [o \in Object |-> "none"]
    /\ writer = [o \in Object |-> "none"]
    /\ writable_fut = {}

Next ==
    \/ \E a \in Peer, cid \in conn_by_cid \cup {None} : Receive(a, cid)
    \/ TimedOut
    \/ Tick
    \/ OnWritable
    \/ \E o \in Object : \/ ReadQueue(o)
                         \/ StartWrite(o)
                         \/ FinishWrite(o)
                         \/ Delete(o)

Spec == Init /\ [][Next]_vars

(* time passes; the loop runs what is ready; the socket takes datagrams again *)
FairSpec ==
    /\ Spec
    /\ WF_vars(Tick) /\ WF_vars(TimedOut) /\ WF_vars(OnWritable)
    /\ \A o \in Object : WF_vars(ReadQueue(o)) /\ WF_vars(FinishWrite(o))
-----------------------------------------------------------------------------
(* The three tables and the timeouts agree however a connection ended (peer, *)
(* timeout, failed write): one that can be found by its id can be found by   *)
(* exactly one address and by its pointer; one that ended is in none of them *)
(* and has no timeout, and the task that reads it is told.                   *)
TablesAgree ==
    /\ conn_by_ptr[listen_ssl] = "object" /\ ~Reachable(listen_ssl)
    /\ \A a, b \in Peer : a # b /\ conn_by_peer[a] = conn_by_peer[b] =>
                                conn_by_peer[a] = None
    /\ \A o \in Object :
          /\ Reachable(o) <=> \E a \in Peer : conn_by_peer[a] = o
          /\ timeouts[o] # None => Reachable(o)
          /\ Reachable(o) => Accepted(o)
          /\ Accepted(o) => /\ Reachable(o) <=> conn_by_ptr[o] = "object"
                            /\ Reachable(o) <=> ~conn[o].shut

(* The server does not sleep past a timeout: an established connection has   *)
(* one, and the wait under way, perhaps for a connection that a write has    *)
(* removed since, ends no later.  A connection that still negotiates may     *)
(* have none: it gets none when it is accepted, so one whose peer is never   *)
(* heard of again stays in the tables.                                       *)
NeverOversleeps ==
    \A o \in Object :
       /\ Established(o) => timeouts[o] # None
       /\ timeouts[o] # None => /\ waiting.kind # "datagram"
                                /\ waiting.left <= timeouts[o]

Hears(o) == \E a \in Peer, cid \in conn_by_cid \cup {None} :
               FindCon(cid, a) = o /\ Receive(a, cid)

(* A connection with a timeout that nothing arrives for is removed in the    *)
(* end, however busy the others keep the server.                             *)
SilentIsRemoved ==
    \A o \in Object : []<>(timeouts[o] = None) \/ []<><<Hears(o)>>_vars

(* Every record taken from a connection is read, also after the connection   *)
(* ended and also when the first datagram after the handshake held none,     *)
(* unless an earlier one did not decode and so ended the task that reads.    *)
RecordsAreRead ==
    \A o \in Object : conn[o].read_queue > 0 ~>
                         conn[o].read_queue = 0 \/ reader[o] = "failed"

(* A write that waits for the socket gets through, whichever others wait     *)
(* beside it and whatever becomes of the connection.                         *)
WritesEnd == \A o \in Object : writer[o] # "none" ~> writer[o] = "none"
=============================================================================
