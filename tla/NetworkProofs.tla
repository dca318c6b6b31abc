----------------------------- MODULE NetworkProofs -----------------------------
(****************************************************************************)
(* The two servers that face the network, which share nothing but it.       *)
(*                                                                          *)
(* The tables of the DTLS server and its waits, for any number of           *)
(* connections and addresses and any timeouts. What TablesAgree and         *)
(* NeverOversleeps leave out and the steps need: the context that listens   *)
(* has not been shut, only a connection whose handshake is over has tasks,  *)
(* so a write never removes the listener or one that negotiates, and the    *)
(* one a timeout is awaited for has been accepted and stays so.             *)
(*                                                                          *)
(* The answers and the announcements of the mDNS responder, for any         *)
(* fabrics, interfaces, addresses, queries and known answers.               *)
(* AnswersSuffice is a fact about what Response computes in any state, so   *)
(* it is proved of each kind of question first; PacketsAreTrue needs what   *)
(* a fabric's task found when its round began (Heeded).                     *)
(****************************************************************************)
EXTENDS DtlsServer, Mdns, Iteration

Connection ==
    [phase : {"none", "listening", "negotiating", "finished"},
     init_done : BOOLEAN, retries : 0 .. MaxRetries,
     read_queue : 0 .. MaxQueue, shut : BOOLEAN]

TablesOK ==
    /\ conn \in [Object -> Connection]
    /\ conn_by_cid \in SUBSET Object
    /\ conn_by_peer \in [Peer -> Object \cup {None}]
    /\ conn_by_ptr \in [Object -> {"none", "object", "freed"}]
    /\ timeouts \in [Object -> Nat \cup {None}]
    /\ listen_ssl \in Object

TasksOK ==
    /\ reader \in [Object -> {"none", "reading", "ended", "failed"}]
    /\ writer \in [Object -> {"none", "waiting", "ready"}]
    /\ writable_fut \in SUBSET Object

ListenerIsIdle ==
    conn[listen_ssl].phase = "listening" /\ ~conn[listen_ssl].shut

EstablishedExpire == \A o \in Object : Established(o) => timeouts[o] # None

TablesInv == TablesOK /\ ListenerIsIdle /\ TablesAgree /\ EstablishedExpire

TasksInv ==
    /\ TasksOK
    /\ \A o \in Object :
          /\ reader[o] # "none" => conn[o].phase = "finished"
          /\ writer[o] # "none" => reader[o] # "none"
          /\ o \in writable_fut => writer[o] = "waiting"

WaitInv ==
    /\ waiting \in [kind : {"datagram", "either", "expired"},
                    conn : Object \cup {None}, left : Nat]
    /\ waiting.kind # "datagram" => waiting.conn \in Object
    /\ \A o \in Object :
          /\ waiting.conn = o => /\ Accepted(o)
                                 /\ conn[o].phase = "negotiating" => Reachable(o)
          /\ timeouts[o] # None => /\ waiting.kind # "datagram"
                                   /\ waiting.left <= timeouts[o]

DtlsInv == TablesInv /\ TasksInv /\ WaitInv

LEMMA NoneIsNoObject == None \notin Object
BY DtlsAssumption

LEMMA BlankIsConnection ==
    /\ Blank \in Connection /\ Blank.phase = "none"
    /\ [Blank EXCEPT !.phase = "listening"] \in Connection
    /\ [Blank EXCEPT !.phase = "listening"].phase = "listening"
    /\ ~[Blank EXCEPT !.phase = "listening"].shut
<1>1. 0 \in 0 .. MaxRetries /\ 0 \in 0 .. MaxQueue
  BY DtlsAssumption
<1> QED
  BY <1>1 DEF Blank, Connection
-----------------------------------------------------------------------------
(* Whatever the timeouts have become, the server waits for the earliest.        *)
LEMMA WaitsForEarliest ==
    ASSUME TablesInv', WaitAgain
    PROVE  WaitInv'
<1> USE NoneIsNoObject
<1>1. timeouts' \in [Object -> Nat \cup {None}] /\ None \notin Nat
  BY DtlsAssumption DEF TablesInv, TablesOK
<1>2. CASE \A o \in Object : timeouts'[o] = None
  <2>1. waiting' = [kind |-> "datagram", conn |-> None, left |-> 0]
    BY <1>2 DEF WaitAgain, NextTimeout
  <2> QED
    BY <2>1, <1>2 DEF WaitInv
<1>3. CASE ~ \A o \in Object : timeouts'[o] = None
  <2>1. PICK o \in Object :
           /\ Earliest(o, timeouts')
           /\ waiting' = [kind |-> IF timeouts'[o] = 0 THEN "expired" ELSE "either",
                          conn |-> o, left |-> timeouts'[o]]
    BY <1>3 DEF WaitAgain, NextTimeout
  <2>2. timeouts'[o] \in Nat
    BY <2>1, <1>1 DEF Earliest
  <2>3. \A q \in Object : timeouts'[q] # None => timeouts'[o] <= timeouts'[q]
    BY <2>1 DEF Earliest
  <2>4. Accepted(o)' /\ Reachable(o)'
    BY <2>2, <1>1 DEF TablesInv, TablesAgree
  <2> QED
    BY <2>1, <2>2, <2>3, <2>4 DEF WaitInv
<1> QED
  BY <1>2, <1>3

(* However a connection ends, it leaves all three tables and its timeout.       *)
LEMMA RemoveKeeps ==
    ASSUME TablesInv, NEW o \in Object, Accepted(o),
           NEW c \in Connection, c.phase = conn[o].phase,
           RemoveConnection(o, c), listen_ssl' = listen_ssl
    PROVE  TablesInv'
<1> USE NoneIsNoObject
<1>1. o # listen_ssl
  BY DEF TablesInv, ListenerIsIdle, Accepted
<1>2. conn' = [conn EXCEPT ![o] = [c EXCEPT !.shut = TRUE]]
  BY DEF RemoveConnection
<1>3. /\ conn' \in [Object -> Connection]
      /\ conn'[o].phase = conn[o].phase /\ conn'[o].shut
      /\ \A q \in Object \ {o} : conn'[q] = conn[q]
  BY <1>2 DEF TablesInv, TablesOK, Connection
<1>4. /\ conn_by_ptr' \in [Object -> {"none", "object", "freed"}]
      /\ conn_by_ptr'[o] = "none"
      /\ \A q \in Object \ {o} : conn_by_ptr'[q] = conn_by_ptr[q]
  BY DEF RemoveConnection, TablesInv, TablesOK
<1>5. conn_by_cid' = conn_by_cid \ {o} /\ conn_by_cid' \in SUBSET Object
  BY DEF RemoveConnection, TablesInv, TablesOK
<1>6. /\ conn_by_peer' \in [Peer -> Object \cup {None}]
      /\ \A a \in Peer : conn_by_peer'[a] = IF conn_by_peer[a] = o THEN None
                                               ELSE conn_by_peer[a]
  BY DEF RemoveConnection, WithoutPeer, TablesInv, TablesOK
<1>7. /\ timeouts' \in [Object -> Nat \cup {None}]
      /\ timeouts'[o] = None
      /\ \A q \in Object \ {o} : timeouts'[q] = timeouts[q]
  BY DEF RemoveConnection, WithoutTimeout, TablesInv, TablesOK
<1>8. TablesOK' /\ ListenerIsIdle'
  BY <1>1, <1>3, <1>4, <1>5, <1>6, <1>7 DEF TablesInv, TablesOK, ListenerIsIdle
<1>9. TablesAgree'
  <2>1. /\ (conn_by_ptr[listen_ssl] = "object" /\ ~Reachable(listen_ssl))'
        /\ (\A a, b \in Peer : a # b /\ conn_by_peer[a] = conn_by_peer[b] =>
                                     conn_by_peer[a] = None)'
    BY <1>1, <1>4, <1>5, <1>6 DEF TablesInv, TablesOK, TablesAgree, Reachable
  <2>2. ASSUME NEW q \in Object \ {o}
        PROVE  /\ Reachable(q)' <=> Reachable(q)
               /\ Accepted(q)' <=> Accepted(q)
               /\ (\E a \in Peer : conn_by_peer[a] = q)'
                     <=> \E a \in Peer : conn_by_peer[a] = q
    BY <1>3, <1>5, <1>6 DEF Reachable, Accepted
  <2>3. ~Reachable(o)' /\ ~(\E a \in Peer : conn_by_peer[a] = o)'
    BY <1>5, <1>6 DEF Reachable
  <2> QED
    BY <2>1, <2>2, <2>3, <1>3, <1>4, <1>7 DEF TablesInv, TablesAgree
<1>10. EstablishedExpire'
  BY <1>3, <1>5, <1>7 DEF TablesInv, EstablishedExpire, Established, Reachable
<1> QED
  BY <1>8, <1>9, <1>10 DEF TablesInv

(* A connection that goes on gets its timeout again; once established, always.  *)
LEMMA RegisterKeeps ==
    ASSUME TablesInv, NEW o \in Object, Reachable(o),
           NEW c \in Connection, c.phase \in {"negotiating", "finished"},
           c.shut = conn[o].shut,
           RegisterTimeout(o, c), listen_ssl' = listen_ssl
    PROVE  TablesInv'
<1> USE NoneIsNoObject
<1>1. Accepted(o) /\ o # listen_ssl
  BY DEF TablesInv, TablesAgree
<1>2. /\ conn' \in [Object -> Connection]
      /\ conn'[o] = c
      /\ \A q \in Object \ {o} : conn'[q] = conn[q]
  BY DEF RegisterTimeout, TablesInv, TablesOK
<1>3. /\ timeouts' \in [Object -> Nat \cup {None}]
      /\ \A q \in Object \ {o} : timeouts'[q] = timeouts[q]
      /\ c.phase = "finished" => timeouts'[o] # None
  BY DtlsAssumption DEF RegisterTimeout, NewTimeout, WithoutTimeout, TablesInv, TablesOK
<1>4. UNCHANGED <<conn_by_cid, conn_by_peer, conn_by_ptr>>
  BY DEF RegisterTimeout
<1>5. TablesOK' /\ ListenerIsIdle'
  BY <1>1, <1>2, <1>3, <1>4 DEF TablesInv, TablesOK, ListenerIsIdle
<1>6. Accepted(o)' /\ \A q \in Object \ {o} : Accepted(q)' <=> Accepted(q)
  BY <1>2 DEF Accepted
<1>7. TablesAgree'
  BY <1>1, <1>2, <1>3, <1>4, <1>6 DEF TablesInv, TablesAgree, Reachable
<1>8. EstablishedExpire'
  BY <1>2, <1>3, <1>4 DEF TablesInv, EstablishedExpire, Established, Reachable
<1> QED
  BY <1>5, <1>7, <1>8 DEF TablesInv
-----------------------------------------------------------------------------
(* The next context that listens takes a pointer that nothing refers to.        *)
LEMMA AcceptKeeps ==
    ASSUME DtlsInv, NEW a \in Peer, conn_by_peer[a] = None, AcceptStateless(a)
    PROVE  TablesInv' /\ TasksInv'
<1> USE NoneIsNoObject
<1>0. PICK l \in Object : l = listen_ssl
  BY DEF DtlsInv, TablesInv, TablesOK
<1> DEFINE conns == [conn EXCEPT ![l].phase = "negotiating"]
<1>1. TablesOK /\ l \in Object /\ conn[l].phase = "listening" /\ ~conn[l].shut
  BY <1>0 DEF DtlsInv, TablesInv, TablesOK, ListenerIsIdle
<1>2. /\ conns \in [Object -> Connection]
      /\ conns[l].phase = "negotiating" /\ ~conns[l].shut
      /\ \A q \in Object \ {l} : conns[q] = conn[q]
  BY <1>1 DEF TablesOK, Connection
<1>3. PICK n \in Object :
         /\ conns[n].phase = "none"
         /\ conn' = [conns EXCEPT ![n] = [Blank EXCEPT !.phase = "listening"]]
         /\ conn_by_ptr' = [conn_by_ptr EXCEPT ![n] = "object"]
         /\ listen_ssl' = n
  BY <1>0 DEF AcceptStateless, NewSsl
<1>4. n # l /\ conn[n].phase = "none"
  BY <1>2, <1>3
<1>5. /\ conn' \in [Object -> Connection]
      /\ conn'[n].phase = "listening" /\ ~conn'[n].shut
      /\ conn'[l].phase = "negotiating" /\ ~conn'[l].shut
      /\ \A q \in Object \ {l, n} : conn'[q] = conn[q]
  BY <1>1, <1>2, <1>3, <1>4, BlankIsConnection
<1>6. /\ conn_by_ptr' \in [Object -> {"none", "object", "freed"}]
      /\ conn_by_ptr'[n] = "object" /\ conn_by_ptr'[l] = "object"
      /\ \A q \in Object \ {n} : conn_by_ptr'[q] = conn_by_ptr[q]
  BY <1>0, <1>1, <1>3, <1>4 DEF TablesOK, DtlsInv, TablesInv, TablesAgree
<1>7. /\ conn_by_cid' = conn_by_cid \cup {l}
      /\ conn_by_peer' \in [Peer -> Object \cup {None}]
      /\ conn_by_peer'[a] = l
      /\ \A b \in Peer \ {a} : conn_by_peer'[b] = conn_by_peer[b]
      /\ timeouts' = timeouts
  BY <1>0, <1>1 DEF AcceptStateless, TablesOK, tables
<1>8. TablesOK' /\ ListenerIsIdle'
  BY <1>1, <1>3, <1>5, <1>6, <1>7 DEF TablesOK, ListenerIsIdle
<1>9. TablesAgree'
  <2>1. /\ ~Reachable(l) /\ ~Reachable(n) /\ ~Accepted(n)
        /\ \A b \in Peer : conn_by_peer[b] \notin {l, n}
    BY <1>0, <1>1, <1>4 DEF DtlsInv, TablesInv, TablesAgree, Accepted
  <2>2. \A b, c \in Peer : b # c /\ conn_by_peer'[b] = conn_by_peer'[c]
                                => conn_by_peer'[b] = None
    BY <2>1, <1>7 DEF DtlsInv, TablesInv, TablesAgree
  <2>3. ASSUME NEW q \in Object \ {l, n}
        PROVE  /\ Reachable(q)' <=> Reachable(q)
               /\ Accepted(q)' <=> Accepted(q)
               /\ (\E b \in Peer : conn_by_peer'[b] = q)
                     <=> \E b \in Peer : conn_by_peer[b] = q
    BY <1>5, <1>7 DEF Reachable, Accepted
  <2>4. Reachable(l)' /\ Accepted(l)' /\ conn_by_peer'[a] = l
    BY <1>5, <1>7 DEF Reachable, Accepted
  <2>5. ~Reachable(n)' /\ ~Accepted(n)'
    BY <2>1, <1>4, <1>5, <1>7 DEF Reachable, Accepted
  <2>6. \A b \in Peer : conn_by_peer'[b] # n
    BY <2>1, <1>4, <1>7
  <2>7. timeouts'[n] = None
    BY <2>1, <1>7 DEF DtlsInv, TablesInv, TablesAgree
  <2> QED
    BY <2>2, <2>3, <2>4, <2>5, <2>6, <2>7, <1>3, <1>5, <1>6, <1>7 DEF DtlsInv, TablesInv, TablesAgree
<1>10. EstablishedExpire'
  BY <1>5, <1>7 DEF DtlsInv, TablesInv, EstablishedExpire, Established, Reachable
<1>11. TasksInv'
  BY <1>1, <1>4, <1>5 DEF AcceptStateless, tasks, DtlsInv, TasksInv, TasksOK
<1> QED
  BY <1>8, <1>9, <1>10, <1>11 DEF TablesInv

LEMMA FatalKeeps ==
    ASSUME DtlsInv, FatalStateless
    PROVE  TablesInv' /\ TasksInv'
<1> USE NoneIsNoObject
<1>0. PICK l \in Object : l = listen_ssl
  BY DEF DtlsInv, TablesInv, TablesOK
<1> DEFINE conns == [conn EXCEPT ![l] = Blank]
           ptrs == [conn_by_ptr EXCEPT ![l] = "freed"]
<1>1. TablesOK /\ l \in Object /\ conn[l].phase = "listening"
  BY <1>0 DEF DtlsInv, TablesInv, TablesOK, ListenerIsIdle
<1>2. /\ conns \in [Object -> Connection] /\ conns[l].phase = "none"
      /\ \A q \in Object \ {l} : conns[q] = conn[q]
  BY <1>1, BlankIsConnection DEF TablesOK
<1>3. PICK n \in Object :
         /\ conns[n].phase = "none"
         /\ conn' = [conns EXCEPT ![n] = [Blank EXCEPT !.phase = "listening"]]
         /\ conn_by_ptr' = [ptrs EXCEPT ![n] = "object"]
         /\ listen_ssl' = n
  BY <1>0 DEF FatalStateless, NewSsl
<1>4. n = l \/ conn[n].phase = "none"
  BY <1>2, <1>3
<1>5. /\ conn' \in [Object -> Connection]
      /\ conn'[n].phase = "listening" /\ ~conn'[n].shut
      /\ l # n => conn'[l].phase = "none"
      /\ \A q \in Object \ {l, n} : conn'[q] = conn[q]
  BY <1>1, <1>2, <1>3, BlankIsConnection
<1>6. /\ conn_by_ptr' \in [Object -> {"none", "object", "freed"}]
      /\ conn_by_ptr'[n] = "object"
      /\ \A q \in Object \ {l, n} : conn_by_ptr'[q] = conn_by_ptr[q]
  BY <1>1, <1>3 DEF TablesOK
<1>7. UNCHANGED <<conn_by_cid, conn_by_peer, timeouts, reader, writer, writable_fut>>
  BY DEF FatalStateless, tables, tasks
<1>8. TablesOK' /\ ListenerIsIdle'
  BY <1>1, <1>3, <1>5, <1>6, <1>7 DEF TablesOK, ListenerIsIdle
<1>9. /\ ~Accepted(l) /\ ~Accepted(n) /\ ~Accepted(l)' /\ ~Accepted(n)'
      /\ \A q \in Object \ {l, n} : Accepted(q)' <=> Accepted(q)
  BY <1>1, <1>4, <1>5 DEF Accepted
<1>10. TablesAgree'
  <2>1. ~Reachable(l) /\ ~Reachable(n)
    BY <1>1, <1>9 DEF DtlsInv, TablesInv, TablesAgree
  <2>2. \A q \in Object : Reachable(q)' <=> Reachable(q)
    BY <1>7 DEF Reachable
  <2>3. (conn_by_ptr[listen_ssl] = "object" /\ ~Reachable(listen_ssl))'
    BY <1>3, <1>6, <2>1, <2>2
  <2>4. \A q \in Object : Accepted(q)' =>
           /\ Accepted(q) /\ conn'[q] = conn[q] /\ conn_by_ptr'[q] = conn_by_ptr[q]
    BY <1>5, <1>6, <1>9
  <2>5. \A q \in Object : Reachable(q)' => Accepted(q)'
    BY <1>9, <2>1, <2>2 DEF DtlsInv, TablesInv, TablesAgree
  <2> QED
    BY <1>7, <2>2, <2>3, <2>4, <2>5 DEF DtlsInv, TablesInv, TablesAgree
<1>11. EstablishedExpire'
  BY <1>5, <1>7
  DEF DtlsInv, TablesInv, EstablishedExpire, Established, Reachable
<1>12. TasksInv'
  BY <1>1, <1>4, <1>5, <1>7 DEF DtlsInv, TasksInv, TasksOK
<1> QED
  BY <1>8, <1>10, <1>11, <1>12 DEF TablesInv

(* A datagram of a connection: its tasks change only once it is established.    *)
LEMMA DespatchKeeps ==
    ASSUME DtlsInv, NEW o \in Object, Reachable(o), Negotiate(o) \/ ReadRecord(o)
    PROVE  TablesInv' /\ TasksInv'
<1>1. /\ conn[o] \in Connection /\ Accepted(o)
      /\ TablesInv /\ TasksOK /\ MaxQueue \in Nat /\ MaxRetries \in Nat
  BY DtlsAssumption DEF DtlsInv, TablesInv, TablesOK, TasksInv, TablesAgree
<1>2. CASE Negotiate(o)
  <2>1. listen_ssl' = listen_ssl /\ UNCHANGED <<reader, writer, writable_fut>>
    BY <1>2 DEF Negotiate, tasks
  <2>2. CASE RemoveConnection(o, conn[o])
    <3>1. TablesInv'
      BY <2>1, <2>2, <1>1, RemoveKeeps
    <3>2. \A q \in Object : conn'[q].phase = conn[q].phase
      BY <2>2, <1>1 DEF RemoveConnection, TablesInv, TablesOK, Connection
    <3> QED
      BY <3>1, <3>2, <2>1 DEF DtlsInv, TasksInv, TasksOK
  <2>3. CASE \E phase \in {"negotiating", "finished"} :
                RegisterTimeout(o, [conn[o] EXCEPT !.phase = phase, !.retries = 0])
    <3>1. PICK phase \in {"negotiating", "finished"} :
             RegisterTimeout(o, [conn[o] EXCEPT !.phase = phase, !.retries = 0])
      BY <2>3
    <3> DEFINE c == [conn[o] EXCEPT !.phase = phase, !.retries = 0]
    <3>2. c \in Connection /\ c.phase = phase /\ c.shut = conn[o].shut
      <4>1. 0 \in 0 .. MaxRetries
        BY <1>1
      <4> QED
        BY <4>1, <1>1 DEF Connection
    <3>3. TablesInv'
      BY <3>1, <3>2, <2>1, <1>1, RegisterKeeps
    <3>4. reader[o] = "none"
      BY <1>2 DEF Negotiate, DtlsInv, TasksInv
    <3>5. \A q \in Object \ {o} : conn'[q] = conn[q]
      BY <3>1, <1>1 DEF RegisterTimeout, TablesInv, TablesOK
    <3> QED
      BY <3>3, <3>4, <3>5, <2>1 DEF DtlsInv, TasksInv, TasksOK
  <2> QED
    BY <2>2, <2>3, <1>2 DEF Negotiate
<1>3. CASE ReadRecord(o)
  <2> DEFINE c == [conn[o] EXCEPT !.init_done = TRUE]
             r == [c EXCEPT !.read_queue = @ + 1]
  <2>1. /\ conn[o].phase = "finished" /\ listen_ssl' = listen_ssl
        /\ UNCHANGED <<writer, writable_fut>>
    BY <1>3 DEF ReadRecord
  <2>2. c \in Connection /\ c.phase = "finished" /\ c.shut = conn[o].shut
    BY <2>1, <1>1 DEF Connection
  <2>3. ASSUME NEW d \in Connection, d.phase = "finished", d.shut = conn[o].shut,
               RegisterTimeout(o, d), HandOut(o, d)
        PROVE  TablesInv' /\ TasksInv'
    <3>1. TablesInv'
      BY <2>1, <2>3, <1>1, RegisterKeeps
    <3>2. /\ \A q \in Object : conn'[q].phase = conn[q].phase
          /\ \A q \in Object : reader'[q] # reader[q] =>
                                  q = o /\ reader'[q] = "reading"
          /\ reader' \in [Object -> {"none", "reading", "ended", "failed"}]
      BY <2>1, <2>3, <1>1 DEF RegisterTimeout, HandOut, TablesInv, TablesOK, TasksOK
    <3> QED
      BY <3>1, <3>2, <2>1 DEF DtlsInv, TasksInv, TasksOK
  <2>4. CASE c.read_queue < MaxQueue /\ RegisterTimeout(o, r) /\ HandOut(o, r)
    <3>1. c.read_queue + 1 \in 0 .. MaxQueue
      BY <2>2, <2>4, <1>1 DEF Connection
    <3>2. r \in Connection /\ r.phase = "finished" /\ r.shut = conn[o].shut
      BY <3>1, <2>2 DEF Connection
    <3> QED
      BY <3>2, <2>3, <2>4
  <2>5. CASE RegisterTimeout(o, c) /\ HandOut(o, c)
    BY <2>2, <2>3, <2>5
  <2>6. CASE RemoveConnection(o, c) /\ UNCHANGED reader
    <3>1. TablesInv'
      BY <2>1, <2>2, <2>6, <1>1, RemoveKeeps
    <3>2. \A q \in Object : conn'[q].phase = conn[q].phase
      BY <2>1, <2>2, <2>6, <1>1 DEF RemoveConnection, TablesInv, TablesOK, Connection
    <3> QED
      BY <3>1, <3>2, <2>1, <2>6 DEF DtlsInv, TasksInv, TasksOK
  <2> QED
    BY <2>4, <2>5, <2>6, <1>3 DEF ReadRecord
<1> QED
  BY <1>2, <1>3

LEMMA ReceiveKeeps ==
    ASSUME DtlsInv, NEW a \in Peer, NEW cid \in conn_by_cid \cup {None},
           Receive(a, cid)
    PROVE  DtlsInv'
<1> USE NoneIsNoObject
<1> DEFINE o == FindCon(cid, a)
<1>1. WaitAgain
  BY DEF Receive
<1>2. TablesOK /\ TablesInv
  BY DEF DtlsInv, TablesInv
<1>3. CASE o = None
  <2> SUFFICES TablesInv' /\ TasksInv'
    BY <1>1, WaitsForEarliest DEF DtlsInv
  <2>1. conn_by_peer[a] = None
    BY <1>2, <1>3 DEF FindCon, TablesOK
  <2>2. CASE AcceptStateless(a)
    BY <2>1, <2>2, AcceptKeeps
  <2>3. CASE FatalStateless
    BY <2>3, FatalKeeps
  <2>4. CASE NotYetStateless
    BY <2>4
    DEF NotYetStateless, tables, tasks, DtlsInv, TablesInv, TablesOK, ListenerIsIdle,
        TablesAgree, EstablishedExpire, Established, Accepted, Reachable,
        TasksInv, TasksOK
  <2> QED
    BY <2>2, <2>3, <2>4, <1>3 DEF Receive
<1>4. CASE o # None
  <2>1. o \in Object /\ Reachable(o)
    BY <1>2, <1>4 DEF FindCon, TablesOK, TablesInv, TablesAgree, Reachable
  <2>2. Negotiate(o) \/ ReadRecord(o)
    BY <1>4 DEF Receive
  <2>3. TablesInv' /\ TasksInv'
    BY <2>1, <2>2, DespatchKeeps
  <2> QED
    BY <2>3, <1>1, WaitsForEarliest DEF DtlsInv
<1> QED
  BY <1>3, <1>4

(* The one a timeout is for may have been removed by a write meanwhile, but      *)
(* only one that is finished, which is not retransmitted to.                    *)
LEMMA TimedOutKeeps ==
    ASSUME DtlsInv, TimedOut
    PROVE  DtlsInv'
<1>1. PICK o \in Object : o = waiting.conn
  BY DEF TimedOut, DtlsInv, WaitInv
<1>2. /\ TablesInv /\ TablesOK /\ conn[o] \in Connection /\ Accepted(o)
      /\ conn[o].phase = "negotiating" => Reachable(o)
      /\ MaxRetries \in Nat
  BY <1>1, DtlsAssumption DEF DtlsInv, TablesInv, TablesOK, WaitInv
<1>3. /\ listen_ssl' = listen_ssl /\ UNCHANGED <<reader, writer, writable_fut>>
      /\ WaitAgain
  BY DEF TimedOut, tasks
<1>4. TablesInv' /\ \A q \in Object : conn'[q].phase = conn[q].phase
  <2>1. CASE RemoveConnection(o, conn[o])
    <3>1. TablesInv'
      BY <2>1, <1>2, <1>3, RemoveKeeps
    <3>2. \A q \in Object : conn'[q].phase = conn[q].phase
      BY <2>1, <1>2 DEF RemoveConnection, TablesOK, Connection
    <3> QED
      BY <3>1, <3>2
  <2>2. CASE /\ conn[o].phase = "negotiating"
             /\ conn[o].retries < MaxRetries
             /\ RegisterTimeout(o, [conn[o] EXCEPT !.retries = @ + 1])
    <3> DEFINE c == [conn[o] EXCEPT !.retries = @ + 1]
    <3>1. conn[o].retries + 1 \in 0 .. MaxRetries
      BY <2>2, <1>2 DEF Connection
    <3>2. c \in Connection /\ c.phase = "negotiating" /\ c.shut = conn[o].shut
      BY <3>1, <2>2, <1>2 DEF Connection
    <3>3. TablesInv'
      BY <3>2, <2>2, <1>2, <1>3, RegisterKeeps
    <3>4. \A q \in Object : conn'[q].phase = conn[q].phase
      BY <3>2, <2>2, <1>2 DEF RegisterTimeout, TablesOK
    <3> QED
      BY <3>3, <3>4
  <2> QED
    BY <2>1, <2>2, <1>1 DEF TimedOut
<1>5. TasksInv'
  BY <1>3, <1>4 DEF DtlsInv, TasksInv, TasksOK
<1> QED
  BY <1>3, <1>4, <1>5, WaitsForEarliest DEF DtlsInv

LEMMA TickKeeps ==
    ASSUME DtlsInv, Tick
    PROVE  DtlsInv'
<1>1. /\ timeouts \in [Object -> Nat \cup {None}] /\ None \notin Nat
      /\ waiting.left \in Nat
  BY DtlsAssumption DEF DtlsInv, TablesInv, TablesOK, WaitInv
<1>2. /\ timeouts' = [o \in Object |-> LessOne(timeouts[o])]
      /\ waiting' = [waiting EXCEPT !.left = LessOne(@)]
      /\ UNCHANGED <<conn, conn_by_cid, conn_by_peer, conn_by_ptr, listen_ssl,
                     reader, writer, writable_fut>>
  BY DEF Tick, tasks
<1>3. \A t \in Nat : LessOne(t) \in Nat /\ \A u \in Nat : t <= u
                                          => LessOne(t) <= LessOne(u)
  BY <1>1 DEF LessOne
<1>4. \A o \in Object : timeouts'[o] = None <=> timeouts[o] = None
  BY <1>1, <1>2, <1>3 DEF LessOne
<1>5. TablesInv'
  <2>1. timeouts' \in [Object -> Nat \cup {None}]
    BY <1>1, <1>2 DEF LessOne
  <2>2. TablesOK' /\ ListenerIsIdle'
    BY <2>1, <1>2 DEF DtlsInv, TablesInv, TablesOK, ListenerIsIdle
  <2>3. TablesAgree'
    BY <1>2, <1>4 DEF DtlsInv, TablesInv, TablesAgree, Accepted, Reachable
  <2>4. EstablishedExpire'
    BY <1>2, <1>4 DEF DtlsInv, TablesInv, EstablishedExpire, Established, Reachable
  <2> QED
    BY <2>2, <2>3, <2>4 DEF TablesInv
<1>6. TasksInv'
  BY <1>2 DEF DtlsInv, TasksInv, TasksOK
<1>7. WaitInv'
  <2>1. /\ waiting' \in [kind : {"datagram", "either", "expired"},
                         conn : Object \cup {None}, left : Nat]
        /\ waiting'.kind = waiting.kind /\ waiting'.conn = waiting.conn
        /\ waiting'.left = LessOne(waiting.left)
    BY <1>1, <1>2, <1>3 DEF DtlsInv, WaitInv
  <2>2. ASSUME NEW o \in Object, timeouts'[o] # None
        PROVE  waiting'.kind # "datagram" /\ waiting'.left <= timeouts'[o]
    <3>1. timeouts[o] \in Nat /\ waiting.left <= timeouts[o]
      BY <2>2, <1>1, <1>4 DEF DtlsInv, WaitInv
    <3>2. timeouts'[o] = LessOne(timeouts[o])
      BY <1>2
    <3>3. waiting.kind # "datagram"
      BY <2>2, <1>4 DEF DtlsInv, WaitInv
    <3> QED
      BY <3>1, <3>2, <3>3, <2>1, <1>1, <1>3
  <2> QED
    BY <2>1, <2>2, <1>2 DEF DtlsInv, WaitInv, Accepted, Reachable
<1> QED
  BY <1>5, <1>6, <1>7 DEF DtlsInv
-----------------------------------------------------------------------------
(* The tasks of connections, which change tables only by a write that fails.     *)
LEMMA ReadQueueKeeps ==
    ASSUME DtlsInv, NEW o \in Object, ReadQueue(o)
    PROVE  DtlsInv'
<1>1. /\ conn \in [Object -> Connection] /\ MaxQueue \in Nat
      /\ reader[o] = "reading"
      /\ UNCHANGED <<conn_by_cid, conn_by_peer, conn_by_ptr, timeouts, listen_ssl,
                     waiting, writer, writable_fut>>
  BY DtlsAssumption DEF ReadQueue, DtlsInv, TablesInv, TablesOK, tables
<1>2. /\ reader' \in [Object -> {"none", "reading", "ended", "failed"}]
      /\ \A q \in Object : reader'[q] = "none" <=> reader[q] = "none"
  BY <1>1 DEF ReadQueue, DtlsInv, TasksInv, TasksOK
<1>3. /\ conn' \in [Object -> Connection]
      /\ \A q \in Object : /\ conn'[q].phase = conn[q].phase
                            /\ conn'[q].shut = conn[q].shut
  <2>1. CASE conn[o].read_queue > 0
    <3> DEFINE c == [conn[o] EXCEPT !.read_queue = @ - 1]
    <3>1. conn[o].read_queue - 1 \in 0 .. MaxQueue
      BY <2>1, <1>1 DEF Connection
    <3>2. c \in Connection /\ c.phase = conn[o].phase /\ c.shut = conn[o].shut
      BY <3>1, <1>1 DEF Connection
    <3>3. conn' = [conn EXCEPT ![o] = c]
      BY <2>1, <1>1 DEF ReadQueue
    <3> QED
      BY <3>2, <3>3, <1>1
  <2>2. CASE ~(conn[o].read_queue > 0)
    BY <2>2, <1>1 DEF ReadQueue
  <2> QED
    BY <2>1, <2>2
<1>4. TablesInv'
  BY <1>1, <1>3
  DEF DtlsInv, TablesInv, TablesOK, ListenerIsIdle, TablesAgree, EstablishedExpire,
      Established, Accepted, Reachable
<1>5. TasksInv'
  BY <1>1, <1>2, <1>3 DEF DtlsInv, TasksInv, TasksOK
<1>6. WaitInv'
  BY <1>1, <1>3 DEF DtlsInv, WaitInv, Accepted, Reachable
<1> QED
  BY <1>4, <1>5, <1>6 DEF DtlsInv

LEMMA WritingKeeps ==
    ASSUME DtlsInv, OnWritable \/ \E o \in Object : StartWrite(o)
    PROVE  DtlsInv'
<1>1. UNCHANGED <<conn, conn_by_cid, conn_by_peer, conn_by_ptr, timeouts, listen_ssl,
                  waiting, reader>>
  BY DEF OnWritable, StartWrite, tables
<1>2. TasksInv'
  BY <1>1 DEF OnWritable, StartWrite, JoinsWaiters, DtlsInv, TasksInv, TasksOK
<1>3. TablesInv' /\ WaitInv'
  BY <1>1
  DEF DtlsInv, TablesInv, TablesOK, ListenerIsIdle, TablesAgree, EstablishedExpire,
      Established, Accepted, Reachable, WaitInv
<1> QED
  BY <1>2, <1>3 DEF DtlsInv

LEMMA FinishWriteKeeps ==
    ASSUME DtlsInv, NEW o \in Object, FinishWrite(o)
    PROVE  DtlsInv'
<1> USE NoneIsNoObject
<1>1. /\ TablesInv /\ conn[o] \in Connection
      /\ conn[o].phase = "finished" /\ Accepted(o)
      /\ listen_ssl' = listen_ssl /\ UNCHANGED <<waiting, reader, writable_fut>>
  BY DEF FinishWrite, DtlsInv, TablesInv, TablesOK, TasksInv, Accepted
<1>2. CASE RemoveConnection(o, conn[o])
  <2>1. TablesInv'
    BY <1>1, <1>2, RemoveKeeps
  <2>2. \A q \in Object : conn'[q].phase = conn[q].phase
    BY <1>1, <1>2 DEF RemoveConnection, TablesInv, TablesOK, Connection
  <2>3. /\ conn_by_cid' = conn_by_cid \ {o}
        /\ \A q \in Object : timeouts'[q] # None => timeouts'[q] = timeouts[q]
    BY <1>1, <1>2 DEF RemoveConnection, WithoutTimeout, TablesInv, TablesOK
  <2>4. WaitInv'
    BY <1>1, <2>2, <2>3 DEF DtlsInv, WaitInv, Accepted, Reachable
  <2>5. /\ writer' \in [Object -> {"none", "waiting", "ready"}]
        /\ \A q \in Object \ {o} : writer'[q] = writer[q]
        /\ writer'[o] = "none" /\ o \notin writable_fut
    BY DEF FinishWrite, DtlsInv, TasksInv, TasksOK
  <2>6. TasksInv'
    BY <1>1, <2>2, <2>5 DEF DtlsInv, TasksInv, TasksOK
  <2> QED
    BY <2>1, <2>4, <2>6 DEF DtlsInv
<1>3. CASE UNCHANGED <<conn, tables, conn_by_ptr>>
  <2>1. /\ writer' \in [Object -> {"none", "waiting", "ready"}]
        /\ \A q \in Object \ {o} : writer'[q] = writer[q]
        /\ writer'[o] = "none" /\ o \notin writable_fut
    BY DEF FinishWrite, DtlsInv, TasksInv, TasksOK
  <2> QED
    BY <1>1, <1>3, <2>1
    DEF tables, DtlsInv, TablesInv, TablesOK, ListenerIsIdle, TablesAgree,
        EstablishedExpire, Established, Accepted, Reachable, WaitInv, TasksInv, TasksOK
<1> QED
  BY <1>2, <1>3 DEF FinishWrite

LEMMA DeleteKeeps ==
    ASSUME DtlsInv, NEW o \in Object, Delete(o)
    PROVE  DtlsInv'
<1> USE NoneIsNoObject, BlankIsConnection
<1>1. /\ TablesInv /\ conn \in [Object -> Connection] /\ o # listen_ssl
      /\ Accepted(o) /\ ~Reachable(o) /\ waiting.conn # o /\ writer[o] = "none"
      /\ conn' = [conn EXCEPT ![o] = Blank] /\ reader' = [reader EXCEPT ![o] = "none"]
      /\ UNCHANGED <<conn_by_cid, conn_by_peer, conn_by_ptr, timeouts, listen_ssl,
                     waiting, writer, writable_fut>>
  BY DEF Delete, DtlsInv, TablesInv, TablesOK, ListenerIsIdle, Accepted, tables
<1>2. /\ conn' \in [Object -> Connection] /\ conn'[o].phase = "none"
      /\ \A q \in Object \ {o} : conn'[q] = conn[q]
  BY <1>1
<1>3. ~Accepted(o)' /\ \A q \in Object \ {o} : Accepted(q)' <=> Accepted(q)
  BY <1>2 DEF Accepted
<1>4. TablesOK' /\ ListenerIsIdle'
  BY <1>1, <1>2 DEF TablesInv, TablesOK, ListenerIsIdle
<1>5. TablesAgree'
  BY <1>1, <1>2, <1>3 DEF TablesInv, TablesAgree, Reachable
<1>6. EstablishedExpire'
  BY <1>1, <1>2 DEF TablesInv, EstablishedExpire, Established, Reachable
<1>7. TasksInv'
  BY <1>1, <1>2 DEF DtlsInv, TasksInv, TasksOK
<1>8. WaitInv'
  BY <1>1, <1>2, <1>3 DEF DtlsInv, WaitInv, Reachable
<1> QED
  BY <1>4, <1>5, <1>6, <1>7, <1>8 DEF DtlsInv, TablesInv
-----------------------------------------------------------------------------
LEMMA InitGives ==
    ASSUME Init
    PROVE  DtlsInv
<1> USE NoneIsNoObject, BlankIsConnection
<1>1. listen_ssl \in Object
  BY DEF Init
<1>2. /\ conn \in [Object -> Connection]
      /\ conn[listen_ssl].phase = "listening" /\ ~conn[listen_ssl].shut
      /\ \A o \in Object \ {listen_ssl} : conn[o].phase = "none"
  <2> DEFINE blanks == [o \in Object |-> Blank]
  <2>1. conn = [blanks EXCEPT ![listen_ssl] = [Blank EXCEPT !.phase = "listening"]]
    BY <1>1 DEF Init
  <2> QED
    BY <2>1, <1>1
<1>3. \A o \in Object : ~Accepted(o) /\ ~Reachable(o)
  BY <1>2 DEF Accepted, Reachable, Init
<1>4. TablesInv
  BY <1>1, <1>2, <1>3
  DEF Init, TablesInv, TablesOK, ListenerIsIdle, TablesAgree, EstablishedExpire,
      Established
<1>5. TasksInv /\ WaitInv
  BY <1>1 DEF Init, TasksInv, TasksOK, WaitInv
<1> QED
  BY <1>4, <1>5 DEF DtlsInv

LEMMA NextKeeps ==
    ASSUME DtlsInv, [Next]_vars
    PROVE  DtlsInv'
<1>1. ASSUME NEW a \in Peer, NEW cid \in conn_by_cid \cup {None}, Receive(a, cid)
      PROVE  DtlsInv'
  BY <1>1, ReceiveKeeps
<1>2. CASE TimedOut
  BY <1>2, TimedOutKeeps
<1>3. CASE Tick
  BY <1>3, TickKeeps
<1>4. CASE OnWritable
  BY <1>4, WritingKeeps
<1>5. ASSUME NEW o \in Object,
             ReadQueue(o) \/ StartWrite(o) \/ FinishWrite(o) \/ Delete(o)
      PROVE  DtlsInv'
  BY <1>5, ReadQueueKeeps, WritingKeeps, FinishWriteKeeps, DeleteKeeps
<1>6. CASE UNCHANGED vars
  BY <1>6
  DEF vars, tables, tasks, DtlsInv, TablesInv, TablesOK, ListenerIsIdle, TablesAgree,
      EstablishedExpire, Established, Accepted, Reachable, WaitInv, TasksInv, TasksOK
<1> QED
  BY <1>1, <1>2, <1>3, <1>4, <1>5, <1>6 DEF Next

LEMMA DtlsInvHolds == Spec => []DtlsInv
<1>1. Init => DtlsInv
  BY InitGives
<1>2. DtlsInv /\ [Next]_vars => DtlsInv'
  BY NextKeeps
<1> QED
  BY <1>1, <1>2, PTL DEF Spec

(* Connections, tables, timeouts and tasks stay of their types, for any number   *)
(* of connections; a queue and a count of retries never go below zero.           *)
THEOREM TypeCorrect == Spec => []TypeOK
<1>1. DtlsInv => TypeOK
  BY DEF DtlsInv, TablesInv, TablesOK, TasksInv, TasksOK, WaitInv, TypeOK, Connection
<1> QED
  BY <1>1, DtlsInvHolds, PTL

(* The three tables and the timeouts agree however connections end, for any      *)
(* number of connections and addresses.                                          *)
THEOREM TablesAlwaysAgree == Spec => []TablesAgree
<1>1. DtlsInv => TablesAgree
  BY DEF DtlsInv, TablesInv
<1> QED
  BY <1>1, DtlsInvHolds, PTL

(* An established connection always has a timeout, and the server never waits    *)
(* past one, whatever the writes do meanwhile.                                   *)
THEOREM NeverOversleepsHolds == Spec => []NeverOversleeps
<1>1. DtlsInv => NeverOversleeps
  BY DEF DtlsInv, TablesInv, EstablishedExpire, WaitInv, NeverOversleeps
<1> QED
  BY <1>1, DtlsInvHolds, PTL
-----------------------------------------------------------------------------
(* The two sections of a response do not mix.                              *)
LEMMA SectionsApart ==
    ASSUME NEW A, NEW B
    PROVE  /\ InSection(Sections(A, B), "answer") = A
           /\ InSection(Sections(A, B), "additional") = B
<1>1. \A s : InSection(Sections(A, B), s) =
               {x.record : x \in {y \in Sections(A, B) : y.section = s}}
  BY DEF InSection
<1>2. ASSUME NEW r \in A
      PROVE  \E x \in Sections(A, B) : x.section = "answer" /\ x.record = r
  <2>1. [section |-> "answer", record |-> r] \in Sections(A, B)
    BY DEF Sections
  <2> QED
    BY <2>1
<1>3. ASSUME NEW r \in B
      PROVE  \E x \in Sections(A, B) : x.section = "additional" /\ x.record = r
  <2>1. [section |-> "additional", record |-> r] \in Sections(A, B)
    BY DEF Sections
  <2> QED
    BY <2>1
<1>4. \A x \in Sections(A, B) : \/ x.section = "answer" /\ x.record \in A
                                \/ x.section = "additional" /\ x.record \in B
  BY DEF Sections
<1> HIDE DEF InSection, Sections
<1>5. \A r : r \in InSection(Sections(A, B), "answer") <=> r \in A
  BY <1>1, <1>2, <1>4
<1>6. \A r : r \in InSection(Sections(A, B), "additional") <=> r \in B
  BY <1>1, <1>3, <1>4
<1> QED
  BY <1>5, <1>6

LEMMA SectionOfAll ==
    ASSUME NEW replies, NEW s
    PROVE  InSection(UNION replies, s) = UNION {InSection(one, s) : one \in replies}
BY DEF InSection

(* What one question is answered, before what the querier knows is left out.     *)
Answers(question, interface) == InSection(Replies(question, interface), "answer")
Extras(question, interface) == InSection(Replies(question, interface), "additional")

LEMMA Responds ==
    ASSUME NEW query, NEW interface
    PROVE  LET response == Response(query, interface)
           IN  /\ InSection(response, "answer") =
                     {r \in UNION {Answers(q, interface) : q \in query.questions} :
                        Needed(query.known, r)}
               /\ InSection(response, "additional") =
                     {r \in UNION {Extras(q, interface) : q \in query.questions} :
                        Needed(query.known, r)}
BY DEF Response, InSection, Answers, Extras

AsksInternet(question) == question.class \in {"IN", "QU"}

Pointed(name) == {r \in DevicePointers : r.name = name}
About(name) == {f \in Installed : name \in {FabricName, FabricDiscriminatorName(f)}}

(* What a question for pointers, services, texts or addresses is answered. *)
LEMMA PtrAnswers ==
    ASSUME NEW q, AsksInternet(q), q.type = "PTR", NEW interface
    PROVE  /\ Answers(q, interface) =
                 IF q.name = ServicesName
                 THEN {Pointer(q.name, MatterName), Pointer(q.name, CoapsName)}
                 ELSE IF Pointed(q.name) # {} THEN Pointed(q.name)
                 ELSE {Pointer(q.name, FabricInstanceName(f)) : f \in About(q.name)}
           /\ Extras(q, interface) =
                 IF q.name = ServicesName THEN {}
                 ELSE IF Pointed(q.name) # {}
                 THEN {Srv, CoapsSrv, Txt, CoapsTxt} \cup Aaaa(interface)
                 ELSE UNION {{FabricSrv(f), FabricTxt(f)} \cup Aaaa(interface) :
                                f \in About(q.name)}
<1>1. Replies(q, interface) = PtrReplies(q.name, interface)
  BY DEF Replies, AsksInternet
<1>2. CASE q.name = ServicesName
  BY <1>1, <1>2, SectionsApart DEF PtrReplies, Answers, Extras
<1>3. CASE q.name # ServicesName /\ Pointed(q.name) # {}
  <2>1. PtrReplies(q.name, interface) =
           Sections(Pointed(q.name), {Srv, CoapsSrv, Txt, CoapsTxt} \cup Aaaa(interface))
    BY <1>3 DEF PtrReplies, Pointed
  <2> QED
    BY <1>1, <1>3, <2>1, SectionsApart DEF Answers, Extras
<1>4. CASE q.name # ServicesName /\ Pointed(q.name) = {}
  <2> DEFINE about(f) == AboutFabric(f, q.name, interface)
             all == {about(f) : f \in About(q.name)}
  <2>1. PtrReplies(q.name, interface) = UNION all
    BY <1>4 DEF PtrReplies, Pointed, About
  <2>2. \A f : /\ InSection(about(f), "answer") = {Pointer(q.name, FabricInstanceName(f))}
               /\ InSection(about(f), "additional") =
                     {FabricSrv(f), FabricTxt(f)} \cup Aaaa(interface)
    BY SectionsApart DEF AboutFabric
  <2> HIDE DEF about
  <2>3. \A s : InSection(UNION all, s) = UNION {InSection(about(f), s) : f \in About(q.name)}
    <3>1. \A s : InSection(UNION all, s) = UNION {InSection(one, s) : one \in all}
      BY SectionOfAll
    <3> QED
      BY <3>1
  <2>4. Answers(q, interface) =
           UNION {{Pointer(q.name, FabricInstanceName(f))} : f \in About(q.name)}
    BY <1>1, <2>1, <2>2, <2>3 DEF Answers
  <2>5. Extras(q, interface) =
           UNION {{FabricSrv(f), FabricTxt(f)} \cup Aaaa(interface) : f \in About(q.name)}
    BY <1>1, <2>1, <2>2, <2>3 DEF Extras
  <2> QED
    BY <1>4, <2>4, <2>5
<1> QED
  BY <1>2, <1>3, <1>4

LEMMA SrvAnswers ==
    ASSUME NEW q, AsksInternet(q), q.type = "SRV", NEW interface
    PROVE  /\ Answers(q, interface) = {p[1] : p \in {x \in Pairs : x[1].name = q.name}}
           /\ Extras(q, interface) =
                 UNION {{p[2]} \cup Aaaa(interface) : p \in {x \in Pairs : x[1].name = q.name}}
<1> DEFINE P == {x \in Pairs : x[1].name = q.name}
           pair(p) == Sections({p[1]}, {p[2]} \cup Aaaa(interface))
           all == {pair(p) : p \in P}
<1>1. Replies(q, interface) = UNION all
  BY DEF Replies, AsksInternet, SrvReplies
<1>2. \A p : /\ InSection(pair(p), "answer") = {p[1]}
             /\ InSection(pair(p), "additional") = {p[2]} \cup Aaaa(interface)
  BY SectionsApart
<1> HIDE DEF pair, P
<1>3. \A s : InSection(UNION all, s) = UNION {InSection(pair(p), s) : p \in P}
  <2>1. \A s : InSection(UNION all, s) = UNION {InSection(one, s) : one \in all}
    BY SectionOfAll
  <2> QED
    BY <2>1
<1>4. Answers(q, interface) = UNION {{p[1]} : p \in P}
  BY <1>1, <1>2, <1>3 DEF Answers
<1>5. Extras(q, interface) = UNION {{p[2]} \cup Aaaa(interface) : p \in P}
  BY <1>1, <1>2, <1>3 DEF Extras
<1> QED
  BY <1>4, <1>5 DEF P

LEMMA TxtAnswers ==
    ASSUME NEW q, AsksInternet(q), q.type = "TXT", NEW interface
    PROVE  /\ Answers(q, interface) = {p[2] : p \in {x \in Pairs : x[2].name = q.name}}
           /\ Extras(q, interface) =
                 UNION {{p[1]} \cup Aaaa(interface) : p \in {x \in Pairs : x[2].name = q.name}}
<1> DEFINE P == {x \in Pairs : x[2].name = q.name}
           pair(p) == Sections({p[2]}, {p[1]} \cup Aaaa(interface))
           all == {pair(p) : p \in P}
<1>1. Replies(q, interface) = UNION all
  BY DEF Replies, AsksInternet, TxtReplies
<1>2. \A p : /\ InSection(pair(p), "answer") = {p[2]}
             /\ InSection(pair(p), "additional") = {p[1]} \cup Aaaa(interface)
  BY SectionsApart
<1> HIDE DEF pair, P
<1>3. \A s : InSection(UNION all, s) = UNION {InSection(pair(p), s) : p \in P}
  <2>1. \A s : InSection(UNION all, s) = UNION {InSection(one, s) : one \in all}
    BY SectionOfAll
  <2> QED
    BY <2>1
<1>4. Answers(q, interface) = UNION {{p[2]} : p \in P}
  BY <1>1, <1>2, <1>3 DEF Answers
<1>5. Extras(q, interface) = UNION {{p[1]} \cup Aaaa(interface) : p \in P}
  BY <1>1, <1>2, <1>3 DEF Extras
<1> QED
  BY <1>4, <1>5 DEF P

LEMMA NoReplies == \A s : InSection({}, s) = {}
BY DEF InSection

LEMMA OtherAnswers ==
    ASSUME NEW q, NEW interface, ~(AsksInternet(q) /\ q.type \in {"PTR", "SRV", "TXT"})
    PROVE  /\ Answers(q, interface) =
                 IF AsksInternet(q) /\ q.type = "AAAA" /\ q.name = HostName
                 THEN Aaaa(interface) ELSE {}
           /\ Extras(q, interface) = {}
<1>1. CASE AsksInternet(q) /\ q.type = "AAAA" /\ q.name = HostName
  <2>1. Replies(q, interface) = Sections(Aaaa(interface), {})
    BY <1>1 DEF Replies, AsksInternet
  <2> QED
    BY <1>1, <2>1, SectionsApart DEF Answers, Extras
<1>2. CASE ~(AsksInternet(q) /\ q.type = "AAAA" /\ q.name = HostName)
  <2>1. Replies(q, interface) = {}
    <3>1. CASE ~AsksInternet(q)
      BY <3>1 DEF Replies, AsksInternet
    <3>2. CASE AsksInternet(q) /\ q.type \notin {"PTR", "SRV", "TXT", "AAAA"}
      BY <3>2 DEF Replies, AsksInternet
    <3>3. CASE AsksInternet(q) /\ q.type = "AAAA" /\ q.name # HostName
      BY <3>3 DEF Replies, AsksInternet
    <3>4. AsksInternet(q) => \/ q.type \notin {"PTR", "SRV", "TXT", "AAAA"}
                             \/ q.type = "AAAA" /\ q.name # HostName
      BY <1>2
    <3> HIDE DEF Replies
    <3> QED
      BY <3>1, <3>2, <3>3, <3>4
  <2> QED
    BY <1>2, <2>1, NoReplies DEF Answers, Extras
<1> QED
  BY <1>1, <1>2

(* What is true of the device, kind by kind.                               *)
LEMMA ZoneIs ==
    ASSUME NEW interface
    PROVE  \A r : r \in Zone(interface) <=>
              \/ r \in {Pointer(ServicesName, MatterName), Pointer(ServicesName, CoapsName)}
              \/ r \in DevicePointers
              \/ r \in Aaaa(interface)
              \/ \E p \in Pairs : r \in {p[1], p[2]}
              \/ r \in FabricPointers
<1> DEFINE paired == UNION {{p[1], p[2]} : p \in Pairs}
<1>1. Zone(interface) =
         {Pointer(ServicesName, MatterName), Pointer(ServicesName, CoapsName)}
         \cup DevicePointers \cup Aaaa(interface) \cup paired \cup FabricPointers
  BY DEF Zone
<1>2. \A r : r \in paired <=> \E p \in Pairs : r \in {p[1], p[2]}
  OBVIOUS
<1> HIDE DEF paired
<1> QED
  BY <1>1, <1>2

LEMMA PairsAre ==
    /\ \A p \in Pairs : /\ p[1].type = "SRV" /\ p[2].type = "TXT"
                        /\ p[1].name = p[2].name
    /\ \E p \in Pairs : p[1] = Srv /\ p[2] = Txt
    /\ \E p \in Pairs : p[1] = CoapsSrv /\ p[2] = CoapsTxt
    /\ \A f \in Installed : \E p \in Pairs : p[1] = FabricSrv(f) /\ p[2] = FabricTxt(f)
<1>1. /\ <<Srv, Txt>> \in Pairs /\ <<CoapsSrv, CoapsTxt>> \in Pairs
      /\ \A f \in Installed : <<FabricSrv(f), FabricTxt(f)>> \in Pairs
  BY DEF Pairs
<1>2. ASSUME NEW p \in Pairs
      PROVE  p[1].type = "SRV" /\ p[2].type = "TXT" /\ p[1].name = p[2].name
  <2>1. CASE p = <<Srv, Txt>>
    BY <2>1 DEF Srv, Txt, Record
  <2>2. CASE p = <<CoapsSrv, CoapsTxt>>
    BY <2>2 DEF CoapsSrv, CoapsTxt, Record
  <2>3. CASE \E f \in Installed : p = <<FabricSrv(f), FabricTxt(f)>>
    <3>1. PICK f \in Installed : p = <<FabricSrv(f), FabricTxt(f)>>
      BY <2>3
    <3>2. /\ FabricSrv(f).type = "SRV" /\ FabricTxt(f).type = "TXT"
          /\ FabricSrv(f).name = FabricTxt(f).name
      BY DEF FabricSrv, FabricTxt, Record
    <3>3. p[1] = FabricSrv(f) /\ p[2] = FabricTxt(f)
      BY <3>1
    <3> QED
      BY <3>2, <3>3
  <2> QED
    BY <2>1, <2>2, <2>3 DEF Pairs
<1> QED
  BY <1>1, <1>2

LEMMA PointersAre ==
    /\ \A r \in DevicePointers :
          /\ r.type = "PTR" /\ r.data \in {InstanceName, CoapsInstanceName}
          /\ r.name # ServicesName /\ r.name # FabricName
          /\ \A f : r.name # FabricDiscriminatorName(f)
    /\ \A r \in FabricPointers : r.type = "PTR" /\ r.name # ServicesName
BY DEF DevicePointers, FabricPointers, Pointer, Record, CommissioningNames, SubtypeNames,
       CoapsName, MatterName, ServicesName, FabricName, FabricDiscriminatorName,
       CommissioningName

LEMMA AddressesAre ==
    ASSUME NEW interface, NEW r \in Aaaa(interface)
    PROVE  r.type = "AAAA" /\ r.name = HostName
BY DEF Aaaa, Record
-----------------------------------------------------------------------------
(* Each question: its answers are true ...                                 *)
LEMMA AnswersAreTrue ==
    ASSUME NEW q, NEW interface
    PROVE  Answers(q, interface) \cup Extras(q, interface) \subseteq Zone(interface)
<1>1. \A p \in Pairs : p[1] \in Zone(interface) /\ p[2] \in Zone(interface)
  BY ZoneIs
<1>2. Aaaa(interface) \subseteq Zone(interface)
  BY ZoneIs
<1>3. /\ {Srv, CoapsSrv, Txt, CoapsTxt} \subseteq Zone(interface)
      /\ \A f \in Installed : {FabricSrv(f), FabricTxt(f)} \subseteq Zone(interface)
  BY <1>1, PairsAre
<1>4. CASE AsksInternet(q) /\ q.type = "PTR"
  <2>1. Pointed(q.name) \subseteq Zone(interface)
    BY ZoneIs DEF Pointed
  <2>2. q.name = ServicesName =>
           {Pointer(q.name, MatterName), Pointer(q.name, CoapsName)} \subseteq Zone(interface)
    BY ZoneIs
  <2>3. ASSUME NEW f \in About(q.name)
        PROVE  f \in Installed /\ Pointer(q.name, FabricInstanceName(f)) \in Zone(interface)
    <3>1. f \in Installed /\ q.name \in {FabricName, FabricDiscriminatorName(f)}
      BY DEF About
    <3>2. Pointer(q.name, FabricInstanceName(f)) \in FabricPointers
      BY <3>1 DEF FabricPointers
    <3>3. FabricPointers \subseteq Zone(interface)
      BY ZoneIs
    <3>4. Pointer(q.name, FabricInstanceName(f)) \in Zone(interface)
      BY <3>2, <3>3
    <3> QED
      BY <3>1, <3>4
  <2> QED
    BY <1>2, <1>3, <1>4, <2>1, <2>2, <2>3, PtrAnswers
<1>5. CASE AsksInternet(q) /\ q.type = "SRV"
  BY <1>1, <1>2, <1>5, SrvAnswers
<1>6. CASE AsksInternet(q) /\ q.type = "TXT"
  BY <1>1, <1>2, <1>6, TxtAnswers
<1>7. CASE ~(AsksInternet(q) /\ q.type \in {"PTR", "SRV", "TXT"})
  BY <1>2, <1>7, OtherAnswers
<1> QED
  BY <1>4, <1>5, <1>6, <1>7

(* ... all that is true of its name and type is among them ...             *)
LEMMA AnswersAreComplete ==
    ASSUME NEW q, AsksInternet(q), NEW interface,
           NEW r \in Zone(interface), r.name = q.name, r.type = q.type
    PROVE  r \in Answers(q, interface)
<1>1. CASE r \in {Pointer(ServicesName, MatterName), Pointer(ServicesName, CoapsName)}
  <2>1. r.name = ServicesName /\ r.type = "PTR"
    BY <1>1 DEF Pointer, Record
  <2>2. q.name = ServicesName /\ q.type = "PTR"
    BY <2>1
  <2>3. Answers(q, interface) =
           {Pointer(q.name, MatterName), Pointer(q.name, CoapsName)}
    BY <2>2, PtrAnswers
  <2> QED
    BY <1>1, <2>2, <2>3
<1>2. CASE r \in DevicePointers
  <2>1. r.type = "PTR" /\ q.name # ServicesName /\ r \in Pointed(q.name)
    BY <1>2, PointersAre DEF Pointed
  <2> QED
    BY <2>1, PtrAnswers
<1>3. CASE r \in Aaaa(interface)
  <2>1. r.type = "AAAA" /\ r.name = HostName
    BY <1>3, AddressesAre
  <2> QED
    BY <1>3, <2>1, OtherAnswers
<1>4. CASE \E p \in Pairs : r \in {p[1], p[2]}
  <2>1. PICK p \in Pairs : r \in {p[1], p[2]}
    BY <1>4
  <2>2. CASE r = p[1]
    <3>1. r.type = "SRV"
      BY <2>2, PairsAre
    <3> QED
      BY <2>2, <3>1, SrvAnswers
  <2>3. CASE r = p[2]
    <3>1. r.type = "TXT"
      BY <2>3, PairsAre
    <3> QED
      BY <2>3, <3>1, TxtAnswers
  <2> QED
    BY <2>1, <2>2, <2>3
<1>5. CASE r \in FabricPointers
  <2>1. PICK f \in Installed : \E name \in {FabricName, FabricDiscriminatorName(f)} :
                                  r = Pointer(name, FabricInstanceName(f))
    BY <1>5 DEF FabricPointers
  <2>2. r = Pointer(q.name, FabricInstanceName(f)) /\ r.type = "PTR"
        /\ q.name \in {FabricName, FabricDiscriminatorName(f)}
    BY <2>1 DEF Pointer, Record
  <2>3. f \in About(q.name)
    BY <2>2 DEF About
  <2>4. Pointed(q.name) = {} /\ q.name # ServicesName
    BY <1>5, <2>2, PointersAre DEF Pointed
  <2>5. q.type = "PTR"
    BY <2>2
  <2>6. Answers(q, interface) = {Pointer(q.name, FabricInstanceName(g)) : g \in About(q.name)}
    BY <2>4, <2>5, PtrAnswers
  <2> QED
    BY <2>2, <2>3, <2>6
<1> QED
  BY <1>1, <1>2, <1>3, <1>4, <1>5, ZoneIs

(* ... and an instance pointed to comes with its service and text records. *)
LEMMA AnswersReach ==
    ASSUME NEW q, NEW interface, NEW r \in Answers(q, interface),
           r.type = "PTR", r.name # ServicesName, NEW type \in {"SRV", "TXT"}
    PROVE  \E s \in Extras(q, interface) : s.name = r.data /\ s.type = type
<1>1. AsksInternet(q) /\ q.type = "PTR"
  <2>1. CASE AsksInternet(q) /\ q.type = "SRV"
    BY <2>1, SrvAnswers, PairsAre
  <2>2. CASE AsksInternet(q) /\ q.type = "TXT"
    BY <2>2, TxtAnswers, PairsAre
  <2>3. CASE ~(AsksInternet(q) /\ q.type \in {"PTR", "SRV", "TXT"})
    BY <2>3, OtherAnswers, AddressesAre
  <2> QED
    BY <2>1, <2>2, <2>3
<1>2. q.name # ServicesName
  BY <1>1, PtrAnswers DEF Pointer, Record
<1>3. CASE Pointed(q.name) # {}
  <2>1. r.data \in {InstanceName, CoapsInstanceName}
        /\ {Srv, CoapsSrv, Txt, CoapsTxt} \subseteq Extras(q, interface)
    BY <1>1, <1>2, <1>3, PtrAnswers, PointersAre DEF Pointed
  <2>2. /\ Srv.name = InstanceName /\ Srv.type = "SRV"
        /\ Txt.name = InstanceName /\ Txt.type = "TXT"
        /\ CoapsSrv.name = CoapsInstanceName /\ CoapsSrv.type = "SRV"
        /\ CoapsTxt.name = CoapsInstanceName /\ CoapsTxt.type = "TXT"
    BY DEF Srv, Txt, CoapsSrv, CoapsTxt, Record
  <2> QED
    BY <2>1, <2>2
<1>4. CASE Pointed(q.name) = {}
  <2>1. PICK f \in About(q.name) : r = Pointer(q.name, FabricInstanceName(f))
    BY <1>1, <1>2, <1>4, PtrAnswers
  <2>2. {FabricSrv(f), FabricTxt(f)} \subseteq Extras(q, interface)
    BY <1>1, <1>2, <1>4, PtrAnswers
  <2>3. /\ r.data = FabricInstanceName(f)
        /\ FabricSrv(f).name = FabricInstanceName(f) /\ FabricSrv(f).type = "SRV"
        /\ FabricTxt(f).name = FabricInstanceName(f) /\ FabricTxt(f).type = "TXT"
    BY <2>1 DEF Pointer, Record, FabricSrv, FabricTxt
  <2> QED
    BY <2>2, <2>3
<1> QED
  BY <1>3, <1>4

(* What is left out the querier knows.                                     *)
LEMMA NeededOrKnown ==
    ASSUME NEW query, NEW r
    PROVE  Needed(query.known, r) \/ Knows(query, r)
BY DEF Needed, Knows

(* An answer is true and, with what the querier knows, complete for each of its  *)
(* questions, and reaches what it points to, in any state.                        *)
THEOREM AnswersSufficeHolds == MdnsSpec => []AnswersSuffice
<1>1. AnswersSuffice
  <2> SUFFICES ASSUME NEW query \in Query, NEW interface \in Interface
               PROVE  LET response == Response(query, interface)
                          answers == InSection(response, "answer")
                          Has(r) == r \in Sent(response) \/ Knows(query, r)
                      IN  /\ Sent(response) \subseteq Zone(interface)
                          /\ \A q \in query.questions, r \in Zone(interface) :
                                q.class \in {"IN", "QU"} /\ r.name = q.name /\ r.type = q.type
                                => Has(r)
                          /\ \A r \in answers :
                                r.type = "PTR" /\ r.name # ServicesName =>
                                   \A type \in {"SRV", "TXT"} :
                                      \E s \in Zone(interface) :
                                         s.name = r.data /\ s.type = type /\ Has(s)
    BY DEF AnswersSuffice
  <2> DEFINE response == Response(query, interface)
             answers == InSection(response, "answer")
             extras == InSection(response, "additional")
             Has(r) == r \in Sent(response) \/ Knows(query, r)
             questions == query.questions
  <2>1. \A r : /\ r \in answers <=> /\ \E q \in questions : r \in Answers(q, interface)
                                    /\ Needed(query.known, r)
               /\ r \in extras <=> /\ \E q \in questions : r \in Extras(q, interface)
                                   /\ Needed(query.known, r)
    BY Responds
  <2>2. Sent(response) = IF answers = {} THEN {} ELSE answers \cup extras
    BY DEF Sent
  <2> HIDE DEF answers, extras, response
  <2>3. Sent(response) \subseteq Zone(interface)
    BY <2>1, <2>2, AnswersAreTrue
  <2>4. ASSUME NEW q \in questions, NEW r \in Zone(interface), AsksInternet(q),
               r.name = q.name, r.type = q.type
        PROVE  Has(r)
    <3>1. r \in Answers(q, interface)
      BY <2>4, AnswersAreComplete
    <3> QED
      BY <2>1, <2>2, <3>1, NeededOrKnown
  <2>5. ASSUME NEW r \in answers, r.type = "PTR", r.name # ServicesName,
               NEW type \in {"SRV", "TXT"}
        PROVE  \E s \in Zone(interface) : s.name = r.data /\ s.type = type /\ Has(s)
    <3>1. PICK q \in questions : r \in Answers(q, interface)
      BY <2>1
    <3>2. PICK s \in Extras(q, interface) : s.name = r.data /\ s.type = type
      BY <2>5, <3>1, AnswersReach
    <3>3. s \in Zone(interface)
      BY AnswersAreTrue
    <3>4. Needed(query.known, s) => s \in Sent(response)
      BY <2>1, <2>2, <3>2
    <3>5. Has(s)
      BY <3>4, NeededOrKnown
    <3> QED
      BY <3>2, <3>3, <3>5
  <2> QED
    BY <2>3, <2>4, <2>5 DEF AsksInternet, response, answers
<1> QED
  BY <1>1, PTL
-----------------------------------------------------------------------------
(* A packet is made from what is true when it is made: that of the device        *)
(* always, and that of a fabric while the fabric is installed.                    *)
LEMMA DevicePacketIsTrue ==
    ASSUME NEW interface
    PROVE  DevicePacket(interface) \subseteq Zone(interface)
<1>1. \A p \in Pairs : p[1] \in Zone(interface) /\ p[2] \in Zone(interface)
  BY ZoneIs
<1>2. {Srv, CoapsSrv, Txt, CoapsTxt} \subseteq Zone(interface)
  BY <1>1, PairsAre
<1>3. DevicePointers \subseteq Zone(interface) /\ Aaaa(interface) \subseteq Zone(interface)
  BY ZoneIs
<1> QED
  BY <1>2, <1>3 DEF DevicePacket

LEMMA FabricPacketIsTrue ==
    ASSUME NEW f \in Installed, NEW interface
    PROVE  FabricPacket(f, interface) \subseteq Zone(interface)
<1>1. \A p \in Pairs : p[1] \in Zone(interface) /\ p[2] \in Zone(interface)
  BY ZoneIs
<1>2. {FabricSrv(f), Txt} \subseteq Zone(interface)
  BY <1>1, PairsAre
<1>3. FabricPointers \subseteq Zone(interface) /\ Aaaa(interface) \subseteq Zone(interface)
  BY ZoneIs
<1>4. {Pointer(FabricName, FabricInstanceName(f)),
       Pointer(FabricDiscriminatorName(f), FabricInstanceName(f))} \subseteq FabricPointers
  BY DEF FabricPointers
<1> QED
  BY <1>2, <1>3, <1>4 DEF FabricPacket

(* While the device stays as it is, so does what is true of it.            *)
LEMMA SameZone ==
    ASSUME UNCHANGED device
    PROVE  Zone(task.interface)' = Zone(task'.interface)
BY DEF device, Zone, DevicePointers, CommissioningNames, SubtypeNames, Aaaa, FabricPointers,
       Installed, Pairs, Srv, Txt, CoapsSrv, CoapsTxt, FabricSrv, FabricTxt, Record, Pointer,
       InstanceName, CoapsInstanceName, FabricInstanceName, FabricName,
       FabricDiscriminatorName, CoapsName, MatterName, ServicesName, CommissioningName,
       HostName

(* What a task is when it has its packet with the socket.                        *)
LEMMA SendingIs ==
    ASSUME NEW packet, NEW t \in TaskWith(packet), t.left # {}
    PROVE  LET s == Sending(t)
           IN  /\ s \in TaskWith(s.packet)
               /\ s.interface \in Interface
               /\ s.packet = PacketOf(t, s.interface)
               /\ s.fabric_index = t.fabric_index
               /\ s.fabric = t.fabric
               /\ s.outdated = (t.outdated /\ t.fabric_index # 0)
<1> DEFINE Least(i) == i \in t.left /\ \A j \in t.left : i <= j
           interface == CHOOSE i \in t.left : \A j \in t.left : i <= j
<1>1. t.left \in SUBSET Interface
  BY DEF TaskWith
<1>2. t.left \in SUBSET Nat
  BY <1>1, MdnsAssumption
<1>3. \E i \in t.left : \A j \in t.left : i <= j
  BY <1>2, LeastOf
<1>4. interface \in t.left
  BY <1>3
<1> DEFINE packet2 == PacketOf(t, interface)
           late == t.outdated /\ t.fabric_index # 0
           s == [t EXCEPT !.interface = interface, !.left = @ \ {interface},
                          !.packet = packet2, !.outdated = late]
<1>5. Sending(t) = s
  BY DEF Sending, TaskWith
<1> HIDE DEF interface, packet2
<1>6. late \in BOOLEAN
  BY DEF TaskWith
<1> HIDE DEF late
<1>7. /\ s \in TaskWith(packet2) /\ s.packet = packet2 /\ s.interface = interface
      /\ s.fabric_index = t.fabric_index /\ s.fabric = t.fabric /\ s.outdated = late
  BY <1>1, <1>4, <1>6 DEF TaskWith
<1> QED
  BY <1>1, <1>4, <1>5, <1>7 DEF packet2, late

LEMMA TaskIs ==
    ASSUME NEW index \in FabricIndex \cup {0}, NEW count \in 0 .. MaxCount
    PROVE  /\ Task(index, count) \in TaskWith({})
           /\ Task(index, count).packet = {} /\ Task(index, count).interface = None
BY DEF Task, TaskWith
-----------------------------------------------------------------------------
(* PacketsAreTrue is not inductive: a fabric's task makes its next packet from   *)
(* the fabric it looked up when the round began.  While nothing has changed since *)
(* then that is the fabric the table has.                                        *)
Heeded ==
    IsSending /\ task.fabric_index # 0 /\ ~task.outdated =>
        task.fabric # None /\ fabrics[task.fabric_index] = task.fabric

MdnsInv == MdnsTypeOK /\ Heeded /\ PacketsAreTrue

TaskTypeOK == task # None => task \in TaskWith(task.packet)

(* A step that changes the device leaves the packet outdated; one that begins a  *)
(* task leaves none with the socket.                                             *)
LEMMA UnheededKeeps ==
    ASSUME TaskTypeOK, Unheeded
    PROVE  TaskTypeOK' /\ Heeded' /\ PacketsAreTrue'
<1>1. CASE IsSending
  <2>1. task' = [task EXCEPT !.outdated = TRUE] /\ task \in TaskWith(task.packet)
    BY <1>1 DEF Unheeded, TaskTypeOK, IsSending
  <2>2. task' \in TaskWith(task'.packet) /\ task'.outdated
    BY <2>1 DEF TaskWith
  <2> QED
    BY <2>2 DEF TaskTypeOK, Heeded, PacketsAreTrue
<1>2. CASE ~IsSending
  <2>1. task' = task /\ ~IsSending'
    BY <1>2 DEF Unheeded, IsSending
  <2> QED
    BY <2>1 DEF TaskTypeOK, Heeded, PacketsAreTrue
<1> QED
  BY <1>1, <1>2

LEMMA BeginningKeeps ==
    ASSUME NEW index \in FabricIndex \cup {0}, NEW count \in 0 .. MaxCount,
           task' = Task(index, count)
    PROVE  TaskTypeOK' /\ Heeded' /\ PacketsAreTrue'
<1>1. task' \in TaskWith({}) /\ task'.packet = {} /\ task'.interface = None
  BY TaskIs
<1> QED
  BY <1>1 DEF TaskTypeOK, Heeded, PacketsAreTrue, IsSending

LEMMA BeginKeeps ==
    ASSUME TaskTypeOK, due \in SUBSET (FabricIndex \cup {0}),
           NEW index \in FabricIndex \cup {0}, Begin(index)
    PROVE  /\ TaskTypeOK' /\ Heeded' /\ PacketsAreTrue'
           /\ due' \in SUBSET (FabricIndex \cup {0})
<1>1. CASE BeginFabric(index) /\ due' = {index}
  <2>1. 0 \in 0 .. MaxCount
    BY MdnsAssumption
  <2> QED
    BY <1>1, <2>1, BeginningKeeps DEF BeginFabric
<1>2. CASE Unheeded /\ UNCHANGED due
  BY <1>2, UnheededKeeps
<1> QED
  BY <1>1, <1>2 DEF Begin

(* The next packet of a task, made while the device is what the task saw.        *)
LEMMA SendingKeeps ==
    ASSUME NEW packet, NEW t \in TaskWith(packet), t.left # {}, UNCHANGED device,
           task' = Sending(t),
           t.fabric_index # 0 /\ ~t.outdated =>
               t.fabric # None /\ fabrics[t.fabric_index] = t.fabric
    PROVE  TaskTypeOK' /\ Heeded' /\ PacketsAreTrue'
<1>1. /\ task' \in TaskWith(task'.packet)
      /\ task'.interface \in Interface
      /\ task'.packet = PacketOf(t, task'.interface)
      /\ task'.fabric_index = t.fabric_index
      /\ task'.fabric = t.fabric
      /\ task'.outdated = (t.outdated /\ t.fabric_index # 0)
  BY SendingIs
<1>2. fabrics' = fabrics
  BY DEF device
<1>3. Heeded'
  BY <1>1, <1>2 DEF Heeded
<1>4. ASSUME ~task'.outdated PROVE task'.packet \subseteq Zone(task.interface)'
  <2>1. Zone(task.interface)' = Zone(task'.interface)
    BY SameZone
  <2>2. CASE t.fabric_index = 0
    BY <1>1, <2>1, <2>2, DevicePacketIsTrue DEF PacketOf
  <2>3. CASE t.fabric_index # 0
    <3>1. t.fabric \in Installed
      <4>1. t.fabric # None /\ fabrics[t.fabric_index] = t.fabric
        BY <1>1, <1>4, <2>3
      <4>2. t.fabric_index \in FabricIndex
        BY <2>3 DEF TaskWith
      <4> QED
        BY <4>1, <4>2 DEF Installed
    <3> QED
      BY <1>1, <2>1, <2>3, <3>1, FabricPacketIsTrue DEF PacketOf
  <2> QED
    BY <2>2, <2>3
<1> QED
  BY <1>1, <1>3, <1>4 DEF TaskTypeOK, PacketsAreTrue
-----------------------------------------------------------------------------
LEMMA InitMdnsInv == MdnsInit => MdnsInv
<1> SUFFICES ASSUME MdnsInit PROVE MdnsInv
  OBVIOUS
<1>1. 0 \in 0 .. MaxCount /\ BasicDiscriminator \in Discriminator
  BY MdnsAssumption
<1>2. task \in TaskWith({}) /\ task.packet = {} /\ task.interface = None
  BY <1>1, TaskIs DEF MdnsInit
<1>3. MdnsTypeOK
  BY <1>1, <1>2 DEF MdnsInit, MdnsTypeOK
<1> QED
  BY <1>2, <1>3 DEF MdnsInv, Heeded, PacketsAreTrue, IsSending

LEMMA NextMdnsInv == MdnsInv /\ [MdnsNext]_mdnsVars => MdnsInv'
<1> SUFFICES ASSUME MdnsInv, [MdnsNext]_mdnsVars PROVE MdnsInv'
  OBVIOUS
<1> USE DEF MdnsInv, MdnsTypeOK
<1> DEFINE Known == FabricIndex \cup {0}
<1>1. TaskTypeOK /\ due \in SUBSET Known
  BY DEF TaskTypeOK
<1>2. ASSUME NEW d \in Discriminator, OpenWindow(d) PROVE MdnsInv'
  <2>1. TaskTypeOK' /\ Heeded' /\ PacketsAreTrue' /\ due' \in SUBSET Known
    BY <1>1, <1>2, BeginKeeps, UnheededKeeps DEF OpenWindow
  <2> QED
    BY <1>2, <2>1 DEF OpenWindow, TaskTypeOK
<1>3. CASE CancelCommissioning
  <2>1. TaskTypeOK' /\ Heeded' /\ PacketsAreTrue'
    BY <1>1, <1>3, UnheededKeeps DEF CancelCommissioning
  <2> QED
    BY <1>3, <2>1, MdnsAssumption DEF CancelCommissioning, TaskTypeOK
<1>4. CASE CommissioningComplete
  <2>1. TaskTypeOK' /\ Heeded' /\ PacketsAreTrue'
    BY <1>1, <1>4, UnheededKeeps DEF CommissioningComplete
  <2> QED
    BY <1>4, <2>1 DEF CommissioningComplete, TaskTypeOK
<1>5. ASSUME NEW f \in Fabric, AddNoc(f) PROVE MdnsInv'
  <2>1. PICK i \in FabricIndex :
           /\ fabrics' = [fabrics EXCEPT ![i] = f]
           /\ Begin(i)
           /\ UNCHANGED <<in_commissioning_mode, window, instance_name, discriminator, saved>>
    BY <1>5 DEF AddNoc
  <2>2. TaskTypeOK' /\ Heeded' /\ PacketsAreTrue' /\ due' \in SUBSET Known
    BY <1>1, <2>1, BeginKeeps
  <2> QED
    BY <2>1, <2>2 DEF TaskTypeOK
<1>6. ASSUME NEW i \in FabricIndex, RemoveFabric(i) PROVE MdnsInv'
  <2>1. TaskTypeOK' /\ Heeded' /\ PacketsAreTrue'
    BY <1>1, <1>6, UnheededKeeps DEF RemoveFabric
  <2> QED
    BY <1>6, <2>1 DEF RemoveFabric, TaskTypeOK
<1>7. CASE Restart
  <2>1. TaskTypeOK' /\ Heeded' /\ PacketsAreTrue'
    <3>1. 0 \in 0 .. MaxCount
      BY MdnsAssumption
    <3> QED
      BY <1>7, <3>1, BeginningKeeps DEF Restart
  <2> QED
    BY <1>7, <2>1, MdnsAssumption DEF Restart, TaskTypeOK
<1>8. CASE Wake
  <2>1. UNCHANGED <<device, due>> /\ task \in TaskWith(task.packet)
    BY <1>8 DEF Wake
  <2>2. TaskTypeOK' /\ Heeded' /\ PacketsAreTrue'
    <3>1. CASE task' = None
      BY <3>1 DEF TaskTypeOK, Heeded, PacketsAreTrue, IsSending
    <3>2. CASE task' = Sending(Round(task))
                  /\ ~(task.fabric_index # 0 /\ Round(task).fabric = None)
      <4> DEFINE fabric == IF task.fabric_index = 0 THEN None
                           ELSE fabrics[task.fabric_index]
      <4>1. fabric \in Fabric \cup {None}
        BY <2>1 DEF TaskWith
      <4>2. Round(task) = [task EXCEPT !.left = Interface, !.fabric = fabric]
        BY DEF Round
      <4> HIDE DEF fabric
      <4>3. /\ Round(task) \in TaskWith(task.packet) /\ Round(task).left = Interface
            /\ Round(task).fabric_index = task.fabric_index /\ Round(task).fabric = fabric
        BY <2>1, <4>1, <4>2 DEF TaskWith
      <4>4. Round(task).fabric_index # 0 =>
               /\ Round(task).fabric # None
               /\ fabrics[Round(task).fabric_index] = Round(task).fabric
        BY <3>2, <4>3 DEF fabric
      <4> QED
        BY <2>1, <3>2, <4>3, <4>4, SendingKeeps, MdnsAssumption
    <3> QED
      BY <1>8, <3>1, <3>2 DEF Wake
  <2> QED
    BY <2>1, <2>2 DEF device, TaskTypeOK
<1>9. CASE Send
  <2>1. /\ UNCHANGED device /\ due' \in SUBSET Known
        /\ IsSending /\ task \in TaskWith(task.packet)
    BY <1>9 DEF Send, IsSending
  <2>2. TaskTypeOK' /\ Heeded' /\ PacketsAreTrue'
    <3>1. CASE task.left # {}
      <4>1. task' = Sending(task)
        BY <1>9, <3>1 DEF Send
      <4> QED
        BY <2>1, <3>1, <4>1, SendingKeeps DEF Heeded
    <3>2. CASE task.left = {} /\ task.count < MaxCount
      <4>1. task' = Task(task.fabric_index, task.count + 1)
        BY <1>9, <3>2 DEF Send
      <4>2. task.fabric_index \in Known /\ task.count + 1 \in 0 .. MaxCount
        BY <2>1, <3>2, MdnsAssumption DEF TaskWith
      <4> QED
        BY <4>1, <4>2, BeginningKeeps
    <3>3. CASE task.left = {} /\ ~(task.count < MaxCount)
      <4>1. task' = None
        BY <1>9, <3>3 DEF Send
      <4> QED
        BY <4>1 DEF TaskTypeOK, Heeded, PacketsAreTrue, IsSending
    <3> QED
      BY <3>1, <3>2, <3>3
  <2> QED
    BY <2>1, <2>2 DEF device, TaskTypeOK
<1>10. CASE UNCHANGED mdnsVars
  <2>1. UNCHANGED <<device, task, due>>
    BY <1>10 DEF mdnsVars
  <2>2. Zone(task.interface)' = Zone(task.interface)
    BY <2>1, SameZone
  <2> QED
    BY <2>1, <2>2 DEF device, Heeded, PacketsAreTrue, IsSending
<1> QED
  BY <1>2, <1>3, <1>4, <1>5, <1>6, <1>7, <1>8, <1>9, <1>10 DEF MdnsNext, Command

LEMMA MdnsInvHolds == MdnsSpec => []MdnsInv
BY InitMdnsInv, NextMdnsInv, PTL DEF MdnsSpec

(* Every variable has its type, with an announcing task one of those the code    *)
(* begins.                                                                       *)
THEOREM MdnsTypeCorrect == MdnsSpec => []MdnsTypeOK
<1>1. MdnsInv => MdnsTypeOK
  BY DEF MdnsInv
<1> QED
  BY <1>1, MdnsInvHolds, PTL

(* A packet that waits for the socket says what is true, unless the device       *)
(* changed since its task looked.                                                *)
THEOREM PacketsAreTrueHolds == MdnsSpec => []PacketsAreTrue
<1>1. MdnsInv => PacketsAreTrue
  BY DEF MdnsInv
<1> QED
  BY <1>1, MdnsInvHolds, PTL
=============================================================================
