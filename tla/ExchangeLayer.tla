--------------------------- MODULE ExchangeLayer ---------------------------
(***************************************************************************)
(* The exchanges of one established session in matter/message/             *)
(* message_layer.py: duplicate detection, the routing of a frame to an     *)
(* exchange, acknowledgements (piggybacked, standalone after a delay, or   *)
(* at close) and the closing of exchanges.                                 *)
(*                                                                         *)
(* The device is one asyncio loop.  A task runs until it awaits; the only  *)
(* awaits here are the 0.2 s sleep of a standalone acknowledgement and the *)
(* socket.  A send is two steps, SENDING and its completion: loop.         *)
(* sock_sendto returns at once while the socket has room (sendMaySuspend = *)
(* FALSE: nothing runs between the two) and suspends the task while it has *)
(* none (TRUE: anything may).                                              *)
(*                                                                         *)
(* send_message tests the context object against dictionaries keyed by     *)
(* session id and node id, so its reliability flag is always cleared: no   *)
(* ExchangeRetransmission is ever created, retransmit never runs, and      *)
(* retransmissions, always empty, is not part of the state.                *)
(*                                                                         *)
(* An Exchange is a Python object: tasks keep using one after it left the  *)
(* table, when a new one with the same id may have taken its place.        *)
(***************************************************************************)
EXTENDS ReceptionWindow, FiniteSets, Bags

CONSTANTS
    NumMessages,     (* messages the peer sends, with counters 1 .. NumMessages *)
    MessageKinds,    (* what a message may be: a set of MessageKind             *)
    XidMod,          (* number of exchange ids: 2 ** 16                         *)
    MaxInitiated,    (* bound: exchanges the device initiates                   *)
    MaxObjects,      (* bound: Exchange objects alive at once                   *)
    MaxTasks,        (* bound: a frame is taken up while fewer tasks are alive  *)
    None

Message == 1 .. NumMessages
(* the ids a header has room for, and the one more that randint may draw    *)
WireXid == 0 .. XidMod - 1
Xid == WireXid \cup {XidMod}
Object == 1 .. MaxObjects

(* fromInitiator, reliable: the I and R flags; known: the protocol of the  *)
(* message is registered                                                   *)
MessageKind ==
    [xid : WireXid, fromInitiator : BOOLEAN, reliable : BOOLEAN, known : BOOLEAN]

Roles == {"Initiator", "Responder"}

ExchangeObject ==
    [xid : Xid, role : Roles, ephemeral : BOOLEAN, open : BOOLEAN,
     closing : BOOLEAN, ack : Message \cup {None}, ackSent : BOOLEAN]

ASSUME ExchangeAssumption ==
    /\ NumMessages \in Nat /\ NumMessages < CounterMod
    /\ MessageKinds \subseteq MessageKind
    /\ XidMod \in Nat \ {0}
    /\ MaxInitiated \in Nat
    /\ MaxObjects \in Nat \ {0}
    /\ MaxTasks \in Nat \ {0}
    /\ None \notin Nat /\ None \notin ExchangeObject

VARIABLES
    traffic,      (* what each message of the peer is: chosen once          *)
    sendMaySuspend,  (* may a send wait for the socket? chosen once         *)
    reception,    (* MessageReceptionState of the session                   *)
    exchange,     (* the Exchange objects alive; open: in self.exchanges    *)
    tasks,        (* the tasks alive                                        *)
    next_exchange_id,
    initiated,    (* how many exchanges the device initiated                *)
    acked,        (* history: <<exchange id, role, counter>> acknowledged   *)
    owed,         (* history: counters for which an acknowledgement is owed *)
    superseded    (* history: owed, but replaced by a newer one unsent      *)

given == <<traffic, sendMaySuspend>>
vars == <<given, reception, exchange, tasks, next_exchange_id, initiated,
          acked, owed, superseded>>
history == <<acked, owed, superseded>>

(* SLEEPING: a delayed send_standalone_acknowledgement; ACKING: one without *)
(* delay, not yet started; HANDLING: a protocol handler, not yet started;   *)
(* SENDING_ACK and SENDING_REPLY: inside send_with_session, then says what  *)
(* the task does once it is back.  isTimer: the task is what the exchange   *)
(* has in standalone_acknowledgement_timer.                                 *)
TaskRecord ==
    [step : {"SLEEPING", "ACKING", "HANDLING", "SENDING_ACK", "SENDING_REPLY"},
     obj : Object, isTimer : BOOLEAN,
     msg : Message \cup {None}, ctr : Message \cup {None},
     then : {"end", "dup", "close", "dispatch"}]

TypeOK ==
    /\ traffic \in [Message -> MessageKinds]
    /\ sendMaySuspend \in BOOLEAN
    /\ reception \in ReceptionStates
    /\ exchange \in [Object -> ExchangeObject \cup {None}]
    /\ IsABag(tasks) /\ DOMAIN tasks \subseteq TaskRecord
    /\ next_exchange_id \in Xid
    /\ initiated \in 0 .. MaxInitiated
    /\ acked \subseteq Xid \X Roles \X Message
    /\ owed \subseteq Message
    /\ superseded \subseteq Message
-----------------------------------------------------------------------------
(* Objects and tasks.  ex and ts are values of exchange and of tasks, a    *)
(* bag of TaskRecord.                                                      *)

FreeObjects(ex) == {o \in Object : ex[o] = None}
Least(S) == CHOOSE x \in S : \A y \in S : x <= y

Spawn(ts, task) == ts (+) SetToBag({task})

Taken(ts, r) == ts (-) SetToBag({r})

Timer(o) == [step |-> "SLEEPING", obj |-> o, isTimer |-> TRUE, msg |-> None,
             ctr |-> None, then |-> "end"]
AckTask(o) == [Timer(o) EXCEPT !.step = "ACKING", !.isTimer = FALSE]
Handler(o, m) ==
    [Timer(o) EXCEPT !.step = "HANDLING", !.isTimer = FALSE, !.msg = m]

(* the timer of o, if it has not ended *)
TimersOf(ts, o) == {r \in DOMAIN ts : r.obj = o /\ r.isTimer}

(* standalone_acknowledgement_timer.cancel() ... *)
CancelTimer(ts, o) ==
    IF TimersOf(ts, o) = {} THEN ts
    ELSE Taken(ts, CHOOSE r \in TimersOf(ts, o) : TRUE)

(* ... and another task put in its place: it goes on, out of reach *)
OrphanTimer(ts, o) ==
    IF TimersOf(ts, o) = {} THEN ts
    ELSE LET r == CHOOSE r \in TimersOf(ts, o) : TRUE
         IN  Spawn(Taken(ts, r), [r EXCEPT !.isTimer = FALSE])

(* an object outside the table that no task uses is garbage *)
Collect(ex, ts) ==
    [o \in Object |->
        IF ex[o] # None /\ (ex[o].open \/ \E r \in DOMAIN ts : r.obj = o)
        THEN ex[o] ELSE None]

Update(ex, ts) ==
    /\ exchange' = Collect(ex, ts)
    /\ tasks' = ts

(* while a send may not suspend, nothing runs between its two steps *)
LoopIsFree ==
    sendMaySuspend \/ \A r \in DOMAIN tasks :
                          r.step \notin {"SENDING_ACK", "SENDING_REPLY"}

Open(ex) == {o \in Object : ex[o] # None /\ ex[o].open}

(* Exchange.__eq__ within one session *)
Key(e) == <<e.xid, e.role>>

NewExchange(x, role, ephemeral) ==
    [xid |-> x, role |-> role, ephemeral |-> ephemeral, open |-> TRUE,
     closing |-> FALSE, ack |-> None, ackSent |-> FALSE]

(* exchange.acknowledgement and not ...standalone_acknowledgement_sent *)
AckPending(e) == e.ack # None /\ ~e.ackSent
-----------------------------------------------------------------------------
(* find_exchange: the open exchange the message belongs to, else a new one *)
RoleFor(m) == IF traffic[m].fromInitiator THEN "Responder" ELSE "Initiator"

Matching_AnyRole(m) ==
    {o \in Open(exchange) : exchange[o].xid = traffic[m].xid}
Matching(m) ==
    {o \in Open(exchange) : Key(exchange[o]) = <<traffic[m].xid, RoleFor(m)>>}

Outcome_find_exchange(m, isDuplicate) ==
    IF Matching(m) # {} THEN "found"
    ELSE IF traffic[m].known /\ traffic[m].fromInitiator /\ ~isDuplicate
         THEN "new"
    ELSE IF traffic[m].reliable THEN "ephemeral" ELSE "none"

(* the objects once find_exchange has run, and the object it returns *)
WithExchange(m, outcome) ==
    IF outcome \in {"new", "ephemeral"}
    THEN [exchange EXCEPT ![Least(FreeObjects(exchange))] =
             NewExchange(traffic[m].xid, RoleFor(m), outcome = "ephemeral")]
    ELSE exchange

ExchangeOf(m, outcome) ==
    IF outcome = "found" THEN CHOOSE o \in Matching(m) : TRUE
                         ELSE Least(FreeObjects(exchange))

(* the end of process_recv_matter_frame *)
Dispatch(ex, ts, o, m) ==
    IF traffic[m].known /\ ~ex[o].ephemeral THEN Spawn(ts, Handler(o, m)) ELSE ts

(* what close_exchange does once no acknowledgement is pending; the second *)
(* form, after it sent one, also clears exchange.acknowledgement           *)
Removed_StaysOpen(ex, o) == [ex EXCEPT ![o].closing = TRUE]
Removed(ex, o) == [ex EXCEPT ![o].closing = TRUE, ![o].open = FALSE]
RemovedAfterAck(ex, o) == [Removed(ex, o) EXCEPT ![o].ack = None]

Closing(ex, o) == [ex EXCEPT ![o].closing = TRUE]

SendingAck(ex, o, m, then) ==
    [step |-> "SENDING_ACK", obj |-> o, isTimer |-> FALSE, msg |-> m,
     ctr |-> ex[o].ack, then |-> then]
SendingReply(ex, o, then) ==
    [step |-> "SENDING_REPLY", obj |-> o, isTimer |-> FALSE, msg |-> None,
     ctr |-> ex[o].ack, then |-> then]
-----------------------------------------------------------------------------
(* process_recv_matter_frame for message m, from the duplicate check to    *)
(* its first await.  The network repeats, loses and reorders: any message  *)
(* may arrive at any time.                                                 *)

IsDuplicate(m) == DuplicateEncrypted(reception, m)
Outcome(m) == Outcome_find_exchange(m, IsDuplicate(m))

Received(m) ==
    /\ LoopIsFree
    /\ BagCardinality(tasks) < MaxTasks
    /\ Outcome(m) \in {"new", "ephemeral"} => FreeObjects(exchange) # {}
    /\ reception' = IF IsDuplicate(m) THEN reception
                                      ELSE AfterAccepting(reception, m)
    /\ UNCHANGED <<given, next_exchange_id, initiated, acked>>

(* no exchange: dropped *)
ReceiveUnmatched(m) ==
    /\ Received(m)
    /\ Outcome(m) = "none"
    /\ UNCHANGED <<exchange, tasks, owed, superseded>>

(* the rest of the routine once the acknowledgement is registered: a       *)
(* closing exchange is closed (again), then the handler is started         *)
CloseOrDispatch(ex, ts, o, m) ==
    IF ex[o].closing /\ AckPending(ex[o])
    THEN Update(ex, Spawn(ts, SendingAck(ex, o, m,
                               IF IsDuplicate(m) THEN "close" ELSE "dispatch")))
    ELSE LET ex1 == IF ex[o].closing THEN Removed(ex, o) ELSE ex
         IN  IF IsDuplicate(m)
             THEN Update(ex1, ts)
             ELSE Update(ex1, Dispatch(ex1, ts, o, m))

ReceiveUnreliable(m) ==
    /\ Received(m)
    /\ ~traffic[m].reliable
    /\ Outcome(m) # "none"
    /\ CloseOrDispatch(WithExchange(m, Outcome(m)), tasks,
                       ExchangeOf(m, Outcome(m)), m)
    /\ UNCHANGED <<owed, superseded>>

(* a reliable duplicate: acknowledge whatever the exchange has to          *)
(* acknowledge, if anything, and no more; an ephemeral exchange ends       *)
ReceiveReliableDuplicate(m) ==
    /\ Received(m)
    /\ traffic[m].reliable
    /\ IsDuplicate(m)
    /\ LET o  == ExchangeOf(m, Outcome(m))
           ex == WithExchange(m, Outcome(m))
       IN  IF ex[o].ack # None
           THEN Update(ex, Spawn(tasks, SendingAck(ex, o, m, "dup")))
           ELSE Update(IF ex[o].ephemeral THEN Removed(ex, o) ELSE ex, tasks)
    /\ UNCHANGED <<owed, superseded>>

(* a reliable message: an acknowledgement still pending is handed to a     *)
(* task of its own, which will find the new one in its place               *)
Registered_NoTimer(ex, ts, o, m) ==
    [ex |-> [ex EXCEPT ![o].ack = m, ![o].ackSent = FALSE],
     ts |-> ts]
Registered(ex, ts, o, m) ==
    LET replaced == AckPending(ex[o])
        ts1 == IF replaced THEN Spawn(CancelTimer(ts, o), AckTask(o))
                           ELSE OrphanTimer(ts, o)
    IN  [ex |-> [ex EXCEPT ![o].ack = m, ![o].ackSent = FALSE],
         ts |-> Spawn(ts1, Timer(o))]

ReceiveReliable(m) ==
    /\ Received(m)
    /\ traffic[m].reliable
    /\ ~IsDuplicate(m)
    /\ LET o  == ExchangeOf(m, Outcome(m))
           ex == WithExchange(m, Outcome(m))
           r  == Registered(ex, tasks, o, m)
       IN  /\ CloseOrDispatch(r.ex, r.ts, o, m)
           /\ owed' = owed \cup {m}
           /\ superseded' = IF AckPending(ex[o])
                            THEN superseded \cup {ex[o].ack} ELSE superseded
-----------------------------------------------------------------------------
(* Tasks.  r is a task of the bag; a step takes it out and may put it back *)
(* further on.  Finish...: it is back from the socket.                     *)

Without(r) == Taken(tasks, r)

(* send_standalone_acknowledgement, delayed or not, up to its await *)
RunAck(r) ==
    /\ LoopIsFree
    /\ r.step \in {"SLEEPING", "ACKING"}
    /\ LET o == r.obj
       IN  IF exchange[o].ack # None
           THEN Update(exchange, Spawn(Without(r),
                    [SendingAck(exchange, o, None, "end") EXCEPT
                        !.isTimer = r.isTimer]))
           ELSE Update(exchange, Without(r))
    /\ UNCHANGED <<given, reception, next_exchange_id, initiated,
                   history>>

(* A protocol handler, external to this layer: it may answer, answer and   *)
(* close the exchange, close it without an answer, or do neither.          *)
RunHandler(r) ==
    /\ LoopIsFree
    /\ r.step = "HANDLING"
    /\ LET o == r.obj
       IN  \/ Update(exchange, Without(r))
           \/ \E then \in {"end", "close"} :
                 Update(exchange,
                        Spawn(Without(r), SendingReply(exchange, o, then)))
           \/ /\ AckPending(exchange[o])
              /\ Update(Closing(exchange, o),
                        Spawn(Without(r),
                              SendingAck(exchange, o, None, "close")))
           \/ /\ ~AckPending(exchange[o])
              /\ Update(Removed(exchange, o), Without(r))
    /\ UNCHANGED <<given, reception, next_exchange_id, initiated,
                   history>>

Acknowledged(r) ==
    acked' = IF r.ctr = None THEN acked
             ELSE acked \cup
                    {<<exchange[r.obj].xid, exchange[r.obj].role, r.ctr>>}

MarkedSent(ex, o) == [ex EXCEPT ![o].ackSent = TRUE]

(* the end of send_standalone_acknowledgement and what its caller does     *)
(* then; it raises AttributeError, and the caller with it, if the          *)
(* acknowledgement was cleared meanwhile                                   *)
FinishAck(r) ==
    /\ r.step = "SENDING_ACK"
    /\ Acknowledged(r)
    /\ LET o  == r.obj
           e  == exchange[o]
           ex == MarkedSent(exchange, o)
           ts == CancelTimer(Without(r), o)
       IN  \/ /\ e.ack = None
              /\ Update(exchange, Without(r))
           \/ /\ e.ack # None
              /\ \/ r.then = "end" /\ Update(ex, ts)
                 \/ /\ r.then = "dup"
                    /\ Update(IF e.ephemeral THEN Removed(ex, o) ELSE ex, ts)
                 \/ r.then = "close" /\ Update(RemovedAfterAck(ex, o), ts)
                 \/ /\ r.then = "dispatch"
                    /\ LET ex1 == RemovedAfterAck(ex, o)
                       IN  Update(ex1, Dispatch(ex1, ts, o, r.msg))
    /\ UNCHANGED <<given, reception, next_exchange_id, initiated,
                   owed, superseded>>

(* the end of send_message: exchange.acknowledgement = None, whatever it   *)
(* is by now; then close_exchange if the handler closes                    *)
FinishReply(r) ==
    /\ r.step = "SENDING_REPLY"
    /\ Acknowledged(r)
    /\ LET ex == [exchange EXCEPT ![r.obj].ack = None]
       IN  Update(IF r.then = "close" THEN Removed(ex, r.obj) ELSE ex,
                  Without(r))
    /\ UNCHANGED <<given, reception, next_exchange_id, initiated,
                   owed, superseded>>

(* initiate_exchange, and the message it is for.  self.exchanges is a set  *)
(* of equal-by-key objects: adding a key that is there changes nothing.    *)
(* A message with an id its header has no room for is not sent: encoding   *)
(* it raises, and the exchange stays in the table.                         *)
AddedUnlessPresent(x) ==
    \A o \in Open(exchange) : Key(exchange[o]) # <<x, "Initiator">>

NextXid(x) == (x + 1) % XidMod

Initiate ==
    /\ LoopIsFree
    /\ initiated < MaxInitiated
    /\ FreeObjects(exchange) # {} /\ BagCardinality(tasks) < MaxTasks
    /\ LET o  == Least(FreeObjects(exchange))
           x  == next_exchange_id
           ex == [exchange EXCEPT ![o] =
                    [NewExchange(x, "Initiator", FALSE) EXCEPT
                        !.open = AddedUnlessPresent(x)]]
       IN  \/ /\ x \in WireXid
              /\ Update(ex, Spawn(tasks, SendingReply(ex, o, "end")))
           \/ x \notin WireXid /\ Update(ex, tasks)
    /\ next_exchange_id' = NextXid(next_exchange_id)
    /\ initiated' = initiated + 1
    /\ UNCHANGED <<given, reception, history>>
-----------------------------------------------------------------------------
Init ==
    /\ traffic \in [Message -> MessageKinds]
    /\ sendMaySuspend \in BOOLEAN
    /\ reception = InitReception(0)
    /\ exchange = [o \in Object |-> None]
    /\ tasks = EmptyBag
    /\ next_exchange_id \in Xid
    /\ initiated = 0
    /\ acked = {} /\ owed = {} /\ superseded = {}

Receive(m) ==
    \/ ReceiveUnmatched(m)
    \/ ReceiveUnreliable(m)
    \/ ReceiveReliableDuplicate(m)
    \/ ReceiveReliable(m)

Run == \E r \in DOMAIN tasks : RunAck(r) \/ RunHandler(r)
Finish == \E r \in DOMAIN tasks : FinishAck(r) \/ FinishReply(r)

Next ==
    \/ \E m \in Message : Receive(m)
    \/ Run
    \/ Finish
    \/ Initiate

Spec == Init /\ [][Next]_vars

(* asyncio runs its ready tasks in turn and a send ends when the socket    *)
(* has room: new frames do not keep the tasks from running                 *)
FairSpec == Spec /\ SF_vars(Run) /\ SF_vars(Finish)
-----------------------------------------------------------------------------
(* Every acknowledgement the device sends names a reliable message the     *)
(* device accepted, and travels on the exchange that message came on, even *)
(* though tasks of closed exchanges outlive them.                          *)
AckIsSound ==
    \A a \in acked :
        /\ a[3] \in owed
        /\ traffic[a[3]].xid = a[1]
        /\ RoleFor(a[3]) = a[2]

(* Every reliable message is acknowledged, by an answer, by its timer or   *)
(* when its exchange closes, unless a newer reliable message of the same   *)
(* exchange took its place before, while sends find room: send_message     *)
(* clears what was registered during its await.                            *)
OwedIsSettled ==
    \A m \in Message :
        (m \in owed /\ ~sendMaySuspend) ~> m \in superseded \/ \E a \in acked : a[3] = m

(* A close is brought to its end.  An exchange that left the table has no     *)
(* acknowledgement left, which nothing would send but a timer nobody can     *)
(* cancel any more; one that started to close and is still in the table has  *)
(* a task that will take it out, while sends find room: a close that         *)
(* overtakes a waiting send leaves it there.                                 *)
ClosesAreFinished ==
    \A o \in Object :
        exchange[o] # None /\ exchange[o].closing =>
            /\ ~exchange[o].open => ~AckPending(exchange[o])
            /\ exchange[o].open /\ ~sendMaySuspend =>
                  \E r \in DOMAIN tasks : r.obj = o /\ ~r.isTimer
=============================================================================
