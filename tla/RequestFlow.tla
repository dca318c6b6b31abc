---------------------------- MODULE RequestFlow ----------------------------
(***************************************************************************)
(* What the interaction model sends on an exchange and when: the in-flight     *)
(* marker and the pending messages of protocol.py, reports cut into chunks,    *)
(* the answers that release the next one, and the timed interactions of        *)
(* interaction_model.py with the threading.Timer that ends them.               *)
(*                                                                         *)
(* Handlers are tasks of one loop, run in the order of their messages; a send  *)
(* finds room in the socket, so none is interrupted by another.  The timer's   *)
(* callback runs in a thread of its own, between any two accesses of a handler *)
(* to _timed_requests and _expired_timeouts.                                   *)
(*                                                                         *)
(* An exchange is named by what Exchange.__eq__ compares.  Ids are used again, *)
(* and the tables of the interaction model outlive the exchange.               *)
(***************************************************************************)
EXTENDS Integers, Sequences, SequencesExt

CONSTANTS
    PeerExchange,       (* exchanges the peer initiates ...                   *)
    DeviceExchange,     (* ... and those a subscription's report initiates    *)
    Reports,            (* what may be read: sequences of encoded lengths     *)
    ChunkLength,        (* 900: the length from which a chunk is closed       *)
    MaxInputs,          (* bound: messages of the peer and reports due        *)
    MaxWaiting          (* bound: handlers that have not started              *)

Exchange == PeerExchange \cup DeviceExchange

ASSUME RequestFlowAssumption ==
    /\ PeerExchange \cap DeviceExchange = {}
    /\ Reports \subseteq Seq(Nat \ {0})
    /\ ChunkLength \in Nat \ {0}
    /\ MaxInputs \in Nat /\ MaxWaiting \in Nat

VARIABLES
    channel,            (* of each exchange: see Channel                      *)
    open,               (* the device exchanges in message_layer's set        *)
    pending_subscription_reports,
    inbox,              (* handlers that have not started, oldest first       *)
    inputs,             (* how many messages and reports there were           *)
    loop,               (* the handler under way and its next access          *)
    timed_requests,     (* exchange -> index of its timer, 0 for no entry     *)
    expired_timeouts,
    timer,              (* the threads, in order of creation                  *)
    entries             (* history: see Entries                               *)

flow == <<channel, open, pending_subscription_reports>>
timing == <<timed_requests, expired_timeouts, timer, entries>>
vars == <<flow, inbox, inputs, loop, timing>>

(* conversation: which of the exchange's reads a part belongs to               *)
Part == [kind : {"report", "subscribed", "response", "status"},
         conversation : Nat, reports : Seq(Nat),
         more_chunked_messages : BOOLEAN, suppress_response : BOOLEAN]

(* in_flight: the exchange is in _in_flight_exchanges; pending: its            *)
(* _pending_messages.  History: what was to be sent, what was, how much of it  *)
(* the peer has answered, and what each conversation is to report.             *)
Channel == [in_flight : BOOLEAN, pending : Seq(Part), asked : Seq(Part),
            sent : Seq(Part), answered : Nat, read : Seq(Seq(Nat))]

(* of the entries in _timed_requests: made, taken by a timed interaction,      *)
(* and deleted by a timer                                                      *)
Entries == [made : Nat, admitted : Nat, lapsed : Nat]

Status == {"SUCCESS", "INVALID_SUBSCRIPTION", "OTHER"}
Answer == [kind : {"status"}, status : Status]
(* act: a write or an invoke request, of which this module tells no more;      *)
(* response: one is to be sent                                                 *)
Request ==
    [kind : {"read"}, reports : Reports] \cup
    [kind : {"subscribe"}, reports : Reports, readable : BOOLEAN] \cup
    [kind : {"act"}, timed_request : BOOLEAN, response : BOOLEAN] \cup
    [kind : {"malformed act", "timed"}]

Idle == [at |-> "idle"]
TypeOK ==
    /\ channel \in [Exchange -> Channel]
    /\ open \subseteq DeviceExchange
    /\ pending_subscription_reports \subseteq DeviceExchange
    /\ inbox \in Seq([exchange : Exchange, message : Request \cup Answer])
    /\ inputs \in 0 .. MaxInputs
    /\ loop = Idle \/
       loop \in [at : {"expired", "entry", "cancel", "delete",
                       "known", "lapsed", "arm"},
                 exchange : PeerExchange, message : Request]
    /\ timer \in Seq([exchange : PeerExchange,
                      at : {"armed", "cancelled", "due", "deleted", "ended"}])
    /\ timed_requests \in [PeerExchange -> 0 .. Len(timer)]
    /\ expired_timeouts \subseteq PeerExchange
    /\ entries \in [PeerExchange -> Entries]
-----------------------------------------------------------------------------
(* Protocol.send_message and release_next_message, on the channel c.           *)
Sent(c, p) == [c EXCEPT !.sent = Append(@, p)]

Send(c, p) ==
    LET d == [c EXCEPT !.asked = Append(@, p)]
    IN  IF c.in_flight THEN [d EXCEPT !.pending = Append(@, p)]
                       ELSE [Sent(d, p) EXCEPT !.in_flight = TRUE]

(* each of parts in turn                                                       *)
SendAll(c, parts) ==
    LET after[i \in 0 .. Len(parts)] ==
            IF i = 0 THEN c ELSE Send(after[i - 1], parts[i])
    IN  after[Len(parts)]

ReleaseNext_Newest(c) ==
    IF c.pending # <<>>
    THEN [Sent(c, Last(c.pending)) EXCEPT !.pending = Front(c.pending)]
    ELSE [c EXCEPT !.in_flight = FALSE]
ReleaseNext_StaysInFlight(c) ==
    IF c.pending # <<>>
    THEN [Sent(c, Head(c.pending)) EXCEPT !.pending = Tail(c.pending)]
    ELSE c
ReleaseNext(c) ==
    IF c.pending # <<>>
    THEN [Sent(c, Head(c.pending)) EXCEPT !.pending = Tail(c.pending)]
    ELSE [c EXCEPT !.in_flight = FALSE]

(* the peer answers the part it was sent last, unless it did already           *)
Answered(c) ==
    [c EXCEPT !.answered = IF @ < Len(c.sent) THEN @ + 1 ELSE @]
-----------------------------------------------------------------------------
(* chunk_report_data.                                                          *)
Total(lengths) == FoldLeft(LAMBDA a, b : a + b, 0, lengths)
Full(reports) == Total(reports) >= ChunkLength

(* the chunks closed so far and the reports of the next one                    *)
Gather(g, report) ==
    LET next == Append(g.next, report)
    IN  IF Full(next) THEN [closed |-> Append(g.closed, next), next |-> <<>>]
                      ELSE [g EXCEPT !.next = next]

(* ... after the first i of them                                               *)
Gathered == [r \in Reports |->
    LET after[i \in 0 .. Len(r)] ==
            IF i = 0 THEN [closed |-> <<>>, next |-> <<>>]
                     ELSE Gather(after[i - 1], r[i])
    IN  after[Len(r)]]

ReportPart(n, reports, more, suppress) ==
    [kind |-> "report", conversation |-> n, reports |-> reports,
     more_chunked_messages |-> more, suppress_response |-> suppress]
PlainPart(c, kind) ==
    [kind |-> kind, conversation |-> Len(c.read), reports |-> <<>>,
     more_chunked_messages |-> FALSE, suppress_response |-> FALSE]

Closed(n, chunks) ==
    [i \in DOMAIN chunks |-> ReportPart(n, chunks[i], TRUE, FALSE)]

ChunkReportData_NoRest(n, reports, suppress) ==
    LET g == Gathered[reports]
    IN  Closed(n, g.closed) \o
        IF reports = <<>> \/ (g.next # <<>> /\ g.closed = <<>>)
        THEN <<ReportPart(n, g.next, FALSE, suppress)>> ELSE <<>>
ChunkReportData(n, reports, suppress) ==
    LET g == Gathered[reports]
    IN  Closed(n, g.closed) \o
        IF g.next # <<>> \/ g.closed = <<>>
        THEN <<ReportPart(n, g.next, FALSE, suppress)>> ELSE <<>>

(* a conversation of its own on channel c: the reports, then what follows them *)
Report(c, reports, suppress, rest) ==
    LET d == [c EXCEPT !.read = Append(@, reports)]
    IN  SendAll(d, ChunkReportData(Len(d.read), reports, suppress) \o rest)
-----------------------------------------------------------------------------
(* MessageLayer.  The peer's exchanges are opened by whatever it sends; on one *)
(* of the device a message reaches a handler while the exchange is in the set.  *)
(* Nothing is retransmitted, so that a closed exchange is out of it.           *)
Close(x) == open' = open \ {x}

Receive(x, m) ==
    /\ inputs < MaxInputs /\ Len(inbox) < MaxWaiting
    /\ \/ x \in PeerExchange
       \/ x \in open /\ m \in Answer
    /\ inbox' = Append(inbox, [exchange |-> x, message |-> m])
    /\ inputs' = inputs + 1
    /\ UNCHANGED <<flow, loop, timing>>

(* the oldest handler starts: it is of kind k                                  *)
Starts(k) ==
    /\ loop = Idle /\ inbox # <<>> /\ Head(inbox).message.kind = k
    /\ inbox' = Tail(inbox)
    /\ UNCHANGED inputs
Started == Head(inbox)

SetChannel(x, c) == channel' = [channel EXCEPT ![x] = c]

StatusResponse ==
    /\ Starts("status")
    /\ LET x == Started.exchange
           status == Started.message.status
       IN  \/ /\ status = "SUCCESS" /\ x \in pending_subscription_reports
              /\ SetChannel(x, Answered(channel[x]))
              /\ Close(x)
              /\ UNCHANGED pending_subscription_reports
           \/ /\ status = "SUCCESS" /\ x \notin pending_subscription_reports
              /\ SetChannel(x, ReleaseNext(Answered(channel[x])))
              /\ UNCHANGED <<open, pending_subscription_reports>>
           \/ /\ status # "SUCCESS"
              /\ pending_subscription_reports' =
                    IF status = "INVALID_SUBSCRIPTION"
                    THEN pending_subscription_reports \ {x}
                    ELSE pending_subscription_reports
              /\ Close(x)
              /\ UNCHANGED channel
    /\ UNCHANGED <<loop, timing>>

ReadRequest ==
    /\ Starts("read")
    /\ LET x == Started.exchange
       IN  /\ SetChannel(x, Report(channel[x], Started.message.reports, TRUE, <<>>))
           /\ Close(x)
    /\ UNCHANGED <<pending_subscription_reports, loop, timing>>

SubscribeRequest ==
    /\ Starts("subscribe")
    /\ LET x == Started.exchange
           m == Started.message
           n == Len(channel[x].read) + 1
           answer == [PlainPart(channel[x], "subscribed") EXCEPT !.conversation = n]
       IN  \/ /\ m.readable
              /\ SetChannel(x, Report(channel[x], m.reports, FALSE, <<answer>>))
              /\ UNCHANGED open
           \/ /\ ~m.readable
              /\ SetChannel(x, Report(channel[x], m.reports, FALSE, <<>>))
              /\ Close(x)
    /\ UNCHANGED <<pending_subscription_reports, loop, timing>>

(* Subscription.report, on an exchange whose id comes around                   *)
SubscriptionReport(x, reports) ==
    /\ loop = Idle
    /\ inputs < MaxInputs /\ inputs' = inputs + 1
    /\ SetChannel(x, Report(channel[x], reports, reports = <<>>, <<>>))
    /\ open' = open \cup {x}
    /\ pending_subscription_reports' =
          IF reports = <<>> THEN pending_subscription_reports
                            ELSE pending_subscription_reports \cup {x}
    /\ UNCHANGED <<inbox, loop, timing>>
-----------------------------------------------------------------------------
(* Write and invoke requests, and handle_timed_interaction.                    *)
Goto(at) == loop' = [loop EXCEPT !.at = at]
Ends == loop' = Idle
At(at) == loop.at = at /\ UNCHANGED <<inbox, inputs>>

Respond(x, kind) == SetChannel(x, Send(channel[x], PlainPart(channel[x], kind)))

Refuse ==
    /\ Respond(loop.exchange, "status")
    /\ Ends
    /\ UNCHANGED <<open, pending_subscription_reports>>

(* a chunked write, not implemented, and an item that raises end it before the *)
(* response and the close                                                     *)
Perform ==
    /\ \/ /\ IF loop.message.response THEN Respond(loop.exchange, "response")
                                      ELSE UNCHANGED channel
          /\ Close(loop.exchange)
       \/ UNCHANGED <<channel, open>>
    /\ Ends
    /\ UNCHANGED pending_subscription_reports

ActRequest ==
    /\ \/ /\ Starts("malformed act")
          /\ UNCHANGED loop
       \/ /\ Starts("act")
          /\ loop' = [at |-> "expired", exchange |-> Started.exchange,
                      message |-> Started.message]
    /\ LET x == Started.exchange
       IN  SetChannel(x, ReleaseNext(Answered(channel[x])))
    /\ UNCHANGED <<open, pending_subscription_reports, timing>>

LookForExpired ==
    /\ At("expired")
    /\ \/ loop.exchange \in expired_timeouts /\ Refuse
       \/ loop.exchange \notin expired_timeouts /\ Goto("entry") /\ UNCHANGED flow
    /\ UNCHANGED timing

LookForEntry ==
    /\ At("entry")
    /\ LET found == timed_requests[loop.exchange] # 0
       IN  \/ /\ found /\ loop.message.timed_request
              /\ Goto("cancel") /\ UNCHANGED flow
           \/ found # loop.message.timed_request /\ Refuse
           \/ ~found /\ ~loop.message.timed_request /\ Perform
    /\ UNCHANGED timing

(* both accesses raise KeyError when the callback was first                    *)
EntryGone_Unnoticed(x) == FALSE
EntryGone(x) == timed_requests[x] = 0

CancelTimer ==
    /\ At("cancel")
    /\ \/ /\ timed_requests[loop.exchange] = 0
          /\ Ends
          /\ UNCHANGED <<flow, timing>>
       \/ LET t == timed_requests[loop.exchange]
          IN  /\ t # 0
              /\ timer' = [timer EXCEPT ![t].at =
                              IF @ = "armed" THEN "cancelled" ELSE @]
              /\ Goto("delete")
              /\ UNCHANGED <<flow, timed_requests, expired_timeouts, entries>>

DeleteEntry ==
    /\ At("delete")
    /\ LET x == loop.exchange
       IN  IF EntryGone(x)
           THEN Ends /\ UNCHANGED <<flow, timing>>
           ELSE /\ timed_requests' = [timed_requests EXCEPT ![x] = 0]
                /\ entries' = [entries EXCEPT ![x].admitted = @ + 1]
                /\ Perform
                /\ UNCHANGED <<expired_timeouts, timer>>

(* timed_request: it goes on after a mismatch                                  *)
TimedRequest ==
    /\ Starts("timed")
    /\ loop' = [at |-> "known", exchange |-> Started.exchange,
                message |-> Started.message]
    /\ UNCHANGED <<flow, timing>>

Mismatch ==
    /\ Respond(loop.exchange, "status")
    /\ Goto("arm")
    /\ UNCHANGED <<open, pending_subscription_reports>>

LookIfKnown ==
    /\ At("known")
    /\ \/ timed_requests[loop.exchange] # 0 /\ Mismatch
       \/ timed_requests[loop.exchange] = 0 /\ Goto("lapsed") /\ UNCHANGED flow
    /\ UNCHANGED timing

LookIfLapsed ==
    /\ At("lapsed")
    /\ \/ loop.exchange \in expired_timeouts /\ Mismatch
       \/ loop.exchange \notin expired_timeouts /\ Goto("arm") /\ UNCHANGED flow
    /\ UNCHANGED timing

ArmTimer ==
    /\ At("arm")
    /\ LET x == loop.exchange
       IN  /\ timer' = Append(timer, [exchange |-> x, at |-> "armed"])
           /\ timed_requests' = [timed_requests EXCEPT ![x] = Len(timer) + 1]
           /\ entries' = [entries EXCEPT ![x].made = @ + 1]
           /\ Respond(x, "status")
    /\ Ends
    /\ UNCHANGED <<open, pending_subscription_reports, expired_timeouts>>
-----------------------------------------------------------------------------
(* The threads.  cancel() in timed_request is the callback.                    *)
Thread(t, before, after) ==
    /\ timer[t].at = before
    /\ timer' = [timer EXCEPT ![t].at = after]
    /\ UNCHANGED <<flow, inbox, inputs, loop>>

Elapse(t) ==
    /\ Thread(t, "armed", "due")
    /\ UNCHANGED <<timed_requests, expired_timeouts, entries>>

CallbackDeletes(t) ==
    LET x == timer[t].exchange
    IN  \/ /\ timed_requests[x] # 0
           /\ Thread(t, "due", "deleted")
           /\ timed_requests' = [timed_requests EXCEPT ![x] = 0]
           /\ entries' = [entries EXCEPT ![x].lapsed = @ + 1]
           /\ UNCHANGED expired_timeouts
        \/ /\ timed_requests[x] = 0     (* KeyError                           *)
           /\ Thread(t, "due", "ended")
           /\ UNCHANGED <<timed_requests, expired_timeouts, entries>>

CallbackAdds(t) ==
    /\ Thread(t, "deleted", "ended")
    /\ expired_timeouts' = expired_timeouts \cup {timer[t].exchange}
    /\ UNCHANGED <<timed_requests, entries>>
-----------------------------------------------------------------------------
NewChannel == [in_flight |-> FALSE, pending |-> <<>>, asked |-> <<>>,
               sent |-> <<>>, answered |-> 0, read |-> <<>>]

Init ==
    /\ channel = [x \in Exchange |-> NewChannel]
    /\ open = {}
    /\ pending_subscription_reports = {}
    /\ inbox = <<>> /\ inputs = 0
    /\ loop = Idle
    /\ timed_requests = [x \in PeerExchange |-> 0]
    /\ expired_timeouts = {}
    /\ timer = <<>>
    /\ entries = [x \in PeerExchange |-> [made |-> 0, admitted |-> 0, lapsed |-> 0]]

Next ==
    \/ \E x \in Exchange, m \in Request \cup Answer : Receive(x, m)
    \/ StatusResponse
    \/ ReadRequest
    \/ SubscribeRequest
    \/ \E x \in DeviceExchange, r \in Reports : SubscriptionReport(x, r)
    \/ ActRequest
    \/ LookForExpired
    \/ LookForEntry
    \/ CancelTimer
    \/ DeleteEntry
    \/ TimedRequest
    \/ LookIfKnown
    \/ LookIfLapsed
    \/ ArmTimer
    \/ \E t \in DOMAIN timer : Elapse(t)
    \/ \E t \in DOMAIN timer : CallbackDeletes(t)
    \/ \E t \in DOMAIN timer : CallbackAdds(t)

Spec == Init /\ [][Next]_vars
-----------------------------------------------------------------------------
(* What is sent on an exchange is what was handed to send_message, in that     *)
(* order and without a gap, whatever is answered, abandoned or asked again on  *)
(* an exchange of the same id; the rest is pending.                            *)
PartsInOrder ==
    \A x \in Exchange :
        channel[x].sent \o channel[x].pending = channel[x].asked

(* At most one part is unanswered, and on an exchange of the peer nothing is   *)
(* pending unless one is: an answer never fails to bring the next part.  (On   *)
(* the device's own exchanges it does: a report's SUCCESS closes instead.)     *)
StopAndWait ==
    \A x \in Exchange :
        LET unanswered == Len(channel[x].sent) - channel[x].answered
        IN  /\ unanswered <= 1
            /\ x \in PeerExchange /\ channel[x].pending # <<>> => unanswered = 1

(* The reports of a conversation are handed over in parts that follow one      *)
(* another and together hold them, each once and in order.  Each part but the  *)
(* last says that more come and asks for an answer; the last says so only if    *)
(* its reports fill it, and then wrongly.                                      *)
OfReport(p, n) == p.kind = "report" /\ p.conversation = n

IsWhole(c, n) ==
    \E first, last \in DOMAIN c.asked :
        /\ \A i \in DOMAIN c.asked : OfReport(c.asked[i], n) <=> i \in first .. last
        /\ FlattenSeq([i \in 1 .. last - first + 1 |-> c.asked[first + i - 1].reports])
              = c.read[n]
        /\ \A i \in first .. last - 1 :
              /\ c.asked[i].more_chunked_messages
              /\ ~c.asked[i].suppress_response
        /\ first <= last
        /\ c.asked[last].more_chunked_messages <=> Full(c.asked[last].reports)

ReportsAreWhole ==
    \A x \in Exchange : \A n \in DOMAIN channel[x].read : IsWhole(channel[x], n)

(* An entry of _timed_requests is used up at most once: it admits one timed    *)
(* interaction or it lapses, also when the thread of its timer and the handler *)
(* delete it at the same time.                                                 *)
EntriesUsedOnce ==
    \A x \in PeerExchange :
        entries[x].admitted + entries[x].lapsed <= entries[x].made
=============================================================================
