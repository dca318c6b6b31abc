---------------------------- MODULE Subscriptions ----------------------------
(***************************************************************************)
(* The subscriptions of interaction_model.py: the table, the timer of each     *)
(* subscription and the reports it sends.  A change is noted at once, and a    *)
(* task of its own decides whether to report now or to bring the timer        *)
(* forward.  Time is in seconds and passes while no task is ready: a handler   *)
(* takes no time, and a send finds room in the socket, so report runs from     *)
(* the end of its sleep to the start of the next without waiting.              *)
(*                                                                             *)
(* A Subscription object outlives its entry in the table: its timer or a task  *)
(* may hold it.                                                                *)
(***************************************************************************)
EXTENDS Integers

CONSTANTS
    FabricIndex, NodeId,
    Attribute, Event,
    Request,            (* what is asked for in a subscription                *)
    MaxSid,             (* 0xFFFFFFFF: the largest subscription id            *)
    Object,             (* bound: Subscription objects alive at once          *)
    MaxTasks,           (* bound: tasks of one kind ready for a subscription  *)
    None

Sid == 1 .. MaxSid
SubscriberKey == [local_fabric_index : FabricIndex, node_id : NodeId]

VARIABLES
    subscription,       (* the Subscription objects                           *)
    subscriptions,      (* self._subscriptions                                *)
    pending_subscription_reports,   (* the ids in it                          *)
    tasks               (* tasks that have not started: report_now (None), or  *)
                        (* new_event                                           *)

vars == <<subscription, subscriptions, pending_subscription_reports, tasks>>

(* timer: seconds left; since: seconds since last_report.  History: waiting,  *)
(* seconds since the first change nobody was told of; left, why the object is  *)
(* not in the table, and whether a task ran after it was cancelled.            *)
Subscription ==
    [id : Sid, subscriber : SubscriberKey, request : Request,
     timer : Nat \cup {None}, since : Nat, pending_report : BOOLEAN,
     changed : SUBSET Attribute, events : SUBSET Event,
     waiting : Nat \cup {None},
     left : {None, "failed", "replaced", "cancelled", "revived"}]

ASSUME SubscriptionsAssumption ==
    /\ Request \subseteq [attributes : SUBSET Attribute, events : SUBSET Event,
                          urgent : SUBSET Event, min : Nat, max : Nat]
    /\ MaxSid \in Nat
    /\ MaxTasks \in Nat
    /\ None \notin Event /\ None \notin Object /\ None \notin Nat
    /\ None \notin {"failed", "replaced", "cancelled", "revived"}
    /\ None \notin Subscription

TypeOK ==
    /\ subscription \in [Object -> Subscription \cup {None}]
    /\ subscriptions \in [Sid -> Object \cup {None}]
    /\ pending_subscription_reports \subseteq Sid
    /\ tasks \in [Object -> [Event \cup {None} -> Nat]]
-----------------------------------------------------------------------------
(* Objects and the table.                                                      *)
Later(a, b) == IF a >= b THEN a ELSE b

Alive == {o \in Object : subscription[o] # None}
Listed == {o \in Object : \E s \in Sid : subscriptions[s] = o}
OwnerOf(s) == subscription[subscriptions[s]].subscriber

FirstDelay(q) == Later(q.min, q.max \div 2)
NextDelay(q) == Later(q.min, q.max - 5)

New(s, f, q) ==
    [id |-> s, subscriber |-> f, request |-> q,
     timer |-> FirstDelay(q), since |-> 0, pending_report |-> FALSE,
     changed |-> {}, events |-> {},
     waiting |-> None, left |-> None]

(* allocate_subscription_id: the lowest id that is free                        *)
AllocateSid(table) ==
    {s \in Sid : /\ table[s] = None
                 /\ \A t \in Sid : table[t] = None => s <= t}

(* an object without entry, timer and task is garbage                          *)
Update(objects, table, ts) ==
    /\ subscription' =
          [o \in Object |->
             IF /\ objects[o] # None
                /\ \/ \E s \in Sid : table[s] = o
                   \/ objects[o].timer # None
                   \/ \E e \in Event \cup {None} : ts[o][e] > 0
             THEN objects[o] ELSE None]
    /\ subscriptions' = table
    /\ tasks' = ts

(* the entries of S leave the table                                            *)
Without(S) == [s \in Sid |-> IF s \in S THEN None ELSE subscriptions[s]]
EntriesOf(f) == {s \in Sid : subscriptions[s] # None /\ OwnerOf(s) = f}
EntriesOfFabric(i) ==
    {s \in Sid : subscriptions[s] # None /\ OwnerOf(s).local_fabric_index = i}
-----------------------------------------------------------------------------
(* Reports.  r is a Subscription.                                              *)
IsNews(r) == r.changed # {} \/ r.events # {}

Reported_NoTimer(r) ==
    [r EXCEPT !.timer = None, !.since = 0, !.pending_report = FALSE,
              !.changed = {}, !.events = {}, !.waiting = None]
Reported_StaysPending(r) ==
    [r EXCEPT !.timer = NextDelay(r.request), !.since = 0,
              !.changed = {}, !.events = {}, !.waiting = None]
Reported(r) ==
    [r EXCEPT !.timer = NextDelay(r.request), !.since = 0,
              !.pending_report = FALSE,
              !.changed = {}, !.events = {}, !.waiting = None]

MustWait(r) == r.since < r.request.min

Postponed(r) ==
    [r EXCEPT !.timer = r.request.min - r.since, !.pending_report = TRUE]

ReportNow_AtOnce(r) == IF r.pending_report THEN r ELSE Reported(r)
ReportNow(r) ==
    IF r.pending_report THEN r
    ELSE IF MustWait(r) THEN Postponed(r) ELSE Reported(r)

(* a report with news asks for an answer                                       *)
AwaitAnswer(r) ==
    pending_subscription_reports' =
        pending_subscription_reports \cup (IF IsNews(r) THEN {r.id} ELSE {})

Since(waiting) == IF waiting = None THEN 0 ELSE waiting

NotedAttributes(r, A) ==
    [r EXCEPT !.changed = @ \cup (A \cap r.request.attributes),
              !.waiting = Since(@)]
NotedEvent(r, e) == [r EXCEPT !.events = @ \cup {e}]

(* attributes_changed, for the entries of table                                *)
Interested(o, A, table) ==
    /\ \E s \in Sid : table[s] = o
    /\ subscription[o].request.attributes \cap A # {}

AfterChange(A, objects, table) ==
    Update([o \in Object |-> IF Interested(o, A, table)
                             THEN NotedAttributes(objects[o], A) ELSE objects[o]],
           table,
           [o \in Object |-> IF Interested(o, A, table)
                             THEN [tasks[o] EXCEPT ![None] = @ + 1]
                             ELSE tasks[o]])
-----------------------------------------------------------------------------
(* subscribe_request: it replaces the subscriptions of the same subscriber but  *)
(* does not cancel their timers; and the timer of the new one runs even if it   *)
(* is not entered because a path could not be read                             *)
Subscribe(f, q, keep_subscriptions, successfully_read) ==
    LET replaced == IF keep_subscriptions THEN {} ELSE EntriesOf(f)
        table == Without(replaced)
        others == [o \in Object |->
                     IF \E t \in replaced : subscriptions[t] = o
                     THEN [subscription[o] EXCEPT !.left = "replaced"]
                     ELSE subscription[o]]
    IN  \E s \in AllocateSid(table), o \in Object \ Alive :
           IF successfully_read
           THEN Update([others EXCEPT ![o] = New(s, f, q)],
                       [table EXCEPT ![s] = o], tasks)
           ELSE Update([others EXCEPT ![o] = [New(s, f, q) EXCEPT !.left = "failed"]],
                       table, tasks)

(* attributes_changed, called by a handler                                     *)
AttributesChanged(A) ==
    /\ \A o \in Listed : tasks[o][None] < MaxTasks
    /\ AfterChange(A, subscription, subscriptions)

ReportEvent(e) ==
    /\ \A o \in Listed : tasks[o][e] < MaxTasks
    /\ LET told == {o \in Listed : e \in subscription[o].request.events}
       IN  Update([o \in Object |->
                     IF o \in told /\ e \in subscription[o].request.urgent
                     THEN [subscription[o] EXCEPT !.waiting = Since(@)]
                     ELSE subscription[o]],
                  subscriptions,
                  [o \in Object |-> IF o \in told
                                    THEN [tasks[o] EXCEPT ![e] = @ + 1]
                                    ELSE tasks[o]])

(* a report_now task, or a new_event task, starts                              *)
RunTask(o, e) ==
    LET r == subscription[o]
        noted == IF e = None THEN r ELSE NotedEvent(r, e)
        next == IF e = None \/ e \in r.request.urgent THEN ReportNow(noted)
                                                      ELSE noted
    IN  /\ o \in Alive
        /\ tasks[o][e] > 0
        /\ Update([subscription EXCEPT ![o] =
                     [next EXCEPT !.left = IF @ = "cancelled" THEN "revived"
                                                              ELSE @]],
                  subscriptions,
                  [tasks EXCEPT ![o][e] = @ - 1])
        /\ IF (e = None \/ e \in r.request.urgent)
              /\ ~noted.pending_report /\ ~MustWait(noted)
           THEN AwaitAnswer(noted)
           ELSE UNCHANGED pending_subscription_reports

(* the sleep of report ends                                                    *)
TimerDue(o) ==
    /\ o \in Alive
    /\ subscription[o].timer = 0
    /\ Update([subscription EXCEPT ![o] = Reported(@)], subscriptions, tasks)
    /\ AwaitAnswer(subscription[o])

Cancelled_KeepsTimer(r) == [r EXCEPT !.left = "cancelled"]
Cancelled(r) == [r EXCEPT !.timer = None, !.left = "cancelled"]

CancelledAll(S) ==
    [o \in Object |-> IF \E s \in S : subscriptions[s] = o
                      THEN Cancelled(subscription[o]) ELSE subscription[o]]

(* handle_remove_fabric: its subscriptions are cancelled, then its attributes   *)
(* change                                                                      *)
RemoveFabric(i, A) ==
    /\ \A o \in Listed : tasks[o][None] < MaxTasks
    /\ AfterChange(A, CancelledAll(EntriesOfFabric(i)), Without(EntriesOfFabric(i)))

(* status_response with INVALID_SUBSCRIPTION to a report of subscription s.  The *)
(* exchange of that report leaves pending_subscription_reports; of a success it  *)
(* stays for ever.  The entry that is removed is the one that has the id by now. *)
AnswerInvalid(s) ==
    /\ s \in pending_subscription_reports
    /\ pending_subscription_reports' \in
          {pending_subscription_reports, pending_subscription_reports \ {s}}
    /\ IF subscriptions[s] # None
       THEN Update(CancelledAll({s}), Without({s}), tasks)
       ELSE UNCHANGED <<subscription, subscriptions, tasks>>

(* a second passes: everybody is asleep                                        *)
Tick ==
    /\ \A o \in Alive : /\ subscription[o].timer # 0
                        /\ \A e \in Event \cup {None} : tasks[o][e] = 0
    /\ subscription' =
          [o \in Object |->
             IF o \notin Alive THEN None
             ELSE [subscription[o] EXCEPT
                     !.timer = IF @ = None THEN None ELSE @ - 1,
                     !.since = @ + 1,
                     !.waiting = IF @ = None THEN None ELSE @ + 1]]
    /\ UNCHANGED <<subscriptions, pending_subscription_reports, tasks>>
-----------------------------------------------------------------------------
Init ==
    /\ subscription = [o \in Object |-> None]
    /\ subscriptions = [s \in Sid |-> None]
    /\ pending_subscription_reports = {}
    /\ tasks = [o \in Object |-> [e \in Event \cup {None} |-> 0]]

Handle ==
    \/ /\ \/ \E f \in SubscriberKey, q \in Request, keep, ok \in BOOLEAN :
                Subscribe(f, q, keep, ok)
          \/ \E A \in SUBSET Attribute :
                AttributesChanged(A) \/ \E i \in FabricIndex : RemoveFabric(i, A)
          \/ \E e \in Event : ReportEvent(e)
       /\ UNCHANGED pending_subscription_reports
    \/ \E s \in Sid : AnswerInvalid(s)

Run ==
    \E o \in Object :
       \/ TimerDue(o)
       \/ \E e \in Event \cup {None} : RunTask(o, e)

Next == Handle \/ Run \/ Tick

Spec == Init /\ [][Next]_vars
-----------------------------------------------------------------------------
(* A change of an attribute, or an urgent event, is reported within the        *)
(* minimum interval of the subscription, however reports, timers and further    *)
(* changes fall together.                                                      *)
ReportedInTime ==
    \A o \in Listed :
        subscription[o].waiting # None
            => subscription[o].waiting <= subscription[o].request.min

(* A subscription in the table reports at least as often as it promised: its    *)
(* timer is never lost.                                                        *)
KeepsAlive ==
    \A o \in Listed :
        LET r == subscription[o]
        IN  r.since <= Later(r.request.min, r.request.max)

(* Two reports of one subscription are at least the minimum interval apart,     *)
(* whichever task sends them.                                                  *)
ReportsPaced ==
    [][\A o \in Object :
          /\ o \in Alive /\ o \in Alive'
          /\ \/ subscription'[o].since < subscription[o].since
             \/ IsNews(subscription[o]) /\ ~IsNews(subscription'[o])
          => subscription[o].since >= subscription[o].request.min]_vars

(* Only three ways leave a timer nobody can cancel any more: a subscription     *)
(* that was replaced, one that was never entered, and a report_now that was     *)
(* under way when its subscription was cancelled.  No other loses its entry     *)
(* while it goes on reporting.                                                 *)
StrayTimersAreKnown ==
    \A o \in Alive \ Listed :
        subscription[o].timer # None
            => subscription[o].left \in {"failed", "replaced", "revived"}
=============================================================================
