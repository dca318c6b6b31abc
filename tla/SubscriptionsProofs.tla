------------------------- MODULE SubscriptionsProofs -------------------------
(* The timing of reports, for any number of subscribers and subscriptions and   *)
(* any intervals.  The timer of a subscription always falls due between its      *)
(* minimum interval and the longest it promised, counted from the last report;   *)
(* while a report is pending it falls due exactly at the minimum; and a change   *)
(* nobody was told of has either a pending report or a task ready that sees to   *)
(* it before any time passes.                                                   *)
EXTENDS Subscriptions, TLAPS

Promised(q) == Later(q.min, q.max)
TaskCounts == [Event \cup {None} -> Nat]

IsNow(r, e) == e = None \/ e \in r.request.urgent
Ready(r, ts) == \E e \in Event \cup {None} : IsNow(r, e) /\ ts[e] > 0

TimerOnTime(r) ==
    r.timer # None =>
        /\ r.request.min <= r.since + r.timer
        /\ r.since + r.timer <= Promised(r.request)
        /\ r.pending_report => r.since + r.timer = r.request.min

NewsSeenTo(r, ts) ==
    r.waiting # None =>
        /\ r.waiting <= r.since
        /\ r.pending_report \/ (r.waiting = 0 /\ Ready(r, ts))

IsIn(o, table) == \E s \in Sid : table[s] = o

TimerHasReason(r, listed) ==
    /\ listed => r.timer # None /\ r.left = None
    /\ ~listed => r.left # None
    /\ ~listed /\ r.timer # None => r.left # "cancelled"

Sound(r, ts, listed) ==
    /\ r \in Subscription
    /\ ts \in TaskCounts
    /\ TimerOnTime(r)
    /\ NewsSeenTo(r, ts)
    /\ TimerHasReason(r, listed)

State(objects, table, ts) ==
    /\ objects \in [Object -> Subscription \cup {None}]
    /\ table \in [Sid -> Object \cup {None}]
    /\ ts \in [Object -> TaskCounts]
    /\ \A s \in Sid : table[s] # None
          => objects[table[s]] # None /\ objects[table[s]].id = s
    /\ \A o \in Object : objects[o] # None
          => Sound(objects[o], ts[o], IsIn(o, table))

SubscriptionsInv == State(subscription, subscriptions, tasks)
-----------------------------------------------------------------------------
(* Collecting garbage takes away nothing anybody uses.                          *)
LEMMA UpdateKeeps ==
    ASSUME NEW objects, NEW table, NEW ts,
           State(objects, table, ts), Update(objects, table, ts)
    PROVE  SubscriptionsInv'
<1>1. /\ subscriptions' = table
      /\ tasks' = ts
      /\ subscription' \in [Object -> Subscription \cup {None}]
      /\ \A o \in Object : subscription'[o] \in {objects[o], None}
      /\ \A o \in Object : objects[o] # None /\ IsIn(o, table)
                              => subscription'[o] = objects[o]
  BY DEF Update, State, IsIn
<1>2. ASSUME NEW s \in Sid, table[s] # None
      PROVE  subscription'[table[s]] = objects[table[s]]
  <2>1. table[s] \in Object /\ objects[table[s]] # None /\ IsIn(table[s], table)
    BY <1>2 DEF State, IsIn
  <2> QED
    BY <1>1, <2>1
<1>3. ASSUME NEW o \in Object, subscription'[o] # None
      PROVE  Sound(subscription'[o], ts[o], IsIn(o, table))
  BY <1>1, <1>3 DEF State
<1> QED
  BY <1>1, <1>2, <1>3 DEF SubscriptionsInv, State

LEMMA DelaysInRange ==
    ASSUME NEW q \in Request
    PROVE  /\ q.min \in Nat /\ q.max \in Nat
           /\ FirstDelay(q) \in Nat /\ NextDelay(q) \in Nat
           /\ q.min <= FirstDelay(q) /\ FirstDelay(q) <= Promised(q)
           /\ q.min <= NextDelay(q) /\ NextDelay(q) <= Promised(q)
<1>1. q.min \in Nat /\ q.max \in Nat
  BY SubscriptionsAssumption
<1>2. q.max \div 2 \in Nat /\ q.max \div 2 <= q.max
  BY <1>1
<1> QED
  BY <1>1, <1>2 DEF FirstDelay, NextDelay, Promised, Later

(* What report leaves behind.                                                  *)
LEMMA ReportedIsSound ==
    ASSUME NEW r \in Subscription, NEW ts \in TaskCounts
    PROVE  /\ Reported(r) \in Subscription
           /\ TimerOnTime(Reported(r))
           /\ NewsSeenTo(Reported(r), ts)
           /\ Reported(r).timer # None
           /\ Reported(r).left = r.left
           /\ Reported(r).id = r.id
           /\ Reported(r).request = r.request
<1>1. r.request \in Request
  BY DEF Subscription
<1>2. NextDelay(r.request) \in Nat /\ NextDelay(r.request) # None
  BY <1>1, DelaysInRange, SubscriptionsAssumption
<1>3. /\ Reported(r) \in Subscription
      /\ Reported(r).timer = NextDelay(r.request)
      /\ Reported(r).since = 0
      /\ Reported(r).pending_report = FALSE
      /\ Reported(r).waiting = None
      /\ Reported(r).left = r.left
      /\ Reported(r).id = r.id
      /\ Reported(r).request = r.request
  BY <1>2 DEF Reported, Subscription
<1> QED
  BY <1>1, <1>2, <1>3, DelaysInRange DEF TimerOnTime, NewsSeenTo

(* report_now sees to all that waits.                                          *)
LEMMA ReportNowIsSound ==
    ASSUME NEW r \in Subscription, NEW ts \in TaskCounts, TimerOnTime(r),
           r.waiting # None => r.waiting <= r.since
    PROVE  /\ ReportNow(r) \in Subscription
           /\ TimerOnTime(ReportNow(r))
           /\ NewsSeenTo(ReportNow(r), ts)
           /\ r.timer # None => ReportNow(r).timer # None
           /\ ReportNow(r).left = r.left
           /\ ReportNow(r).id = r.id
           /\ ReportNow(r).request = r.request
<1>1. CASE r.pending_report
  BY <1>1 DEF ReportNow, NewsSeenTo
<1>2. CASE ~r.pending_report /\ MustWait(r)
  <2>1. /\ r.request.min \in Nat /\ r.since \in Nat /\ r.since < r.request.min
        /\ r.request.max \in Nat
    BY <1>2, DelaysInRange DEF MustWait, Subscription
  <2>2. r.request.min - r.since \in Nat /\ r.request.min - r.since # None
    BY <2>1, SubscriptionsAssumption
  <2>3. /\ ReportNow(r) \in Subscription
        /\ ReportNow(r).timer = r.request.min - r.since
        /\ ReportNow(r).since = r.since
        /\ ReportNow(r).pending_report = TRUE
        /\ ReportNow(r).waiting = r.waiting
        /\ ReportNow(r).left = r.left
        /\ ReportNow(r).id = r.id
        /\ ReportNow(r).request = r.request
    BY <1>2, <2>2 DEF ReportNow, Postponed, Subscription
  <2> QED
    BY <2>1, <2>2, <2>3 DEF TimerOnTime, NewsSeenTo, Promised, Later
<1>3. CASE ~r.pending_report /\ ~MustWait(r)
  BY <1>3, ReportedIsSound DEF ReportNow
<1> QED
  BY <1>1, <1>2, <1>3
-----------------------------------------------------------------------------
(* A step that changes some objects and enters nothing keeps the state sound if *)
(* it keeps each object sound.                                                  *)
LEMMA ObjectByObject ==
    ASSUME NEW before, NEW entries, NEW due, State(before, entries, due),
           NEW objects, NEW table, NEW ts,
           objects \in [Object -> Subscription \cup {None}],
           table \in [Sid -> Object \cup {None}],
           \A s \in Sid : table[s] \in {entries[s], None},
           ts \in [Object -> TaskCounts],
           \A o \in Object : before[o] # None => objects[o] # None,
           \A o \in Object : objects[o] # None
              => /\ before[o] # None
                 /\ objects[o].id = before[o].id
                 /\ Sound(objects[o], ts[o], IsIn(o, table))
    PROVE  State(objects, table, ts)
<1>1. ASSUME NEW s \in Sid, table[s] # None
      PROVE  objects[table[s]] # None /\ objects[table[s]].id = s
  BY <1>1 DEF State
<1> QED
  BY <1>1 DEF State

(* What is known of an object.                                                  *)
LEMMA ObjectIsSound ==
    ASSUME SubscriptionsInv, NEW o \in Object, subscription[o] # None
    PROVE  /\ subscription[o] \in Subscription
           /\ Sound(subscription[o], tasks[o], IsIn(o, subscriptions))
           /\ tasks[o] \in TaskCounts
           /\ subscription[o].request \in Request
<1>1. subscription[o] \in Subscription /\ tasks[o] \in TaskCounts
  BY DEF SubscriptionsInv, State
<1> QED
  BY <1>1 DEF SubscriptionsInv, State, Subscription

LEMMA RunTaskKeeps ==
    ASSUME SubscriptionsInv, NEW o \in Object, NEW e \in Event \cup {None},
           RunTask(o, e)
    PROVE  SubscriptionsInv'
<1> DEFINE r == subscription[o]
           noted == IF e = None THEN r ELSE NotedEvent(r, e)
           next == IF e = None \/ e \in r.request.urgent THEN ReportNow(noted)
                                                         ELSE noted
           last == [next EXCEPT !.left = IF @ = "cancelled" THEN "revived" ELSE @]
           ts == [tasks[o] EXCEPT ![e] = @ - 1]
<1>1. /\ r # None /\ r \in Subscription /\ tasks[o] \in TaskCounts
      /\ tasks[o][e] > 0
      /\ Sound(r, tasks[o], IsIn(o, subscriptions))
  BY ObjectIsSound DEF RunTask, Alive
<1>2. ts \in TaskCounts
  BY <1>1 DEF TaskCounts
<1>3. /\ noted \in Subscription
      /\ noted.timer = r.timer /\ noted.since = r.since
      /\ noted.pending_report = r.pending_report
      /\ noted.waiting = r.waiting /\ noted.left = r.left
      /\ noted.id = r.id /\ noted.request = r.request
  BY <1>1 DEF NotedEvent, Subscription
<1>4. /\ next \in Subscription
      /\ TimerOnTime(next)
      /\ NewsSeenTo(next, ts)
      /\ r.timer # None => next.timer # None
      /\ next.left = r.left /\ next.id = r.id /\ next.request = r.request
  <2>1. TimerOnTime(noted) /\ (noted.waiting # None => noted.waiting <= noted.since)
    BY <1>1, <1>3 DEF Sound, TimerOnTime, NewsSeenTo
  <2>2. CASE IsNow(r, e)
    <3>1. next = ReportNow(noted)
      BY <2>2 DEF IsNow
    <3> HIDE DEF noted, next, ts
    <3> QED
      BY <1>2, <1>3, <2>1, <3>1, ReportNowIsSound
  <2>3. CASE ~IsNow(r, e)
    <3>1. next = noted
      BY <2>3 DEF IsNow
    <3>2. Ready(r, tasks[o]) => Ready(r, ts)
      BY <1>1, <2>3 DEF Ready, TaskCounts
    <3>3. NewsSeenTo(noted, ts)
      BY <1>1, <1>3, <3>2 DEF Sound, NewsSeenTo, Ready, IsNow
    <3> QED
      BY <1>3, <2>1, <3>1, <3>3
  <2> QED
    BY <2>2, <2>3
<1>5. Sound(last, ts, IsIn(o, subscriptions)) /\ last.id = r.id
  <2> HIDE DEF next, ts
  <2>1. /\ last \in Subscription
        /\ last.timer = next.timer /\ last.since = next.since
        /\ last.pending_report = next.pending_report
        /\ last.waiting = next.waiting /\ last.request = next.request
        /\ last.id = next.id
        /\ last.left = IF next.left = "cancelled" THEN "revived" ELSE next.left
    BY <1>4 DEF Subscription
  <2>2. TimerOnTime(last) /\ NewsSeenTo(last, ts)
    BY <1>4, <2>1 DEF TimerOnTime, NewsSeenTo, Ready, IsNow
  <2>3. TimerHasReason(last, IsIn(o, subscriptions))
    BY <1>1, <1>4, <2>1, SubscriptionsAssumption DEF Sound, TimerHasReason
  <2> QED
    BY <1>2, <1>4, <2>1, <2>2, <2>3 DEF Sound
<1> DEFINE objects == [subscription EXCEPT ![o] = last]
           allTasks == [tasks EXCEPT ![o] = ts]
<1>6. Update(objects, subscriptions, allTasks)
  <2>1. allTasks = [tasks EXCEPT ![o][e] = @ - 1]
    OBVIOUS
  <2> QED
    BY <2>1 DEF RunTask
<1>7. State(objects, subscriptions, allTasks)
  <2> HIDE DEF last, ts
  <2>1. subscription \in [Object -> Subscription \cup {None}]
        /\ subscriptions \in [Sid -> Object \cup {None}]
        /\ tasks \in [Object -> TaskCounts]
    BY DEF SubscriptionsInv, State
  <2>2. last \in Subscription /\ last # None
    BY <1>5, SubscriptionsAssumption DEF Sound
  <2>3. objects \in [Object -> Subscription \cup {None}]
        /\ allTasks \in [Object -> TaskCounts]
    BY <1>2, <2>1, <2>2
  <2>4. \A p \in Object \ {o} :
           objects[p] = subscription[p] /\ allTasks[p] = tasks[p]
    BY <2>1
  <2>5. objects[o] = last /\ allTasks[o] = ts
    BY <2>1
  <2> HIDE DEF objects, allTasks
  <2>6. ASSUME NEW p \in Object, objects[p] # None
        PROVE  /\ subscription[p] # None
               /\ objects[p].id = subscription[p].id
               /\ Sound(objects[p], allTasks[p], IsIn(p, subscriptions))
    BY <1>1, <1>5, <2>4, <2>5, <2>6, ObjectIsSound
  <2>7. \A p \in Object : subscription[p] # None => objects[p] # None
    BY <2>2, <2>4, <2>5
  <2> QED
    BY <2>1, <2>3, <2>6, <2>7, ObjectByObject DEF SubscriptionsInv
<1> QED
  BY <1>6, <1>7, UpdateKeeps

LEMMA TimerDueKeeps ==
    ASSUME SubscriptionsInv, NEW o \in Object, TimerDue(o)
    PROVE  SubscriptionsInv'
<1> DEFINE r == subscription[o]
           objects == [subscription EXCEPT ![o] = Reported(r)]
<1>1. /\ r # None /\ r.timer = 0 /\ r \in Subscription /\ tasks[o] \in TaskCounts
      /\ Sound(r, tasks[o], IsIn(o, subscriptions))
  BY ObjectIsSound DEF TimerDue, Alive
<1>2. /\ Sound(Reported(r), tasks[o], IsIn(o, subscriptions))
      /\ Reported(r).id = r.id
  BY <1>1, ReportedIsSound, SubscriptionsAssumption DEF Sound, TimerHasReason
<1>3. Update(objects, subscriptions, tasks)
  BY DEF TimerDue
<1>4. State(objects, subscriptions, tasks)
  <2>1. /\ subscription \in [Object -> Subscription \cup {None}]
        /\ subscriptions \in [Sid -> Object \cup {None}]
        /\ tasks \in [Object -> TaskCounts]
    BY DEF SubscriptionsInv, State
  <2>2. Reported(r) \in Subscription /\ Reported(r) # None
    BY <1>2, SubscriptionsAssumption DEF Sound
  <2>3. objects \in [Object -> Subscription \cup {None}]
    BY <2>1, <2>2
  <2>4. \A p \in Object \ {o} : objects[p] = subscription[p]
    BY <2>1
  <2>5. objects[o] = Reported(r)
    BY <2>1
  <2> HIDE DEF objects
  <2>6. ASSUME NEW p \in Object, objects[p] # None
        PROVE  /\ subscription[p] # None
               /\ objects[p].id = subscription[p].id
               /\ Sound(objects[p], tasks[p], IsIn(p, subscriptions))
    BY <1>1, <1>2, <2>4, <2>5, <2>6, ObjectIsSound
  <2>7. \A p \in Object : subscription[p] # None => objects[p] # None
    BY <2>2, <2>4, <2>5
  <2> QED
    BY <2>1, <2>3, <2>6, <2>7, ObjectByObject DEF SubscriptionsInv
<1> QED
  BY <1>3, <1>4, UpdateKeeps

(* Entries that leave the table with their timers cancelled.                     *)
LEMMA CancelKeeps ==
    ASSUME SubscriptionsInv, NEW S \in SUBSET Sid
    PROVE  State(CancelledAll(S), Without(S), tasks)
<1> DEFINE objects == CancelledAll(S)
           table == Without(S)
<1>1. /\ subscription \in [Object -> Subscription \cup {None}]
      /\ subscriptions \in [Sid -> Object \cup {None}]
      /\ tasks \in [Object -> TaskCounts]
  BY DEF SubscriptionsInv, State
<1>2. /\ table \in [Sid -> Object \cup {None}]
      /\ \A s \in Sid : table[s] \in {subscriptions[s], None}
      /\ \A s \in S : table[s] = None
  BY <1>1 DEF Without
<1>3. ASSUME NEW o \in Object, NEW s \in S, subscriptions[s] = o
      PROVE  /\ subscription[o] # None /\ ~IsIn(o, table)
             /\ objects[o] = Cancelled(subscription[o])
             /\ objects[o] \in Subscription
             /\ objects[o].id = subscription[o].id
             /\ Sound(objects[o], tasks[o], IsIn(o, table))
  <2>1. subscription[o] # None /\ subscription[o].id = s
    BY <1>3, SubscriptionsAssumption DEF SubscriptionsInv, State
  <2>2. ~IsIn(o, table)
    BY <1>2, <2>1, SubscriptionsAssumption DEF IsIn, SubscriptionsInv, State
  <2>3. objects[o] = Cancelled(subscription[o])
    BY <1>3 DEF CancelledAll
  <2>4. /\ subscription[o] \in Subscription
        /\ Sound(subscription[o], tasks[o], IsIn(o, subscriptions))
    BY <2>1, ObjectIsSound
  <2>5. /\ Cancelled(subscription[o]) \in Subscription
        /\ Cancelled(subscription[o]).timer = None
        /\ Cancelled(subscription[o]).left = "cancelled"
        /\ Cancelled(subscription[o]).id = subscription[o].id
        /\ Cancelled(subscription[o]).request = subscription[o].request
        /\ Cancelled(subscription[o]).waiting = subscription[o].waiting
        /\ Cancelled(subscription[o]).since = subscription[o].since
        /\ Cancelled(subscription[o]).pending_report
              = subscription[o].pending_report
    BY <2>4 DEF Cancelled, Subscription
  <2>6. Sound(Cancelled(subscription[o]), tasks[o], FALSE)
    BY <2>4, <2>5, SubscriptionsAssumption
    DEF Sound, TimerOnTime, NewsSeenTo, Ready, IsNow, TimerHasReason
  <2> QED
    BY <2>1, <2>2, <2>3, <2>5, <2>6 DEF Sound, TimerHasReason
<1>4. ASSUME NEW o \in Object, \A s \in S : subscriptions[s] # o
      PROVE  /\ objects[o] = subscription[o]
             /\ IsIn(o, table) <=> IsIn(o, subscriptions)
  BY <1>1, <1>2, <1>4, SubscriptionsAssumption DEF CancelledAll, Without, IsIn
<1>5. objects \in [Object -> Subscription \cup {None}]
  <2>1. \A o \in Object : objects[o] \in Subscription \cup {None}
    BY <1>1, <1>3, <1>4
  <2> QED
    BY <2>1 DEF CancelledAll
<1>6. ASSUME NEW o \in Object, objects[o] # None
      PROVE  /\ subscription[o] # None
             /\ objects[o].id = subscription[o].id
             /\ Sound(objects[o], tasks[o], IsIn(o, table))
  <2> HIDE DEF objects, table
  <2>1. CASE \E s \in S : subscriptions[s] = o
    BY <1>3, <2>1
  <2>2. CASE \A s \in S : subscriptions[s] # o
    <3>1. objects[o] = subscription[o] /\ subscription[o] # None
      BY <1>4, <1>6, <2>2
    <3>2. Sound(subscription[o], tasks[o], IsIn(o, subscriptions))
      BY <3>1, ObjectIsSound
    <3> QED
      BY <1>4, <2>2, <3>1, <3>2 DEF Sound, TimerHasReason
  <2> QED
    BY <2>1, <2>2
<1>7. \A o \in Object : subscription[o] # None => objects[o] # None
  <2> HIDE DEF objects, table
  <2> QED
    BY <1>3, <1>4, SubscriptionsAssumption
<1> HIDE DEF objects, table
<1>8. State(objects, table, tasks)
  BY <1>1, <1>2, <1>5, <1>6, <1>7, ObjectByObject DEF SubscriptionsInv
<1> QED
  BY <1>8 DEF objects, table

LEMMA AnswerInvalidKeeps ==
    ASSUME SubscriptionsInv, NEW s \in Sid, AnswerInvalid(s)
    PROVE  SubscriptionsInv'
<1>1. CASE UNCHANGED <<subscription, subscriptions, tasks>>
  BY <1>1 DEF SubscriptionsInv
<1>2. CASE Update(CancelledAll({s}), Without({s}), tasks)
  BY <1>2, CancelKeeps, UpdateKeeps
<1> QED
  BY <1>1, <1>2 DEF AnswerInvalid

LEMMA OneMoreTask ==
    ASSUME NEW t \in TaskCounts, NEW e \in Event \cup {None}
    PROVE  /\ [t EXCEPT ![e] = @ + 1] \in TaskCounts
           /\ [t EXCEPT ![e] = @ + 1][e] > 0
           /\ \A d \in Event \cup {None} : t[d] > 0
                                             => [t EXCEPT ![e] = @ + 1][d] > 0
BY DEF TaskCounts

(* attributes_changed queues report_now for whoever has news.                    *)
LEMMA AfterChangeKeeps ==
    ASSUME NEW objects, NEW table, State(objects, table, tasks),
           NEW A \in SUBSET Attribute, AfterChange(A, objects, table)
    PROVE  SubscriptionsInv'
<1> DEFINE noted == [o \in Object |->
                        IF Interested(o, A, table)
                        THEN NotedAttributes(objects[o], A) ELSE objects[o]]
           ts == [o \in Object |-> IF Interested(o, A, table)
                                   THEN [tasks[o] EXCEPT ![None] = @ + 1]
                                   ELSE tasks[o]]
<1>1. Update(noted, table, ts)
  BY DEF AfterChange
<1>2. /\ objects \in [Object -> Subscription \cup {None}]
      /\ table \in [Sid -> Object \cup {None}]
      /\ tasks \in [Object -> TaskCounts]
  BY DEF State
<1>3. ts \in [Object -> TaskCounts]
  BY <1>2, OneMoreTask
<1>4. ASSUME NEW o \in Object, Interested(o, A, table)
      PROVE  /\ objects[o] # None
             /\ noted[o] = NotedAttributes(objects[o], A)
             /\ noted[o] \in Subscription
             /\ noted[o].id = objects[o].id
             /\ Sound(noted[o], ts[o], IsIn(o, table))
  <2> DEFINE r == objects[o]
             n == NotedAttributes(r, A)
  <2>1. r # None /\ r \in Subscription /\ Sound(r, tasks[o], IsIn(o, table))
    BY <1>2, <1>4, SubscriptionsAssumption DEF Interested, State
  <2>2. Since(r.waiting) \in Nat /\ Since(r.waiting) # None
    BY <2>1, SubscriptionsAssumption DEF Since, Subscription
  <2>3. /\ n \in Subscription
        /\ n.id = r.id /\ n.request = r.request /\ n.timer = r.timer
        /\ n.since = r.since /\ n.pending_report = r.pending_report
        /\ n.left = r.left
        /\ n.waiting = Since(r.waiting)
    <3>1. r.changed \cup (A \cap r.request.attributes) \in SUBSET Attribute
      BY <2>1 DEF Subscription
    <3> QED
      BY <2>1, <2>2, <3>1 DEF NotedAttributes, Subscription
  <2>4. noted[o] = n /\ ts[o] = [tasks[o] EXCEPT ![None] = @ + 1]
    BY <1>4
  <2>5. Ready(n, ts[o])
    <3>1. ts[o][None] = tasks[o][None] + 1 /\ tasks[o][None] \in Nat
      BY <1>2, <2>4 DEF TaskCounts
    <3> QED
      BY <3>1 DEF Ready, IsNow
  <2>6. NewsSeenTo(n, ts[o])
    BY <2>1, <2>3, <2>5, SubscriptionsAssumption
    DEF Sound, NewsSeenTo, Since, Subscription
  <2>7. TimerOnTime(n) /\ TimerHasReason(n, IsIn(o, table))
    BY <2>1, <2>3 DEF Sound, TimerOnTime, TimerHasReason
  <2>8. r = objects[o] /\ n = NotedAttributes(objects[o], A)
    OBVIOUS
  <2> HIDE DEF r, n, noted, ts
  <2>9. Sound(n, ts[o], IsIn(o, table))
    BY <1>3, <2>3, <2>6, <2>7 DEF Sound
  <2> QED
    BY <2>1, <2>3, <2>4, <2>8, <2>9
<1>5. ASSUME NEW o \in Object, ~Interested(o, A, table)
      PROVE  noted[o] = objects[o] /\ ts[o] = tasks[o]
  BY <1>5
<1>6. noted \in [Object -> Subscription \cup {None}]
  <2>1. \A o \in Object : noted[o] \in Subscription \cup {None}
    BY <1>2, <1>4, <1>5
  <2> QED
    BY <2>1
<1>7. ASSUME NEW o \in Object, noted[o] # None
      PROVE  /\ objects[o] # None
             /\ noted[o].id = objects[o].id
             /\ Sound(noted[o], ts[o], IsIn(o, table))
  <2> HIDE DEF noted, ts
  <2> QED
    BY <1>4, <1>5, <1>7 DEF State
<1>8. \A o \in Object : objects[o] # None => noted[o] # None
  <2> HIDE DEF noted, ts
  <2> QED
    BY <1>4, <1>5, SubscriptionsAssumption
<1> HIDE DEF noted, ts
<1>9. State(noted, table, ts)
  BY <1>2, <1>3, <1>6, <1>7, <1>8, ObjectByObject
<1> QED
  BY <1>1, <1>9, UpdateKeeps

LEMMA AttributesChangedKeeps ==
    ASSUME SubscriptionsInv, NEW A \in SUBSET Attribute, AttributesChanged(A)
    PROVE  SubscriptionsInv'
BY AfterChangeKeeps DEF AttributesChanged, SubscriptionsInv

LEMMA RemoveFabricKeeps ==
    ASSUME SubscriptionsInv, NEW i \in FabricIndex, NEW A \in SUBSET Attribute,
           RemoveFabric(i, A)
    PROVE  SubscriptionsInv'
<1>1. EntriesOfFabric(i) \in SUBSET Sid
  BY DEF EntriesOfFabric
<1>2. State(CancelledAll(EntriesOfFabric(i)), Without(EntriesOfFabric(i)), tasks)
  BY <1>1, CancelKeeps
<1> QED
  BY <1>2, AfterChangeKeeps DEF RemoveFabric

LEMMA ReportEventKeeps ==
    ASSUME SubscriptionsInv, NEW e \in Event, ReportEvent(e)
    PROVE  SubscriptionsInv'
<1> DEFINE told == {o \in Listed : e \in subscription[o].request.events}
           Urgent(o) == o \in told /\ e \in subscription[o].request.urgent
           marked == [o \in Object |->
                         IF Urgent(o)
                         THEN [subscription[o] EXCEPT !.waiting = Since(@)]
                         ELSE subscription[o]]
           ts == [o \in Object |-> IF o \in told
                                   THEN [tasks[o] EXCEPT ![e] = @ + 1]
                                   ELSE tasks[o]]
<1>1. Update(marked, subscriptions, ts)
  <2>1. marked = [o \in Object |->
                     IF o \in told /\ e \in subscription[o].request.urgent
                     THEN [subscription[o] EXCEPT !.waiting = Since(@)]
                     ELSE subscription[o]]
    OBVIOUS
  <2> QED
    BY <2>1 DEF ReportEvent
<1>2. /\ subscription \in [Object -> Subscription \cup {None}]
      /\ subscriptions \in [Sid -> Object \cup {None}]
      /\ tasks \in [Object -> TaskCounts]
  BY DEF SubscriptionsInv, State
<1>3. /\ ts \in [Object -> TaskCounts]
      /\ \A o \in Object : /\ ts[o] = tasks[o] \/ o \in told
                           /\ \A d \in Event \cup {None} :
                                 tasks[o][d] > 0 => ts[o][d] > 0
      /\ \A o \in told : ts[o][e] > 0
  <2>1. \A o \in Object : tasks[o] \in TaskCounts
    BY <1>2
  <2>2. told \subseteq Object
    BY DEF Listed
  <2>3. \A o \in Object :
           ts[o] = IF o \in told THEN [tasks[o] EXCEPT ![e] = @ + 1] ELSE tasks[o]
    OBVIOUS
  <2>4. ASSUME NEW o \in Object
        PROVE  /\ ts[o] \in TaskCounts
               /\ ts[o] = tasks[o] \/ o \in told
               /\ \A d \in Event \cup {None} : tasks[o][d] > 0 => ts[o][d] > 0
               /\ o \in told => ts[o][e] > 0
    <3>1. CASE o \in told
      <4>1. ts[o] = [tasks[o] EXCEPT ![e] = @ + 1]
        BY <3>1
      <4>2. tasks[o] \in TaskCounts /\ e \in Event \cup {None}
        BY <2>1
      <4> HIDE DEF told, ts
      <4> QED
        BY <3>1, <4>1, <4>2, OneMoreTask
    <3>2. CASE o \notin told
      BY <2>1, <3>2
    <3> QED
      BY <3>1, <3>2
  <2>5. ts \in [Object -> TaskCounts]
    BY <2>4
  <2> HIDE DEF told, ts
  <2> QED
    BY <2>2, <2>4, <2>5
<1>4. ASSUME NEW o \in Object, subscription[o] # None
      PROVE  /\ marked[o] \in Subscription
             /\ marked[o].id = subscription[o].id
             /\ Sound(marked[o], ts[o], IsIn(o, subscriptions))
  <2> DEFINE r == subscription[o]
  <2>1. r \in Subscription /\ Sound(r, tasks[o], IsIn(o, subscriptions))
    BY <1>4, ObjectIsSound
  <2>2. Ready(r, tasks[o]) => Ready(r, ts[o])
    BY <1>3 DEF Ready
  <2>3. CASE ~Urgent(o)
    <3>1. marked[o] = r
      BY <2>3
    <3>2. ts[o] \in TaskCounts
      BY <1>3
    <3>3. NewsSeenTo(r, ts[o])
      BY <2>1, <2>2 DEF Sound, NewsSeenTo
    <3> HIDE DEF marked, ts
    <3> QED
      BY <2>1, <3>1, <3>2, <3>3 DEF Sound
  <2>4. CASE Urgent(o)
    <3> DEFINE n == [r EXCEPT !.waiting = Since(r.waiting)]
    <3>1. marked[o] = n
      BY <2>4
    <3>2. Since(r.waiting) \in Nat /\ Since(r.waiting) # None
      BY <2>1, SubscriptionsAssumption DEF Since, Subscription
    <3>3. /\ n \in Subscription
          /\ n.id = r.id /\ n.request = r.request /\ n.timer = r.timer
          /\ n.since = r.since /\ n.pending_report = r.pending_report
          /\ n.left = r.left
          /\ n.waiting = Since(r.waiting)
      BY <2>1, <3>2 DEF Subscription
    <3>4. Ready(n, ts[o])
      BY <1>3, <2>4, <3>3 DEF Ready, IsNow
    <3>5. NewsSeenTo(n, ts[o])
      BY <2>1, <3>3, <3>4, SubscriptionsAssumption
      DEF Sound, NewsSeenTo, Since, Subscription
    <3>6. TimerOnTime(n) /\ TimerHasReason(n, IsIn(o, subscriptions))
      BY <2>1, <3>3 DEF Sound, TimerOnTime, TimerHasReason
    <3>7. ts[o] \in TaskCounts
      BY <1>3
    <3> HIDE DEF n, r, marked, ts
    <3>8. Sound(n, ts[o], IsIn(o, subscriptions))
      BY <3>3, <3>5, <3>6, <3>7 DEF Sound
    <3> QED
      BY <3>1, <3>3, <3>8 DEF r
  <2> QED
    BY <2>3, <2>4
<1>5. ASSUME NEW o \in Object, subscription[o] = None
      PROVE  marked[o] = None
  <2>1. o \notin told
    BY <1>5, SubscriptionsAssumption DEF Listed, SubscriptionsInv, State
  <2> QED
    BY <1>5, <2>1
<1>6. marked \in [Object -> Subscription \cup {None}]
  <2>1. \A o \in Object : marked[o] \in Subscription \cup {None}
    <3> HIDE DEF marked
    <3> QED
      BY <1>4, <1>5
  <2> QED
    BY <2>1
<1> HIDE DEF marked, ts
<1>7. State(marked, subscriptions, ts)
  <2>1. \A o \in Object : subscription[o] # None => marked[o] # None
    BY <1>4, SubscriptionsAssumption
  <2> QED
    BY <1>2, <1>3, <1>4, <1>5, <1>6, <2>1, ObjectByObject DEF SubscriptionsInv
<1> QED
  BY <1>1, <1>7, UpdateKeeps

(* The subscriptions of the same subscriber leave the table, their timers run on. *)
LEMMA ReplaceKeeps ==
    ASSUME SubscriptionsInv, NEW S \in SUBSET Sid
    PROVE  State([o \in Object |->
                     IF \E s \in S : subscriptions[s] = o
                     THEN [subscription[o] EXCEPT !.left = "replaced"]
                     ELSE subscription[o]],
                 Without(S), tasks)
<1> DEFINE objects == [o \in Object |->
                          IF \E s \in S : subscriptions[s] = o
                          THEN [subscription[o] EXCEPT !.left = "replaced"]
                          ELSE subscription[o]]
           table == Without(S)
<1>1. /\ subscription \in [Object -> Subscription \cup {None}]
      /\ subscriptions \in [Sid -> Object \cup {None}]
      /\ tasks \in [Object -> TaskCounts]
  BY DEF SubscriptionsInv, State
<1>2. /\ table \in [Sid -> Object \cup {None}]
      /\ \A s \in Sid : table[s] \in {subscriptions[s], None}
      /\ \A s \in S : table[s] = None
  BY <1>1 DEF Without
<1>3. ASSUME NEW o \in Object, NEW s \in S, subscriptions[s] = o
      PROVE  /\ subscription[o] # None
             /\ objects[o] \in Subscription
             /\ objects[o].id = subscription[o].id
             /\ Sound(objects[o], tasks[o], IsIn(o, table))
  <2> DEFINE r == subscription[o]
             n == [r EXCEPT !.left = "replaced"]
  <2>1. r # None /\ r.id = s
    BY <1>3, SubscriptionsAssumption DEF SubscriptionsInv, State
  <2>2. ~IsIn(o, table)
    BY <1>2, <2>1, SubscriptionsAssumption DEF IsIn, SubscriptionsInv, State
  <2>3. objects[o] = n
    BY <1>3
  <2>4. r \in Subscription /\ Sound(r, tasks[o], IsIn(o, subscriptions))
    BY <2>1, ObjectIsSound
  <2>5. /\ n \in Subscription
        /\ n.id = r.id /\ n.request = r.request /\ n.timer = r.timer
        /\ n.since = r.since /\ n.pending_report = r.pending_report
        /\ n.waiting = r.waiting
        /\ n.left = "replaced"
    BY <2>4 DEF Subscription
  <2>6. NewsSeenTo(n, tasks[o]) /\ TimerOnTime(n)
    BY <2>4, <2>5 DEF Sound, TimerOnTime, NewsSeenTo, Ready, IsNow
  <2>7. TimerHasReason(n, FALSE)
    BY <2>5, SubscriptionsAssumption DEF TimerHasReason
  <2> HIDE DEF n, objects, table
  <2>8. Sound(n, tasks[o], IsIn(o, table))
    BY <2>2, <2>4, <2>5, <2>6, <2>7 DEF Sound, TimerHasReason
  <2> QED
    BY <2>1, <2>3, <2>5, <2>8
<1>4. ASSUME NEW o \in Object, \A s \in S : subscriptions[s] # o
      PROVE  /\ objects[o] = subscription[o]
             /\ IsIn(o, table) <=> IsIn(o, subscriptions)
  BY <1>1, <1>2, <1>4, SubscriptionsAssumption DEF Without, IsIn
<1>5. \A o \in Object : objects[o] \in Subscription \cup {None}
  <2> HIDE DEF objects, table
  <2> QED
    BY <1>1, <1>3, <1>4
<1>6. objects \in [Object -> Subscription \cup {None}]
  BY <1>5
<1> HIDE DEF objects, table
<1>7. ASSUME NEW o \in Object, objects[o] # None
      PROVE  /\ subscription[o] # None
             /\ objects[o].id = subscription[o].id
             /\ Sound(objects[o], tasks[o], IsIn(o, table))
  <2>1. CASE \E s \in S : subscriptions[s] = o
    BY <1>3, <2>1
  <2>2. CASE \A s \in S : subscriptions[s] # o
    <3>1. objects[o] = subscription[o] /\ subscription[o] # None
      BY <1>4, <1>7, <2>2
    <3>2. Sound(subscription[o], tasks[o], IsIn(o, subscriptions))
      BY <3>1, ObjectIsSound
    <3> QED
      BY <1>4, <2>2, <3>1, <3>2 DEF Sound, TimerHasReason
  <2> QED
    BY <2>1, <2>2
<1>8. \A o \in Object : subscription[o] # None => objects[o] # None
  BY <1>3, <1>4, SubscriptionsAssumption
<1>9. State(objects, table, tasks)
  BY <1>1, <1>2, <1>6, <1>7, <1>8, ObjectByObject DEF SubscriptionsInv
<1> QED
  BY <1>9 DEF objects, table

(* A new subscription, entered or not.                                           *)
LEMMA EnterKeeps ==
    ASSUME NEW objects, NEW table, State(objects, table, tasks),
           NEW o \in Object, objects[o] = None,
           NEW s \in Sid, table[s] = None,
           NEW f \in SubscriberKey, NEW q \in Request
    PROVE  /\ State([objects EXCEPT ![o] = New(s, f, q)],
                    [table EXCEPT ![s] = o], tasks)
           /\ State([objects EXCEPT ![o] = [New(s, f, q) EXCEPT !.left = "failed"]],
                    table, tasks)
<1> DEFINE r == New(s, f, q)
           n == [r EXCEPT !.left = "failed"]
<1>1. /\ objects \in [Object -> Subscription \cup {None}]
      /\ table \in [Sid -> Object \cup {None}]
      /\ tasks \in [Object -> TaskCounts]
      /\ ~IsIn(o, table)
  BY SubscriptionsAssumption DEF State, IsIn
<1>2. FirstDelay(q) \in Nat /\ FirstDelay(q) # None
  BY DelaysInRange, SubscriptionsAssumption
<1>3. /\ r \in Subscription
      /\ r.id = s /\ r.request = q /\ r.timer = FirstDelay(q) /\ r.since = 0
      /\ r.pending_report = FALSE /\ r.waiting = None /\ r.left = None
  BY <1>2 DEF New, Subscription
<1>4. /\ n \in Subscription
      /\ n.id = s /\ n.request = q /\ n.timer = FirstDelay(q) /\ n.since = 0
      /\ n.pending_report = FALSE /\ n.waiting = None /\ n.left = "failed"
  <2> HIDE DEF r
  <2> QED
    BY <1>3 DEF Subscription
<1> HIDE DEF r, n
<1>5. Sound(r, tasks[o], TRUE) /\ Sound(n, tasks[o], FALSE)
  <2>1. TimerOnTime(r) /\ TimerOnTime(n)
    BY <1>2, <1>3, <1>4, DelaysInRange DEF TimerOnTime
  <2>2. NewsSeenTo(r, tasks[o]) /\ NewsSeenTo(n, tasks[o])
    BY <1>3, <1>4 DEF NewsSeenTo
  <2>3. TimerHasReason(r, TRUE) /\ TimerHasReason(n, FALSE)
    BY <1>2, <1>3, <1>4, SubscriptionsAssumption DEF TimerHasReason
  <2> QED
    BY <1>1, <1>3, <1>4, <2>1, <2>2, <2>3 DEF Sound
<1>6. State([objects EXCEPT ![o] = r], [table EXCEPT ![s] = o], tasks)
  <2> DEFINE objects1 == [objects EXCEPT ![o] = r]
             table1 == [table EXCEPT ![s] = o]
  <2>1. /\ objects1 \in [Object -> Subscription \cup {None}]
        /\ table1 \in [Sid -> Object \cup {None}]
        /\ objects1[o] = r /\ table1[s] = o
        /\ \A p \in Object \ {o} : objects1[p] = objects[p]
        /\ \A t \in Sid \ {s} : table1[t] = table[t]
    BY <1>1, <1>3
  <2> HIDE DEF objects1, table1
  <2>2. r # None
    BY <1>3, SubscriptionsAssumption
  <2>3. ASSUME NEW t \in Sid, table1[t] # None
        PROVE  objects1[table1[t]] # None /\ objects1[table1[t]].id = t
    <3>1. CASE t = s
      BY <1>3, <2>1, <2>2, <3>1
    <3>2. CASE t # s
      <4>1. table[t] # None /\ table1[t] = table[t] /\ table[t] \in Object
        BY <1>1, <2>1, <2>3, <3>2
      <4>2. objects[table[t]] # None /\ objects[table[t]].id = t
        BY <4>1 DEF State
      <4> QED
        BY <2>1, <4>1, <4>2
    <3> QED
      BY <3>1, <3>2
  <2>4. ASSUME NEW p \in Object, objects1[p] # None
        PROVE  Sound(objects1[p], tasks[p], IsIn(p, table1))
    <3>1. CASE p = o
      <4>1. IsIn(p, table1)
        BY <2>1, <3>1 DEF IsIn
      <4> QED
        BY <1>5, <2>1, <3>1, <4>1 DEF Sound, TimerHasReason
    <3>2. CASE p # o
      <4>1. IsIn(p, table1) <=> IsIn(p, table)
        BY <1>1, <2>1, <3>2, SubscriptionsAssumption DEF IsIn
      <4>2. objects1[p] = objects[p]
        BY <2>1, <3>2
      <4>3. Sound(objects[p], tasks[p], IsIn(p, table))
        BY <2>4, <4>2 DEF State
      <4> QED
        BY <4>1, <4>2, <4>3 DEF Sound, TimerHasReason
    <3> QED
      BY <3>1, <3>2
  <2>5. State(objects1, table1, tasks)
    BY <1>1, <2>1, <2>3, <2>4 DEF State
  <2> QED
    BY <2>5 DEF objects1, table1
<1>7. State([objects EXCEPT ![o] = n], table, tasks)
  <2> DEFINE objects1 == [objects EXCEPT ![o] = n]
  <2>1. /\ objects1 \in [Object -> Subscription \cup {None}]
        /\ objects1[o] = n
        /\ \A p \in Object \ {o} : objects1[p] = objects[p]
    BY <1>1, <1>4
  <2> HIDE DEF objects1
  <2>2. ASSUME NEW t \in Sid, table[t] # None
        PROVE  objects1[table[t]] # None /\ objects1[table[t]].id = t
    BY <1>1, <2>1, <2>2 DEF State, IsIn
  <2>3. ASSUME NEW p \in Object, objects1[p] # None
        PROVE  Sound(objects1[p], tasks[p], IsIn(p, table))
    <3>1. CASE p = o
      BY <1>1, <1>5, <2>1, <3>1 DEF Sound, TimerHasReason
    <3>2. CASE p # o
      BY <2>1, <2>3, <3>2 DEF State
    <3> QED
      BY <3>1, <3>2
  <2>4. State(objects1, table, tasks)
    BY <1>1, <2>1, <2>2, <2>3 DEF State
  <2> QED
    BY <2>4 DEF objects1
<1> QED
  BY <1>6, <1>7 DEF r, n

LEMMA SubscribeKeeps ==
    ASSUME SubscriptionsInv, NEW f \in SubscriberKey, NEW q \in Request,
           NEW keep \in BOOLEAN, NEW ok \in BOOLEAN, Subscribe(f, q, keep, ok)
    PROVE  SubscriptionsInv'
<1> DEFINE replaced == IF keep THEN {} ELSE EntriesOf(f)
           table == Without(replaced)
           others == [o \in Object |->
                         IF \E t \in replaced : subscriptions[t] = o
                         THEN [subscription[o] EXCEPT !.left = "replaced"]
                         ELSE subscription[o]]
<1>1. PICK s \in AllocateSid(table), o \in Object \ Alive :
         IF ok
         THEN Update([others EXCEPT ![o] = New(s, f, q)],
                     [table EXCEPT ![s] = o], tasks)
         ELSE Update([others EXCEPT ![o] = [New(s, f, q) EXCEPT !.left = "failed"]],
                     table, tasks)
  BY DEF Subscribe
<1>2. replaced \in SUBSET Sid
  BY DEF EntriesOf
<1>3. State(others, table, tasks)
  <2> HIDE DEF replaced
  <2> QED
    BY <1>2, ReplaceKeeps
<1>4. others[o] = None
  <2>1. subscription[o] = None
    BY DEF Alive
  <2>2. \A t \in replaced : subscriptions[t] # o
    <3> HIDE DEF replaced
    <3> QED
      BY <1>2, <2>1, SubscriptionsAssumption DEF SubscriptionsInv, State
  <2> QED
    BY <2>1, <2>2
<1>5. s \in Sid /\ table[s] = None /\ o \in Object
  BY <1>1 DEF AllocateSid
<1> HIDE DEF replaced, table, others
<1> QED
  BY <1>1, <1>3, <1>4, <1>5, EnterKeeps, UpdateKeeps

LEMMA TickKeeps ==
    ASSUME SubscriptionsInv, Tick
    PROVE  SubscriptionsInv'
<1> DEFINE Older(r) ==
              [r EXCEPT !.timer = IF @ = None THEN None ELSE @ - 1,
                        !.since = @ + 1,
                        !.waiting = IF @ = None THEN None ELSE @ + 1]
<1>1. /\ subscription \in [Object -> Subscription \cup {None}]
      /\ subscriptions \in [Sid -> Object \cup {None}]
      /\ tasks \in [Object -> TaskCounts]
  BY DEF SubscriptionsInv, State
<1>2. /\ subscriptions' = subscriptions /\ tasks' = tasks
      /\ subscription' = [o \in Object |-> IF o \notin Alive THEN None
                                           ELSE Older(subscription[o])]
  BY DEF Tick
<1>3. ASSUME NEW o \in Object, subscription[o] # None
      PROVE  /\ subscription'[o] \in Subscription
             /\ subscription'[o].id = subscription[o].id
             /\ Sound(subscription'[o], tasks[o], IsIn(o, subscriptions))
  <2> DEFINE r == subscription[o]
             n == Older(r)
  <2>1. /\ r \in Subscription /\ Sound(r, tasks[o], IsIn(o, subscriptions))
        /\ r.request.min \in Nat /\ r.request.max \in Nat
    BY <1>3, ObjectIsSound, DelaysInRange
  <2>2. subscription'[o] = n
    BY <1>2, <1>3 DEF Alive
  <2>3. /\ r.timer # 0
        /\ ~Ready(r, tasks[o])
    <3>1. o \in Alive
      BY <1>3 DEF Alive
    <3>2. /\ r.timer # 0
          /\ \A e \in Event \cup {None} : tasks[o][e] = 0
      BY <3>1 DEF Tick
    <3> QED
      BY <3>2 DEF Ready
  <2>4. /\ r.timer = None \/ r.timer - 1 \in Nat
        /\ r.since \in Nat
        /\ r.waiting = None \/ (r.waiting \in Nat /\ r.waiting + 1 \in Nat)
    BY <2>1, <2>3 DEF Subscription
  <2>5. /\ n \in Subscription
        /\ n.id = r.id /\ n.request = r.request /\ n.left = r.left
        /\ n.pending_report = r.pending_report
        /\ n.since = r.since + 1
        /\ n.timer = IF r.timer = None THEN None ELSE r.timer - 1
        /\ n.waiting = IF r.waiting = None THEN None ELSE r.waiting + 1
    <3>1. (IF r.timer = None THEN None ELSE r.timer - 1) \in Nat \cup {None}
      BY <2>4
    <3>2. (IF r.waiting = None THEN None ELSE r.waiting + 1) \in Nat \cup {None}
      BY <2>4
    <3>3. r.since + 1 \in Nat
      BY <2>4
    <3> QED
      BY <2>1, <3>1, <3>2, <3>3 DEF Subscription
  <2> HIDE DEF n, r
  <2>6. TimerOnTime(n)
    <3>1. CASE r.timer = None
      BY <2>5, <3>1 DEF TimerOnTime
    <3>2. CASE r.timer # None
      <4>1. n.since + n.timer = r.since + r.timer
        BY <2>1, <2>4, <2>5, <3>2 DEF Subscription
      <4> QED
        BY <2>1, <2>5, <3>2, <4>1 DEF Sound, TimerOnTime
    <3> QED
      BY <3>1, <3>2
  <2>7. NewsSeenTo(n, tasks[o])
    <3>1. CASE r.waiting = None
      BY <2>5, <3>1 DEF NewsSeenTo
    <3>2. CASE r.waiting # None
      <4>1. r.pending_report /\ r.waiting <= r.since
        BY <2>1, <2>3, <3>2 DEF Sound, NewsSeenTo, r
      <4> QED
        BY <2>4, <2>5, <3>2, <4>1 DEF NewsSeenTo
    <3> QED
      BY <3>1, <3>2
  <2>8. TimerHasReason(n, IsIn(o, subscriptions))
    BY <2>1, <2>4, <2>5, SubscriptionsAssumption DEF Sound, TimerHasReason
  <2>9. Sound(n, tasks[o], IsIn(o, subscriptions))
    BY <2>1, <2>5, <2>6, <2>7, <2>8 DEF Sound
  <2> QED
    BY <2>2, <2>5, <2>9 DEF r
<1>4. ASSUME NEW o \in Object, subscription[o] = None
      PROVE  subscription'[o] = None
  BY <1>2, <1>4 DEF Alive
<1>5. subscription' \in [Object -> Subscription \cup {None}]
  <2>1. \A o \in Object : subscription'[o] \in Subscription \cup {None}
    BY <1>3, <1>4
  <2> QED
    BY <1>2, <2>1
<1>6. State(subscription', subscriptions, tasks)
  <2>1. \A o \in Object : subscription[o] # None => subscription'[o] # None
    BY <1>3, SubscriptionsAssumption
  <2> QED
    BY <1>1, <1>3, <1>4, <1>5, <2>1, ObjectByObject DEF SubscriptionsInv
<1> QED
  BY <1>2, <1>6 DEF SubscriptionsInv
-----------------------------------------------------------------------------
LEMMA InitSound ==
    ASSUME Init
    PROVE  SubscriptionsInv
BY SubscriptionsAssumption DEF Init, SubscriptionsInv, State, TaskCounts

LEMMA NextSound ==
    ASSUME SubscriptionsInv, [Next]_vars
    PROVE  SubscriptionsInv'
<1>1. ASSUME NEW f \in SubscriberKey, NEW q \in Request,
             NEW keep \in BOOLEAN, NEW ok \in BOOLEAN, Subscribe(f, q, keep, ok)
      PROVE  SubscriptionsInv'
  BY <1>1, SubscribeKeeps
<1>2. ASSUME NEW A \in SUBSET Attribute, AttributesChanged(A)
      PROVE  SubscriptionsInv'
  BY <1>2, AttributesChangedKeeps
<1>3. ASSUME NEW A \in SUBSET Attribute, NEW i \in FabricIndex, RemoveFabric(i, A)
      PROVE  SubscriptionsInv'
  BY <1>3, RemoveFabricKeeps
<1>4. ASSUME NEW e \in Event, ReportEvent(e)
      PROVE  SubscriptionsInv'
  BY <1>4, ReportEventKeeps
<1>5. ASSUME NEW s \in Sid, AnswerInvalid(s)
      PROVE  SubscriptionsInv'
  BY <1>5, AnswerInvalidKeeps
<1>6. ASSUME NEW o \in Object, TimerDue(o)
      PROVE  SubscriptionsInv'
  BY <1>6, TimerDueKeeps
<1>7. ASSUME NEW o \in Object, NEW e \in Event \cup {None}, RunTask(o, e)
      PROVE  SubscriptionsInv'
  BY <1>7, RunTaskKeeps
<1>8. CASE Tick
  BY <1>8, TickKeeps
<1>9. CASE UNCHANGED vars
  BY <1>9 DEF vars, SubscriptionsInv
<1> QED
  BY <1>1, <1>2, <1>3, <1>4, <1>5, <1>6, <1>7, <1>8, <1>9 DEF Next, Handle, Run

THEOREM TimersAreSound == Spec => []SubscriptionsInv
<1>1. Init => SubscriptionsInv
  BY InitSound
<1>2. SubscriptionsInv /\ [Next]_vars => SubscriptionsInv'
  BY NextSound
<1> QED
  BY <1>1, <1>2, PTL DEF Spec

(* Answers are awaited under ids of subscriptions.                               *)
LEMMA AwaitedAreSids ==
    ASSUME SubscriptionsInv, pending_subscription_reports \subseteq Sid, [Next]_vars
    PROVE  pending_subscription_reports' \subseteq Sid
<1>1. ASSUME NEW o \in Object, subscription[o] # None
      PROVE  subscription[o].id \in Sid
  BY <1>1, ObjectIsSound DEF Subscription
<1>2. ASSUME NEW o \in Object, TimerDue(o)
      PROVE  pending_subscription_reports' \subseteq Sid
  BY <1>1, <1>2 DEF TimerDue, AwaitAnswer, Alive
<1>3. ASSUME NEW o \in Object, NEW e \in Event \cup {None}, RunTask(o, e)
      PROVE  pending_subscription_reports' \subseteq Sid
  <2> DEFINE r == subscription[o]
             noted == IF e = None THEN r ELSE NotedEvent(r, e)
  <2>1. noted.id \in Sid
    <3>1. r # None /\ r \in Subscription
      BY <1>3, ObjectIsSound DEF RunTask, Alive
    <3> QED
      BY <1>1, <3>1 DEF NotedEvent, Subscription
  <2>2. AwaitAnswer(noted) \/ UNCHANGED pending_subscription_reports
    BY <1>3 DEF RunTask
  <2> HIDE DEF noted
  <2> QED
    BY <2>1, <2>2 DEF AwaitAnswer
<1>4. ASSUME NEW s \in Sid, AnswerInvalid(s)
      PROVE  pending_subscription_reports' \subseteq Sid
  BY <1>4 DEF AnswerInvalid
<1>5. CASE UNCHANGED pending_subscription_reports
  BY <1>5
<1>6. Tick \/ UNCHANGED vars => UNCHANGED pending_subscription_reports
  BY DEF Tick, vars
<1> QED
  BY <1>2, <1>3, <1>4, <1>5, <1>6 DEF Next, Handle, Run

(* Objects, table, tasks and awaited answers have their types.                   *)
THEOREM TypeCorrect == Spec => []TypeOK
<1> DEFINE Inv == SubscriptionsInv /\ pending_subscription_reports \subseteq Sid
<1>1. Init => Inv
  BY InitSound DEF Init
<1>2. Inv /\ [Next]_vars => Inv'
  BY NextSound, AwaitedAreSids
<1>3. Inv => TypeOK
  BY DEF SubscriptionsInv, State, TypeOK, TaskCounts
<1> QED
  BY <1>1, <1>2, <1>3, PTL DEF Spec

LEMMA ListedIsSound ==
    ASSUME SubscriptionsInv, NEW o \in Listed
    PROVE  /\ o \in Object
           /\ subscription[o] \in Subscription
           /\ Sound(subscription[o], tasks[o], TRUE)
           /\ subscription[o].request.min \in Nat
           /\ subscription[o].request.max \in Nat
           /\ subscription[o].since \in Nat
           /\ subscription[o].timer \in Nat
           /\ subscription[o].waiting \in Nat \cup {None}
<1>1. o \in Object /\ IsIn(o, subscriptions)
  BY DEF Listed, IsIn
<1>2. subscription[o] # None
  BY <1>1, SubscriptionsAssumption DEF IsIn, SubscriptionsInv, State
<1>3. /\ subscription[o] \in Subscription
      /\ subscription[o].request \in Request
      /\ Sound(subscription[o], tasks[o], TRUE)
  BY <1>1, <1>2, ObjectIsSound DEF Sound, TimerHasReason
<1>4. subscription[o].timer # None
  BY <1>3 DEF Sound, TimerHasReason
<1> QED
  BY <1>1, <1>3, <1>4, DelaysInRange DEF Subscription

(* A change or an urgent event is reported within the minimum interval: it has a *)
(* task that sees to it at once, or a pending report due when the interval ends. *)
THEOREM NewsInTime == Spec => []ReportedInTime
<1>1. ASSUME SubscriptionsInv, NEW o \in Listed, subscription[o].waiting # None
      PROVE  subscription[o].waiting <= subscription[o].request.min
  <2> DEFINE r == subscription[o]
  <2>1. /\ r.timer \in Nat /\ r.since \in Nat /\ r.request.min \in Nat
        /\ r.waiting \in Nat
        /\ TimerOnTime(r) /\ NewsSeenTo(r, tasks[o])
        /\ r.timer # None
    <3>1. Sound(r, tasks[o], TRUE) /\ r.waiting # None
      BY <1>1, ListedIsSound
    <3> QED
      BY <1>1, <3>1, ListedIsSound, SubscriptionsAssumption DEF Sound
  <2>2. CASE r.pending_report
    BY <1>1, <2>1, <2>2 DEF TimerOnTime, NewsSeenTo
  <2>3. CASE ~r.pending_report
    BY <1>1, <2>1, <2>3 DEF NewsSeenTo
  <2> QED
    BY <2>2, <2>3
<1>2. SubscriptionsInv => ReportedInTime
  BY <1>1 DEF ReportedInTime
<1> QED
  BY <1>2, TimersAreSound, PTL

(* A subscription in the table has a timer, and it falls due before the interval *)
(* it promised is over.                                                          *)
THEOREM NoTimerLost == Spec => []KeepsAlive
<1>1. ASSUME SubscriptionsInv, NEW o \in Listed
      PROVE  subscription[o].since <= Promised(subscription[o].request)
  <2> DEFINE r == subscription[o]
  <2>1. /\ r.timer \in Nat /\ r.since \in Nat
        /\ Promised(r.request) \in Nat
        /\ r.since + r.timer <= Promised(r.request)
    <3>1. Sound(r, tasks[o], TRUE) /\ r.timer \in Nat /\ r.since \in Nat
          /\ r.request.min \in Nat /\ r.request.max \in Nat
      BY <1>1, ListedIsSound
    <3>2. r.timer # None
      BY <3>1, SubscriptionsAssumption
    <3> HIDE DEF r
    <3> QED
      BY <3>1, <3>2 DEF Sound, TimerOnTime, Promised, Later
  <2> QED
    BY <2>1
<1>2. SubscriptionsInv => KeepsAlive
  BY <1>1 DEF KeepsAlive, Promised
<1> QED
  BY <1>2, TimersAreSound, PTL

(* A timer whose subscription is not in the table belongs to one that was        *)
(* replaced, was never entered, or was revived by a task.                        *)
THEOREM StrayTimers == Spec => []StrayTimersAreKnown
<1>1. ASSUME SubscriptionsInv, NEW o \in Alive \ Listed,
             subscription[o].timer # None
      PROVE  subscription[o].left \in {"failed", "replaced", "revived"}
  <2>1. o \in Object /\ subscription[o] # None /\ ~IsIn(o, subscriptions)
    BY DEF Alive, Listed, IsIn
  <2>2. /\ subscription[o] \in Subscription
        /\ TimerHasReason(subscription[o], IsIn(o, subscriptions))
    BY <1>1, <2>1, ObjectIsSound DEF Sound
  <2> QED
    BY <1>1, <2>1, <2>2 DEF TimerHasReason, Subscription
<1>2. SubscriptionsInv => StrayTimersAreKnown
  BY <1>1 DEF StrayTimersAreKnown
<1> QED
  BY <1>2, TimersAreSound, PTL
-----------------------------------------------------------------------------
(* The pace of reports.  Only a report sets the clock back and takes the news.   *)
ReportedBetween(r, n) == n.since < r.since \/ (IsNews(r) /\ ~IsNews(n))

Keeps(r, n) ==
    n.since = r.since /\ r.changed \subseteq n.changed /\ r.events \subseteq n.events

Paced(o, objects) ==
    subscription[o] # None /\ objects[o] # None
       /\ ReportedBetween(subscription[o], objects[o])
    => subscription[o].since >= subscription[o].request.min

LEMMA KeepingIsNoReport ==
    ASSUME NEW r \in Subscription, NEW n, Keeps(r, n)
    PROVE  ~ReportedBetween(r, n)
BY DEF Keeps, ReportedBetween, IsNews, Subscription

LEMMA UpdatePaced ==
    ASSUME NEW objects, NEW table, NEW ts, Update(objects, table, ts),
           NEW o \in Object, Paced(o, objects)
    PROVE  Paced(o, subscription')
<1>1. subscription'[o] \in {objects[o], None}
  BY DEF Update
<1> QED
  BY <1>1 DEF Paced

LEMMA QuietActionsPaced ==
    ASSUME SubscriptionsInv, NEW o \in Object,
           \/ \E f \in SubscriberKey, q \in Request, keep, ok \in BOOLEAN :
                 Subscribe(f, q, keep, ok)
           \/ \E A \in SUBSET Attribute :
                 AttributesChanged(A) \/ \E i \in FabricIndex : RemoveFabric(i, A)
           \/ \E e \in Event : ReportEvent(e)
           \/ \E s \in Sid : AnswerInvalid(s)
           \/ Tick
    PROVE  Paced(o, subscription')
<1> SUFFICES ASSUME subscription[o] # None PROVE Paced(o, subscription')
  BY DEF Paced
<1>r. subscription[o] \in Subscription /\ o \in Alive
  BY ObjectIsSound DEF Alive
<1>k. ASSUME NEW objects, Keeps(subscription[o], objects[o])
      PROVE  Paced(o, objects)
  BY <1>r, <1>k, KeepingIsNoReport DEF Paced
<1>1. ASSUME NEW f \in SubscriberKey, NEW q \in Request,
             NEW keep \in BOOLEAN, NEW ok \in BOOLEAN, Subscribe(f, q, keep, ok)
      PROVE  Paced(o, subscription')
  <2> DEFINE replaced == IF keep THEN {} ELSE EntriesOf(f)
             table == Without(replaced)
             others == [p \in Object |->
                           IF \E t \in replaced : subscriptions[t] = p
                           THEN [subscription[p] EXCEPT !.left = "replaced"]
                           ELSE subscription[p]]
  <2>1. PICK s \in AllocateSid(table), p \in Object \ Alive :
           IF ok
           THEN Update([others EXCEPT ![p] = New(s, f, q)],
                       [table EXCEPT ![s] = p], tasks)
           ELSE Update([others EXCEPT ![p] = [New(s, f, q) EXCEPT !.left = "failed"]],
                       table, tasks)
    BY <1>1 DEF Subscribe
  <2>2. Keeps(subscription[o], others[o]) /\ o # p
    BY <1>r DEF Keeps, Subscription
  <2>3. others = [x \in Object |-> others[x]]
    OBVIOUS
  <2> HIDE DEF replaced, table, others
  <2>4. \A n : [others EXCEPT ![p] = n][o] = others[o]
    BY <2>2, <2>3
  <2>5. \A n : Paced(o, [others EXCEPT ![p] = n])
    BY <1>k, <2>2, <2>4
  <2> QED
    BY <2>1, <2>5, UpdatePaced
<1>2. ASSUME NEW A \in SUBSET Attribute, NEW objects, NEW table,
             AfterChange(A, objects, table), Keeps(subscription[o], objects[o]),
             objects[o] \in Subscription
      PROVE  Paced(o, subscription')
  <2> DEFINE noted == [p \in Object |->
                          IF Interested(p, A, table)
                          THEN NotedAttributes(objects[p], A) ELSE objects[p]]
  <2>1. Keeps(subscription[o], noted[o])
    <3>1. objects[o].changed
             \subseteq objects[o].changed \cup (A \cap objects[o].request.attributes)
      OBVIOUS
    <3> QED
      BY <1>2, <3>1 DEF Keeps, NotedAttributes, Subscription
  <2>2. \E ts : Update(noted, table, ts)
    BY <1>2 DEF AfterChange
  <2> HIDE DEF noted
  <2> QED
    BY <1>k, <2>1, <2>2, UpdatePaced
<1>3. ASSUME NEW S \in SUBSET Sid
      PROVE  /\ CancelledAll(S)[o] \in Subscription
             /\ Keeps(subscription[o], CancelledAll(S)[o])
  BY <1>r DEF CancelledAll, Cancelled, Keeps, Subscription
<1>4. ASSUME NEW A \in SUBSET Attribute, AttributesChanged(A)
      PROVE  Paced(o, subscription')
  <2>1. Keeps(subscription[o], subscription[o])
    BY DEF Keeps
  <2> QED
    BY <1>r, <1>2, <1>4, <2>1 DEF AttributesChanged
<1>5. ASSUME NEW A \in SUBSET Attribute, NEW i \in FabricIndex, RemoveFabric(i, A)
      PROVE  Paced(o, subscription')
  <2>1. EntriesOfFabric(i) \in SUBSET Sid
    BY DEF EntriesOfFabric
  <2> QED
    BY <1>2, <1>3, <1>5, <2>1 DEF RemoveFabric
<1>6. ASSUME NEW e \in Event, ReportEvent(e)
      PROVE  Paced(o, subscription')
  <2> DEFINE told == {p \in Listed : e \in subscription[p].request.events}
             marked == [p \in Object |->
                           IF p \in told /\ e \in subscription[p].request.urgent
                           THEN [subscription[p] EXCEPT !.waiting = Since(@)]
                           ELSE subscription[p]]
  <2>1. \E ts : Update(marked, subscriptions, ts)
    BY <1>6 DEF ReportEvent
  <2>2. Keeps(subscription[o], marked[o])
    BY <1>r DEF Keeps, Subscription
  <2> HIDE DEF marked, told
  <2> QED
    BY <1>k, <2>1, <2>2, UpdatePaced
<1>7. ASSUME NEW s \in Sid, AnswerInvalid(s)
      PROVE  Paced(o, subscription')
  <2>1. CASE UNCHANGED subscription
    BY <1>r, <2>1, KeepingIsNoReport DEF Paced, Keeps
  <2>2. CASE Update(CancelledAll({s}), Without({s}), tasks)
    BY <1>k, <1>3, <2>2, UpdatePaced
  <2> QED
    BY <1>7, <2>1, <2>2 DEF AnswerInvalid
<1>8. CASE Tick
  <2>1. subscription'[o].since = subscription[o].since + 1
        /\ subscription'[o].changed = subscription[o].changed
        /\ subscription'[o].events = subscription[o].events
    BY <1>r, <1>8 DEF Tick, Subscription
  <2>2. subscription[o].since \in Nat
    BY <1>r DEF Subscription
  <2> QED
    BY <2>1, <2>2 DEF Paced, ReportedBetween, IsNews
<1> QED
  BY <1>1, <1>4, <1>5, <1>6, <1>7, <1>8

LEMMA ReportsActionsPaced ==
    ASSUME SubscriptionsInv, NEW p \in Object, NEW o \in Object,
           TimerDue(p) \/ \E e \in Event \cup {None} : RunTask(p, e)
    PROVE  Paced(o, subscription')
<1> SUFFICES ASSUME subscription[o] # None PROVE Paced(o, subscription')
  BY DEF Paced
<1>r. /\ subscription[o] \in Subscription
      /\ subscription \in [Object -> Subscription \cup {None}]
      /\ TimerOnTime(subscription[o])
      /\ subscription[o].request.min \in Nat
      /\ subscription[o].since \in Nat
  BY ObjectIsSound, DelaysInRange DEF SubscriptionsInv, State, Sound, Subscription
<1>k. ASSUME NEW objects, Keeps(subscription[o], objects[o])
      PROVE  Paced(o, objects)
  BY <1>r, <1>k, KeepingIsNoReport DEF Paced
<1>1. CASE TimerDue(p)
  <2> DEFINE objects == [subscription EXCEPT ![p] = Reported(subscription[p])]
  <2>1. Update(objects, subscriptions, tasks)
    BY <1>1 DEF TimerDue
  <2>2. CASE o = p
    <3>1. subscription[o].since >= subscription[o].request.min
      BY <1>r, <1>1, <2>2, SubscriptionsAssumption DEF TimerDue, TimerOnTime
    <3> QED
      BY <3>1 DEF Paced
  <2>3. CASE o # p
    <3>1. Keeps(subscription[o], objects[o])
      BY <1>r, <2>3 DEF Keeps
    <3> HIDE DEF objects
    <3> QED
      BY <1>k, <2>1, <3>1, UpdatePaced
  <2> QED
    BY <2>2, <2>3
<1>2. ASSUME NEW e \in Event \cup {None}, RunTask(p, e)
      PROVE  Paced(o, subscription')
  <2> DEFINE r == subscription[p]
             noted == IF e = None THEN r ELSE NotedEvent(r, e)
             next == IF e = None \/ e \in r.request.urgent THEN ReportNow(noted)
                                                           ELSE noted
             last == [next EXCEPT !.left = IF @ = "cancelled" THEN "revived" ELSE @]
             objects == [subscription EXCEPT ![p] = last]
  <2>1. \E ts : Update(objects, subscriptions, ts)
    BY <1>2 DEF RunTask
  <2>2. CASE o # p
    <3>1. Keeps(subscription[o], objects[o])
      BY <1>r, <2>2 DEF Keeps
    <3> HIDE DEF objects
    <3> QED
      BY <1>k, <2>1, <3>1, UpdatePaced
  <2>3. CASE o = p /\ r.since >= r.request.min
    BY <2>3 DEF Paced
  <2>4. CASE o = p /\ ~(r.since >= r.request.min)
    <3>1. /\ noted \in Subscription
          /\ Keeps(r, noted)
          /\ noted.since = r.since /\ noted.request = r.request
      BY <1>r, <2>4 DEF NotedEvent, Keeps, Subscription
    <3>2. MustWait(noted)
      BY <1>r, <2>4, <3>1 DEF MustWait
    <3>3. next \in {noted, Postponed(noted)}
      <4> HIDE DEF noted
      <4> QED
        BY <3>2 DEF ReportNow
    <3> HIDE DEF noted
    <3>5. last.since = noted.since /\ last.changed = noted.changed
          /\ last.events = noted.events
      <4>1. CASE next = noted
        <5> HIDE DEF next
        <5> QED
          BY <3>1, <4>1 DEF Subscription
      <4>2. CASE next = Postponed(noted)
        <5> HIDE DEF next
        <5> QED
          BY <3>1, <4>2 DEF Postponed, Subscription
      <4> QED
        BY <3>3, <4>1, <4>2
    <3> HIDE DEF last
    <3>6. objects[o] = last
      BY <1>r, <2>4
    <3> HIDE DEF objects
    <3>7. Keeps(subscription[o], objects[o])
      BY <2>4, <3>1, <3>5, <3>6 DEF Keeps
    <3> QED
      BY <1>k, <2>1, <3>7, UpdatePaced
  <2> QED
    BY <2>2, <2>3, <2>4
<1> QED
  BY <1>1, <1>2

(* Two reports of a subscription are at least its minimum interval apart.        *)
THEOREM Pace == Spec => ReportsPaced
<1>1. ASSUME SubscriptionsInv, [Next]_vars, NEW o \in Object
      PROVE  Paced(o, subscription')
  <2>1. CASE UNCHANGED vars
    BY <1>1, <2>1, ObjectIsSound, KeepingIsNoReport DEF vars, Paced, Keeps
  <2>2. CASE Handle \/ Tick
    BY <1>1, <2>2, QuietActionsPaced DEF Handle
  <2>3. CASE Run
    BY <1>1, <2>3, ReportsActionsPaced DEF Run
  <2> QED
    BY <1>1, <2>1, <2>2, <2>3 DEF Next
<1>2. SubscriptionsInv /\ [Next]_vars
      => [\A o \in Object :
             /\ o \in Alive /\ o \in Alive'
             /\ \/ subscription'[o].since < subscription[o].since
                \/ IsNews(subscription[o]) /\ ~IsNews(subscription'[o])
             => subscription[o].since >= subscription[o].request.min]_vars
  BY <1>1 DEF Paced, ReportedBetween, Alive
<1> QED
  BY <1>2, TimersAreSound, PTL DEF Spec, ReportsPaced
=============================================================================
