-------------------------- MODULE ExchangeLayerProofs --------------------------
(****************************************************************************)
(* Duplicate detection, for any number of counters and any window: none of  *)
(* AtMostTwice, FreshIsAccepted and RepeatNeedsMove is inductive. They      *)
(* follow from what the bits remember (Remembered), from how often each     *)
(* counter was taken (Counted), and from the bits above the first           *)
(* counters, which start set (WrappedBitsSet).                              *)
(*                                                                          *)
(* The exchanges, for any number of objects, message ids and tasks.         *)
(* AckIsSound is kept with the types and with what every object and task    *)
(* holds (Good): an acknowledgement to send, piggybacked or of its own, is  *)
(* owed for the message it names on the exchange it names.                  *)
(* ClosesAreFinished needs that at most one send is under way when none may *)
(* wait for the socket, and that whoever is closing has that send (Quiet in *)
(* QuietInv): it has then got as far as its removal.                        *)
(****************************************************************************)
EXTENDS MessageReception, ExchangeLayer, Iteration

MaxCounter == reception_state.max_message_counter
Bits == reception_state.reception_bitmap

(* a clear bit was accepted at most once, a set one at least once *)
Remembered ==
    \A c \in Counter :
        c < MaxCounter /\ MaxCounter - 1 - c < WindowSize =>
            /\ MaxCounter - 1 - c \notin Bits => times[c] <= 1
            /\ c # 0 /\ MaxCounter - 1 - c \in Bits => times[c] >= 1

Counted ==
    /\ \A c \in Counter : c > MaxCounter => times[c] = 0
    /\ \A c \in Counter : times[c] <= 2
    /\ times[MaxCounter] <= 1
    /\ MaxCounter # 0 => times[MaxCounter] = 1

WrappedBitsSet == \A p \in Position : p >= MaxCounter => p \in Bits

SinceMoveRemembered ==
    \A c \in sinceMove : DuplicateUnencrypted(reception_state, c)

ReceptionInv ==
    /\ ReceptionTypeOK
    /\ SinceMoveRemembered
    /\ kind = "encrypted" => Remembered /\ Counted /\ WrappedBitsSet

(* The remainder of a difference of two counters *)
LEMMA ModCases ==
    ASSUME NEW M \in Nat \ {0}, NEW x \in Int, -M <= x, x < M
    PROVE  x % M = IF x < 0 THEN x + M ELSE x
<1>1. CASE x < 0
  BY <1>1, SMT
<1>2. CASE x >= 0
  BY <1>2, SMT
<1> QED BY <1>1, <1>2

(* The position of a counter: its distance below the maximum, wrapped *)
LEMMA PositionCases ==
    ASSUME NEW rs \in ReceptionStates, NEW c \in Counter
    PROVE  PositionOf(rs, c) =
             IF c < rs.max_message_counter
             THEN rs.max_message_counter - 1 - c
             ELSE rs.max_message_counter - 1 - c + CounterMod
<1> DEFINE x == rs.max_message_counter - 1 - c
<1>1. /\ rs.max_message_counter \in 0 .. CounterMod - 1
      /\ c \in 0 .. CounterMod - 1
      /\ CounterMod \in Nat \ {0}
  BY CounterAssumption DEF ReceptionStates, Counter
<1>2. /\ x \in Int
      /\ -CounterMod <= x
      /\ x < CounterMod
  BY <1>1
<1>3. x % CounterMod = IF x < 0 THEN x + CounterMod ELSE x
  BY <1>1, <1>2, ModCases
<1> QED
  BY <1>1, <1>3 DEF PositionOf

(* Both kinds of session start inside the invariant. *)
LEMMA InitReceptionInv == ReceptionInit => ReceptionInv
<1> USE CounterAssumption
<1>1. ASSUME InitEncrypted PROVE ReceptionInv
  BY <1>1 DEF InitEncrypted, ReceptionInv, ReceptionTypeOK, Kinds, InitReception, CountCap,
       ReceptionStates, SinceMoveRemembered, Remembered, Counted,
       WrappedBitsSet, MaxCounter, Bits, Counter, Position
<1>2. ASSUME InitUnencrypted PROVE ReceptionInv
  BY <1>2 DEF InitUnencrypted, ReceptionInv, ReceptionTypeOK, Kinds, InitReception, CountCap,
       ReceptionStates, SinceMoveRemembered, DuplicateUnencrypted, Counter
<1> QED BY <1>1, <1>2 DEF ReceptionInit

(* Accepting inside the window keeps the maximum and sets one bit ... *)
LEMMA AcceptInRange ==
    ASSUME ReceptionTypeOK, NEW c \in Counter, CounterInRange(reception_state, c),
           reception_state' = AfterAccepting(reception_state, c)
    PROVE  /\ reception_state' \in ReceptionStates
           /\ MaxCounter' = MaxCounter
           /\ Bits' = Bits \cup {PositionOf(reception_state, c)}
  BY DEF AfterAccepting, SetBit, CounterInRange, ReceptionTypeOK, ReceptionStates,
       MaxCounter, Bits

(* ... outside it, the counter becomes the maximum and the bits move up. *)
LEMMA AcceptOutOfRange ==
    ASSUME ReceptionTypeOK, NEW c \in Counter, ~CounterInRange(reception_state, c),
           c # MaxCounter,
           reception_state' = AfterAccepting(reception_state, c)
    PROVE  /\ reception_state' \in ReceptionStates
           /\ MaxCounter' = c
           /\ c > MaxCounter => Bits' = {p \in Position : p - (c - MaxCounter) \in Bits}
<1>1. /\ MaxCounter \in 0 .. CounterMod - 1
      /\ c \in 0 .. CounterMod - 1
      /\ CounterMod \in Nat \ {0}
  BY CounterAssumption DEF ReceptionTypeOK, ReceptionStates, Counter, MaxCounter
<1>2. /\ MaxCounter' = c
      /\ Bits' = ShiftBitmap(Bits, (c - MaxCounter) % CounterMod)
      /\ reception_state' = [max_message_counter |-> c, reception_bitmap |-> Bits']
  BY DEF AfterAccepting, UpdateMax, MaxCounter, Bits
<1>3. c > MaxCounter => (c - MaxCounter) % CounterMod = c - MaxCounter
  <2> DEFINE d == c - MaxCounter
  <2>1. d \in Int /\ -CounterMod <= d /\ d < CounterMod
    BY <1>1
  <2>2. d % CounterMod = IF d < 0 THEN d + CounterMod ELSE d
    BY <1>1, <2>1, ModCases
  <2> QED BY <1>1, <2>2
<1> QED
  BY <1>2, <1>3 DEF ShiftBitmap, ReceptionStates

(* Accepting a counter keeps the types, whatever the kind of session. *)
LEMMA AcceptKeepsType ==
    ASSUME ReceptionTypeOK, NEW c \in Counter, Accept(c)
    PROVE  ReceptionTypeOK'
<1>1. reception_state' \in ReceptionStates
  BY AcceptInRange, AcceptOutOfRange
     DEF Accept, Duplicate, DuplicateEncrypted, DuplicateUnencrypted, MaxCounter,
         ReceptionTypeOK, Kinds
<1> QED
  BY <1>1 DEF Accept, ReceptionTypeOK, CountCap

(* What was accepted since the last move of the maximum stays remembered. *)
LEMMA AcceptKeepsSinceMove ==
    ASSUME ReceptionTypeOK, ReceptionTypeOK', SinceMoveRemembered, NEW c \in Counter, Accept(c)
    PROVE  SinceMoveRemembered'
<1>1. c # MaxCounter
  BY DEF Accept, Duplicate, DuplicateEncrypted, DuplicateUnencrypted, MaxCounter,
         ReceptionTypeOK, Kinds
<1>2. CASE CounterInRange(reception_state, c)
  <2>1. /\ MaxCounter' = MaxCounter
        /\ Bits' = Bits \cup {PositionOf(reception_state, c)}
        /\ sinceMove' = sinceMove \cup {c}
    BY <1>2, AcceptInRange DEF Accept, MaxCounter
  <2>2. \A d \in Counter : PositionOf(reception_state', d) = PositionOf(reception_state, d)
    BY <2>1 DEF PositionOf, MaxCounter
  <2> QED
    BY <2>1, <2>2, <1>2 DEF SinceMoveRemembered, DuplicateUnencrypted, MaxCounter,
         Bits, CounterInRange, BitIsSet, ReceptionTypeOK
<1>3. CASE ~CounterInRange(reception_state, c)
  <2>1. MaxCounter' = c /\ sinceMove' = {c}
    BY <1>1, <1>3, AcceptOutOfRange DEF Accept, MaxCounter
  <2> QED
    BY <2>1 DEF SinceMoveRemembered, DuplicateUnencrypted, MaxCounter
<1> QED BY <1>2, <1>3

(* One step of an encrypted session *)
LEMMA AcceptKeepsEncrypted ==
    ASSUME ReceptionTypeOK, ReceptionTypeOK', kind = "encrypted",
           Remembered, Counted, WrappedBitsSet,
           NEW c \in Counter, Accept(c)
    PROVE  Remembered' /\ Counted' /\ WrappedBitsSet'
<1>1. /\ MaxCounter \in 0 .. CounterMod - 1
      /\ c \in 0 .. CounterMod - 1
      /\ CounterMod \in Nat \ {0}
      /\ WindowSize \in Nat \ {0}
      /\ times \in [Counter -> 0 .. 3]
      /\ Bits \subseteq Position
  BY CounterAssumption
     DEF ReceptionTypeOK, ReceptionStates, Counter, MaxCounter, Bits, CountCap
<1>2. ~DuplicateEncrypted(reception_state, c)
  BY DEF Accept, Duplicate
<1>3. c # MaxCounter
  BY <1>2 DEF DuplicateEncrypted, MaxCounter
<1>4. PositionOf(reception_state, c) =
         IF c < MaxCounter THEN MaxCounter - 1 - c ELSE MaxCounter - 1 - c + CounterMod
  BY PositionCases DEF ReceptionTypeOK, MaxCounter
<1>5. /\ times' = [times EXCEPT ![c] = IF times[c] < 3 THEN times[c] + 1
                                                       ELSE times[c]]
      /\ reception_state' = AfterAccepting(reception_state, c)
  BY <1>1 DEF Accept, CountCap
<1>6. CASE CounterInRange(reception_state, c)
  <2>1. /\ PositionOf(reception_state, c) \in Position
        /\ PositionOf(reception_state, c) \notin Bits
    BY <1>2, <1>6 DEF DuplicateEncrypted, CounterInRange, BitIsSet, Bits
  <2>2. c < MaxCounter
    BY <1>1, <1>3, <1>4, <2>1 DEF WrappedBitsSet
  <2>3. /\ MaxCounter' = MaxCounter
        /\ Bits' = Bits \cup {MaxCounter - 1 - c}
    BY <1>4, <1>5, <1>6, <2>2, AcceptInRange
  <2>4. times[c] <= 1
    BY <1>1, <1>4, <2>1, <2>2 DEF Remembered, Position
  <2>5. Remembered'
    BY <1>1, <1>5, <2>2, <2>3, <2>4 DEF Remembered, Counter
  <2>6. Counted'
    BY <1>1, <1>5, <2>2, <2>3, <2>4 DEF Counted, Counter
  <2>7. WrappedBitsSet'
    BY <2>3 DEF WrappedBitsSet
  <2> QED BY <2>5, <2>6, <2>7
<1>7. CASE ~CounterInRange(reception_state, c)
  <2>1. c > MaxCounter
    BY <1>1, <1>2, <1>3, <1>7 DEF DuplicateEncrypted, MaxCounter
  <2>2. /\ MaxCounter' = c
        /\ Bits' = {p \in Position : p - (c - MaxCounter) \in Bits}
    BY <1>3, <1>5, <1>7, <2>1, AcceptOutOfRange
  <2>3. times[c] = 0
    BY <2>1 DEF Counted
  <2>4. Remembered'
    <3> SUFFICES ASSUME NEW d \in Counter, d < c, c - 1 - d < WindowSize
                 PROVE  /\ c - 1 - d \notin Bits' => times'[d] <= 1
                        /\ d # 0 /\ c - 1 - d \in Bits' => times'[d] >= 1
      BY <2>2 DEF Remembered
    <3>1. /\ d \in 0 .. CounterMod - 1
          /\ times'[d] = times[d]
          /\ c - 1 - d \in Position
          /\ times[d] \in 0 .. 3
      BY <1>1, <1>5 DEF Counter, Position
    <3>2. c - 1 - d \in Bits' <=> MaxCounter - 1 - d \in Bits
      BY <1>1, <2>2, <3>1
    <3>3. CASE d < MaxCounter
      <4>1. MaxCounter - 1 - d < WindowSize
        BY <1>1, <2>1, <3>1
      <4> QED BY <3>1, <3>2, <3>3, <4>1 DEF Remembered
    <3>4. CASE d >= MaxCounter
      <4>1. MaxCounter - 1 - d \notin Bits
        BY <1>1, <3>1, <3>4 DEF Position
      <4>2. times[d] <= 1
        BY <1>1, <3>1, <3>4 DEF Counted
      <4> QED BY <3>1, <3>2, <4>1, <4>2
    <3> QED BY <1>1, <3>1, <3>3, <3>4
  <2>5. Counted'
    BY <1>1, <1>5, <2>1, <2>2, <2>3 DEF Counted, Counter
  <2>6. WrappedBitsSet'
    <3> SUFFICES ASSUME NEW p \in Position, p >= c
                 PROVE  p - (c - MaxCounter) \in Bits
      BY <2>2 DEF WrappedBitsSet
    <3>1. p - (c - MaxCounter) \in Position /\ p - (c - MaxCounter) >= MaxCounter
      BY <1>1, <2>1 DEF Position
    <3> QED BY <3>1 DEF WrappedBitsSet
  <2> QED BY <2>4, <2>5, <2>6
<1> QED BY <1>6, <1>7

(* Every step, and stuttering, keeps the inductive invariant. *)
LEMMA NextReceptionInv == ReceptionInv /\ [ReceptionNext]_receptionVars => ReceptionInv'
<1> SUFFICES ASSUME ReceptionInv, [ReceptionNext]_receptionVars PROVE ReceptionInv'
  OBVIOUS
<1>1. ASSUME NEW c \in Counter, Accept(c) PROVE ReceptionInv'
  <2>1. ReceptionTypeOK'
    BY <1>1, AcceptKeepsType DEF ReceptionInv
  <2>2. SinceMoveRemembered'
    BY <1>1, <2>1, AcceptKeepsSinceMove DEF ReceptionInv
  <2>3. kind' = kind
    BY <1>1 DEF Accept
  <2>4. kind = "encrypted" => Remembered' /\ Counted' /\ WrappedBitsSet'
    BY <1>1, <2>1, AcceptKeepsEncrypted DEF ReceptionInv
  <2> QED BY <2>1, <2>2, <2>3, <2>4 DEF ReceptionInv
<1>2. CASE UNCHANGED receptionVars
  BY <1>2 DEF receptionVars, ReceptionInv, ReceptionTypeOK, SinceMoveRemembered,
       Remembered, Counted,
       WrappedBitsSet, MaxCounter, Bits
<1> QED BY <1>1, <1>2 DEF ReceptionNext

(* The inductive invariant holds in every state of the specification. *)
THEOREM ReceptionInvHolds == ReceptionSpec => []ReceptionInv
  BY InitReceptionInv, NextReceptionInv, PTL DEF ReceptionSpec

(* The type invariant, for every CounterMod and WindowSize *)
THEOREM ReceptionTypeCorrect == ReceptionSpec => []ReceptionTypeOK
<1>1. ReceptionInv => ReceptionTypeOK
  BY DEF ReceptionInv
<1> QED BY <1>1, ReceptionInvHolds, PTL

(* No encrypted session accepts a counter a third time, for every number   *)
(* of counters and every window.                                           *)
THEOREM AtMostTwiceHolds == ReceptionSpec => []AtMostTwice
<1>1. ReceptionInv => AtMostTwice
  BY DEF ReceptionInv, AtMostTwice, Counted
<1> QED BY <1>1, ReceptionInvHolds, PTL

(* A first arrival within the window is never taken for a duplicate. *)
THEOREM FreshIsAcceptedHolds == ReceptionSpec => []FreshIsAccepted
<1>1. ReceptionInv => FreshIsAccepted
  <2> SUFFICES ASSUME ReceptionInv, kind = "encrypted", NEW c \in Counter \ {0},
                      times[c] = 0, MaxCounter - WindowSize <= c,
                      c < MaxCounter + CounterMod - WindowSize
               PROVE  ~Duplicate(c)
    BY DEF FreshIsAccepted, MaxCounter
  <2>1. /\ MaxCounter \in 0 .. CounterMod - 1
        /\ c \in 1 .. CounterMod - 1
        /\ CounterMod \in Nat \ {0}
        /\ WindowSize \in Nat \ {0}
    BY CounterAssumption DEF ReceptionInv, ReceptionTypeOK, ReceptionStates, Counter, MaxCounter
  <2>2. PositionOf(reception_state, c) =
           IF c < MaxCounter THEN MaxCounter - 1 - c ELSE MaxCounter - 1 - c + CounterMod
    BY PositionCases DEF ReceptionInv, ReceptionTypeOK, MaxCounter
  <2>3. c # MaxCounter
    BY <2>1 DEF ReceptionInv, Counted
  <2>4. CASE c < MaxCounter
    <3>1. PositionOf(reception_state, c) \in Position
      BY <2>1, <2>2, <2>4 DEF Position
    <3>2. PositionOf(reception_state, c) \notin Bits
      BY <2>1, <2>2, <2>4 DEF ReceptionInv, Remembered
    <3> QED BY <2>3, <3>1, <3>2
         DEF Duplicate, DuplicateEncrypted, CounterInRange, BitIsSet, Bits, MaxCounter
  <2>5. CASE c > MaxCounter
    <3>1. PositionOf(reception_state, c) \notin Position
      BY <2>1, <2>2, <2>5 DEF Position
    <3>2. ~(c < MaxCounter + 1)
      BY <2>1, <2>5
    <3> QED BY <2>3, <3>1, <3>2
         DEF Duplicate, DuplicateEncrypted, CounterInRange, MaxCounter
  <2> QED BY <2>1, <2>3, <2>4, <2>5
<1> QED BY <1>1, ReceptionInvHolds, PTL

(* On either kind of session a counter comes back only after the maximum   *)
(* has moved.                                                              *)
THEOREM RepeatNeedsMoveHolds == ReceptionSpec => []RepeatNeedsMove
<1>1. ReceptionInv => RepeatNeedsMove
  BY DEF ReceptionInv, RepeatNeedsMove, SinceMoveRemembered, Duplicate,
       DuplicateEncrypted, DuplicateUnencrypted, ReceptionTypeOK, Kinds
<1> QED BY <1>1, ReceptionInvHolds, PTL
-----------------------------------------------------------------------------
(* A set of objects that is not empty has a least member.                      *)
LEMMA LeastMember ==
    ASSUME NEW S \in SUBSET Nat, S # {}
    PROVE  Least(S) \in S
BY LeastOf DEF Least

(* A task that is spawned, or that ends, among those alive.                    *)
LEMMA SpawnTask ==
    ASSUME NEW ts, IsABag(ts), NEW task
    PROVE  /\ IsABag(Spawn(ts, task))
           /\ DOMAIN Spawn(ts, task) = DOMAIN ts \cup {task}
           /\ task \notin DOMAIN ts => Spawn(ts, task)[task] = 1
BY DEF IsABag, Spawn, (+), SetToBag

LEMMA TakeTask ==
    ASSUME NEW ts, IsABag(ts), NEW r
    PROVE  /\ IsABag(Taken(ts, r))
           /\ DOMAIN Taken(ts, r) \subseteq DOMAIN ts
           /\ DOMAIN ts \ {r} \subseteq DOMAIN Taken(ts, r)
BY DEF IsABag, Taken, (-), SetToBag

LEMMA TakeLast ==
    ASSUME NEW ts, IsABag(ts), NEW r \in DOMAIN ts, ts[r] = 1
    PROVE  DOMAIN Taken(ts, r) = DOMAIN ts \ {r}
BY DEF IsABag, Taken, (-), SetToBag
-----------------------------------------------------------------------------
(* m, if it has to be acknowledged on e, came on e and was accepted.            *)
Sound(e, m, ow) == m \in ow /\ traffic[m].xid = e.xid /\ RoleFor(m) = e.role

(* What left the table has nothing left to acknowledge.                        *)
ObjectOK(e, ow) ==
    \/ e = None
    \/ /\ e \in ExchangeObject
       /\ e.ack # None => Sound(e, e.ack, ow)
       /\ ~e.open => ~AckPending(e)

(* A task keeps its object alive, and what it says is sound there.              *)
TaskOK(ex, r, ow) ==
    /\ r \in TaskRecord
    /\ ex[r.obj] # None
    /\ r.ctr # None => Sound(ex[r.obj], r.ctr, ow)

(* Of objects ex and tasks ts, which an action goes through before Update.       *)
Good(ex, ts, ow) ==
    /\ ex = [o \in Object |-> ex[o]]
    /\ IsABag(ts)
    /\ ow \subseteq Message
    /\ \A o \in Object : ObjectOK(ex[o], ow)
    /\ \A r \in DOMAIN ts : TaskOK(ex, r, ow)

LEMMA GoodSpawn ==
    ASSUME NEW ex, NEW ts, NEW ow, Good(ex, ts, ow), NEW task, TaskOK(ex, task, ow)
    PROVE  Good(ex, Spawn(ts, task), ow)
BY SpawnTask DEF Good

LEMMA GoodTake ==
    ASSUME NEW ex, NEW ts, NEW ow, Good(ex, ts, ow), NEW r
    PROVE  Good(ex, Taken(ts, r), ow)
BY TakeTask DEF Good

LEMMA GoodCancel ==
    ASSUME NEW ex, NEW ts, NEW ow, Good(ex, ts, ow), NEW o
    PROVE  Good(ex, CancelTimer(ts, o), ow)
BY GoodTake DEF CancelTimer

LEMMA GoodOrphan ==
    ASSUME NEW ex, NEW ts, NEW ow, Good(ex, ts, ow), NEW o
    PROVE  Good(ex, OrphanTimer(ts, o), ow)
<1>1. CASE TimersOf(ts, o) = {}
  BY <1>1 DEF OrphanTimer
<1>2. CASE TimersOf(ts, o) # {}
  <2> DEFINE r == CHOOSE r \in TimersOf(ts, o) : TRUE
  <2>1. r \in DOMAIN ts
    BY <1>2 DEF TimersOf
  <2>2. TaskOK(ex, r, ow)
    BY <2>1 DEF Good
  <2> HIDE DEF r
  <2>3. TaskOK(ex, [r EXCEPT !.isTimer = FALSE], ow)
    BY <2>2 DEF TaskOK, TaskRecord
  <2>4. Good(ex, Spawn(Taken(ts, r), [r EXCEPT !.isTimer = FALSE]), ow)
    BY <2>3, GoodTake, GoodSpawn
  <2> QED
    BY <1>2, <2>4 DEF OrphanTimer, r
<1> QED
  BY <1>1, <1>2

(* An object changes, but neither its id nor its role.                         *)
LEMMA GoodSet ==
    ASSUME NEW ex, NEW ts, NEW ow, Good(ex, ts, ow), NEW o \in Object, ex[o] # None,
           NEW e, ObjectOK(e, ow), e # None, e.xid = ex[o].xid, e.role = ex[o].role
    PROVE  Good([ex EXCEPT ![o] = e], ts, ow)
<1> DEFINE ex2 == [ex EXCEPT ![o] = e]
<1>1. ex2 = [p \in Object |-> ex2[p]] /\ \A p \in Object : ObjectOK(ex2[p], ow)
  BY DEF Good
<1>2. ASSUME NEW r \in DOMAIN ts PROVE TaskOK(ex2, r, ow)
  BY <1>2 DEF Good, TaskOK, TaskRecord, Sound
<1> QED
  BY <1>1, <1>2 DEF Good

(* A new object takes the place of none, which no task used.                   *)
LEMMA GoodNew ==
    ASSUME NEW ex, NEW ts, NEW ow, Good(ex, ts, ow), NEW o \in Object, ex[o] = None,
           NEW e, ObjectOK(e, ow)
    PROVE  Good([ex EXCEPT ![o] = e], ts, ow)
<1> DEFINE ex2 == [ex EXCEPT ![o] = e]
<1>1. ex2 = [p \in Object |-> ex2[p]] /\ \A p \in Object : ObjectOK(ex2[p], ow)
  BY DEF Good
<1>2. ASSUME NEW r \in DOMAIN ts PROVE TaskOK(ex2, r, ow)
  BY <1>2 DEF Good, TaskOK, TaskRecord, Sound
<1> QED
  BY <1>1, <1>2 DEF Good

(* More becomes owed.                                                          *)
LEMMA GoodOwed ==
    ASSUME NEW ex, NEW ts, NEW ow, Good(ex, ts, ow), NEW m \in Message
    PROVE  Good(ex, ts, ow \cup {m})
BY DEF Good, ObjectOK, TaskOK, Sound

(* Update, and the collection of what no task uses.                            *)
LEMMA GoodUpdate ==
    ASSUME NEW ex, NEW ts, NEW ow, Good(ex, ts, ow),
           Update(ex, ts), UNCHANGED traffic
    PROVE  Good(exchange, tasks, ow)'
<1> DEFINE ex2 == Collect(ex, ts)
<1>1. ex2 = [p \in Object |-> ex2[p]] /\ \A p \in Object : ObjectOK(ex2[p], ow)
  BY DEF Good, Collect, ObjectOK
<1>2. ASSUME NEW r \in DOMAIN ts PROVE TaskOK(ex2, r, ow)
  BY <1>2 DEF Good, Collect, TaskOK, TaskRecord, Sound
<1>3. Good(ex2, ts, ow)
  BY <1>1, <1>2 DEF Good
<1> QED
  BY <1>3 DEF Update, Good, ObjectOK, TaskOK, Sound, RoleFor, AckPending
-----------------------------------------------------------------------------
ExchangeInv ==
    /\ TypeOK
    /\ Good(exchange, tasks, owed)
    /\ AckIsSound

LEMMA ObjectIsNat == Object \subseteq Nat
BY ExchangeAssumption DEF Object

(* What a task does between two awaits leaves objects and tasks good.            *)
LEMMA GoodRemoved ==
    ASSUME NEW ex, NEW ts, NEW ow, Good(ex, ts, ow), NEW o \in Object, ex[o] # None,
           ~AckPending(ex[o])
    PROVE  Good(Removed(ex, o), ts, ow)
<1> DEFINE e == [ex[o] EXCEPT !.closing = TRUE, !.open = FALSE]
<1>1. ex[o] \in ExchangeObject /\ ObjectOK(ex[o], ow)
  BY DEF Good, ObjectOK
<1>2. /\ e \in ExchangeObject /\ ~AckPending(e)
      /\ e.ack = ex[o].ack /\ e.xid = ex[o].xid /\ e.role = ex[o].role
  BY <1>1 DEF ExchangeObject, AckPending
<1>3. ObjectOK(e, ow)
  BY <1>1, <1>2 DEF ObjectOK, Sound
<1>4. e # None
  BY <1>2, ExchangeAssumption
<1>5. Good([ex EXCEPT ![o] = e], ts, ow)
  BY <1>2, <1>3, <1>4, GoodSet
<1>6. Removed(ex, o) = [ex EXCEPT ![o] = e]
  BY DEF Removed, Good
<1> QED
  BY <1>5, <1>6

LEMMA GoodRemovedAfterAck ==
    ASSUME NEW ex, NEW ts, NEW ow, Good(ex, ts, ow), NEW o \in Object, ex[o] # None
    PROVE  Good(RemovedAfterAck(ex, o), ts, ow)
<1> DEFINE e == [ex[o] EXCEPT !.closing = TRUE, !.open = FALSE, !.ack = None]
<1>1. ex[o] \in ExchangeObject
  BY DEF Good, ObjectOK
<1>2. e \in ExchangeObject /\ e.ack = None /\ e.xid = ex[o].xid /\ e.role = ex[o].role
  BY <1>1 DEF ExchangeObject
<1>3. ObjectOK(e, ow) /\ e # None
  BY <1>2, ExchangeAssumption DEF ObjectOK, AckPending
<1>4. Good([ex EXCEPT ![o] = e], ts, ow)
  BY <1>2, <1>3, GoodSet
<1>5. RemovedAfterAck(ex, o) = [ex EXCEPT ![o] = e]
  BY DEF RemovedAfterAck, Removed, Good
<1> QED
  BY <1>4, <1>5

LEMMA GoodMarkedSent ==
    ASSUME NEW ex, NEW ts, NEW ow, Good(ex, ts, ow), NEW o \in Object, ex[o] # None
    PROVE  Good(MarkedSent(ex, o), ts, ow)
<1> DEFINE e == [ex[o] EXCEPT !.ackSent = TRUE]
<1>1. ex[o] \in ExchangeObject /\ ObjectOK(ex[o], ow)
  BY DEF Good, ObjectOK
<1>2. e \in ExchangeObject /\ ~AckPending(e) /\ e.ack = ex[o].ack
      /\ e.xid = ex[o].xid /\ e.role = ex[o].role
  BY <1>1 DEF ExchangeObject, AckPending
<1>3. ObjectOK(e, ow) /\ e # None
  BY <1>1, <1>2, ExchangeAssumption DEF ObjectOK, Sound
<1> QED
  BY <1>2, <1>3, GoodSet DEF MarkedSent

LEMMA GoodAckCleared ==
    ASSUME NEW ex, NEW ts, NEW ow, Good(ex, ts, ow), NEW o \in Object, ex[o] # None
    PROVE  Good([ex EXCEPT ![o].ack = None], ts, ow)
<1> DEFINE e == [ex[o] EXCEPT !.ack = None]
<1>1. ex[o] \in ExchangeObject
  BY DEF Good, ObjectOK
<1>2. e \in ExchangeObject /\ e.ack = None /\ e.xid = ex[o].xid /\ e.role = ex[o].role
  BY <1>1 DEF ExchangeObject
<1>3. ObjectOK(e, ow) /\ e # None
  BY <1>2, ExchangeAssumption DEF ObjectOK, AckPending
<1> QED
  BY <1>2, <1>3, GoodSet

(* An object that starts to close has a send under way.                         *)
LEMMA GoodClosing ==
    ASSUME NEW ex, NEW ts, NEW ow, Good(ex, ts, ow), NEW o \in Object, ex[o] # None
    PROVE  Good(Closing(ex, o), ts, ow)
<1> DEFINE e == [ex[o] EXCEPT !.closing = TRUE]
<1>1. ex[o] \in ExchangeObject /\ ObjectOK(ex[o], ow)
  BY DEF Good, ObjectOK
<1>2. e \in ExchangeObject /\ e.ack = ex[o].ack /\ e.xid = ex[o].xid
      /\ e.role = ex[o].role /\ e.open = ex[o].open /\ e.ackSent = ex[o].ackSent
  BY <1>1 DEF ExchangeObject
<1>3. ObjectOK(e, ow) /\ e # None
  BY <1>1, <1>2, ExchangeAssumption DEF ObjectOK, Sound, AckPending
<1> QED
  BY <1>2, <1>3, GoodSet DEF Closing

(* The tasks that actions put in place.                                        *)
LEMMA NewTasksOK ==
    ASSUME NEW ex, NEW ts, NEW ow, Good(ex, ts, ow), NEW o \in Object, ex[o] # None,
           NEW m \in Message \cup {None}, NEW b \in BOOLEAN
    PROVE  /\ TaskOK(ex, Timer(o), ow)
           /\ TaskOK(ex, AckTask(o), ow)
           /\ TaskOK(ex, Handler(o, m), ow)
           /\ \A then \in {"end", "dup", "close", "dispatch"} :
                 /\ TaskOK(ex, SendingAck(ex, o, m, then), ow)
                 /\ TaskOK(ex, [SendingAck(ex, o, m, then) EXCEPT !.isTimer = b], ow)
                 /\ TaskOK(ex, SendingReply(ex, o, then), ow)
<1>1. ex[o] \in ExchangeObject /\ ObjectOK(ex[o], ow)
  BY DEF Good, ObjectOK
<1>2. ex[o].ack \in Message \cup {None} /\ (ex[o].ack # None => Sound(ex[o], ex[o].ack, ow))
  BY <1>1, ExchangeAssumption DEF ObjectOK, ExchangeObject
<1>3. TaskOK(ex, Timer(o), ow) /\ TaskOK(ex, AckTask(o), ow)
      /\ TaskOK(ex, Handler(o, m), ow)
  BY DEF TaskOK, TaskRecord, Timer, AckTask, Handler
<1>4. ASSUME NEW then \in {"end", "dup", "close", "dispatch"}
      PROVE  /\ TaskOK(ex, SendingAck(ex, o, m, then), ow)
             /\ TaskOK(ex, [SendingAck(ex, o, m, then) EXCEPT !.isTimer = b], ow)
             /\ TaskOK(ex, SendingReply(ex, o, then), ow)
  BY <1>2 DEF TaskOK, TaskRecord, SendingAck, SendingReply
<1> QED
  BY <1>3, <1>4

LEMMA GoodDispatch ==
    ASSUME NEW ex, NEW ts, NEW ow, Good(ex, ts, ow), NEW o \in Object, ex[o] # None,
           NEW m \in Message \cup {None}
    PROVE  Good(ex, Dispatch(ex, ts, o, m), ow)
<1>1. TaskOK(ex, Handler(o, m), ow)
  BY NewTasksOK
<1> QED
  BY <1>1, GoodSpawn DEF Dispatch
-----------------------------------------------------------------------------
(* find_exchange returns an open exchange of the id and role of the message.    *)
LEMMA FindExchangeGives ==
    ASSUME ExchangeInv, NEW m \in Message, Received(m), Outcome(m) # "none",
           NEW ex, ex = WithExchange(m, Outcome(m)),
           NEW o, o = ExchangeOf(m, Outcome(m))
    PROVE  /\ o \in Object /\ Good(ex, tasks, owed)
           /\ ex[o] # None /\ ex[o].open
           /\ traffic[m].xid = ex[o].xid /\ RoleFor(m) = ex[o].role
<1>1. Good(exchange, tasks, owed)
  BY DEF ExchangeInv
<1>2. CASE Outcome(m) = "found"
  <2>1. ex = exchange /\ o \in Matching(m)
    BY <1>2 DEF Outcome, Outcome_find_exchange, WithExchange, ExchangeOf
  <2> QED
    BY <1>1, <2>1 DEF Matching, Open, Key
<1>3. CASE Outcome(m) \in {"new", "ephemeral"}
  <2> DEFINE e == NewExchange(traffic[m].xid, RoleFor(m), Outcome(m) = "ephemeral")
  <2>1. o = Least(FreeObjects(exchange)) /\ ex = [exchange EXCEPT ![o] = e]
    BY <1>3 DEF WithExchange, ExchangeOf
  <2>2. o \in FreeObjects(exchange)
    BY <1>3, <2>1, LeastMember, ObjectIsNat DEF Received, FreeObjects
  <2>3. o \in Object /\ exchange[o] = None
    BY <2>2 DEF FreeObjects
  <2>4. traffic[m] \in MessageKind
    BY ExchangeAssumption DEF ExchangeInv, TypeOK
  <2>5. e \in ExchangeObject /\ e.open /\ e.ack = None
        /\ e.xid = traffic[m].xid /\ e.role = RoleFor(m)
    BY <2>4 DEF NewExchange, ExchangeObject, RoleFor, Roles, MessageKind, Xid
  <2>6. ObjectOK(e, owed) /\ e # None
    BY <2>5, ExchangeAssumption DEF ObjectOK
  <2>7. ex[o] = e
    BY <1>1, <2>1, <2>3 DEF Good
  <2>8. Good([exchange EXCEPT ![o] = e], tasks, owed)
    BY <1>1, <2>3, <2>6, GoodNew
  <2> QED
    BY <2>1, <2>3, <2>5, <2>6, <2>7, <2>8
<1> QED
  BY <1>2, <1>3 DEF Outcome, Outcome_find_exchange

(* A message on an exchange that is open: it closes it, or is dispatched.  *)
LEMMA CloseOrDispatchKeeps ==
    ASSUME NEW ex, NEW ts, NEW ow, Good(ex, ts, ow), NEW o \in Object, ex[o] # None,
           NEW m \in Message, CloseOrDispatch(ex, ts, o, m), UNCHANGED traffic
    PROVE  Good(exchange, tasks, ow)'
<1>1. CASE ex[o].closing /\ AckPending(ex[o])
  <2> DEFINE task == SendingAck(ex, o, m, IF IsDuplicate(m) THEN "close" ELSE "dispatch")
  <2>1. TaskOK(ex, task, ow)
    BY NewTasksOK
  <2>2. Good(ex, Spawn(ts, task), ow)
    BY <2>1, GoodSpawn
  <2> QED
    BY <1>1, <2>2, GoodUpdate DEF CloseOrDispatch
<1>2. CASE ~(ex[o].closing /\ AckPending(ex[o]))
  <2> DEFINE ex1 == IF ex[o].closing THEN Removed(ex, o) ELSE ex
  <2>1. Good(ex1, ts, ow)
    BY <1>2, GoodRemoved
  <2>2. ex1[o] # None
    <3>1. ex[o] \in ExchangeObject
      BY DEF Good, ObjectOK
    <3>2. [ex[o] EXCEPT !.closing = TRUE, !.open = FALSE] \in ExchangeObject
      BY <3>1 DEF ExchangeObject
    <3>3. ex[o].closing => ex1[o] = [ex[o] EXCEPT !.closing = TRUE, !.open = FALSE]
      BY DEF Removed, Good
    <3> QED
      BY <3>2, <3>3, ExchangeAssumption
  <2>3. Good(ex1, Dispatch(ex1, ts, o, m), ow)
    BY <2>1, <2>2, GoodDispatch
  <2>4. Update(ex1, ts) \/ Update(ex1, Dispatch(ex1, ts, o, m))
    BY <1>2 DEF CloseOrDispatch
  <2> HIDE DEF ex1
  <2> QED
    BY <2>1, <2>3, <2>4, GoodUpdate
<1> QED
  BY <1>1, <1>2

(* A message that finds no exchange opens one.                             *)
LEMMA RegisteredGood ==
    ASSUME NEW ex, NEW ts, NEW ow, Good(ex, ts, ow), NEW o \in Object, ex[o] # None,
           ex[o].open, NEW m \in Message, Sound(ex[o], m, ow)
    PROVE  LET r == Registered(ex, ts, o, m)
           IN  Good(r.ex, r.ts, ow) /\ r.ex[o] # None
<1> DEFINE e == [ex[o] EXCEPT !.ack = m, !.ackSent = FALSE]
           ex1 == [ex EXCEPT ![o].ack = m, ![o].ackSent = FALSE]
           ts1 == IF AckPending(ex[o]) THEN Spawn(CancelTimer(ts, o), AckTask(o))
                                       ELSE OrphanTimer(ts, o)
<1>1. ex[o] \in ExchangeObject
  BY DEF Good, ObjectOK
<1>2. e \in ExchangeObject /\ e.ack = m /\ e.xid = ex[o].xid /\ e.role = ex[o].role
      /\ e.open
  BY <1>1 DEF ExchangeObject
<1>3. ObjectOK(e, ow) /\ e # None
  BY <1>2, ExchangeAssumption DEF ObjectOK, Sound
<1>4. ex1 = [ex EXCEPT ![o] = e] /\ ex1[o] = e
  BY DEF Good
<1>5. TaskOK(ex, AckTask(o), ow)
  BY NewTasksOK
<1>6. Good(ex, CancelTimer(ts, o), ow)
  BY GoodCancel
<1>7. Good(ex, ts1, ow)
  BY <1>5, <1>6, GoodSpawn, GoodOrphan
<1> HIDE DEF ts1
<1>8. TaskOK(ex, Timer(o), ow)
  BY NewTasksOK
<1>9. Good(ex, Spawn(ts1, Timer(o)), ow)
  BY <1>7, <1>8, GoodSpawn
<1> HIDE DEF e, ex1
<1>10. Good(ex1, Spawn(ts1, Timer(o)), ow)
  BY <1>2, <1>3, <1>4, <1>9, GoodSet
<1> QED
  BY <1>3, <1>4, <1>10 DEF Registered, ts1, ex1
-----------------------------------------------------------------------------
LEMMA GoodTyped ==
    ASSUME Good(exchange, tasks, owed)'
    PROVE  (/\ exchange \in [Object -> ExchangeObject \cup {None}]
            /\ IsABag(tasks) /\ DOMAIN tasks \subseteq TaskRecord
            /\ owed \subseteq Message)'
<1>1. (\A o \in Object : exchange[o] \in ExchangeObject \cup {None})'
  BY DEF Good, ObjectOK
<1>2. (DOMAIN tasks \subseteq TaskRecord)'
  BY DEF Good, TaskOK
<1> QED
  BY <1>1, <1>2 DEF Good

LEMMA ReceptionTyped ==
    ASSUME reception \in ReceptionStates, NEW m \in Message
    PROVE  AfterAccepting(reception, m) \in ReceptionStates
BY CounterAssumption, ExchangeAssumption
DEF AfterAccepting, ReceptionStates, CounterInRange, SetBit, UpdateMax, ShiftBitmap,
    Counter, Message

(* A datagram, accepted or not.                                            *)
LEMMA ReceiveGood ==
    ASSUME ExchangeInv, NEW m \in Message, Receive(m)
    PROVE  /\ Good(exchange, tasks, owed)'
           /\ owed \subseteq owed'
           /\ superseded' \subseteq Message
<1> DEFINE ex == WithExchange(m, Outcome(m))
           o  == ExchangeOf(m, Outcome(m))
<1>1. Received(m) /\ UNCHANGED traffic
  BY DEF Receive, ReceiveUnmatched, ReceiveUnreliable, ReceiveReliableDuplicate,
         ReceiveReliable, Received, given
<1>2. Good(exchange, tasks, owed) /\ superseded \subseteq Message
  BY DEF ExchangeInv, TypeOK
<1>3. CASE Outcome(m) = "none"
  <2>1. ~traffic[m].reliable
    BY <1>3 DEF Outcome, Outcome_find_exchange
  <2>2. UNCHANGED <<exchange, tasks, owed, superseded>>
    BY <1>3, <2>1 DEF Receive, ReceiveUnmatched, ReceiveUnreliable,
                      ReceiveReliableDuplicate, ReceiveReliable
  <2> QED
    BY <1>1, <1>2, <2>2 DEF Good, ObjectOK, TaskOK, Sound, RoleFor, AckPending
<1>4. CASE Outcome(m) # "none"
  <2>1. /\ o \in Object /\ Good(ex, tasks, owed)
        /\ ex[o] # None /\ ex[o].open
        /\ traffic[m].xid = ex[o].xid /\ RoleFor(m) = ex[o].role
    BY <1>1, <1>4, FindExchangeGives
  <2>2. ex[o] \in ExchangeObject
    BY <2>1 DEF Good, ObjectOK
  <2>3. CASE ReceiveUnreliable(m)
    <3>1. CloseOrDispatch(ex, tasks, o, m) /\ UNCHANGED <<owed, superseded>>
      BY <2>3 DEF ReceiveUnreliable
    <3> HIDE DEF ex, o
    <3> QED
      BY <1>1, <1>2, <2>1, <3>1, CloseOrDispatchKeeps
  <2>4. CASE ReceiveReliableDuplicate(m)
    <3>1. UNCHANGED <<owed, superseded>>
      BY <2>4 DEF ReceiveReliableDuplicate
    <3>2. CASE ex[o].ack # None
      <4>1. Update(ex, Spawn(tasks, SendingAck(ex, o, m, "dup")))
        BY <2>4, <3>2 DEF ReceiveReliableDuplicate
      <4> HIDE DEF ex, o
      <4>2. TaskOK(ex, SendingAck(ex, o, m, "dup"), owed)
        BY <2>1, NewTasksOK
      <4>3. Good(ex, Spawn(tasks, SendingAck(ex, o, m, "dup")), owed)
        BY <2>1, <4>2, GoodSpawn
      <4> QED
        BY <1>1, <1>2, <3>1, <4>1, <4>3, GoodUpdate
    <3>3. CASE ex[o].ack = None
      <4>1. Update(IF ex[o].ephemeral THEN Removed(ex, o) ELSE ex, tasks)
        BY <2>4, <3>3 DEF ReceiveReliableDuplicate
      <4> HIDE DEF ex, o
      <4>2. Good(Removed(ex, o), tasks, owed)
        BY <2>1, <3>3, GoodRemoved DEF AckPending
      <4> QED
        BY <1>1, <1>2, <2>1, <3>1, <4>1, <4>2, GoodUpdate
    <3> QED
      BY <3>2, <3>3
  <2>5. CASE ReceiveReliable(m)
    <3> DEFINE r == Registered(ex, tasks, o, m)
    <3>1. /\ CloseOrDispatch(r.ex, r.ts, o, m)
          /\ owed' = owed \cup {m}
          /\ superseded' = IF AckPending(ex[o])
                           THEN superseded \cup {ex[o].ack} ELSE superseded
      BY <2>5 DEF ReceiveReliable
    <3> HIDE DEF ex, o
    <3>2. Good(ex, tasks, owed \cup {m})
      BY <2>1, GoodOwed
    <3>3. Sound(ex[o], m, owed \cup {m})
      BY <2>1 DEF Sound
    <3>4. Good(r.ex, r.ts, owed \cup {m}) /\ r.ex[o] # None
      BY <2>1, <3>2, <3>3, RegisteredGood
    <3> HIDE DEF r
    <3>5. ASSUME NEW ow, ow = owed \cup {m}, NEW ex1, ex1 = r.ex, NEW ts1, ts1 = r.ts
          PROVE  Good(exchange, tasks, ow)'
      <4>1. Good(ex1, ts1, ow) /\ ex1[o] # None /\ CloseOrDispatch(ex1, ts1, o, m)
        BY <3>1, <3>4, <3>5
      <4> QED
        BY <1>1, <2>1, <4>1, CloseOrDispatchKeeps
    <3>6. superseded' \subseteq Message
      BY <1>2, <2>2, <3>1 DEF AckPending, ExchangeObject
    <3> QED
      BY <3>1, <3>5, <3>6
  <2> QED
    BY <1>4, <2>3, <2>4, <2>5 DEF Receive, ReceiveUnmatched
<1> QED
  BY <1>3, <1>4
-----------------------------------------------------------------------------
(* While sends find room, one is under way at most, an acknowledgement finds    *)
(* what it has to acknowledge in its place, and an exchange that closes but is   *)
(* still in the table is what the send is for.                                  *)
IsSend(r) == r.step \in {"SENDING_ACK", "SENDING_REPLY"}

Quiet(ex, ts) ==
    /\ \A r \in DOMAIN ts : IsSend(r) => ts[r] = 1
    /\ \A r, q \in DOMAIN ts : IsSend(r) /\ IsSend(q) => q = r
    /\ \A r \in DOMAIN ts : r.step = "SENDING_ACK" => ex[r.obj].ack # None
    /\ \A o \in Object :
          ex[o] # None /\ ex[o].closing /\ ex[o].open =>
             \E r \in DOMAIN ts : /\ r.obj = o /\ ~r.isTimer
                                 /\ r.step = "SENDING_ACK"
                                 /\ r.then \in {"close", "dispatch"}

NoSend(ts) == IsABag(ts) /\ \A r \in DOMAIN ts : ~IsSend(r)
Calm(ex) ==
    /\ ex = [o \in Object |-> ex[o]]
    /\ \A o \in Object : ex[o] # None => ~(ex[o].closing /\ ex[o].open)

QuietInv == ~sendMaySuspend => Quiet(exchange, tasks)

(* With no send under way and nothing closing, the exchanges are quiet, and     *)
(* conversely.                                                                  *)
LEMMA CalmIsQuiet ==
    ASSUME NEW ex, Calm(ex), NEW ts, NoSend(ts)
    PROVE  Quiet(ex, ts)
BY DEF Calm, NoSend, Quiet, IsSend

LEMMA QuietIsCalm ==
    ASSUME ExchangeInv, QuietInv, ~sendMaySuspend, LoopIsFree
    PROVE  Calm(exchange) /\ NoSend(tasks)
BY DEF ExchangeInv, Good, QuietInv, Quiet, LoopIsFree, Calm, NoSend, IsSend

(* A task that starts to send from a loop at rest.                              *)
LEMMA QuietSpawn ==
    ASSUME NEW ex, Calm(ex), NEW ts, NoSend(ts), NEW task,
           task.step = "SENDING_ACK" => ex[task.obj].ack # None
    PROVE  Quiet(ex, Spawn(ts, task))
<1>1. DOMAIN Spawn(ts, task) = DOMAIN ts \cup {task}
  BY SpawnTask DEF NoSend
<1>2. IsSend(task) => Spawn(ts, task)[task] = 1
  BY SpawnTask DEF NoSend
<1> QED
  BY <1>1, <1>2 DEF Calm, NoSend, Quiet, IsSend

LEMMA NoSendSpawn ==
    ASSUME NEW ts, NoSend(ts), NEW task, ~IsSend(task)
    PROVE  NoSend(Spawn(ts, task))
<1>1. IsABag(Spawn(ts, task)) /\ DOMAIN Spawn(ts, task) = DOMAIN ts \cup {task}
  BY SpawnTask DEF NoSend
<1> QED
  BY <1>1 DEF NoSend

LEMMA NoSendTake ==
    ASSUME NEW ts, NoSend(ts), NEW r
    PROVE  NoSend(Taken(ts, r))
BY TakeTask DEF NoSend

LEMMA NoSendCancel ==
    ASSUME NEW ts, NoSend(ts), NEW o
    PROVE  NoSend(CancelTimer(ts, o))
BY NoSendTake DEF CancelTimer

LEMMA NoSendOrphan ==
    ASSUME NEW ts, NoSend(ts), NEW o, DOMAIN ts \subseteq TaskRecord
    PROVE  NoSend(OrphanTimer(ts, o))
<1>1. CASE TimersOf(ts, o) = {}
  BY <1>1 DEF OrphanTimer
<1>2. CASE TimersOf(ts, o) # {}
  <2> DEFINE r == CHOOSE r \in TimersOf(ts, o) : TRUE
  <2>1. r \in DOMAIN ts
    BY <1>2 DEF TimersOf
  <2> HIDE DEF r
  <2>2. ~IsSend([r EXCEPT !.isTimer = FALSE])
    BY <2>1 DEF NoSend, IsSend, TaskRecord
  <2>3. NoSend(Spawn(Taken(ts, r), [r EXCEPT !.isTimer = FALSE]))
    BY <2>2, NoSendTake, NoSendSpawn
  <2> QED
    BY <1>2, <2>3 DEF OrphanTimer, r
<1> QED
  BY <1>1, <1>2

LEMMA QuietUpdate ==
    ASSUME NEW ex, NEW ts, NEW ow, Good(ex, ts, ow), Quiet(ex, ts), Update(ex, ts)
    PROVE  Quiet(exchange, tasks)'
<1> DEFINE ex2 == Collect(ex, ts)
<1>1. \A r \in DOMAIN ts : ex2[r.obj] = ex[r.obj]
  BY DEF Good, TaskOK, TaskRecord, Collect
<1>2. \A o \in Object : ex2[o] # None => ex2[o] = ex[o]
  BY DEF Collect
<1> HIDE DEF ex2
<1>3. Quiet(ex2, ts)
  BY <1>1, <1>2 DEF Quiet
<1> QED
  BY <1>3 DEF Update, Quiet, IsSend, ex2
-----------------------------------------------------------------------------
LEMMA CloseOrDispatchQuiet ==
    ASSUME NEW ex, NEW ts, NEW ow, Good(ex, ts, ow), Calm(ex), NoSend(ts),
           NEW o \in Object, ex[o] # None, ex[o].open,
           NEW m \in Message, CloseOrDispatch(ex, ts, o, m)
    PROVE  Quiet(exchange, tasks)'
<1>1. ~ex[o].closing
  BY DEF Calm
<1>2. Update(ex, ts) \/ Update(ex, Dispatch(ex, ts, o, m))
  BY <1>1 DEF CloseOrDispatch
<1>3. ~IsSend(Handler(o, m))
  BY DEF IsSend, Handler, Timer
<1>4. NoSend(Dispatch(ex, ts, o, m))
  BY <1>3, NoSendSpawn DEF Dispatch
<1>5. Good(ex, Dispatch(ex, ts, o, m), ow)
  BY GoodDispatch
<1> QED
  BY <1>2, <1>4, <1>5, CalmIsQuiet, QuietUpdate

LEMMA RemovedIsCalm ==
    ASSUME NEW ex, Calm(ex), NEW o \in Object, ex[o] \in ExchangeObject
    PROVE  Calm(Removed(ex, o)) /\ Calm(RemovedAfterAck(ex, o))
BY DEF Calm, Removed, RemovedAfterAck, ExchangeObject

LEMMA ReceiveQuiet ==
    ASSUME ExchangeInv, QuietInv, ~sendMaySuspend, NEW m \in Message, Receive(m)
    PROVE  Quiet(exchange, tasks)'
<1> DEFINE ex == WithExchange(m, Outcome(m))
           o  == ExchangeOf(m, Outcome(m))
<1>1. Received(m)
  BY DEF Receive, ReceiveUnmatched, ReceiveUnreliable, ReceiveReliableDuplicate,
         ReceiveReliable
<1>2. Calm(exchange) /\ NoSend(tasks)
  BY <1>1, QuietIsCalm DEF Received
<1>3. CASE Outcome(m) = "none"
  <2>1. ~traffic[m].reliable
    BY <1>3 DEF Outcome, Outcome_find_exchange
  <2>2. UNCHANGED <<exchange, tasks>>
    BY <1>3, <2>1 DEF Receive, ReceiveUnmatched, ReceiveUnreliable,
                      ReceiveReliableDuplicate, ReceiveReliable
  <2> QED
    BY <1>2, <2>2, CalmIsQuiet DEF Quiet, IsSend
<1>4. CASE Outcome(m) # "none"
  <2>1. /\ o \in Object /\ Good(ex, tasks, owed)
        /\ ex[o] # None /\ ex[o].open
        /\ traffic[m].xid = ex[o].xid /\ RoleFor(m) = ex[o].role
    BY <1>1, <1>4, FindExchangeGives
  <2>2. ex[o] \in ExchangeObject
    BY <2>1 DEF Good, ObjectOK
  <2>3. Calm(ex)
    BY <1>2, <2>1 DEF WithExchange, NewExchange, Calm
  <2>4. CASE ReceiveUnreliable(m)
    <3>1. CloseOrDispatch(ex, tasks, o, m)
      BY <2>4 DEF ReceiveUnreliable
    <3> HIDE DEF ex, o
    <3> QED
      BY <1>2, <2>1, <2>3, <3>1, CloseOrDispatchQuiet
  <2>5. CASE ReceiveReliableDuplicate(m)
    <3>1. CASE ex[o].ack # None
      <4> DEFINE task == SendingAck(ex, o, m, "dup")
      <4>1. Update(ex, Spawn(tasks, task))
        BY <2>5, <3>1 DEF ReceiveReliableDuplicate
      <4> HIDE DEF ex, o
      <4>2. TaskOK(ex, task, owed)
        BY <2>1, NewTasksOK
      <4>3. Good(ex, Spawn(tasks, task), owed)
        BY <2>1, <4>2, GoodSpawn
      <4>4. ex[task.obj].ack # None
        BY <3>1 DEF SendingAck
      <4> HIDE DEF task
      <4>5. Quiet(ex, Spawn(tasks, task))
        BY <1>2, <2>3, <4>4, QuietSpawn
      <4> QED
        BY <4>1, <4>3, <4>5, QuietUpdate
    <3>2. CASE ex[o].ack = None
      <4>1. Update(IF ex[o].ephemeral THEN Removed(ex, o) ELSE ex, tasks)
        BY <2>5, <3>2 DEF ReceiveReliableDuplicate
      <4> HIDE DEF ex, o
      <4>2. Good(Removed(ex, o), tasks, owed)
        BY <2>1, <3>2, GoodRemoved DEF AckPending
      <4>3. Quiet(Removed(ex, o), tasks) /\ Quiet(ex, tasks)
        BY <1>2, <2>1, <2>2, <2>3, RemovedIsCalm, CalmIsQuiet
      <4> QED
        BY <2>1, <4>1, <4>2, <4>3, QuietUpdate
    <3> QED
      BY <3>1, <3>2
  <2>6. CASE ReceiveReliable(m)
    <3> DEFINE r == Registered(ex, tasks, o, m)
    <3>1. CloseOrDispatch(r.ex, r.ts, o, m)
      BY <2>6 DEF ReceiveReliable
    <3> HIDE DEF ex, o
    <3>2. Good(ex, tasks, owed \cup {m})
      BY <2>1, GoodOwed
    <3>3. Sound(ex[o], m, owed \cup {m})
      BY <2>1 DEF Sound
    <3>4. Good(r.ex, r.ts, owed \cup {m}) /\ r.ex[o] # None
      BY <2>1, <3>2, <3>3, RegisteredGood
    <3>5. r.ex = [ex EXCEPT ![o].ack = m, ![o].ackSent = FALSE]
      BY DEF Registered
    <3>6. Calm(r.ex) /\ r.ex[o].open
      BY <2>1, <2>2, <2>3, <3>5 DEF Calm, ExchangeObject
    <3>7. NoSend(r.ts)
      <4>1. ~IsSend(AckTask(o)) /\ ~IsSend(Timer(o))
        BY DEF IsSend, AckTask, Timer
      <4>2. DOMAIN tasks \subseteq TaskRecord
        BY DEF ExchangeInv, TypeOK
      <4>3. NoSend(Spawn(CancelTimer(tasks, o), AckTask(o)))
        BY <1>2, <4>1, NoSendCancel, NoSendSpawn
      <4>4. NoSend(OrphanTimer(tasks, o))
        BY <1>2, <4>2, NoSendOrphan
      <4> QED
        BY <4>1, <4>3, <4>4, NoSendSpawn DEF Registered
    <3> HIDE DEF r
    <3> QED
      BY <2>1, <3>1, <3>4, <3>6, <3>7, CloseOrDispatchQuiet
  <2> QED
    BY <1>4, <2>4, <2>5, <2>6 DEF Receive, ReceiveUnmatched
<1> QED
  BY <1>3, <1>4
-----------------------------------------------------------------------------
(* The tasks, from one await to the next.                                  *)
LEMMA RunAckKeeps ==
    ASSUME ExchangeInv, QuietInv, NEW r \in DOMAIN tasks, RunAck(r)
    PROVE  Good(exchange, tasks, owed)' /\ QuietInv'
<1> DEFINE o == r.obj
           task == [SendingAck(exchange, o, None, "end") EXCEPT !.isTimer = r.isTimer]
<1>1. Good(exchange, Without(r), owed) /\ UNCHANGED <<traffic, owed>>
  BY GoodTake DEF ExchangeInv, Without, RunAck, given, history
<1>2. o \in Object /\ exchange[o] # None /\ r.isTimer \in BOOLEAN
  BY DEF ExchangeInv, Good, TaskOK, TaskRecord
<1>3. TaskOK(exchange, task, owed)
  BY <1>1, <1>2, NewTasksOK
<1>4. Good(exchange, Spawn(Without(r), task), owed)
  BY <1>1, <1>3, GoodSpawn
<1>5. \/ exchange[o].ack # None /\ Update(exchange, Spawn(Without(r), task))
      \/ Update(exchange, Without(r))
  BY DEF RunAck
<1>6. task.obj = o
  BY DEF SendingAck
<1> HIDE DEF task
<1>7. Good(exchange, tasks, owed)'
  BY <1>1, <1>4, <1>5, GoodUpdate
<1>8. ASSUME ~sendMaySuspend PROVE Quiet(exchange, tasks)'
  <2>1. Calm(exchange) /\ NoSend(Without(r))
    BY <1>8, QuietIsCalm, NoSendTake DEF RunAck, Without
  <2>2. Quiet(exchange, Without(r))
    BY <2>1, CalmIsQuiet
  <2>3. exchange[o].ack # None => Quiet(exchange, Spawn(Without(r), task))
    BY <1>6, <2>1, QuietSpawn
  <2> QED
    BY <1>1, <1>4, <1>5, <2>2, <2>3, QuietUpdate
<1> QED
  BY <1>7, <1>8 DEF QuietInv, RunAck, given

LEMMA RunHandlerKeeps ==
    ASSUME ExchangeInv, QuietInv, NEW r \in DOMAIN tasks, RunHandler(r)
    PROVE  Good(exchange, tasks, owed)' /\ QuietInv'
<1> DEFINE o == r.obj
           ts == Without(r)
           Kept == Good(exchange, tasks, owed)' /\ (~sendMaySuspend => Quiet(exchange, tasks)')
<1>1. Good(exchange, ts, owed) /\ UNCHANGED <<traffic, owed, sendMaySuspend>>
  BY GoodTake DEF ExchangeInv, Without, RunHandler, given, history
<1>2. o \in Object /\ exchange[o] # None /\ exchange[o] \in ExchangeObject
  BY DEF ExchangeInv, Good, TaskOK, TaskRecord, ObjectOK
<1>3. ~sendMaySuspend => Calm(exchange) /\ NoSend(ts)
  BY QuietIsCalm, NoSendTake DEF RunHandler, Without
<1> SUFFICES Kept
  BY <1>1 DEF QuietInv
<1> HIDE DEF ts
<1>4. CASE Update(exchange, ts)
  BY <1>1, <1>3, <1>4, GoodUpdate, CalmIsQuiet, QuietUpdate
<1>5. ASSUME NEW then \in {"end", "close"},
             Update(exchange, Spawn(ts, SendingReply(exchange, o, then)))
      PROVE  Kept
  <2> DEFINE task == SendingReply(exchange, o, then)
  <2>1. TaskOK(exchange, task, owed)
    BY <1>1, <1>2, NewTasksOK
  <2>2. Good(exchange, Spawn(ts, task), owed)
    BY <1>1, <2>1, GoodSpawn
  <2>3. task.step # "SENDING_ACK"
    BY DEF SendingReply
  <2> HIDE DEF task
  <2>4. ~sendMaySuspend => Quiet(exchange, Spawn(ts, task))
    BY <1>3, <2>3, QuietSpawn
  <2> QED
    BY <1>1, <1>5, <2>2, <2>4, GoodUpdate, QuietUpdate DEF task
<1>6. CASE /\ AckPending(exchange[o])
           /\ Update(Closing(exchange, o), Spawn(ts, SendingAck(exchange, o, None, "close")))
  <2> DEFINE task == SendingAck(exchange, o, None, "close")
             ex == Closing(exchange, o)
  <2>1. TaskOK(exchange, task, owed)
    BY <1>1, <1>2, NewTasksOK
  <2>2. task.obj = o /\ ~task.isTimer /\ task.step = "SENDING_ACK" /\ task.then = "close"
    BY DEF SendingAck
  <2>3. ex = [exchange EXCEPT ![o].closing = TRUE]
    BY DEF Closing
  <2> HIDE DEF task
  <2>4. Good(exchange, Spawn(ts, task), owed)
    BY <1>1, <2>1, GoodSpawn
  <2>5. Good(ex, Spawn(ts, task), owed)
    BY <1>2, <2>4, GoodClosing
  <2>6. ASSUME ~sendMaySuspend PROVE Quiet(ex, Spawn(ts, task))
    <3>1. Quiet(exchange, Spawn(ts, task))
      BY <1>3, <1>6, <2>2, <2>6, QuietSpawn DEF AckPending
    <3>2. task \in DOMAIN Spawn(ts, task)
      BY <1>3, <2>6, SpawnTask DEF NoSend
    <3>3. \A p \in Object : /\ (ex[p] # None => exchange[p] # None)
                            /\ (exchange[p] # None => ex[p].ack = exchange[p].ack)
                            /\ (p # o => ex[p] = exchange[p])
      BY <1>1, <1>2, <2>3 DEF Good, ObjectOK, ExchangeObject
    <3>4. \A q \in DOMAIN Spawn(ts, task) : q.obj \in Object /\ exchange[q.obj] # None
      BY <2>4 DEF Good, TaskOK, TaskRecord
    <3> HIDE DEF ex
    <3> QED
      BY <2>2, <3>1, <3>2, <3>3, <3>4 DEF Quiet
  <2> HIDE DEF ex
  <2> QED
    BY <1>1, <1>6, <2>5, <2>6, GoodUpdate, QuietUpdate DEF ex, task
<1>7. CASE ~AckPending(exchange[o]) /\ Update(Removed(exchange, o), ts)
  <2>1. Good(Removed(exchange, o), ts, owed)
    BY <1>1, <1>2, <1>7, GoodRemoved
  <2>2. ~sendMaySuspend => Quiet(Removed(exchange, o), ts)
    BY <1>2, <1>3, RemovedIsCalm, CalmIsQuiet
  <2> QED
    BY <1>1, <1>7, <2>1, <2>2, GoodUpdate, QuietUpdate
<1> QED
  BY <1>4, <1>5, <1>6, <1>7 DEF RunHandler, ts

LEMMA FinishAckKeeps ==
    ASSUME ExchangeInv, QuietInv, NEW r \in DOMAIN tasks, FinishAck(r)
    PROVE  Good(exchange, tasks, owed)' /\ QuietInv'
<1> DEFINE o == r.obj
           ex == MarkedSent(exchange, o)
           ts == CancelTimer(Without(r), o)
           Kept == Good(exchange, tasks, owed)' /\ (~sendMaySuspend => Quiet(exchange, tasks)')
<1>1. /\ Good(exchange, Without(r), owed)
      /\ UNCHANGED <<traffic, owed, sendMaySuspend>>
  BY GoodTake DEF ExchangeInv, Without, FinishAck, given
<1>2. o \in Object /\ exchange[o] \in ExchangeObject /\ exchange[o] # None
      /\ r.msg \in Message \cup {None}
  BY DEF ExchangeInv, Good, TaskOK, TaskRecord, ObjectOK
<1> SUFFICES Kept
  BY <1>1 DEF QuietInv
<1>3. Good(exchange, ts, owed)
  BY <1>1, GoodCancel
<1>4. Good(ex, ts, owed)
  BY <1>2, <1>3, GoodMarkedSent
<1>5. ex[o] = [exchange[o] EXCEPT !.ackSent = TRUE]
  BY <1>1, <1>2 DEF MarkedSent, Good
<1>6. ex[o] \in ExchangeObject /\ ~AckPending(ex[o]) /\ ex[o] # None
  BY <1>2, <1>5, ExchangeAssumption DEF ExchangeObject, AckPending
(* the send was the only one, and what it was for                               *)
<1>7. ASSUME ~sendMaySuspend
      PROVE  /\ NoSend(ts) /\ exchange[o].ack # None
             /\ \A p \in Object : exchange[p] # None /\ exchange[p].closing /\ exchange[p].open
                   => p = o /\ r.then \in {"close", "dispatch"}
  <2>1. Quiet(exchange, tasks) /\ r.step = "SENDING_ACK" /\ IsABag(tasks)
    BY <1>7 DEF QuietInv, FinishAck, ExchangeInv, TypeOK
  <2>2. tasks[r] = 1 /\ \A q \in DOMAIN tasks : IsSend(q) => q = r
    BY <2>1 DEF Quiet, IsSend
  <2>3. NoSend(Without(r))
    <3>1. IsABag(Taken(tasks, r))
      BY <2>1, TakeTask
    <3>2. DOMAIN Taken(tasks, r) = DOMAIN tasks \ {r}
      BY <2>1, <2>2, TakeLast
    <3> QED
      BY <2>2, <3>1, <3>2 DEF NoSend, Without
  <2> QED
    BY <2>1, <2>2, <2>3, NoSendCancel DEF Quiet, IsSend
<1>8. ~sendMaySuspend => Calm(RemovedAfterAck(ex, o))
  BY <1>1, <1>2, <1>7 DEF MarkedSent, RemovedAfterAck, Removed, Calm, Good, ExchangeObject
<1>9. ~sendMaySuspend /\ r.then \in {"end", "dup"} => Calm(ex)
  BY <1>1, <1>2, <1>7 DEF MarkedSent, Calm, Good, ExchangeObject
<1>10. \/ exchange[o].ack = None /\ Update(exchange, Without(r))
       \/ r.then \in {"end", "dup"} /\ Update(ex, ts)
       \/ r.then = "dup" /\ Update(Removed(ex, o), ts)
       \/ Update(RemovedAfterAck(ex, o), ts)
       \/ Update(RemovedAfterAck(ex, o), Dispatch(RemovedAfterAck(ex, o), ts, o, r.msg))
  BY DEF FinishAck
<1> HIDE DEF ts, ex
<1>11. CASE exchange[o].ack = None /\ Update(exchange, Without(r))
  BY <1>1, <1>7, <1>11, GoodUpdate
<1>12. CASE r.then \in {"end", "dup"} /\ Update(ex, ts)
  BY <1>1, <1>4, <1>7, <1>9, <1>12, GoodUpdate, CalmIsQuiet, QuietUpdate
<1>13. CASE r.then = "dup" /\ Update(Removed(ex, o), ts)
  <2>1. Good(Removed(ex, o), ts, owed)
    BY <1>2, <1>4, <1>6, GoodRemoved
  <2>2. ~sendMaySuspend => Quiet(Removed(ex, o), ts)
    BY <1>2, <1>6, <1>7, <1>9, <1>13, RemovedIsCalm, CalmIsQuiet
  <2> QED
    BY <1>1, <1>13, <2>1, <2>2, GoodUpdate, QuietUpdate
<1>14. Good(RemovedAfterAck(ex, o), ts, owed)
  BY <1>2, <1>4, <1>6, GoodRemovedAfterAck
<1>15. CASE Update(RemovedAfterAck(ex, o), ts)
  BY <1>1, <1>7, <1>8, <1>14, <1>15, GoodUpdate, CalmIsQuiet, QuietUpdate
<1>16. CASE Update(RemovedAfterAck(ex, o), Dispatch(RemovedAfterAck(ex, o), ts, o, r.msg))
  <2> DEFINE ex1 == RemovedAfterAck(ex, o)
  <2>1. ex1[o] # None
    <3>1. ex1[o] = [ex[o] EXCEPT !.closing = TRUE, !.open = FALSE, !.ack = None]
      BY <1>2, <1>4 DEF RemovedAfterAck, Removed, Good
    <3> QED
      BY <1>6, <3>1, ExchangeAssumption DEF ExchangeObject
  <2>2. Good(ex1, Dispatch(ex1, ts, o, r.msg), owed)
    BY <1>2, <1>14, <2>1, GoodDispatch
  <2>3. ~IsSend(Handler(o, r.msg))
    BY DEF IsSend, Handler, Timer
  <2>4. ~sendMaySuspend => Quiet(ex1, Dispatch(ex1, ts, o, r.msg))
    BY <1>7, <1>8, <2>3, NoSendSpawn, CalmIsQuiet DEF Dispatch
  <2> HIDE DEF ex1
  <2> QED
    BY <1>1, <1>16, <2>2, <2>4, GoodUpdate, QuietUpdate DEF ex1
<1> QED
  BY <1>10, <1>11, <1>12, <1>13, <1>15, <1>16

LEMMA FinishReplyKeeps ==
    ASSUME ExchangeInv, QuietInv, NEW r \in DOMAIN tasks, FinishReply(r)
    PROVE  Good(exchange, tasks, owed)' /\ QuietInv'
<1> DEFINE o == r.obj
           ex == [exchange EXCEPT ![o].ack = None]
           ts == Without(r)
           Kept == Good(exchange, tasks, owed)' /\ (~sendMaySuspend => Quiet(exchange, tasks)')
<1>1. Good(exchange, ts, owed) /\ UNCHANGED <<traffic, owed, sendMaySuspend>>
  BY GoodTake DEF ExchangeInv, Without, FinishReply, given
<1>2. o \in Object /\ exchange[o] \in ExchangeObject /\ exchange[o] # None
  BY DEF ExchangeInv, Good, TaskOK, TaskRecord, ObjectOK
<1> SUFFICES Kept
  BY <1>1 DEF QuietInv
<1>3. Good(ex, ts, owed)
  BY <1>1, <1>2, GoodAckCleared
<1>4. ex[o] = [exchange[o] EXCEPT !.ack = None]
  BY <1>1, <1>2 DEF Good
<1>5. ex[o] \in ExchangeObject /\ ex[o] # None /\ ~AckPending(ex[o])
  BY <1>2, <1>4, ExchangeAssumption DEF ExchangeObject, AckPending
<1>6. ASSUME ~sendMaySuspend PROVE NoSend(ts) /\ Calm(exchange)
  <2>1. Quiet(exchange, tasks) /\ r.step = "SENDING_REPLY" /\ IsABag(tasks)
    BY <1>6 DEF QuietInv, FinishReply, ExchangeInv, TypeOK
  <2>2. tasks[r] = 1 /\ \A q \in DOMAIN tasks : IsSend(q) => q = r
    BY <2>1 DEF Quiet, IsSend
  <2>3. NoSend(ts)
    <3>1. IsABag(Taken(tasks, r))
      BY <2>1, TakeTask
    <3>2. DOMAIN Taken(tasks, r) = DOMAIN tasks \ {r}
      BY <2>1, <2>2, TakeLast
    <3> QED
      BY <2>2, <3>1, <3>2 DEF NoSend, Without
  <2>4. Calm(exchange)
    BY <1>1, <2>1, <2>2 DEF Calm, Good, Quiet, IsSend
  <2> QED
    BY <2>3, <2>4
<1>7. ~sendMaySuspend => Calm(ex)
  BY <1>2, <1>6 DEF Calm, ExchangeObject
<1>8. Update(ex, ts) \/ Update(Removed(ex, o), ts)
  BY DEF FinishReply
<1> HIDE DEF ex, ts
<1>9. Good(Removed(ex, o), ts, owed)
  BY <1>2, <1>3, <1>5, GoodRemoved
<1>10. ~sendMaySuspend => Quiet(ex, ts) /\ Quiet(Removed(ex, o), ts)
  BY <1>2, <1>5, <1>6, <1>7, RemovedIsCalm, CalmIsQuiet
<1> QED
  BY <1>1, <1>3, <1>8, <1>9, <1>10, GoodUpdate, QuietUpdate

LEMMA InitiateKeeps ==
    ASSUME ExchangeInv, QuietInv, Initiate
    PROVE  Good(exchange, tasks, owed)' /\ QuietInv'
<1> DEFINE o == Least(FreeObjects(exchange))
           x == next_exchange_id
           e == [NewExchange(x, "Initiator", FALSE) EXCEPT !.open = AddedUnlessPresent(x)]
           ex == [exchange EXCEPT ![o] = e]
<1>1. /\ Good(exchange, tasks, owed) /\ x \in Xid
      /\ UNCHANGED <<traffic, owed, sendMaySuspend>>
  BY DEF ExchangeInv, TypeOK, Initiate, given, history
<1>2. o \in FreeObjects(exchange)
  BY LeastMember, ObjectIsNat DEF Initiate, FreeObjects
<1>3. o \in Object /\ exchange[o] = None
  BY <1>2 DEF FreeObjects
<1>4. e \in ExchangeObject /\ e.ack = None /\ ~e.closing
  BY <1>1 DEF NewExchange, ExchangeObject, Roles, AddedUnlessPresent
<1>5. ObjectOK(e, owed) /\ e # None
  BY <1>4, ExchangeAssumption DEF ObjectOK, AckPending
<1>6. Update(ex, Spawn(tasks, SendingReply(ex, o, "end"))) \/ Update(ex, tasks)
  BY DEF Initiate
<1> HIDE DEF e, o
<1>7. Good(ex, tasks, owed) /\ ex[o] # None
  <2>1. ex[o] = e
    BY <1>1, <1>3 DEF Good
  <2> QED
    BY <1>1, <1>3, <1>5, <2>1, GoodNew
<1> HIDE DEF ex
<1>8. TaskOK(ex, SendingReply(ex, o, "end"), owed)
  BY <1>3, <1>7, NewTasksOK
<1>9. Good(ex, Spawn(tasks, SendingReply(ex, o, "end")), owed)
  BY <1>7, <1>8, GoodSpawn
<1>10. Good(exchange, tasks, owed)'
  BY <1>1, <1>6, <1>7, <1>9, GoodUpdate
<1>11. ASSUME ~sendMaySuspend PROVE Quiet(exchange, tasks)'
  <2>1. Calm(exchange) /\ NoSend(tasks)
    BY <1>11, QuietIsCalm DEF Initiate
  <2>2. Calm(ex)
    BY <1>3, <1>4, <2>1 DEF Calm, ex
  <2>3. SendingReply(ex, o, "end").step # "SENDING_ACK"
    BY DEF SendingReply
  <2>4. Quiet(ex, Spawn(tasks, SendingReply(ex, o, "end")))
    BY <2>1, <2>2, <2>3, QuietSpawn
  <2>5. Quiet(ex, tasks)
    BY <2>1, <2>2, CalmIsQuiet
  <2> QED
    BY <1>6, <1>7, <1>9, <2>4, <2>5, QuietUpdate
<1> QED
  BY <1>1, <1>10, <1>11 DEF QuietInv
-----------------------------------------------------------------------------
(* What is acknowledged was sound when it was sent, and nothing becomes unowed.  *)
LEMMA AcksStaySound ==
    ASSUME ExchangeInv, UNCHANGED traffic, owed \subseteq owed',
           \A a \in acked' : a \in acked \/ \E r \in DOMAIN tasks :
               /\ r.ctr # None
               /\ a = <<exchange[r.obj].xid, exchange[r.obj].role, r.ctr>>
    PROVE  AckIsSound' /\ acked' \subseteq Xid \X Roles \X Message
<1> SUFFICES ASSUME NEW a \in acked'
             PROVE  /\ a[3] \in owed' /\ traffic'[a[3]].xid = a[1]
                    /\ RoleFor(a[3])' = a[2] /\ a \in Xid \X Roles \X Message
  BY DEF AckIsSound
<1>1. CASE a \in acked
  BY <1>1 DEF ExchangeInv, AckIsSound, RoleFor, TypeOK
<1>2. ASSUME NEW r \in DOMAIN tasks, r.ctr # None,
             a = <<exchange[r.obj].xid, exchange[r.obj].role, r.ctr>>
      PROVE  /\ a[3] \in owed' /\ traffic'[a[3]].xid = a[1]
             /\ RoleFor(a[3])' = a[2] /\ a \in Xid \X Roles \X Message
  <2>1. Sound(exchange[r.obj], r.ctr, owed) /\ r.ctr \in Message
    BY <1>2 DEF ExchangeInv, Good, TaskOK, TaskRecord
  <2>2. exchange[r.obj] \in ExchangeObject
    BY DEF ExchangeInv, Good, TaskOK, TaskRecord, ObjectOK
  <2> QED
    BY <1>2, <2>1, <2>2 DEF Sound, RoleFor, ExchangeObject
<1> QED
  BY <1>1, <1>2

LEMMA InitGives == Init => ExchangeInv /\ QuietInv
<1> SUFFICES ASSUME Init PROVE ExchangeInv /\ QuietInv
  OBVIOUS
<1>1. IsABag(tasks) /\ DOMAIN tasks = {}
  BY DEF Init, EmptyBag, SetToBag, IsABag
<1>2. reception \in ReceptionStates
  BY CounterAssumption DEF Init, InitReception, ReceptionStates, Counter
<1>3. Good(exchange, tasks, owed) /\ Quiet(exchange, tasks)
  BY <1>1 DEF Init, Good, ObjectOK, Quiet
<1>4. TypeOK
  BY <1>1, <1>2, ExchangeAssumption DEF Init, TypeOK
<1> QED
  BY <1>3, <1>4 DEF Init, ExchangeInv, QuietInv, AckIsSound

LEMMA NextKeeps ==
    ASSUME ExchangeInv, QuietInv, [Next]_vars
    PROVE  ExchangeInv' /\ QuietInv'
<1>1. ASSUME NEW m \in Message, Receive(m) PROVE ExchangeInv' /\ QuietInv'
  <2>1. /\ UNCHANGED <<given, next_exchange_id, initiated, acked>>
        /\ reception' = IF IsDuplicate(m) THEN reception ELSE AfterAccepting(reception, m)
    BY <1>1 DEF Receive, ReceiveUnmatched, ReceiveUnreliable,
                ReceiveReliableDuplicate, ReceiveReliable, Received
  <2>2. Good(exchange, tasks, owed)' /\ owed \subseteq owed' /\ superseded' \subseteq Message
    BY <1>1, ReceiveGood
  <2>3. reception' \in ReceptionStates
    BY <2>1, ReceptionTyped DEF ExchangeInv, TypeOK
  <2>4. AckIsSound'
    BY <2>1, <2>2, AcksStaySound DEF given
  <2>5. TypeOK'
    BY <2>1, <2>2, <2>3, GoodTyped DEF ExchangeInv, TypeOK, given
  <2>6. QuietInv'
    BY <1>1, <2>1, ReceiveQuiet DEF QuietInv, given
  <2> QED
    BY <2>2, <2>4, <2>5, <2>6 DEF ExchangeInv
<1>2. ASSUME NEW r \in DOMAIN tasks, RunAck(r) \/ RunHandler(r)
      PROVE  ExchangeInv' /\ QuietInv'
  <2>1. UNCHANGED <<given, reception, next_exchange_id, initiated, history>>
    BY <1>2 DEF RunAck, RunHandler
  <2>2. Good(exchange, tasks, owed)' /\ QuietInv'
    BY <1>2, RunAckKeeps, RunHandlerKeeps
  <2>3. AckIsSound'
    BY <2>1, AcksStaySound DEF given, history
  <2>4. TypeOK'
    BY <2>1, <2>2, GoodTyped DEF ExchangeInv, TypeOK, given, history
  <2> QED
    BY <2>2, <2>3, <2>4 DEF ExchangeInv
<1>3. ASSUME NEW r \in DOMAIN tasks, FinishAck(r) \/ FinishReply(r)
      PROVE  ExchangeInv' /\ QuietInv'
  <2>1. /\ UNCHANGED <<given, reception, next_exchange_id, initiated, owed, superseded>>
        /\ Acknowledged(r)
    BY <1>3 DEF FinishAck, FinishReply
  <2>2. Good(exchange, tasks, owed)' /\ QuietInv'
    BY <1>3, FinishAckKeeps, FinishReplyKeeps
  <2>3. AckIsSound' /\ acked' \subseteq Xid \X Roles \X Message
    BY <2>1, AcksStaySound DEF given, Acknowledged
  <2>4. TypeOK'
    BY <2>1, <2>2, <2>3, GoodTyped DEF ExchangeInv, TypeOK, given
  <2> QED
    BY <2>2, <2>3, <2>4 DEF ExchangeInv
<1>4. CASE Initiate
  <2>1. /\ UNCHANGED <<given, reception, history>>
        /\ next_exchange_id' \in Xid /\ initiated' \in 0 .. MaxInitiated
    <3>1. next_exchange_id \in Nat /\ XidMod \in Nat \ {0}
      BY ExchangeAssumption DEF Xid, WireXid, ExchangeInv, TypeOK
    <3>2. NextXid(next_exchange_id) \in Xid
      BY <3>1 DEF NextXid, Xid, WireXid
    <3> QED
      BY <1>4, <3>2, ExchangeAssumption DEF Initiate, ExchangeInv, TypeOK
  <2>2. Good(exchange, tasks, owed)' /\ QuietInv'
    BY <1>4, InitiateKeeps
  <2>3. AckIsSound'
    BY <2>1, AcksStaySound DEF given, history
  <2>4. TypeOK'
    BY <2>1, <2>2, GoodTyped DEF ExchangeInv, TypeOK, given, history
  <2> QED
    BY <2>2, <2>3, <2>4 DEF ExchangeInv
<1>5. CASE UNCHANGED vars
  BY <1>5 DEF vars, given, ExchangeInv, TypeOK, Good, ObjectOK, TaskOK, Sound, RoleFor,
              AckPending, AckIsSound, QuietInv, Quiet, IsSend
<1> QED
  BY <1>1, <1>2, <1>3, <1>4, <1>5 DEF Next, Run, Finish

LEMMA ExchangeInvHolds == Spec => [](ExchangeInv /\ QuietInv)
<1>1. Init => ExchangeInv /\ QuietInv
  BY InitGives
<1>2. ExchangeInv /\ QuietInv /\ [Next]_vars => (ExchangeInv /\ QuietInv)'
  BY NextKeeps
<1> QED
  BY <1>1, <1>2, PTL DEF Spec

(* Objects, tasks and the history keep their types for any number of messages,  *)
(* exchanges and tasks; a task never outlives the object it works on.            *)
THEOREM TypeCorrect == Spec => []TypeOK
<1>1. ExchangeInv => TypeOK
  BY DEF ExchangeInv
<1> QED
  BY <1>1, ExchangeInvHolds, PTL

(* Whatever is lost, repeated and reordered, and however tasks, closes and      *)
(* answers interleave: every acknowledgement sent names a reliable message that  *)
(* was accepted, and travels on the exchange that message came on.               *)
THEOREM AckIsSoundHolds == Spec => []AckIsSound
<1>1. ExchangeInv => AckIsSound
  BY DEF ExchangeInv
<1> QED
  BY <1>1, ExchangeInvHolds, PTL

(* An exchange out of the table has nothing left to acknowledge, and while sends *)
(* find room one that closes has a task that takes it out.                       *)
THEOREM ClosesAreFinishedHolds == Spec => []ClosesAreFinished
<1>1. ExchangeInv /\ QuietInv => ClosesAreFinished
  BY DEF ExchangeInv, QuietInv, Good, ObjectOK, Quiet, ClosesAreFinished
<1> QED
  BY <1>1, ExchangeInvHolds, PTL
=============================================================================
