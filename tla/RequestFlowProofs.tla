--------------------------- MODULE RequestFlowProofs ---------------------------
(****************************************************************************)
(* One interaction after the other, for any requests, any lengths of what   *)
(* is read and any size of a chunk. The invariant has a part for each       *)
(* thing that goes on: the channels (what was handed over is what was sent  *)
(* and what waits, in order, one part unanswered), the peer's inbox, the    *)
(* handler under way, and the entries of timed requests with their timers   *)
(* and threads.                                                             *)
(*                                                                          *)
(* send_message is a fold over the parts, FlattenSeq and the chunks of a    *)
(* report are folds too: each is turned into its steps first (Iteration),   *)
(* and what every step keeps is what they give.                             *)
(****************************************************************************)
EXTENDS RequestFlow, Iteration, SequenceTheorems

(* The head of what waits moves to the end of what was sent.               *)
LEMMA HeadMoves ==
    ASSUME NEW S, NEW s \in Seq(S), NEW t \in Seq(S), t # <<>>
    PROVE  Append(s, Head(t)) \o Tail(t) = s \o t
<1>1. Head(t) \in S /\ Tail(t) \in Seq(S) /\ <<Head(t)>> \in Seq(S)
  OBVIOUS
<1>2. t = <<Head(t)>> \o Tail(t)
  <2>1. Len(t) \in Nat \ {0}
    OBVIOUS
  <2>2. SubSeq(t, 1, Len(t)) = <<t[1]>> \o SubSeq(t, 2, Len(t))
    BY <2>1, SubSeqRecursiveFirst
  <2>3. SubSeq(t, 1, Len(t)) = t /\ Tail(t) = SubSeq(t, 2, Len(t)) /\ Head(t) = t[1]
    BY SubSeqFull, TailIsSubSeq
  <2> QED
    BY <2>2, <2>3
<1>3. Append(s, Head(t)) = s \o <<Head(t)>>
  BY <1>1, AppendIsConcat
<1>4. (s \o <<Head(t)>>) \o Tail(t) = s \o (<<Head(t)>> \o Tail(t))
  BY <1>1, ConcatAssociative
<1> QED
  BY <1>2, <1>3, <1>4
-----------------------------------------------------------------------------
(* One part handed over.                                                   *)
LEMMA SendType ==
    ASSUME NEW c \in Channel, NEW p \in Part
    PROVE  Send(c, p) \in Channel
<1>1. /\ Append(c.asked, p) \in Seq(Part)
      /\ Append(c.pending, p) \in Seq(Part)
      /\ Append(c.sent, p) \in Seq(Part)
  BY DEF Channel
<1>2. [c EXCEPT !.asked = Append(c.asked, p), !.pending = Append(c.pending, p)]
         \in Channel
  BY <1>1 DEF Channel
<1>3. [c EXCEPT !.asked = Append(c.asked, p), !.sent = Append(c.sent, p),
                !.in_flight = TRUE] \in Channel
  BY <1>1 DEF Channel
<1> QED
  BY <1>2, <1>3 DEF Send, Sent, Channel

(* SendAll is the last of the channels that one Send after the other gives.     *)
LEMMA SendAllSteps ==
    ASSUME NEW c \in Channel, NEW parts \in Seq(Part)
    PROVE  \E f \in [0 .. Len(parts) -> Channel] :
              /\ f[0] = c /\ f[Len(parts)] = SendAll(c, parts)
              /\ \A i \in 1 .. Len(parts) : f[i] = Send(f[i - 1], parts[i])
<1> DEFINE n == Len(parts)
           step == [i \in 1 .. n |-> [d \in Channel |-> Send(d, parts[i])]]
           Rule(f) == f = [i \in 0 .. n |-> IF i = 0 THEN c ELSE Send(f[i - 1], parts[i])]
<1>1. n \in Nat /\ \A i \in 1 .. n : parts[i] \in Part
  OBVIOUS
<1>2. step \in Steps(Channel, n)
  BY <1>1, SendType DEF Steps
<1>3. \A i \in 1 .. n, d \in Channel : step[i][d] = Send(d, parts[i])
  OBVIOUS
<1> HIDE DEF step, n
<1>4. PICK g \in [0 .. n -> Channel] :
             g[0] = c /\ \A i \in 1 .. n : g[i] = step[i][g[i - 1]]
  <2>1. \E g : g \in Iterations(Channel, c, n, step)
    BY <1>1, <1>2, IterationExists
  <2> QED
    BY <2>1 DEF Iterations
<1>5. Rule(g)
  BY <1>1, <1>3, <1>4
<1> DEFINE after == CHOOSE f : Rule(f)
<1>6. Rule(after)
  BY <1>5
<1>7. SendAll(c, parts) = after[n]
  BY DEF SendAll, n
<1> HIDE DEF after
<1>8. after \in [0 .. n -> Channel]
  <2> DEFINE T == {i \in 0 .. n : after[i] \in Channel}
  <2>1. 0 \in T
    BY <1>1, <1>6
  <2>2. \A i \in 0 .. n - 1 : i \in T => i + 1 \in T
    BY <1>1, <1>6, SendType
  <2> HIDE DEF T
  <2>3. \A i \in 0 .. n : i \in T
    BY <1>1, <2>1, <2>2, Upwards
  <2> QED
    BY <1>6, <2>3 DEF T
<1>9. after[0] = c /\ \A i \in 1 .. n : after[i] = Send(after[i - 1], parts[i])
  BY <1>1, <1>6
<1> QED
  BY <1>7, <1>8, <1>9 DEF n

LEMMA SendAllStays ==
    ASSUME NEW S \in SUBSET Channel, NEW c \in S, NEW parts \in Seq(Part),
           \A d \in S, p \in Part : Send(d, p) \in S
    PROVE  SendAll(c, parts) \in S
<1>1. PICK f \in [0 .. Len(parts) -> Channel] :
             /\ f[0] = c /\ f[Len(parts)] = SendAll(c, parts)
             /\ \A i \in 1 .. Len(parts) : f[i] = Send(f[i - 1], parts[i])
  BY SendAllSteps
<1> DEFINE n == Len(parts)
           T == {i \in 0 .. n : f[i] \in S}
<1>2. n \in Nat /\ \A i \in 1 .. n : parts[i] \in Part
  OBVIOUS
<1>3. 0 \in T
  BY <1>1, <1>2
<1>4. \A i \in 0 .. n - 1 : i \in T => i + 1 \in T
  BY <1>1, <1>2
<1> HIDE DEF T
<1>5. \A i \in 0 .. n : i \in T
  BY <1>2, <1>3, <1>4, Upwards
<1> QED
  BY <1>1, <1>2, <1>5 DEF T

(* What sending them all hands over, and that it reads nothing.                 *)
LEMMA SendAllAsks ==
    ASSUME NEW c \in Channel, NEW parts \in Seq(Part)
    PROVE  /\ SendAll(c, parts) \in Channel
           /\ SendAll(c, parts).asked = c.asked \o parts
           /\ SendAll(c, parts).read = c.read
<1>1. PICK f \in [0 .. Len(parts) -> Channel] :
             /\ f[0] = c /\ f[Len(parts)] = SendAll(c, parts)
             /\ \A i \in 1 .. Len(parts) : f[i] = Send(f[i - 1], parts[i])
  BY SendAllSteps
<1> DEFINE n == Len(parts)
           T == {i \in 0 .. n : /\ f[i].asked = c.asked \o SubSeq(parts, 1, i)
                                /\ f[i].read = c.read}
<1>2. n \in Nat /\ c.asked \in Seq(Part) /\ \A i \in 1 .. n : parts[i] \in Part
  BY DEF Channel
<1>3. 0 \in T
  BY <1>1, <1>2
<1>4. ASSUME NEW i \in 0 .. n - 1, i \in T PROVE i + 1 \in T
  <2>1. f[i + 1] = Send(f[i], parts[i + 1]) /\ f[i] \in Channel
    BY <1>1, <1>2
  <2>2. /\ f[i + 1].asked = Append(f[i].asked, parts[i + 1])
        /\ f[i + 1].read = f[i].read
    BY <2>1 DEF Send, Sent, Channel
  <2>3. SubSeq(parts, 1, i + 1) = Append(SubSeq(parts, 1, i), parts[i + 1])
    BY <1>2
  <2>4. SubSeq(parts, 1, i) \in Seq(Part)
    BY <1>2
  <2>5. Append(c.asked \o SubSeq(parts, 1, i), parts[i + 1])
           = c.asked \o Append(SubSeq(parts, 1, i), parts[i + 1])
    <3>1. /\ SubSeq(parts, 1, i) \in Seq(Part) /\ c.asked \in Seq(Part) /\ parts[i + 1] \in Part
          /\ c.asked \o SubSeq(parts, 1, i) \in Seq(Part) /\ <<parts[i + 1]>> \in Seq(Part)
      BY <1>2, <2>4
    <3>2. /\ Append(c.asked \o SubSeq(parts, 1, i), parts[i + 1]) = (c.asked \o SubSeq(parts, 1, i)) \o <<parts[i + 1]>>
          /\ Append(SubSeq(parts, 1, i), parts[i + 1]) = SubSeq(parts, 1, i) \o <<parts[i + 1]>>
      BY <3>1, AppendIsConcat
    <3>3. (c.asked \o SubSeq(parts, 1, i)) \o <<parts[i + 1]>> = c.asked \o (SubSeq(parts, 1, i) \o <<parts[i + 1]>>)
      <4>1. PICK s, u, v : s = c.asked /\ u = SubSeq(parts, 1, i) /\ v = <<parts[i + 1]>>
        OBVIOUS
      <4>2. s \in Seq(Part) /\ u \in Seq(Part) /\ v \in Seq(Part)
        BY <3>1, <4>1
      <4>3. (s \o u) \o v = s \o (u \o v)
        BY <4>2, ConcatAssociative
      <4> QED
        BY <4>1, <4>3
    <3> QED
      BY <3>2, <3>3, Zenon
  <2>6. f[i].asked = c.asked \o SubSeq(parts, 1, i) /\ f[i].read = c.read
    BY <1>4
  <2>7. f[i + 1].asked = c.asked \o SubSeq(parts, 1, i + 1)
    BY <2>2, <2>3, <2>5, <2>6, Zenon
  <2>8. i + 1 \in 0 .. n
    BY <1>2
  <2> QED
    BY <2>2, <2>6, <2>7, <2>8
<1> HIDE DEF T
<1>5. n \in T
  <2>1. \A i \in 0 .. n : i \in T
    BY <1>2, <1>3, <1>4, Upwards
  <2> QED
    BY <1>2, <2>1
<1>6. SubSeq(parts, 1, n) = parts
  OBVIOUS
<1> QED
  BY <1>1, <1>2, <1>5, <1>6 DEF T
-----------------------------------------------------------------------------
(* What the device owes on an exchange: parts handed over but not sent wait for *)
(* the marker to be taken away, and without the marker every part is answered.  *)
Unanswered(c) == Len(c.sent) - c.answered
Orderly ==
    {c \in Channel :
        /\ c.sent \o c.pending = c.asked
        /\ c.pending # <<>> => c.in_flight
        /\ Unanswered(c) = 0 \/ (Unanswered(c) = 1 /\ c.in_flight)}

(* ... and on one where every answer releases what is next                      *)
Attended == {c \in Orderly : c.in_flight => Unanswered(c) = 1}

LEMMA NewChannelAttended == NewChannel \in Attended
<1>1. NewChannel \in Channel
  BY DEF NewChannel, Channel
<1>2. <<>> \o <<>> = <<>> /\ Len(<<>>) = 0
  OBVIOUS
<1>3. NewChannel.sent \o NewChannel.pending = NewChannel.asked
  BY <1>2 DEF NewChannel
<1>4. Unanswered(NewChannel) = 0
  BY <1>2 DEF NewChannel, Unanswered
<1>5. ~NewChannel.in_flight /\ NewChannel.pending = <<>>
  BY DEF NewChannel
<1>6. NewChannel \in Orderly
  BY <1>1, <1>3, <1>4, <1>5, Zenon DEF Orderly
<1> QED
  BY <1>5, <1>6 DEF Attended

(* Handing over keeps the order, whether the exchange is free or not.      *)
LEMMA SendOrderly ==
    ASSUME NEW c \in Orderly, NEW p \in Part
    PROVE  Send(c, p) \in Orderly /\ (c \in Attended => Send(c, p) \in Attended)
<1>1. c \in Channel /\ Send(c, p) \in Channel
  BY SendType DEF Orderly
<1>2. c.sent \in Seq(Part) /\ c.pending \in Seq(Part) /\ c.answered \in Nat
  BY <1>1 DEF Channel
<1>3. CASE c.in_flight
  <2>1. /\ Send(c, p).asked = Append(c.asked, p)
        /\ Send(c, p).pending = Append(c.pending, p)
        /\ Send(c, p).sent = c.sent /\ Send(c, p).answered = c.answered
        /\ Send(c, p).in_flight
    BY <1>1, <1>3 DEF Send, Channel
  <2>2. c.sent \o Append(c.pending, p) = Append(c.sent \o c.pending, p)
    <3>1. /\ c.pending \in Seq(Part) /\ c.sent \in Seq(Part) /\ p \in Part
          /\ c.sent \o c.pending \in Seq(Part) /\ <<p>> \in Seq(Part)
      BY <1>2
    <3>2. /\ Append(c.sent \o c.pending, p) = (c.sent \o c.pending) \o <<p>>
          /\ Append(c.pending, p) = c.pending \o <<p>>
      BY <3>1, AppendIsConcat
    <3>3. (c.sent \o c.pending) \o <<p>> = c.sent \o (c.pending \o <<p>>)
      <4>1. PICK s, u, v : s = c.sent /\ u = c.pending /\ v = <<p>>
        OBVIOUS
      <4>2. s \in Seq(Part) /\ u \in Seq(Part) /\ v \in Seq(Part)
        BY <3>1, <4>1
      <4>3. (s \o u) \o v = s \o (u \o v)
        BY <4>2, ConcatAssociative
      <4> QED
        BY <4>1, <4>3
    <3> QED
      BY <3>2, <3>3, Zenon
  <2> QED
    BY <1>1, <1>3, <2>1, <2>2 DEF Orderly, Attended, Unanswered
<1>4. CASE ~c.in_flight
  <2>1. /\ Send(c, p).asked = Append(c.asked, p)
        /\ Send(c, p).pending = c.pending
        /\ Send(c, p).sent = Append(c.sent, p) /\ Send(c, p).answered = c.answered
        /\ Send(c, p).in_flight
    BY <1>1, <1>4 DEF Send, Sent, Channel
  <2>2. c.pending = <<>> /\ c.sent = c.asked
    <3>1. c.sent \o <<>> = c.sent
      BY <1>2, ConcatEmptySeq
    <3> QED
      BY <1>4, <3>1 DEF Orderly
  <2>3. /\ Append(c.sent, p) \in Seq(Part)
        /\ Append(c.sent, p) \o <<>> = Append(c.sent, p)
        /\ Len(Append(c.sent, p)) = Len(c.sent) + 1
    <3>1. Append(c.sent, p) \in Seq(Part)
      BY <1>2
    <3> QED
      BY <1>2, <3>1, ConcatEmptySeq
  <2>4. Unanswered(c) = 0 /\ Unanswered(Send(c, p)) = 1
    BY <1>2, <1>4, <2>1, <2>3 DEF Orderly, Unanswered
  <2>5. Send(c, p).sent \o Send(c, p).pending = Send(c, p).asked
    BY <2>1, <2>2, <2>3
  <2> QED
    BY <1>1, <2>1, <2>4, <2>5 DEF Orderly, Attended
<1> QED
  BY <1>3, <1>4

LEMMA SendAllOrderly ==
    ASSUME NEW c \in Orderly, NEW parts \in Seq(Part)
    PROVE  /\ SendAll(c, parts) \in Orderly
           /\ c \in Attended => SendAll(c, parts) \in Attended
<1>1. Orderly \in SUBSET Channel /\ Attended \in SUBSET Channel
  BY DEF Orderly, Attended, Unanswered
<1>2. SendAll(c, parts) \in Orderly
  BY <1>1, SendOrderly, SendAllStays
<1>3. ASSUME c \in Attended PROVE SendAll(c, parts) \in Attended
  <2>1. \A d \in Attended, p \in Part : Send(d, p) \in Attended
    BY SendOrderly DEF Attended
  <2> QED
    BY <1>1, <1>3, <2>1, SendAllStays
<1> QED
  BY <1>2, <1>3

(* An answer releases the next part, or gives up the rest.                 *)
LEMMA AnsweredOrderly ==
    ASSUME NEW c \in Orderly
    PROVE  Answered(c) \in Orderly /\ Answered(c).answered = Len(c.sent)
<1>1. c \in Channel /\ c.sent \in Seq(Part) /\ c.answered \in Nat
  BY DEF Orderly, Channel
<1> DEFINE m == IF c.answered < Len(c.sent) THEN c.answered + 1 ELSE c.answered
<1>2. Answered(c) = [c EXCEPT !.answered = m] /\ m \in Nat
  BY <1>1 DEF Answered
<1>3. m = Len(c.sent)
  BY <1>1 DEF Orderly, Unanswered
<1> HIDE DEF m
<1>4. Answered(c) \in Channel
  BY <1>1, <1>2 DEF Channel
<1>5. /\ Answered(c).answered = m /\ Answered(c).sent = c.sent
      /\ Answered(c).asked = c.asked /\ Answered(c).pending = c.pending
      /\ Answered(c).in_flight = c.in_flight
  BY <1>1, <1>2 DEF Channel
<1> QED
  <2>1. Unanswered(Answered(c)) = 0
    BY <1>1, <1>3, <1>5 DEF Unanswered
  <2> QED
    BY <1>3, <1>4, <1>5, <2>1 DEF Orderly

(* An answer that releases the next message leaves the exchange attended.       *)
LEMMA ReleaseAttended ==
    ASSUME NEW c \in Orderly, c.answered = Len(c.sent)
    PROVE  ReleaseNext(c) \in Attended
<1>1. c \in Channel /\ c.sent \in Seq(Part) /\ c.pending \in Seq(Part) /\ c.answered \in Nat
  BY DEF Orderly, Channel
<1>2. CASE c.pending = <<>>
  <2> DEFINE d == ReleaseNext(c)
  <2>1. d = [c EXCEPT !.in_flight = FALSE]
    BY <1>2 DEF ReleaseNext
  <2>2. d \in Channel
    BY <1>1, <2>1 DEF Channel
  <2>3. /\ d.sent = c.sent /\ d.pending = c.pending /\ d.answered = c.answered
        /\ ~d.in_flight /\ d.asked = c.asked
    BY <1>1, <2>1 DEF Channel
  <2> HIDE DEF d
  <2>4. Unanswered(d) = 0
    BY <1>1, <2>3 DEF Unanswered
  <2>5. d.pending = <<>> /\ d.sent \o d.pending = d.asked
    BY <1>2, <2>3 DEF Orderly
  <2>6. d \in Orderly
    BY <2>2, <2>4, <2>5, Zenon DEF Orderly
  <2>7. d \in Attended
    BY <2>3, <2>6 DEF Attended
  <2> QED
    BY <2>7 DEF d
<1>3. CASE c.pending # <<>>
  <2> DEFINE p == Head(c.pending)
             rest == Tail(c.pending)
             d == ReleaseNext(c)
  <2>1. p \in Part /\ rest \in Seq(Part) /\ Append(c.sent, p) \in Seq(Part)
    BY <1>1, <1>3
  <2>2. d = [c EXCEPT !.sent = Append(c.sent, p), !.pending = rest]
    BY <1>1, <1>3 DEF ReleaseNext, Sent, Channel
  <2>3. d \in Channel
    BY <1>1, <2>1, <2>2 DEF Channel
  <2>4. Append(c.sent, p) \o rest = c.sent \o c.pending
    BY <1>1, <1>3, HeadMoves
  <2>5. /\ d.sent = Append(c.sent, p) /\ d.pending = rest /\ d.answered = c.answered
        /\ d.in_flight = c.in_flight /\ d.asked = c.asked
    BY <1>1, <2>2 DEF Channel
  <2>6. Len(Append(c.sent, p)) = Len(c.sent) + 1
    BY <1>1
  <2> HIDE DEF d, p, rest
  <2>7. Unanswered(d) = 1
    BY <1>1, <2>5, <2>6 DEF Unanswered
  <2>8. d.in_flight /\ d.sent \o d.pending = d.asked
    BY <1>3, <2>4, <2>5 DEF Orderly
  <2>9. d \in Attended
    BY <2>3, <2>7, <2>8 DEF Orderly, Attended
  <2> QED
    BY <2>9 DEF d
<1> QED
  BY <1>2, <1>3
-----------------------------------------------------------------------------
(* Concatenating sequences: the steps of FlattenSeq.                            *)
Joined(s, t) == s \o t

LEMMA JoinedAssociates ==
    ASSUME NEW S, NEW s \in Seq(S), NEW t \in Seq(S), NEW u \in Seq(S)
    PROVE  Joined(Joined(s, t), u) = Joined(s, Joined(t, u))
<1>1. (s \o t) \o u = s \o (t \o u)
  BY ConcatAssociative
<1> QED
  BY <1>1, Zenon DEF Joined

JoinedUp(A, a, n, ss) ==
    {g \in [0 .. n -> A] :
        g[0] = a /\ \A i \in 1 .. n : g[i] = Joined(g[i - 1], ss[i])}

LEMMA JoinedSteps ==
    ASSUME NEW A, NEW a \in A, NEW n \in Nat, NEW ss, \A i \in 1 .. n : ss[i] \in A,
           \A s, t \in A : Joined(s, t) \in A
    PROVE  \E g : g \in JoinedUp(A, a, n, ss)
<1> DEFINE step == [i \in 1 .. n |-> [s \in A |-> Joined(s, ss[i])]]
<1>1. step \in Steps(A, n)
  BY DEF Steps
<1>2. \A i \in 1 .. n, s \in A : step[i][s] = Joined(s, ss[i])
  OBVIOUS
<1> HIDE DEF step
<1>3. PICK g \in [0 .. n -> A] :
             g[0] = a /\ \A i \in 1 .. n : g[i] = step[i][g[i - 1]]
  <2>1. \E g : g \in Iterations(A, a, n, step)
    BY <1>1, IterationExists
  <2> QED
    BY <2>1 DEF Iterations
<1>4. \A i \in 1 .. n : g[i] = Joined(g[i - 1], ss[i])
  BY <1>2, <1>3
<1> QED
  BY <1>3, <1>4 DEF JoinedUp

LEMMA FlattenSteps ==
    ASSUME NEW S, NEW ss \in Seq(Seq(S))
    PROVE  \E f \in [0 .. Len(ss) -> Seq(S)] :
              /\ f[0] = <<>> /\ f[Len(ss)] = FlattenSeq(ss)
              /\ \A i \in 1 .. Len(ss) : f[i] = Joined(f[i - 1], ss[i])
<1>1. PICK A, a, n : A = Seq(S) /\ a = <<>> /\ n = Len(ss)
  OBVIOUS
<1> DEFINE Rule(f) == f = [i \in 1 .. n |-> IF i = 1 THEN ss[i]
                                                    ELSE Joined(f[i - 1], ss[i])]
<1>2. a \in A /\ n \in Nat /\ \A i \in 1 .. n : ss[i] \in A
  BY <1>1
<1>3. \A s, t \in A : Joined(s, t) \in A
  BY <1>1 DEF Joined
<1>4. PICK g \in [0 .. n -> A] :
             g[0] = a /\ \A i \in 1 .. n : g[i] = Joined(g[i - 1], ss[i])
  <2>1. \E g : g \in JoinedUp(A, a, n, ss)
    BY <1>2, <1>3, JoinedSteps
  <2> QED
    BY <2>1 DEF JoinedUp
<1>5. \A i \in 1 .. n : g[i] = Joined(g[i - 1], ss[i])
  BY <1>4
<1>6. CASE n = 0
  <2>1. FlattenSeq(ss) = ss /\ ss = <<>>
    <3>1. Len(ss) = 0
      BY <1>1, <1>6
    <3>2. ss = <<>>
      BY <3>1, EmptySeq
    <3> QED
      BY <3>1, <3>2, Zenon DEF FlattenSeq
  <2> QED
    BY <1>1, <1>4, <1>5, <1>6, <2>1
<1>7. CASE n # 0
  <2> DEFINE h == [i \in 1 .. n |-> g[i]]
  <2>1. g[1] = ss[1]
    <3>1. g[1] = Joined(<<>>, ss[1]) /\ ss[1] \in Seq(S)
      BY <1>1, <1>2, <1>4, <1>5, <1>7
    <3> QED
      BY <3>1, ConcatEmptySeq DEF Joined
  <2>2. Rule(h)
    BY <1>2, <1>5, <2>1
  <2> DEFINE flatten == CHOOSE f : Rule(f)
  <2>3. Rule(flatten)
    <3> HIDE DEF h, Rule
    <3> QED
      BY <2>2
  <2>4. FlattenSeq(ss) = flatten[n]
    BY <1>1, <1>7 DEF FlattenSeq, Joined
  <2> HIDE DEF flatten
  <2> DEFINE T == {i \in 0 .. n : i # 0 => flatten[i] = g[i]}
  <2>5. 0 \in T
    BY <1>2
  <2>6. \A i \in 0 .. n - 1 : i \in T => i + 1 \in T
    BY <1>2, <1>5, <2>1, <2>3
  <2> HIDE DEF T
  <2>7. \A i \in 0 .. n : i \in T
    BY <1>2, <2>5, <2>6, Upwards
  <2>8. flatten[n] = g[n]
    BY <1>2, <1>7, <2>7 DEF T
  <2> QED
    BY <1>1, <1>4, <1>5, <2>4, <2>8
<1> QED
  BY <1>6, <1>7

(* FlattenSeq of one sequence more.                                        *)
LEMMA FlattenOneMore ==
    ASSUME NEW S, NEW ss \in Seq(Seq(S)), NEW tt \in Seq(Seq(S)),
           Len(tt) = Len(ss) + 1, \A i \in 1 .. Len(ss) : tt[i] = ss[i]
    PROVE  /\ FlattenSeq(ss) \in Seq(S)
           /\ FlattenSeq(tt) = Joined(FlattenSeq(ss), tt[Len(tt)])
<1> DEFINE n == Len(ss)
<1>1. /\ n \in Nat /\ Len(tt) = n + 1 /\ \A i \in 1 .. n : tt[i] = ss[i]
  OBVIOUS
<1>2. PICK f \in [0 .. n -> Seq(S)] :
             /\ f[0] = <<>> /\ f[n] = FlattenSeq(ss)
             /\ \A i \in 1 .. n : f[i] = Joined(f[i - 1], ss[i])
  BY FlattenSteps
<1> HIDE DEF n
<1>3. PICK g \in [0 .. n + 1 -> Seq(S)] :
             /\ g[0] = <<>> /\ g[n + 1] = FlattenSeq(tt)
             /\ \A i \in 1 .. n + 1 : g[i] = Joined(g[i - 1], tt[i])
  <2>1. \E g \in [0 .. Len(tt) -> Seq(S)] :
             /\ g[0] = <<>> /\ g[Len(tt)] = FlattenSeq(tt)
             /\ \A i \in 1 .. Len(tt) : g[i] = Joined(g[i - 1], tt[i])
    BY <1>1, FlattenSteps
  <2> QED
    BY <1>1, <2>1
<1> DEFINE T == {i \in 0 .. n : g[i] = f[i]}
<1>4. 0 \in T
  BY <1>1, <1>2, <1>3
<1>5. \A i \in 0 .. n - 1 : i \in T => i + 1 \in T
  BY <1>1, <1>2, <1>3
<1> HIDE DEF T
<1>6. \A i \in 0 .. n : i \in T
  BY <1>1, <1>4, <1>5, Upwards
<1>7. g[n] = f[n]
  BY <1>1, <1>6 DEF T
<1>8. g[n + 1] = Joined(g[n], tt[n + 1])
  BY <1>1, <1>3
<1> QED
  BY <1>1, <1>2, <1>3, <1>7, <1>8 DEF n
-----------------------------------------------------------------------------
(* The chunks of a report.                                                      *)
Chunks == [closed : Seq(Seq(Nat)), next : Seq(Nat)]

LEMMA NothingIsNotFull == ~Full(<<>>)
<1>1. Total(<<>>) = 0
  <2>1. DOMAIN <<>> = {} /\ SUBSET {} = {{}}
    OBVIOUS
  <2> QED
    BY <2>1 DEF Total, FoldLeft, MapThenFoldSet
<1> QED
  BY <1>1, RequestFlowAssumption DEF Full

LEMMA GatherType ==
    ASSUME NEW g \in Chunks, NEW x \in Nat
    PROVE  Gather(g, x) \in Chunks
<1>1. Append(g.next, x) \in Seq(Nat) /\ Append(g.closed, Append(g.next, x)) \in Seq(Seq(Nat))
  BY DEF Chunks
<1>2. <<>> \in Seq(Nat)
  OBVIOUS
<1> QED
  BY <1>1, <1>2 DEF Gather, Chunks

NoChunks == [closed |-> <<>>, next |-> <<>>]

LEMMA GatheredSteps ==
    ASSUME NEW r \in Reports
    PROVE  \E f \in [0 .. Len(r) -> Chunks] :
              /\ f[0] = NoChunks /\ f[Len(r)] = Gathered[r]
              /\ \A i \in 1 .. Len(r) : r[i] \in Nat /\ f[i] = Gather(f[i - 1], r[i])
<1> DEFINE n == Len(r)
           step == [i \in 1 .. n |-> [d \in Chunks |-> Gather(d, r[i])]]
           Rule(f) == f = [i \in 0 .. n |-> IF i = 0 THEN [closed |-> <<>>, next |-> <<>>]
                                            ELSE Gather(f[i - 1], r[i])]
<1>1. n \in Nat /\ \A i \in 1 .. n : r[i] \in Nat
  <2>1. r \in Seq(Nat \ {0})
    BY RequestFlowAssumption
  <2> QED
    BY <2>1
<1>2. step \in Steps(Chunks, n)
  BY <1>1, GatherType DEF Steps
<1>3. \A i \in 1 .. n, d \in Chunks : step[i][d] = Gather(d, r[i])
  OBVIOUS
<1>4. NoChunks \in Chunks
  BY DEF NoChunks, Chunks
<1> HIDE DEF step
<1>5. PICK g \in [0 .. n -> Chunks] :
             g[0] = NoChunks /\ \A i \in 1 .. n : g[i] = step[i][g[i - 1]]
  <2> HIDE DEF n
  <2> QED
    <3>1. \E g : g \in Iterations(Chunks, NoChunks, n, step)
      BY <1>1, <1>2, <1>4, IterationExists
    <3> QED
      BY <3>1 DEF Iterations
<1>6. Rule(g)
  BY <1>1, <1>3, <1>5 DEF NoChunks
<1> DEFINE after == CHOOSE f : Rule(f)
<1>7. Rule(after)
  <2> HIDE DEF Rule
  <2> QED
    BY <1>6
<1>8. Gathered[r] = after[n]
  BY DEF Gathered
<1> HIDE DEF after
<1> DEFINE T == {i \in 0 .. n : after[i] = g[i]}
<1>9. 0 \in T
  BY <1>1, <1>6, <1>7
<1>10. \A i \in 0 .. n - 1 : i \in T => i + 1 \in T
  BY <1>1, <1>6, <1>7
<1> HIDE DEF T
<1>11. \A i \in 0 .. n : i \in T
  <2> HIDE DEF n
  <2> QED
    BY <1>1, <1>9, <1>10, Upwards
<1>12. Gathered[r] = g[n]
  BY <1>1, <1>8, <1>11 DEF T
<1>13. \A i \in 1 .. n : g[i] = Gather(g[i - 1], r[i])
  BY <1>1, <1>3, <1>5
<1> QED
  BY <1>1, <1>5, <1>12, <1>13
(* The chunks made of the first i reports hold them in order; the closed ones   *)
(* are full, the one that is not closed is not.                                 *)
Faithful(g, r, i) ==
    /\ Joined(FlattenSeq(g.closed), g.next) = SubSeq(r, 1, i)
    /\ \A k \in DOMAIN g.closed : Full(g.closed[k])
    /\ ~Full(g.next)

(* One more item: in the open chunk, which is closed once it is full.      *)
LEMMA GatherFaithful ==
    ASSUME NEW r \in Seq(Nat), NEW i \in 0 .. Len(r) - 1, NEW g \in Chunks,
           Faithful(g, r, i)
    PROVE  Faithful(Gather(g, r[i + 1]), r, i + 1)
<1> DEFINE x == r[i + 1]
           next == Append(g.next, x)
           h == Gather(g, x)
<1>1. PICK flat : flat = FlattenSeq(g.closed)
  OBVIOUS
<1>2. PICK nx : nx = g.next
  OBVIOUS
<1>3. /\ x \in Nat /\ nx \in Seq(Nat) /\ next \in Seq(Nat) /\ <<x>> \in Seq(Nat)
      /\ g.closed \in Seq(Seq(Nat))
  BY <1>2 DEF Chunks
<1>4. flat \in Seq(Nat) /\ FlattenSeq(Append(g.closed, next)) = Joined(flat, next)
  <2>1. Append(g.closed, next) \in Seq(Seq(Nat))
    BY <1>3
  <2>2. PICK ss, tt : ss = g.closed /\ tt = Append(g.closed, next)
    OBVIOUS
  <2>3. /\ ss \in Seq(Seq(Nat)) /\ tt \in Seq(Seq(Nat)) /\ Len(tt) = Len(ss) + 1
        /\ tt[Len(tt)] = next /\ \A k \in 1 .. Len(ss) : tt[k] = ss[k]
    BY <1>3, <2>1, <2>2
  <2>4. FlattenSeq(ss) \in Seq(Nat) /\ FlattenSeq(tt) = Joined(FlattenSeq(ss), tt[Len(tt)])
    BY <2>3, FlattenOneMore
  <2> QED
    BY <1>1, <2>2, <2>3, <2>4
<1>5. flat \o next = SubSeq(r, 1, i + 1)
  <2>1. next = nx \o <<x>>
    BY <1>2, <1>3, AppendIsConcat
  <2>2. (flat \o nx) \o <<x>> = flat \o (nx \o <<x>>)
    <3>1. PICK v : v = <<x>>
      OBVIOUS
    <3>2. v \in Seq(Nat)
      BY <1>3, <3>1
    <3>3. (flat \o nx) \o v = flat \o (nx \o v)
      <4>1. flat \in Seq(Nat) /\ nx \in Seq(Nat)
        BY <1>3, <1>4
      <4>2. Joined(Joined(flat, nx), v) = Joined(flat, Joined(nx, v))
        BY <3>2, <4>1, JoinedAssociates
      <4> QED
        BY <4>2, Zenon DEF Joined
    <3> QED
      BY <3>1, <3>3
  <2>3. flat \o nx = SubSeq(r, 1, i)
    BY <1>1, <1>2 DEF Faithful, Joined
  <2>4. SubSeq(r, 1, i + 1) = SubSeq(r, 1, i) \o <<x>>
    <3>1. /\ 1 \in 1 .. Len(r) /\ i + 1 \in 1 .. Len(r) /\ (i + 1) - 1 = i
      OBVIOUS
    <3>2. SubSeq(r, 1, i + 1) = SubSeq(r, 1, (i + 1) - 1) \o <<r[i + 1]>>
      BY <3>1, SubSeqRecursiveSecond
    <3> QED
      BY <3>1, <3>2
  <2> QED
    BY <2>1, <2>2, <2>3, <2>4, Zenon
<1>6. CASE Full(next)
  <2>1. h.closed = Append(g.closed, next) /\ h.next = <<>>
    BY <1>6 DEF Gather
  <2>2. FlattenSeq(Append(g.closed, next)) = flat \o next /\ flat \o next \in Seq(Nat)
    BY <1>3, <1>4 DEF Joined
  <2>3. (flat \o next) \o <<>> = flat \o next
    BY <2>2, ConcatEmptySeq
  <2>4. Joined(FlattenSeq(h.closed), h.next) = SubSeq(r, 1, i + 1)
    <3>1. Joined(FlattenSeq(h.closed), h.next) = (flat \o next) \o <<>>
      BY <2>1, <2>2, Zenon DEF Joined
    <3> QED
      BY <1>5, <2>3, <3>1, Zenon
  <2>5. \A k \in DOMAIN h.closed : Full(h.closed[k])
    BY <1>3, <1>6, <2>1 DEF Faithful
  <2> HIDE DEF h
  <2>6. Faithful(h, r, i + 1)
    BY <2>1, <2>4, <2>5, NothingIsNotFull, Zenon DEF Faithful
  <2> QED
    BY <2>6 DEF h
<1>7. CASE ~Full(next)
  <2>1. h = [g EXCEPT !.next = next]
    BY <1>7 DEF Gather
  <2>2. h.closed = g.closed /\ h.next = next
    BY <2>1 DEF Chunks
  <2> HIDE DEF h
  <2>3. Faithful(h, r, i + 1)
    BY <1>1, <1>5, <1>7, <2>2, Zenon DEF Faithful, Joined
  <2> QED
    BY <2>3 DEF h
<1> QED
  BY <1>6, <1>7

LEMMA GatheredFaithful ==
    ASSUME NEW r \in Reports
    PROVE  /\ Gathered[r] \in Chunks
           /\ Faithful(Gathered[r], r, Len(r))
           /\ r \in Seq(Nat)
<1> DEFINE n == Len(r)
<1>1. r \in Seq(Nat) /\ n \in Nat
  <2>1. r \in Seq(Nat \ {0})
    BY RequestFlowAssumption
  <2>2. r \in Seq(Nat)
    BY <2>1, SeqMonotonic
  <2> QED
    BY <2>2
<1>2. PICK f \in [0 .. n -> Chunks] :
             /\ f[0] = NoChunks /\ f[n] = Gathered[r]
             /\ \A i \in 1 .. n : r[i] \in Nat /\ f[i] = Gather(f[i - 1], r[i])
  BY GatheredSteps
<1> DEFINE T == {i \in 0 .. n : Faithful(f[i], r, i)}
<1>3. 0 \in T
  <2>1. NoChunks.closed = <<>> /\ NoChunks.next = <<>> /\ DOMAIN <<>> = {}
    BY DEF NoChunks
  <2>2. FlattenSeq(<<>>) = <<>>
    BY DEF FlattenSeq
  <2>3. <<>> \o <<>> = <<>> /\ SubSeq(r, 1, 0) = <<>>
    BY <1>1
  <2>4. Faithful(NoChunks, r, 0)
    BY <2>1, <2>2, <2>3, NothingIsNotFull, Zenon DEF Faithful, Joined
  <2> QED
    BY <1>1, <1>2, <2>4
<1>4. ASSUME NEW i \in 0 .. n - 1, i \in T PROVE i + 1 \in T
  <2>1. f[i + 1] = Gather(f[i], r[i + 1]) /\ f[i] \in Chunks /\ i + 1 \in 0 .. n
    BY <1>1, <1>2
  <2>2. Faithful(f[i + 1], r, i + 1)
    BY <1>1, <1>4, <2>1, GatherFaithful
  <2> QED
    BY <2>1, <2>2
<1> HIDE DEF T
<1>5. \A i \in 0 .. n : i \in T
  <2> HIDE DEF n
  <2> QED
    BY <1>1, <1>3, <1>4, Upwards
<1> QED
  BY <1>1, <1>2, <1>5 DEF T
(* What chunk_report_data makes of the reports r for conversation n.            *)
ReportsOf(P) == [i \in 1 .. Len(P) |-> P[i].reports]
MakeWhole(P, n, r) ==
    /\ P \in Seq(Part) /\ Len(P) >= 1
    /\ \A i \in 1 .. Len(P) : OfReport(P[i], n)
    /\ FlattenSeq(ReportsOf(P)) = r
    /\ \A i \in 1 .. Len(P) - 1 :
          P[i].more_chunked_messages /\ ~P[i].suppress_response
    /\ P[Len(P)].more_chunked_messages <=> Full(P[Len(P)].reports)

LEMMA ReportPartType ==
    ASSUME NEW n \in Nat, NEW s \in Seq(Nat), NEW more \in BOOLEAN, NEW suppress \in BOOLEAN
    PROVE  ReportPart(n, s, more, suppress) \in Part
BY DEF ReportPart, Part

LEMMA ClosedParts ==
    ASSUME NEW n \in Nat, NEW chunks \in Seq(Seq(Nat))
    PROVE  /\ Closed(n, chunks) \in Seq(Part)
           /\ Len(Closed(n, chunks)) = Len(chunks)
           /\ \A i \in 1 .. Len(chunks) :
                 /\ chunks[i] \in Seq(Nat)
                 /\ Closed(n, chunks)[i] = ReportPart(n, chunks[i], TRUE, FALSE)
<1>1. \A i \in 1 .. Len(chunks) : chunks[i] \in Seq(Nat)
  OBVIOUS
<1>2. \A i \in 1 .. Len(chunks) : ReportPart(n, chunks[i], TRUE, FALSE) \in Part
  BY <1>1, ReportPartType
<1>3. Closed(n, chunks) = [i \in 1 .. Len(chunks) |-> ReportPart(n, chunks[i], TRUE, FALSE)]
  BY DEF Closed
<1>4. Len(chunks) \in Nat
  OBVIOUS
<1>5. PICK m, c : m = Len(chunks) /\ c = Closed(n, chunks)
  OBVIOUS
<1>6. c = [i \in 1 .. m |-> ReportPart(n, chunks[i], TRUE, FALSE)]
  BY <1>3, <1>5
<1>7. \A i \in 1 .. m : c[i] = ReportPart(n, chunks[i], TRUE, FALSE)
  BY <1>6
<1>8. c \in Seq(Part) /\ Len(c) = m
  <2>1. m \in Nat /\ \A i \in 1 .. m : c[i] \in Part
    BY <1>2, <1>4, <1>5, <1>7
  <2>2. c = [i \in 1 .. m |-> c[i]]
    BY <1>6
  <2> QED
    BY <2>1, <2>2
<1> QED
  BY <1>1, <1>5, <1>7, <1>8

(* The parts of a report: full but the last, and all that was read, in     *)
(* order.                                                                  *)
LEMMA ChunksWhole ==
    ASSUME NEW n \in Nat, NEW r \in Reports, NEW suppress \in BOOLEAN
    PROVE  MakeWhole(ChunkReportData(n, r, suppress), n, r)
<1>1. PICK g : g = Gathered[r]
  OBVIOUS
<1>2. g \in Chunks /\ Faithful(g, r, Len(r)) /\ r \in Seq(Nat)
  BY <1>1, GatheredFaithful
<1>3. PICK closed, next : closed = g.closed /\ next = g.next
  OBVIOUS
<1>4. closed \in Seq(Seq(Nat)) /\ next \in Seq(Nat) /\ Len(closed) \in Nat
  BY <1>2, <1>3 DEF Chunks
<1>5. Joined(FlattenSeq(closed), next) = r
  BY <1>2, <1>3, SubSeqFull DEF Faithful
<1>6. (\A k \in 1 .. Len(closed) : Full(closed[k])) /\ ~Full(next)
  BY <1>2, <1>3, <1>4 DEF Faithful
<1>7. PICK cl : cl = Closed(n, closed)
  OBVIOUS
<1>8. /\ cl \in Seq(Part) /\ Len(cl) = Len(closed)
      /\ \A i \in 1 .. Len(closed) :
            /\ closed[i] \in Seq(Nat)
            /\ cl[i] = ReportPart(n, closed[i], TRUE, FALSE)
  BY <1>4, <1>7, ClosedParts
<1>9. \A i \in 1 .. Len(closed) :
         /\ OfReport(cl[i], n) /\ cl[i].reports = closed[i]
         /\ cl[i].more_chunked_messages /\ ~cl[i].suppress_response
  <2> SUFFICES ASSUME NEW i \in 1 .. Len(closed)
               PROVE  /\ OfReport(cl[i], n) /\ cl[i].reports = closed[i]
                      /\ cl[i].more_chunked_messages /\ ~cl[i].suppress_response
    OBVIOUS
  <2>1. cl[i] = ReportPart(n, closed[i], TRUE, FALSE)
    BY <1>8
  <2> QED
    BY <2>1 DEF ReportPart, OfReport
<1>10. CASE next # <<>> \/ closed = <<>>
  <2>1. PICK last : last = ReportPart(n, next, FALSE, suppress)
    OBVIOUS
  <2>2. /\ last \in Part /\ OfReport(last, n) /\ last.reports = next
        /\ ~last.more_chunked_messages
    BY <1>4, <2>1, ReportPartType DEF OfReport, ReportPart
  <2>3. PICK P : P = cl \o <<last>>
    OBVIOUS
  <2>4. ChunkReportData(n, r, suppress) = P
    BY <1>1, <1>3, <1>7, <1>10, <2>1, <2>3, Zenon DEF ChunkReportData
  <2>5. /\ P \in Seq(Part) /\ Len(P) = Len(closed) + 1 /\ P[Len(closed) + 1] = last
        /\ \A i \in 1 .. Len(closed) : P[i] = cl[i]
    <3>1. <<last>> \in Seq(Part) /\ Len(<<last>>) = 1 /\ <<last>>[1] = last
      BY <2>2
    <3>2. PICK one, k : one = <<last>> /\ k = Len(closed)
      OBVIOUS
    <3>3. one \in Seq(Part) /\ Len(one) = 1 /\ one[1] = last /\ k \in Nat /\ Len(cl) = k
      BY <1>4, <1>8, <3>1, <3>2
    <3>4. /\ cl \o one \in Seq(Part)
          /\ Len(cl \o one) = Len(cl) + Len(one)
          /\ \A i \in 1 .. Len(cl) + Len(one) :
                (cl \o one)[i] = IF i <= Len(cl) THEN cl[i] ELSE one[i - Len(cl)]
      BY <1>8, <3>3, ConcatProperties
    <3>5. P = cl \o one
      BY <2>3, <3>2
    <3>6. /\ P \in Seq(Part) /\ Len(P) = k + 1
          /\ \A i \in 1 .. k + 1 : P[i] = IF i <= k THEN cl[i] ELSE one[i - k]
      BY <3>3, <3>4, <3>5, Zenon
    <3>7. k + 1 \in 1 .. k + 1 /\ (k + 1) - k = 1 /\ ~(k + 1 <= k)
      BY <3>3
    <3>8. P[k + 1] = last
      BY <3>3, <3>6, <3>7
    <3>9. \A i \in 1 .. k : P[i] = cl[i]
      BY <3>3, <3>6
    <3> QED
      BY <3>2, <3>6, <3>8, <3>9
  <2>6. PICK reports : reports = ReportsOf(P)
    OBVIOUS
  <2>7. /\ reports \in Seq(Seq(Nat)) /\ Len(reports) = Len(closed) + 1
        /\ reports[Len(closed) + 1] = next
        /\ \A i \in 1 .. Len(closed) : reports[i] = closed[i]
    <3>1. \A i \in 1 .. Len(P) : P[i].reports \in Seq(Nat)
      <4> SUFFICES ASSUME NEW i \in 1 .. Len(P) PROVE P[i].reports \in Seq(Nat)
        OBVIOUS
      <4>1. P[i] \in Part
        BY <2>5
      <4> QED
        BY <4>1 DEF Part
    <3>2. reports = [i \in 1 .. Len(P) |-> P[i].reports] /\ Len(P) \in Nat
      BY <1>4, <2>5, <2>6 DEF ReportsOf
    <3>3. reports \in Seq(Seq(Nat)) /\ Len(reports) = Len(P)
      BY <3>1, <3>2
    <3>4. reports[Len(closed) + 1] = next
      BY <1>4, <2>2, <2>5, <3>2
    <3>5. ASSUME NEW i \in 1 .. Len(closed) PROVE reports[i] = closed[i]
      <4>1. i \in 1 .. Len(P) /\ P[i] = cl[i] /\ cl[i].reports = closed[i]
        BY <1>4, <1>9, <2>5
      <4> QED
        BY <3>2, <4>1
    <3> QED
      BY <2>5, <3>3, <3>4, <3>5
  <2>8. FlattenSeq(reports) = Joined(FlattenSeq(closed), reports[Len(reports)])
    BY <1>4, <2>7, FlattenOneMore
  <2>9. FlattenSeq(ReportsOf(P)) = r
    BY <1>5, <2>6, <2>7, <2>8
  <2>10. MakeWhole(P, n, r)
    <3>1. ASSUME NEW i \in 1 .. Len(P) PROVE OfReport(P[i], n)
      <4>1. i \in 1 .. Len(closed) \/ P[i] = last
        BY <1>4, <2>5
      <4> QED
        BY <1>9, <2>2, <2>5, <4>1
    <3>2. ASSUME NEW i \in 1 .. Len(P) - 1
          PROVE  P[i].more_chunked_messages /\ ~P[i].suppress_response
      <4>1. i \in 1 .. Len(closed) /\ P[i] = cl[i]
        BY <1>4, <2>5
      <4> QED
        BY <1>9, <4>1
    <3>3. P[Len(P)].more_chunked_messages <=> Full(P[Len(P)].reports)
      <4>1. P[Len(P)] = last
        BY <1>4, <2>5
      <4>2. ~P[Len(P)].more_chunked_messages /\ ~Full(P[Len(P)].reports)
        BY <1>6, <2>2, <4>1, Zenon
      <4> QED
        BY <4>2, Zenon
    <3>4. Len(P) >= 1
      BY <1>4, <2>5
    <3> QED
      BY <2>5, <2>9, <3>1, <3>2, <3>3, <3>4 DEF MakeWhole
  <2> QED
    BY <2>4, <2>10
<1>11. CASE ~(next # <<>> \/ closed = <<>>)
  <2>1. ChunkReportData(n, r, suppress) = cl \o <<>>
    BY <1>1, <1>3, <1>7, <1>11, Zenon DEF ChunkReportData
  <2>2. cl \o <<>> = cl
    BY <1>8, ConcatEmptySeq
  <2>3. FlattenSeq(closed) \in Seq(Nat)
    <3>1. Append(closed, <<>>) \in Seq(Seq(Nat))
      BY <1>4
    <3>2. PICK tt : tt = Append(closed, <<>>)
      OBVIOUS
    <3>3. /\ tt \in Seq(Seq(Nat)) /\ Len(tt) = Len(closed) + 1
          /\ \A k \in 1 .. Len(closed) : tt[k] = closed[k]
      BY <1>4, <3>1, <3>2
    <3> QED
      BY <1>4, <3>3, FlattenOneMore
  <2>4. FlattenSeq(closed) = r
    <3>1. FlattenSeq(closed) \o <<>> = FlattenSeq(closed)
      BY <2>3, ConcatEmptySeq
    <3> QED
      BY <1>5, <1>11, <3>1, Zenon DEF Joined
  <2>5. ReportsOf(cl) = closed
    <3>1. ReportsOf(cl) = [i \in 1 .. Len(closed) |-> closed[i]]
      BY <1>8, <1>9 DEF ReportsOf
    <3>2. closed = [i \in 1 .. Len(closed) |-> closed[i]]
      BY <1>4, LenProperties
    <3> QED
      BY <3>1, <3>2
  <2>6. Len(closed) >= 1
    BY <1>4, <1>11
  <2>7. Len(cl) \in 1 .. Len(closed)
    BY <1>4, <1>8, <2>6
  <2>8. MakeWhole(cl, n, r)
    <3>1. \A i \in 1 .. Len(cl) : OfReport(cl[i], n)
      BY <1>8, <1>9
    <3>2. ASSUME NEW i \in 1 .. Len(cl) - 1
          PROVE  cl[i].more_chunked_messages /\ ~cl[i].suppress_response
      <4>1. i \in 1 .. Len(closed)
        BY <1>4, <1>8
      <4> QED
        BY <1>9, <4>1
    <3>3. cl[Len(cl)].more_chunked_messages <=> Full(cl[Len(cl)].reports)
      <4>1. cl[Len(cl)].more_chunked_messages /\ Full(cl[Len(cl)].reports)
        BY <1>6, <1>9, <2>7
      <4> QED
        BY <4>1, Zenon
    <3>4. FlattenSeq(ReportsOf(cl)) = r
      BY <2>4, <2>5
    <3> QED
      BY <1>8, <2>6, <3>1, <3>2, <3>3, <3>4 DEF MakeWhole
  <2> QED
    BY <2>1, <2>2, <2>8
<1> QED
  BY <1>10, <1>11
-----------------------------------------------------------------------------
(* The channels whose reports are whole, none of a conversation to come.        *)
Past(c) == \A i \in DOMAIN c.asked :
              c.asked[i].kind = "report" => c.asked[i].conversation <= Len(c.read)
Whole ==
    {c \in Channel : /\ \A n \in DOMAIN c.read : IsWhole(c, n)
                     /\ Past(c)}

NoReports(parts) == \A i \in 1 .. Len(parts) : parts[i].kind # "report"

(* What a conversation's parts are does not change by what is asked after it.   *)
LEMMA StaysWhole ==
    ASSUME NEW c \in Channel, NEW d \in Channel, NEW n \in DOMAIN c.read, IsWhole(c, n),
           d.read[n] = c.read[n], Len(c.asked) <= Len(d.asked),
           \A i \in 1 .. Len(c.asked) : d.asked[i] = c.asked[i],
           \A i \in Len(c.asked) + 1 .. Len(d.asked) : ~OfReport(d.asked[i], n)
    PROVE  IsWhole(d, n)
<1>1. PICK p, q, a, b : /\ p = c.asked /\ q = d.asked
                        /\ a = Len(c.asked) /\ b = Len(d.asked)
  OBVIOUS
<1>2. /\ p \in Seq(Part) /\ q \in Seq(Part) /\ a \in Nat /\ b \in Nat /\ a <= b
      /\ DOMAIN p = 1 .. a /\ DOMAIN q = 1 .. b
      /\ \A i \in 1 .. a : q[i] = p[i]
      /\ \A i \in a + 1 .. b : ~OfReport(q[i], n)
  BY <1>1 DEF Channel
<1>3. PICK first, last \in DOMAIN p :
         /\ \A i \in DOMAIN p : OfReport(p[i], n) <=> i \in first .. last
         /\ FlattenSeq([i \in 1 .. last - first + 1 |-> p[first + i - 1].reports])
               = c.read[n]
         /\ \A i \in first .. last - 1 :
               p[i].more_chunked_messages /\ ~p[i].suppress_response
         /\ first <= last
         /\ p[last].more_chunked_messages <=> Full(p[last].reports)
  BY <1>1 DEF IsWhole
<1>4. /\ first \in 1 .. a /\ last \in 1 .. a /\ first \in DOMAIN q /\ last \in DOMAIN q
  BY <1>2
<1>5. \A i \in DOMAIN q : OfReport(q[i], n) <=> i \in first .. last
  <2> SUFFICES ASSUME NEW i \in 1 .. b PROVE OfReport(q[i], n) <=> i \in first .. last
    BY <1>2
  <2>1. CASE i \in 1 .. a
    <3>1. q[i] = p[i] /\ i \in DOMAIN p
      BY <1>2, <2>1
    <3>2. OfReport(p[i], n) <=> i \in first .. last
      BY <1>3, <3>1
    <3> QED
      BY <3>1, <3>2
  <2>2. CASE i \in a + 1 .. b
    <3>1. ~OfReport(q[i], n) /\ i \notin first .. last
      BY <1>2, <1>4, <2>2
    <3> QED
      BY <3>1
  <2> QED
    BY <1>2, <2>1, <2>2
<1>6. \A i \in 1 .. last - first + 1 : q[first + i - 1] = p[first + i - 1]
  BY <1>2, <1>4
<1>7. [i \in 1 .. last - first + 1 |-> q[first + i - 1].reports]
         = [i \in 1 .. last - first + 1 |-> p[first + i - 1].reports]
  BY <1>6
<1>8. FlattenSeq([i \in 1 .. last - first + 1 |-> q[first + i - 1].reports]) = d.read[n]
  BY <1>3, <1>7
<1>9. ASSUME NEW i \in first .. last - 1
      PROVE  q[i].more_chunked_messages /\ ~q[i].suppress_response
  <2>1. q[i] = p[i]
    BY <1>2, <1>4
  <2> QED
    BY <1>3, <2>1
<1>10. q[last].more_chunked_messages <=> Full(q[last].reports)
  <2>1. q[last] = p[last]
    BY <1>2, <1>4
  <2> QED
    BY <1>3, <2>1
<1> QED
  BY <1>1, <1>3, <1>4, <1>5, <1>8, <1>9, <1>10 DEF IsWhole

(* A conversation handed over after all that was asked before is whole.         *)
LEMMA NewWhole ==
    ASSUME NEW d \in Channel, NEW n, NEW P, MakeWhole(P, n, d.read[n]),
           NEW a \in Nat, a + Len(P) <= Len(d.asked),
           \A i \in 1 .. a : ~OfReport(d.asked[i], n),
           \A i \in 1 .. Len(P) : d.asked[a + i] = P[i],
           \A i \in a + Len(P) + 1 .. Len(d.asked) : ~OfReport(d.asked[i], n)
    PROVE  IsWhole(d, n)
<1>1. PICK q, b, m : q = d.asked /\ b = Len(d.asked) /\ m = Len(P)
  OBVIOUS
<1>2. /\ q \in Seq(Part) /\ b \in Nat /\ m \in Nat /\ m >= 1 /\ a + m <= b
      /\ DOMAIN q = 1 .. b
      /\ \A i \in 1 .. a : ~OfReport(q[i], n)
      /\ \A i \in 1 .. m : q[a + i] = P[i]
      /\ \A i \in a + m + 1 .. b : ~OfReport(q[i], n)
  BY <1>1 DEF Channel, MakeWhole
<1>3. /\ \A i \in 1 .. m : OfReport(P[i], n)
      /\ FlattenSeq(ReportsOf(P)) = d.read[n]
      /\ \A i \in 1 .. m - 1 : P[i].more_chunked_messages /\ ~P[i].suppress_response
      /\ P[m].more_chunked_messages <=> Full(P[m].reports)
  BY <1>1 DEF MakeWhole
<1> DEFINE first == a + 1
           last == a + m
<1>4. first \in DOMAIN q /\ last \in DOMAIN q /\ first <= last
  BY <1>2
<1>5. \A i \in DOMAIN q : OfReport(q[i], n) <=> i \in first .. last
  <2> SUFFICES ASSUME NEW i \in 1 .. b PROVE OfReport(q[i], n) <=> i \in first .. last
    BY <1>2
  <2>1. CASE i \in first .. last
    <3>1. i - a \in 1 .. m /\ a + (i - a) = i
      BY <1>2, <2>1
    <3>2. q[i] = P[i - a] /\ OfReport(P[i - a], n)
      BY <1>2, <1>3, <3>1
    <3> QED
      BY <2>1, <3>2
  <2>2. CASE i \notin first .. last
    <3>1. i \in 1 .. a \/ i \in a + m + 1 .. b
      BY <1>2, <2>2
    <3> QED
      BY <1>2, <2>2, <3>1
  <2> QED
    BY <2>1, <2>2
<1>6. last - first + 1 = m /\ \A i \in 1 .. m : first + i - 1 = a + i
  BY <1>2
<1>7. [i \in 1 .. last - first + 1 |-> q[first + i - 1].reports] = ReportsOf(P)
  <2>1. \A i \in 1 .. m : q[first + i - 1] = P[i]
    BY <1>2, <1>6
  <2>2. [i \in 1 .. m |-> q[first + i - 1].reports] = [i \in 1 .. m |-> P[i].reports]
    BY <2>1
  <2> QED
    BY <1>1, <1>6, <2>2 DEF ReportsOf
<1>8. ASSUME NEW i \in first .. last - 1
      PROVE  q[i].more_chunked_messages /\ ~q[i].suppress_response
  <2>1. i - a \in 1 .. m - 1 /\ i - a \in 1 .. m /\ a + (i - a) = i
    BY <1>2
  <2>2. q[i] = P[i - a]
    BY <1>2, <2>1
  <2> QED
    BY <1>3, <2>1, <2>2
<1>9. q[last].more_chunked_messages <=> Full(q[last].reports)
  <2>1. q[last] = P[m]
    BY <1>2
  <2> QED
    BY <1>3, <2>1
<1> HIDE DEF first, last
<1> QED
  BY <1>1, <1>3, <1>4, <1>5, <1>7, <1>8, <1>9 DEF IsWhole

LEMMA SameWhole ==
    ASSUME NEW c \in Whole, NEW d \in Channel, d.asked = c.asked, d.read = c.read
    PROVE  d \in Whole
<1>1. c \in Channel /\ Past(c)
  BY DEF Whole
<1>2. \A n \in DOMAIN c.read : IsWhole(c, n)
  BY DEF Whole
<1>3. ASSUME NEW n \in DOMAIN d.read PROVE IsWhole(d, n)
  <2>1. IsWhole(c, n)
    BY <1>2
  <2> QED
    BY <2>1, Zenon DEF IsWhole
<1>4. Past(d)
  BY <1>1, Zenon DEF Past
<1> QED
  BY <1>3, <1>4 DEF Whole

(* A part that reports nothing leaves the conversations as they are.            *)
LEMMA SendWhole ==
    ASSUME NEW c \in Whole, NEW p \in Part, p.kind # "report"
    PROVE  Send(c, p) \in Whole
<1>1. c \in Channel /\ Send(c, p) \in Channel
  BY SendType DEF Whole
<1>2. PICK d : d = Send(c, p)
  OBVIOUS
<1>3. d \in Channel /\ d.asked = Append(c.asked, p) /\ d.read = c.read
  BY <1>1, <1>2 DEF Send, Sent, Channel
<1>4. PICK a : a = Len(c.asked)
  OBVIOUS
<1>5. /\ c.asked \in Seq(Part) /\ c.read \in Seq(Seq(Nat))
      /\ a \in Nat /\ Len(d.asked) = a + 1 /\ d.asked[a + 1] = p
      /\ \A i \in 1 .. a : d.asked[i] = c.asked[i]
      /\ DOMAIN d.asked = 1 .. a + 1 /\ DOMAIN c.asked = 1 .. a
  BY <1>1, <1>3, <1>4 DEF Channel
<1>6. ASSUME NEW n \in DOMAIN d.read PROVE IsWhole(d, n)
  <2>1. n \in DOMAIN c.read /\ IsWhole(c, n) /\ d.read[n] = c.read[n]
    BY <1>3 DEF Whole
  <2>2. \A i \in a + 1 .. a + 1 : ~OfReport(d.asked[i], n)
    BY <1>5 DEF OfReport
  <2>3. /\ Len(c.asked) <= Len(d.asked)
        /\ \A i \in 1 .. Len(c.asked) : d.asked[i] = c.asked[i]
    BY <1>4, <1>5
  <2>4. \A i \in Len(c.asked) + 1 .. Len(d.asked) : ~OfReport(d.asked[i], n)
    BY <1>4, <1>5, <2>2
  <2> QED
    BY <1>1, <1>3, <2>1, <2>3, <2>4, StaysWhole
<1>7. Past(d)
  <2>1. Past(c)
    BY DEF Whole
  <2> QED
    BY <1>3, <1>5, <2>1 DEF Past
<1> QED
  BY <1>2, <1>3, <1>6, <1>7 DEF Whole
-----------------------------------------------------------------------------
(* A report, and what follows it.                                               *)
LEMMA ReportKeeps ==
    ASSUME NEW c \in Channel, NEW r \in Reports, NEW suppress \in BOOLEAN,
           NEW rest \in Seq(Part), NoReports(rest)
    PROVE  /\ Report(c, r, suppress, rest) \in Channel
           /\ c \in Orderly => Report(c, r, suppress, rest) \in Orderly
           /\ c \in Attended => Report(c, r, suppress, rest) \in Attended
           /\ c \in Whole => Report(c, r, suppress, rest) \in Whole
<1>1. PICK n, s : n = Len(c.read) + 1 /\ s = Append(c.read, r)
  OBVIOUS
<1>2. r \in Seq(Nat)
  BY GatheredFaithful
<1>3. /\ c.read \in Seq(Seq(Nat)) /\ n \in Nat /\ s \in Seq(Seq(Nat)) /\ Len(s) = n
      /\ s[n] = r /\ DOMAIN s = 1 .. n /\ DOMAIN c.read = 1 .. n - 1
      /\ \A k \in 1 .. n - 1 : s[k] = c.read[k]
  BY <1>1, <1>2 DEF Channel
<1>4. PICK d : d = [c EXCEPT !.read = s]
  OBVIOUS
<1>5. /\ d \in Channel /\ d.read = s /\ d.asked = c.asked /\ d.sent = c.sent
      /\ d.pending = c.pending /\ d.answered = c.answered /\ d.in_flight = c.in_flight
  BY <1>3, <1>4 DEF Channel
<1>6. PICK P : P = ChunkReportData(n, r, suppress)
  OBVIOUS
<1>7. MakeWhole(P, n, r) /\ P \in Seq(Part)
  <2>1. MakeWhole(P, n, r)
    BY <1>3, <1>6, ChunksWhole
  <2> QED
    BY <2>1 DEF MakeWhole
<1>8. PICK parts : parts = P \o rest
  OBVIOUS
<1>9. parts \in Seq(Part)
  BY <1>7, <1>8, ConcatProperties
<1>10. PICK e : e = SendAll(d, parts)
  OBVIOUS
<1>11. Report(c, r, suppress, rest) = e
  BY <1>1, <1>3, <1>4, <1>5, <1>6, <1>8, <1>10, Zenon DEF Report
<1>12. e \in Channel /\ e.asked = c.asked \o parts /\ e.read = s
  BY <1>5, <1>9, <1>10, SendAllAsks
<1>13. c \in Orderly => e \in Orderly
  <2>1. c \in Orderly => d \in Orderly
    BY <1>5 DEF Orderly, Unanswered
  <2> QED
    BY <1>9, <1>10, <2>1, SendAllOrderly
<1>14. c \in Attended => e \in Attended
  <2>1. c \in Attended => d \in Attended /\ d \in Orderly
    BY <1>5 DEF Attended, Orderly, Unanswered
  <2> QED
    BY <1>9, <1>10, <2>1, SendAllOrderly
<1>15. ASSUME c \in Whole PROVE e \in Whole
  <2>1. PICK a, m, b, p, q : /\ a = Len(c.asked) /\ m = Len(P) /\ b = Len(e.asked)
                             /\ p = c.asked /\ q = e.asked
    OBVIOUS
  <2>2. /\ p \in Seq(Part) /\ q \in Seq(Part) /\ a \in Nat /\ m \in Nat /\ b \in Nat
        /\ DOMAIN q = 1 .. b /\ DOMAIN p = 1 .. a
    <3>1. p \in Seq(Part) /\ q \in Seq(Part)
      BY <1>12, <2>1 DEF Channel
    <3> QED
      BY <1>7, <2>1, <3>1
  <2>3. /\ Len(parts) \in Nat /\ Len(rest) \in Nat /\ Len(parts) = m + Len(rest)
        /\ \A i \in 1 .. m : parts[i] = P[i]
        /\ \A i \in m + 1 .. Len(parts) : parts[i] = rest[i - m]
    <3>1. /\ Len(P \o rest) = Len(P) + Len(rest)
          /\ \A i \in 1 .. Len(P) + Len(rest) :
                (P \o rest)[i] = IF i <= Len(P) THEN P[i] ELSE rest[i - Len(P)]
      BY <1>7, ConcatProperties
    <3>2. /\ Len(parts) = m + Len(rest)
          /\ \A i \in 1 .. m + Len(rest) :
                parts[i] = IF i <= m THEN P[i] ELSE rest[i - m]
      BY <1>8, <2>1, <3>1, Zenon
    <3>3. Len(rest) \in Nat
      OBVIOUS
    <3> QED
      BY <2>2, <3>2, <3>3
  <2>4. /\ b = a + Len(parts)
        /\ \A i \in 1 .. a : q[i] = p[i]
        /\ \A i \in a + 1 .. b : q[i] = parts[i - a]
    <3>1. /\ Len(p \o parts) = Len(p) + Len(parts)
          /\ \A i \in 1 .. Len(p) + Len(parts) :
                (p \o parts)[i] = IF i <= Len(p) THEN p[i] ELSE parts[i - Len(p)]
      BY <1>9, <2>2, ConcatProperties
    <3>2. /\ b = a + Len(parts)
          /\ \A i \in 1 .. a + Len(parts) :
                q[i] = IF i <= a THEN p[i] ELSE parts[i - a]
      BY <1>12, <2>1, <3>1, Zenon
    <3> QED
      BY <2>2, <2>3, <3>2
  <2>5. \A i \in 1 .. m : q[a + i] = P[i]
    BY <2>2, <2>3, <2>4
  <2>6. ASSUME NEW i \in a + m + 1 .. b PROVE q[i].kind # "report"
    <3>1. i - a \in m + 1 .. Len(parts) /\ i - a - m \in 1 .. Len(rest)
      BY <2>2, <2>3, <2>4
    <3>2. q[i] = rest[i - a - m]
      BY <2>2, <2>3, <2>4, <3>1
    <3> QED
      BY <3>1, <3>2 DEF NoReports
  <2>7. Past(c)
    BY <1>15 DEF Whole
  <2>8. ASSUME NEW k \in DOMAIN e.read PROVE IsWhole(e, k)
    <3>1. CASE k = n
      <4>1. \A i \in 1 .. a : ~OfReport(q[i], n)
        <5> SUFFICES ASSUME NEW i \in 1 .. a, OfReport(q[i], n) PROVE FALSE
          OBVIOUS
        <5>1. p[i].kind = "report" /\ p[i].conversation = n /\ i \in DOMAIN c.asked
          BY <2>1, <2>2, <2>4 DEF OfReport
        <5>2. n <= Len(c.read)
          BY <2>1, <2>7, <5>1 DEF Past
        <5> QED
          BY <1>1, <1>3, <5>2
      <4>2. \A i \in a + m + 1 .. b : ~OfReport(q[i], n)
        BY <2>6 DEF OfReport
      <4>3. e.read[n] = r /\ a + m <= b
        BY <1>3, <1>12, <2>2, <2>3, <2>4
      <4> QED
        BY <1>7, <1>12, <2>1, <2>2, <2>5, <3>1, <4>1, <4>2, <4>3, NewWhole
    <3>2. CASE k # n
      <4>1. k \in DOMAIN c.read /\ e.read[k] = c.read[k] /\ IsWhole(c, k)
        BY <1>3, <1>12, <1>15, <3>2 DEF Whole
      <4>2. ASSUME NEW i \in a + 1 .. b PROVE ~OfReport(q[i], k)
        <5>1. CASE i \in a + m + 1 .. b
          BY <2>6, <5>1 DEF OfReport
        <5>2. CASE i - a \in 1 .. m
          <6>1. q[i] = P[i - a]
            <7>1. q[a + (i - a)] = P[i - a] /\ a + (i - a) = i
              BY <2>2, <2>5, <5>2
            <7> QED
              BY <7>1
          <6>2. OfReport(P[i - a], n)
            BY <1>7, <2>1, <5>2 DEF MakeWhole
          <6> QED
            BY <3>2, <6>1, <6>2 DEF OfReport
        <5> QED
          BY <2>2, <5>1, <5>2
      <4>3. Len(c.asked) <= Len(e.asked)
        <5>1. a <= b
          BY <2>2, <2>3, <2>4
        <5> QED
          BY <2>1, <5>1
      <4> QED
        BY <1>12, <2>1, <2>4, <4>1, <4>2, <4>3, StaysWhole
    <3> QED
      BY <3>1, <3>2
  <2>9. Past(e)
    <3> SUFFICES ASSUME NEW i \in 1 .. b, q[i].kind = "report"
                 PROVE  q[i].conversation <= n
      BY <1>3, <1>12, <2>1, <2>2 DEF Past
    <3>1. CASE i \in 1 .. a
      <4>1. p[i].kind = "report" /\ p[i].conversation \in Nat /\ i \in DOMAIN c.asked
        <5>1. p[i] \in Part /\ q[i] = p[i] /\ i \in DOMAIN p
          BY <2>2, <2>4, <3>1
        <5> QED
          BY <2>1, <5>1 DEF Part
      <4>2. p[i].conversation <= Len(c.read)
        BY <2>1, <2>7, <4>1 DEF Past
      <4> QED
        BY <1>1, <1>3, <2>4, <3>1, <4>1, <4>2
    <3>2. CASE i - a \in 1 .. m
      <4>1. q[i] = P[i - a] /\ OfReport(P[i - a], n)
        <5>1. q[a + (i - a)] = P[i - a] /\ a + (i - a) = i
          BY <2>2, <2>5, <3>2
        <5>2. OfReport(P[i - a], n)
          BY <1>7, <2>1, <3>2 DEF MakeWhole
        <5> QED
          BY <5>1, <5>2
      <4> QED
        BY <1>3, <4>1 DEF OfReport
    <3>3. i \notin a + m + 1 .. b
      BY <2>6
    <3> QED
      BY <2>2, <3>1, <3>2, <3>3
  <2> QED
    BY <1>12, <2>8, <2>9 DEF Whole
<1> QED
  BY <1>11, <1>12, <1>13, <1>14, <1>15
-----------------------------------------------------------------------------
(* The inductive invariant.  An answer of an exchange of the peer always        *)
(* releases what is next, since only exchanges of the device wait for the       *)
(* answer to a subscription's report; a request comes on an exchange of the     *)
(* peer.  An entry of _timed_requests is one that was made and not used.        *)
Channels ==
    /\ channel \in [Exchange -> Orderly \cap Whole]
    /\ \A x \in PeerExchange : channel[x] \in Attended
    /\ open \subseteq DeviceExchange
    /\ pending_subscription_reports \subseteq DeviceExchange

Delivered == [exchange : Exchange, message : Request \cup Answer]
Addressed(d) == d.exchange \in PeerExchange \/ d.message \in Answer
Inbox ==
    /\ inbox \in Seq({d \in Delivered : Addressed(d)})
    /\ inputs \in 0 .. MaxInputs

Places == {"expired", "entry", "cancel", "delete", "known", "lapsed", "arm"}
Loop == loop = Idle \/
        loop \in [at : Places, exchange : PeerExchange, message : Request]

TimerState == {"armed", "cancelled", "due", "deleted", "ended"}
Left(x) == IF timed_requests[x] = 0 THEN 0 ELSE 1
Timing ==
    /\ timer \in Seq([exchange : PeerExchange, at : TimerState])
    /\ timed_requests \in [PeerExchange -> 0 .. Len(timer)]
    /\ expired_timeouts \subseteq PeerExchange
    /\ entries \in [PeerExchange -> Entries]
    /\ \A x \in PeerExchange :
          entries[x].admitted + entries[x].lapsed + Left(x) <= entries[x].made

FlowInv == Channels /\ Inbox /\ Loop /\ Timing

(* What the invariant is for.                                                   *)
LEMMA InvIsEnough ==
    ASSUME FlowInv
    PROVE  TypeOK /\ PartsInOrder /\ StopAndWait /\ ReportsAreWhole /\ EntriesUsedOnce
<1>1. \A x \in Exchange : channel[x] \in Orderly /\ channel[x] \in Whole
  BY DEF FlowInv, Channels
<1>2. TypeOK
  <2>1. channel \in [Exchange -> Channel]
    BY DEF FlowInv, Channels, Orderly
  <2>2. inbox \in Seq(Delivered)
    <3>1. {d \in Delivered : Addressed(d)} \subseteq Delivered
      OBVIOUS
    <3> QED
      BY <3>1, SeqMonotonic DEF FlowInv, Inbox
  <2> QED
    BY <2>1, <2>2 DEF FlowInv, Channels, Inbox, Loop, Timing, TypeOK, Delivered,
                      Places, TimerState
<1>3. PartsInOrder
  BY <1>1 DEF PartsInOrder, Orderly
<1>4. StopAndWait
  <2> SUFFICES ASSUME NEW x \in Exchange
               PROVE  /\ Unanswered(channel[x]) <= 1
                      /\ x \in PeerExchange /\ channel[x].pending # <<>> =>
                            Unanswered(channel[x]) = 1
    BY DEF StopAndWait, Unanswered
  <2>1. channel[x] \in Orderly
    BY <1>1
  <2>2. Unanswered(channel[x]) = 0 \/ Unanswered(channel[x]) = 1
    BY <2>1 DEF Orderly
  <2>3. ASSUME x \in PeerExchange, channel[x].pending # <<>>
        PROVE  Unanswered(channel[x]) = 1
    <3>1. channel[x] \in Attended /\ channel[x].in_flight
      BY <2>1, <2>3 DEF FlowInv, Channels, Orderly
    <3> QED
      BY <3>1 DEF Attended
  <2> QED
    BY <2>2, <2>3
<1>5. ReportsAreWhole
  BY <1>1 DEF ReportsAreWhole, Whole
<1>6. EntriesUsedOnce
  <2> SUFFICES ASSUME NEW x \in PeerExchange
               PROVE  entries[x].admitted + entries[x].lapsed <= entries[x].made
    BY DEF EntriesUsedOnce
  <2>1. entries[x] \in Entries
    BY DEF FlowInv, Timing
  <2>2. entries[x].admitted + entries[x].lapsed + Left(x) <= entries[x].made
    BY DEF FlowInv, Timing
  <2> QED
    BY <2>1, <2>2 DEF Left, Entries
<1> QED
  BY <1>2, <1>3, <1>4, <1>5, <1>6

LEMMA InitInv == Init => FlowInv
<1> SUFFICES ASSUME Init PROVE FlowInv
  OBVIOUS
<1>1. NewChannel \in Attended /\ NewChannel \in Orderly /\ NewChannel \in Channel
  BY NewChannelAttended DEF Attended, Orderly
<1>2. NewChannel \in Whole
  <2>1. NewChannel.read = <<>> /\ NewChannel.asked = <<>> /\ DOMAIN <<>> = {}
    BY DEF NewChannel
  <2> QED
    BY <1>1, <2>1 DEF Whole, Past
<1>3. Channels
  BY <1>1, <1>2 DEF Init, Channels, Exchange
<1>4. Inbox /\ Loop
  BY RequestFlowAssumption DEF Init, Inbox, Loop
<1>5. Timing
  BY DEF Init, Timing, Left, Entries
<1> QED
  BY <1>3, <1>4, <1>5 DEF FlowInv
-----------------------------------------------------------------------------
(* What is done to a channel.                                                   *)
LEMMA SetKeeps ==
    ASSUME Channels, NEW x \in Exchange, NEW c \in Orderly \cap Whole,
           x \in PeerExchange => c \in Attended, SetChannel(x, c),
           open' \subseteq DeviceExchange,
           pending_subscription_reports' \subseteq DeviceExchange
    PROVE  Channels'
<1>1. channel' = [channel EXCEPT ![x] = c] /\ channel \in [Exchange -> Orderly \cap Whole]
  BY DEF SetChannel, Channels
<1>2. channel' \in [Exchange -> Orderly \cap Whole]
  BY <1>1
<1>3. ASSUME NEW y \in PeerExchange PROVE channel'[y] \in Attended
  <2>1. y \in Exchange /\ channel[y] \in Attended
    BY DEF Exchange, Channels
  <2> QED
    BY <1>1, <2>1
<1> QED
  BY <1>2, <1>3 DEF Channels

LEMMA PlainPartType ==
    ASSUME NEW c \in Channel, NEW kind \in {"subscribed", "response", "status"}
    PROVE  /\ PlainPart(c, kind) \in Part
           /\ PlainPart(c, kind).kind = kind /\ kind # "report"
<1>1. Len(c.read) \in Nat /\ <<>> \in Seq(Nat)
  BY DEF Channel
<1> QED
  BY <1>1 DEF PlainPart, Part

LEMMA RespondKeeps ==
    ASSUME Channels, NEW x \in Exchange, NEW kind \in {"response", "status"},
           Respond(x, kind), open' \subseteq DeviceExchange,
           pending_subscription_reports' \subseteq DeviceExchange
    PROVE  Channels'
<1>1. PICK c, p, d : c = channel[x] /\ p = PlainPart(channel[x], kind) /\ d = Send(c, p)
  OBVIOUS
<1>2. c \in Orderly /\ c \in Whole /\ c \in Channel /\ (x \in PeerExchange => c \in Attended)
  BY <1>1 DEF Channels, Orderly
<1>3. p \in Part /\ p.kind # "report"
  BY <1>1, <1>2, PlainPartType
<1>4. d \in Orderly /\ d \in Whole /\ (x \in PeerExchange => d \in Attended)
  BY <1>1, <1>2, <1>3, SendOrderly, SendWhole
<1>5. SetChannel(x, d)
  BY <1>1 DEF Respond
<1> QED
  BY <1>4, <1>5, SetKeeps

LEMMA ReportsKeep ==
    ASSUME Channels, NEW x \in Exchange, NEW r \in Reports, NEW suppress \in BOOLEAN,
           NEW rest \in Seq(Part), NoReports(rest),
           SetChannel(x, Report(channel[x], r, suppress, rest)),
           open' \subseteq DeviceExchange,
           pending_subscription_reports' \subseteq DeviceExchange
    PROVE  Channels'
<1>1. PICK c, d : c = channel[x] /\ d = Report(c, r, suppress, rest)
  OBVIOUS
<1>2. c \in Orderly /\ c \in Whole /\ c \in Channel /\ (x \in PeerExchange => c \in Attended)
  BY <1>1 DEF Channels, Orderly
<1>3. d \in Orderly /\ d \in Whole /\ (x \in PeerExchange => d \in Attended)
  BY <1>1, <1>2, ReportKeeps
<1>4. SetChannel(x, d)
  BY <1>1
<1> QED
  BY <1>3, <1>4, SetKeeps

LEMMA AnswerKeeps ==
    ASSUME Channels, NEW x \in Exchange,
           \/ SetChannel(x, ReleaseNext(Answered(channel[x])))
           \/ x \notin PeerExchange /\ SetChannel(x, Answered(channel[x])),
           open' \subseteq DeviceExchange,
           pending_subscription_reports' \subseteq DeviceExchange
    PROVE  Channels'
<1>1. PICK c, d, e : c = channel[x] /\ d = Answered(c) /\ e = ReleaseNext(d)
  OBVIOUS
<1>2. c \in Orderly /\ c \in Whole /\ c \in Channel
  BY <1>1 DEF Channels, Orderly
<1>3. d \in Orderly /\ d.answered = Len(c.sent) /\ d \in Channel
  BY <1>1, <1>2, AnsweredOrderly DEF Orderly
<1>4. d.sent = c.sent /\ d.asked = c.asked /\ d.read = c.read
  BY <1>1, <1>2 DEF Answered, Channel
<1>5. d \in Whole
  BY <1>2, <1>3, <1>4, SameWhole
<1>6. e \in Attended /\ e \in Orderly /\ e \in Channel
  BY <1>1, <1>3, <1>4, ReleaseAttended DEF Attended, Orderly
<1>7. e.asked = d.asked /\ e.read = d.read
  BY <1>1, <1>3 DEF ReleaseNext, Sent, Channel
<1>8. e \in Whole
  BY <1>5, <1>6, <1>7, SameWhole
<1>9. CASE SetChannel(x, ReleaseNext(Answered(channel[x])))
  <2>1. SetChannel(x, e)
    BY <1>1, <1>9
  <2> QED
    BY <1>6, <1>8, <2>1, SetKeeps
<1>10. CASE x \notin PeerExchange /\ SetChannel(x, Answered(channel[x]))
  <2>1. SetChannel(x, d)
    BY <1>1, <1>10
  <2> QED
    BY <1>3, <1>5, <1>10, <2>1, SetKeeps
<1> QED
  BY <1>9, <1>10
-----------------------------------------------------------------------------
(* The handlers that wait, and the one that starts.                             *)
LEMMA MessageKinds ==
    ASSUME NEW m \in Request \cup Answer
    PROVE  /\ m.kind \in {"read", "subscribe"} => m.reports \in Reports /\ m \notin Answer
           /\ m.kind \in {"act", "malformed act", "timed"} => m \in Request /\ m \notin Answer
BY DEF Request, Answer

LEMMA StartedIs ==
    ASSUME Inbox, NEW k, Starts(k)
    PROVE  /\ Inbox'
           /\ Started.exchange \in Exchange /\ Started.message \in Request \cup Answer
           /\ Started.message.kind = k /\ loop = Idle
           /\ Started.exchange \in PeerExchange \/ Started.message \in Answer
<1> DEFINE D == {d \in Delivered : Addressed(d)}
<1>1. inbox \in Seq(D) /\ inbox # <<>> /\ inbox' = Tail(inbox) /\ inputs' = inputs
  BY DEF Inbox, Starts
<1> HIDE DEF D
<1>2. Head(inbox) \in D /\ Tail(inbox) \in Seq(D)
  BY <1>1, HeadTailProperties
<1>3. Inbox'
  BY <1>1, <1>2 DEF Inbox, D
<1>4. Started \in Delivered /\ Addressed(Started)
  BY <1>2 DEF Started, D
<1> QED
  BY <1>3, <1>4 DEF Delivered, Addressed, Starts, Started

LEMMA ReceiveKeeps ==
    ASSUME Inbox, NEW x \in Exchange, NEW m \in Request \cup Answer, Receive(x, m)
    PROVE  Inbox'
<1> DEFINE D == {d \in Delivered : Addressed(d)}
           d == [exchange |-> x, message |-> m]
<1>1. d \in D
  BY DEF Receive, Delivered, Addressed
<1>2. inbox \in Seq(D) /\ inbox' = Append(inbox, d)
  BY DEF Inbox, Receive
<1> HIDE DEF D, d
<1>3. inbox' \in Seq(D)
  BY <1>1, <1>2
<1>4. inputs' \in 0 .. MaxInputs
  BY RequestFlowAssumption DEF Inbox, Receive
<1> QED
  BY <1>3, <1>4 DEF Inbox, D
-----------------------------------------------------------------------------
(* The threads and the handlers that use the entries.                           *)
LEMMA SetTimer ==
    ASSUME NEW t \in DOMAIN timer, NEW at \in TimerState,
           timer \in Seq([exchange : PeerExchange, at : TimerState]),
           timer' = [timer EXCEPT ![t].at = at]
    PROVE  /\ timer' \in Seq([exchange : PeerExchange, at : TimerState])
           /\ Len(timer') = Len(timer)
<1>1. PICK R : R = [exchange : PeerExchange, at : TimerState]
  OBVIOUS
<1>2. timer \in Seq(R) /\ t \in 1 .. Len(timer) /\ timer[t] \in R
  <2>1. timer \in Seq(R)
    BY <1>1
  <2>2. t \in 1 .. Len(timer)
    BY <2>1
  <2> QED
    BY <2>1, <2>2, ElementOfSeq
<1>3. PICK e : e = [timer[t] EXCEPT !.at = at]
  OBVIOUS
<1>4. e \in R
  BY <1>1, <1>2, <1>3
<1>5. timer' = [timer EXCEPT ![t] = e]
  BY <1>3
<1> QED
  BY <1>1, <1>2, <1>4, <1>5, ExceptSeq

(* An entry that goes is counted as admitted or as lapsed.                      *)
LEMMA EntryGoes ==
    ASSUME Timing, NEW x \in PeerExchange, timed_requests[x] # 0,
           timer' \in Seq([exchange : PeerExchange, at : TimerState]),
           Len(timer') = Len(timer),
           timed_requests' = [timed_requests EXCEPT ![x] = 0],
           \/ entries' = [entries EXCEPT ![x].admitted = @ + 1]
           \/ entries' = [entries EXCEPT ![x].lapsed = @ + 1],
           expired_timeouts' = expired_timeouts
    PROVE  Timing'
<1>1. /\ entries[x] \in Entries /\ timed_requests \in [PeerExchange -> 0 .. Len(timer)]
      /\ entries \in [PeerExchange -> Entries] /\ Len(timer) \in Nat
  BY DEF Timing
<1>2. timed_requests' \in [PeerExchange -> 0 .. Len(timer')]
  BY <1>1
<1>3. PICK e, o : e = entries'[x] /\ o = entries[x]
  OBVIOUS
<1>4. /\ entries' = [entries EXCEPT ![x] = e]
       /\ \/ e = [o EXCEPT !.admitted = o.admitted + 1]
          \/ e = [o EXCEPT !.lapsed = o.lapsed + 1]
  <2>1. CASE entries' = [entries EXCEPT ![x].admitted = @ + 1]
    BY <1>1, <1>3, <2>1
  <2>2. CASE entries' = [entries EXCEPT ![x].lapsed = @ + 1]
    BY <1>1, <1>3, <2>2
  <2> QED
    BY <2>1, <2>2
<1>5. /\ e \in Entries /\ e.made = entries[x].made
       /\ e.admitted + e.lapsed = entries[x].admitted + entries[x].lapsed + 1
  <2>1. /\ o \in Entries /\ o.made \in Nat /\ o.admitted \in Nat /\ o.lapsed \in Nat
        /\ o.admitted + 1 \in Nat /\ o.lapsed + 1 \in Nat
    BY <1>1, <1>3 DEF Entries
  <2>2. CASE e = [o EXCEPT !.admitted = o.admitted + 1]
    <3>1. e \in Entries /\ e.made = o.made /\ e.lapsed = o.lapsed /\ e.admitted = o.admitted + 1
      BY <2>1, <2>2 DEF Entries
    <3> QED
      BY <1>3, <2>1, <3>1
  <2>3. CASE e = [o EXCEPT !.lapsed = o.lapsed + 1]
    <3>1. e \in Entries /\ e.made = o.made /\ e.lapsed = o.lapsed + 1 /\ e.admitted = o.admitted
      BY <2>1, <2>3 DEF Entries
    <3> QED
      BY <1>3, <2>1, <3>1
  <2> QED
    BY <1>4, <2>2, <2>3
<1>6. entries' \in [PeerExchange -> Entries]
  BY <1>1, <1>4, <1>5
<1>7. ASSUME NEW y \in PeerExchange
      PROVE  entries'[y].admitted + entries'[y].lapsed + Left(y)' <= entries'[y].made
  <2>1. entries[y].admitted + entries[y].lapsed + Left(y) <= entries[y].made
    BY DEF Timing
  <2>2. CASE y = x
    <3>1. Left(y) = 1 /\ Left(y)' = 0
      BY <1>1, <2>2 DEF Left
    <3>2. entries'[y] = e
      BY <1>1, <1>3, <1>4, <2>2
    <3> QED
      BY <1>1, <1>5, <2>1, <2>2, <3>1, <3>2 DEF Entries
  <2>3. CASE y # x
    <3>1. entries'[y] = entries[y] /\ Left(y)' = Left(y)
      BY <1>1, <1>4, <2>3 DEF Left
    <3> QED
      BY <2>1, <3>1
  <2> QED
    BY <2>2, <2>3
<1> QED
  BY <1>2, <1>6, <1>7 DEF Timing

LEMMA TimerMoves ==
    ASSUME Timing, timer' \in Seq([exchange : PeerExchange, at : TimerState]),
           Len(timer') = Len(timer), timed_requests' = timed_requests,
           entries' = entries, expired_timeouts' \subseteq PeerExchange
    PROVE  Timing'
BY DEF Timing, Left

(* The entry made takes the place of one that may still be there.               *)
LEMMA EntryComes ==
    ASSUME Timing, NEW x \in PeerExchange,
           timer' = Append(timer, [exchange |-> x, at |-> "armed"]),
           timed_requests' = [timed_requests EXCEPT ![x] = Len(timer) + 1],
           entries' = [entries EXCEPT ![x].made = @ + 1],
           expired_timeouts' = expired_timeouts
    PROVE  Timing'
<1>1. /\ entries[x] \in Entries /\ timed_requests \in [PeerExchange -> 0 .. Len(timer)]
      /\ entries \in [PeerExchange -> Entries] /\ Len(timer) \in Nat
  BY DEF Timing
<1>2. /\ timer' \in Seq([exchange : PeerExchange, at : TimerState])
      /\ Len(timer') = Len(timer) + 1
  <2>1. PICK R, e : /\ R = [exchange : PeerExchange, at : TimerState]
                    /\ e = [exchange |-> x, at |-> "armed"]
    OBVIOUS
  <2>2. e \in R /\ timer \in Seq(R) /\ timer' = Append(timer, e)
    BY <2>1 DEF Timing, TimerState
  <2> QED
    BY <2>1, <2>2, AppendProperties
<1>3. timed_requests' \in [PeerExchange -> 0 .. Len(timer')]
  BY <1>1, <1>2
<1>4. PICK e, o : e = entries'[x] /\ o = entries[x]
  OBVIOUS
<1>5. entries' = [entries EXCEPT ![x] = e] /\ e = [o EXCEPT !.made = o.made + 1]
  BY <1>1, <1>4
<1>6. /\ e \in Entries /\ e.made = entries[x].made + 1
       /\ e.admitted = entries[x].admitted /\ e.lapsed = entries[x].lapsed
  <2>1. o \in Entries /\ o.made \in Nat /\ o.made + 1 \in Nat
    BY <1>1, <1>4 DEF Entries
  <2>2. /\ e \in Entries /\ e.made = o.made + 1
        /\ e.admitted = o.admitted /\ e.lapsed = o.lapsed
    BY <1>5, <2>1 DEF Entries
  <2> QED
    BY <1>4, <2>2
<1>7. entries' \in [PeerExchange -> Entries]
  BY <1>1, <1>5, <1>6
<1>8. ASSUME NEW y \in PeerExchange
      PROVE  entries'[y].admitted + entries'[y].lapsed + Left(y)' <= entries'[y].made
  <2>1. entries[y].admitted + entries[y].lapsed + Left(y) <= entries[y].made
    BY DEF Timing
  <2>2. CASE y = x
    <3>1. Left(y) \in 0 .. 1 /\ Left(y)' \in 0 .. 1
      BY DEF Left
    <3>2. entries'[y] = e
      BY <1>1, <1>4, <1>5, <2>2
    <3> QED
      BY <1>1, <1>6, <2>1, <2>2, <3>1, <3>2 DEF Entries
  <2>3. CASE y # x
    <3>1. entries'[y] = entries[y] /\ Left(y)' = Left(y)
      BY <1>1, <1>5, <2>3 DEF Left
    <3> QED
      BY <2>1, <3>1
  <2> QED
    BY <2>2, <2>3
<1> QED
  BY <1>2, <1>3, <1>7, <1>8 DEF Timing
-----------------------------------------------------------------------------
(* What a step leaves alone keeps its part of the invariant.                    *)
LEMMA SameChannels == Channels /\ UNCHANGED flow => Channels'
BY DEF Channels, flow

LEMMA SameInbox == Inbox /\ UNCHANGED <<inbox, inputs>> => Inbox'
BY DEF Inbox

LEMMA SameLoop == Loop /\ UNCHANGED loop => Loop'
BY DEF Loop

LEMMA SameTiming == Timing /\ UNCHANGED timing => Timing'
BY DEF Timing, timing, Left

(* The handler under way.                                                       *)
LEMMA AtPlace ==
    ASSUME Loop, Inbox, NEW at \in Places, At(at)
    PROVE  /\ loop.exchange \in PeerExchange /\ loop.exchange \in Exchange
           /\ loop.message \in Request /\ Inbox'
           /\ \A to \in Places : Goto(to) => Loop'
           /\ Ends => Loop'
<1>1. loop # Idle
  BY DEF At, Idle, Places
<1>2. loop \in [at : Places, exchange : PeerExchange, message : Request]
  BY <1>1 DEF Loop
<1>3. Inbox'
  BY SameInbox DEF At
<1>4. ASSUME NEW to \in Places, Goto(to) PROVE Loop'
  BY <1>2, <1>4 DEF Goto, Loop
<1> QED
  BY <1>2, <1>3, <1>4 DEF Ends, Loop, Exchange

LEMMA RefuseKeeps ==
    ASSUME Channels, NEW x \in Exchange, x = loop.exchange, Refuse
    PROVE  Channels'
BY RespondKeeps DEF Refuse, Channels

LEMMA MismatchKeeps ==
    ASSUME Channels, NEW x \in Exchange, x = loop.exchange, Mismatch
    PROVE  Channels'
BY RespondKeeps DEF Mismatch, Channels

LEMMA PerformKeeps ==
    ASSUME Channels, NEW x \in Exchange, x = loop.exchange, Perform
    PROVE  Channels' /\ Ends
<1>1. /\ open' \subseteq DeviceExchange
      /\ pending_subscription_reports' \subseteq DeviceExchange
  BY DEF Perform, Close, Channels
<1>2. CASE Respond(loop.exchange, "response")
  BY <1>1, <1>2, RespondKeeps DEF Perform
<1>3. CASE UNCHANGED channel
  BY <1>1, <1>3 DEF Perform, Channels
<1> QED
  BY <1>2, <1>3 DEF Perform
-----------------------------------------------------------------------------
(* The actions.                                                                 *)
LEMMA StatusResponseKeeps == FlowInv /\ StatusResponse => FlowInv'
<1> SUFFICES ASSUME FlowInv, StatusResponse PROVE FlowInv'
  OBVIOUS
<1> USE DEF FlowInv
<1>1. Inbox' /\ Loop' /\ Timing'
  BY StartedIs, SameLoop, SameTiming DEF StatusResponse
<1>2. PICK x : x = Started.exchange
  OBVIOUS
<1>3. x \in Exchange
  BY <1>2, StartedIs DEF StatusResponse
<1>4. /\ open' \subseteq DeviceExchange
      /\ pending_subscription_reports' \subseteq DeviceExchange
  BY DEF StatusResponse, Close, Channels
<1>5. CASE /\ x \in pending_subscription_reports
           /\ SetChannel(x, Answered(channel[x]))
  <2>1. x \notin PeerExchange
    BY <1>5, RequestFlowAssumption DEF Channels
  <2> QED
    BY <1>1, <1>3, <1>4, <1>5, <2>1, AnswerKeeps
<1>6. CASE SetChannel(x, ReleaseNext(Answered(channel[x])))
  BY <1>1, <1>3, <1>4, <1>6, AnswerKeeps
<1>7. CASE UNCHANGED channel
  BY <1>1, <1>4, <1>7 DEF Channels
<1> QED
  BY <1>2, <1>5, <1>6, <1>7 DEF StatusResponse

LEMMA ReadRequestKeeps == FlowInv /\ ReadRequest => FlowInv'
<1> SUFFICES ASSUME FlowInv, ReadRequest PROVE FlowInv'
  OBVIOUS
<1> USE DEF FlowInv
<1>1. Inbox' /\ Loop' /\ Timing'
  BY StartedIs, SameLoop, SameTiming DEF ReadRequest
<1>2. PICK x, r : x = Started.exchange /\ r = Started.message.reports
  OBVIOUS
<1>3. x \in Exchange /\ r \in Reports
  BY <1>2, StartedIs, MessageKinds DEF ReadRequest
<1>4. /\ open' \subseteq DeviceExchange
      /\ pending_subscription_reports' \subseteq DeviceExchange
      /\ SetChannel(x, Report(channel[x], r, TRUE, <<>>))
  BY <1>2 DEF ReadRequest, Close, Channels
<1>5. <<>> \in Seq(Part) /\ NoReports(<<>>)
  BY DEF NoReports
<1>6. Channels'
  BY <1>3, <1>4, <1>5, ReportsKeep
<1> QED
  BY <1>1, <1>6

LEMMA SubscribeRequestKeeps == FlowInv /\ SubscribeRequest => FlowInv'
<1> SUFFICES ASSUME FlowInv, SubscribeRequest PROVE FlowInv'
  OBVIOUS
<1> USE DEF FlowInv
<1>1. Inbox' /\ Loop' /\ Timing'
  BY StartedIs, SameLoop, SameTiming DEF SubscribeRequest
<1>2. PICK x, r, plain : /\ x = Started.exchange /\ r = Started.message.reports
                         /\ plain = PlainPart(channel[x], "subscribed")
  OBVIOUS
<1>3. x \in Exchange /\ r \in Reports
  BY <1>2, StartedIs, MessageKinds DEF SubscribeRequest
<1>4. channel[x] \in Channel
  BY <1>3 DEF Channels, Orderly
<1>5. PICK answer : answer = [plain EXCEPT !.conversation = Len(channel[x].read) + 1]
  OBVIOUS
<1>6. answer \in Part /\ answer.kind # "report"
  <2>1. plain \in Part /\ plain.kind = "subscribed"
    BY <1>2, <1>4, PlainPartType
  <2>2. Len(channel[x].read) + 1 \in Nat
    BY <1>4 DEF Channel
  <2> QED
    BY <1>5, <2>1, <2>2 DEF Part
<1>7. /\ open' \subseteq DeviceExchange
      /\ pending_subscription_reports' \subseteq DeviceExchange
  BY DEF SubscribeRequest, Close, Channels
<1>8. \/ SetChannel(x, Report(channel[x], r, FALSE, <<answer>>))
      \/ SetChannel(x, Report(channel[x], r, FALSE, <<>>))
  BY <1>2, <1>5 DEF SubscribeRequest
<1>9. /\ <<>> \in Seq(Part) /\ NoReports(<<>>)
      /\ <<answer>> \in Seq(Part) /\ NoReports(<<answer>>)
  BY <1>6 DEF NoReports
<1>10. Channels'
  <2>1. CASE SetChannel(x, Report(channel[x], r, FALSE, <<answer>>))
    BY <1>3, <1>7, <1>9, <2>1, ReportsKeep
  <2>2. CASE SetChannel(x, Report(channel[x], r, FALSE, <<>>))
    BY <1>3, <1>7, <1>9, <2>2, ReportsKeep
  <2> QED
    BY <1>8, <2>1, <2>2
<1> QED
  BY <1>1, <1>10

LEMMA SubscriptionReportKeeps ==
    ASSUME FlowInv, NEW x \in DeviceExchange, NEW r \in Reports, SubscriptionReport(x, r)
    PROVE  FlowInv'
<1> USE DEF FlowInv
<1>1. Loop' /\ Timing'
  BY SameLoop, SameTiming DEF SubscriptionReport
<1>2. Inbox'
  BY RequestFlowAssumption DEF SubscriptionReport, Inbox
<1>3. PICK suppress \in BOOLEAN : suppress = (r = <<>>)
  OBVIOUS
<1>4. /\ open' \subseteq DeviceExchange
      /\ pending_subscription_reports' \subseteq DeviceExchange
      /\ SetChannel(x, Report(channel[x], r, suppress, <<>>))
      /\ x \in Exchange
  BY <1>3 DEF SubscriptionReport, Channels, Exchange
<1>5. <<>> \in Seq(Part) /\ NoReports(<<>>)
  BY DEF NoReports
<1>6. Channels'
  BY <1>4, <1>5, ReportsKeep
<1> QED
  BY <1>1, <1>2, <1>6

LEMMA ActRequestKeeps == FlowInv /\ ActRequest => FlowInv'
<1> SUFFICES ASSUME FlowInv, ActRequest PROVE FlowInv'
  OBVIOUS
<1> USE DEF FlowInv
<1>1. PICK k \in {"act", "malformed act"} : Starts(k)
  BY DEF ActRequest
<1>2. /\ Inbox' /\ Started.exchange \in Exchange /\ Started.message.kind = k
      /\ Started.message \in Request \cup Answer
      /\ Started.exchange \in PeerExchange \/ Started.message \in Answer
  BY <1>1, StartedIs
<1>3. Started.exchange \in PeerExchange /\ Started.message \in Request
  BY <1>2, MessageKinds
<1>4. Loop'
  <2>1. CASE UNCHANGED loop
    BY <2>1, SameLoop
  <2>2. CASE loop' = [at |-> "expired", exchange |-> Started.exchange,
                      message |-> Started.message]
    BY <1>3, <2>2 DEF Loop, Places
  <2> QED
    BY <2>1, <2>2 DEF ActRequest
<1>5. Timing'
  BY SameTiming DEF ActRequest
<1>6. /\ open' \subseteq DeviceExchange
      /\ pending_subscription_reports' \subseteq DeviceExchange
      /\ SetChannel(Started.exchange, ReleaseNext(Answered(channel[Started.exchange])))
  BY DEF ActRequest, Channels
<1>7. Channels'
  BY <1>2, <1>6, AnswerKeeps
<1> QED
  BY <1>2, <1>4, <1>5, <1>7

LEMMA TimedRequestKeeps == FlowInv /\ TimedRequest => FlowInv'
<1> SUFFICES ASSUME FlowInv, TimedRequest PROVE FlowInv'
  OBVIOUS
<1> USE DEF FlowInv
<1>1. /\ Inbox' /\ Started.message.kind = "timed"
      /\ Started.message \in Request \cup Answer
      /\ Started.exchange \in PeerExchange \/ Started.message \in Answer
  BY StartedIs DEF TimedRequest
<1>2. Started.exchange \in PeerExchange /\ Started.message \in Request
  BY <1>1, MessageKinds
<1>3. Loop'
  BY <1>2 DEF TimedRequest, Loop, Places
<1> QED
  BY <1>1, <1>3, SameChannels, SameTiming DEF TimedRequest

LEMMA LookForExpiredKeeps == FlowInv /\ LookForExpired => FlowInv'
<1> SUFFICES ASSUME FlowInv, LookForExpired PROVE FlowInv'
  OBVIOUS
<1> USE DEF FlowInv
<1>1. At("expired") /\ "expired" \in Places /\ "entry" \in Places
  BY DEF LookForExpired, Places
<1>2. Timing'
  BY SameTiming DEF LookForExpired
<1>3. CASE Refuse
  BY <1>1, <1>2, <1>3, AtPlace, RefuseKeeps DEF Refuse
<1>4. CASE Goto("entry") /\ UNCHANGED flow
  BY <1>1, <1>2, <1>4, AtPlace, SameChannels
<1> QED
  BY <1>3, <1>4 DEF LookForExpired

LEMMA LookForEntryKeeps == FlowInv /\ LookForEntry => FlowInv'
<1> SUFFICES ASSUME FlowInv, LookForEntry PROVE FlowInv'
  OBVIOUS
<1> USE DEF FlowInv
<1>1. At("entry") /\ "entry" \in Places /\ "cancel" \in Places
  BY DEF LookForEntry, Places
<1>2. Timing'
  BY SameTiming DEF LookForEntry
<1>3. CASE Refuse
  BY <1>1, <1>2, <1>3, AtPlace, RefuseKeeps DEF Refuse
<1>4. CASE Goto("cancel") /\ UNCHANGED flow
  BY <1>1, <1>2, <1>4, AtPlace, SameChannels
<1>5. CASE Perform
  BY <1>1, <1>2, <1>5, AtPlace, PerformKeeps
<1> QED
  BY <1>3, <1>4, <1>5 DEF LookForEntry

LEMMA CancelTimerKeeps == FlowInv /\ CancelTimer => FlowInv'
<1> SUFFICES ASSUME FlowInv, CancelTimer PROVE FlowInv'
  OBVIOUS
<1> USE DEF FlowInv
<1>1. At("cancel") /\ "cancel" \in Places /\ "delete" \in Places
  BY DEF CancelTimer, Places
<1>2. CASE Ends /\ UNCHANGED <<flow, timing>>
  BY <1>1, <1>2, AtPlace, SameChannels, SameTiming
<1>3. PICK t : t = timed_requests[loop.exchange]
  OBVIOUS
<1>4. CASE /\ t # 0
           /\ timer' = [timer EXCEPT ![t].at = IF @ = "armed" THEN "cancelled" ELSE @]
           /\ Goto("delete")
           /\ UNCHANGED <<flow, timed_requests, expired_timeouts, entries>>
  <2>1. loop.exchange \in PeerExchange
    BY <1>1, AtPlace
  <2>2. /\ timer \in Seq([exchange : PeerExchange, at : TimerState])
        /\ t \in 1 .. Len(timer) /\ t \in DOMAIN timer
    BY <1>3, <1>4, <2>1 DEF Timing
  <2>3. PICK at : at = IF timer[t].at = "armed" THEN "cancelled" ELSE timer[t].at
    OBVIOUS
  <2>4. at \in TimerState
    <3>1. PICK R : R = [exchange : PeerExchange, at : TimerState]
      OBVIOUS
    <3>2. timer \in Seq(R)
      BY <2>2, <3>1
    <3>3. timer[t] \in R
      BY <2>2, <3>2, ElementOfSeq
    <3> QED
      BY <2>3, <3>1, <3>3 DEF TimerState
  <2>5. timer' = [timer EXCEPT ![t].at = at]
    BY <1>4, <2>2, <2>3
  <2>6. /\ timer' \in Seq([exchange : PeerExchange, at : TimerState])
        /\ Len(timer') = Len(timer)
    BY <2>2, <2>4, <2>5, SetTimer
  <2>7. Timing'
    <3>1. expired_timeouts' \subseteq PeerExchange
      BY <1>4 DEF Timing
    <3> QED
      BY <1>4, <2>6, <3>1, TimerMoves
  <2> QED
    BY <1>1, <1>4, <2>7, AtPlace, SameChannels
<1> QED
  BY <1>2, <1>3, <1>4 DEF CancelTimer

LEMMA DeleteEntryKeeps == FlowInv /\ DeleteEntry => FlowInv'
<1> SUFFICES ASSUME FlowInv, DeleteEntry PROVE FlowInv'
  OBVIOUS
<1> USE DEF FlowInv
<1>1. At("delete") /\ "delete" \in Places
  BY DEF DeleteEntry, Places
<1>2. PICK x : x = loop.exchange
  OBVIOUS
<1>3. x \in PeerExchange /\ x \in Exchange
  BY <1>1, <1>2, AtPlace
<1>4. CASE EntryGone(x)
  <2>1. Ends /\ UNCHANGED <<flow, timing>>
    BY <1>2, <1>4 DEF DeleteEntry
  <2> QED
    BY <1>1, <2>1, AtPlace, SameChannels, SameTiming
<1>5. CASE ~EntryGone(x)
  <2>1. /\ timed_requests' = [timed_requests EXCEPT ![x] = 0]
        /\ entries' = [entries EXCEPT ![x].admitted = @ + 1]
        /\ Perform
        /\ UNCHANGED <<expired_timeouts, timer>>
    BY <1>2, <1>5 DEF DeleteEntry
  <2>2. timed_requests[x] # 0
    BY <1>5 DEF EntryGone
  <2>3. Timing'
    <3>1. /\ timer' \in Seq([exchange : PeerExchange, at : TimerState])
          /\ Len(timer') = Len(timer)
      BY <2>1 DEF Timing
    <3> QED
      BY <1>3, <2>1, <2>2, <3>1, EntryGoes
  <2>4. Channels' /\ Ends
    BY <1>2, <1>3, <2>1, PerformKeeps
  <2> QED
    BY <1>1, <2>3, <2>4, AtPlace
<1> QED
  BY <1>4, <1>5

LEMMA LookIfKnownKeeps == FlowInv /\ LookIfKnown => FlowInv'
<1> SUFFICES ASSUME FlowInv, LookIfKnown PROVE FlowInv'
  OBVIOUS
<1> USE DEF FlowInv
<1>1. At("known") /\ "known" \in Places /\ "lapsed" \in Places /\ "arm" \in Places
  BY DEF LookIfKnown, Places
<1>2. Timing'
  BY SameTiming DEF LookIfKnown
<1>3. CASE Mismatch
  BY <1>1, <1>2, <1>3, AtPlace, MismatchKeeps DEF Mismatch
<1>4. CASE Goto("lapsed") /\ UNCHANGED flow
  BY <1>1, <1>2, <1>4, AtPlace, SameChannels
<1> QED
  BY <1>3, <1>4 DEF LookIfKnown

LEMMA LookIfLapsedKeeps == FlowInv /\ LookIfLapsed => FlowInv'
<1> SUFFICES ASSUME FlowInv, LookIfLapsed PROVE FlowInv'
  OBVIOUS
<1> USE DEF FlowInv
<1>1. At("lapsed") /\ "lapsed" \in Places /\ "arm" \in Places
  BY DEF LookIfLapsed, Places
<1>2. Timing'
  BY SameTiming DEF LookIfLapsed
<1>3. CASE Mismatch
  BY <1>1, <1>2, <1>3, AtPlace, MismatchKeeps DEF Mismatch
<1>4. CASE Goto("arm") /\ UNCHANGED flow
  BY <1>1, <1>2, <1>4, AtPlace, SameChannels
<1> QED
  BY <1>3, <1>4 DEF LookIfLapsed

LEMMA ArmTimerKeeps == FlowInv /\ ArmTimer => FlowInv'
<1> SUFFICES ASSUME FlowInv, ArmTimer PROVE FlowInv'
  OBVIOUS
<1> USE DEF FlowInv
<1>1. At("arm") /\ "arm" \in Places /\ Ends
  BY DEF ArmTimer, Places
<1>2. PICK x : x = loop.exchange
  OBVIOUS
<1>3. x \in PeerExchange /\ x \in Exchange
  BY <1>1, <1>2, AtPlace
<1>4. /\ timer' = Append(timer, [exchange |-> x, at |-> "armed"])
      /\ timed_requests' = [timed_requests EXCEPT ![x] = Len(timer) + 1]
      /\ entries' = [entries EXCEPT ![x].made = @ + 1]
      /\ Respond(x, "status")
      /\ UNCHANGED <<open, pending_subscription_reports, expired_timeouts>>
  BY <1>2 DEF ArmTimer
<1>5. Timing'
  BY <1>3, <1>4, EntryComes
<1>6. Channels'
  BY <1>3, <1>4, RespondKeeps DEF Channels
<1> QED
  BY <1>1, <1>5, <1>6, AtPlace

LEMMA ThreadsKeep ==
    ASSUME FlowInv, NEW t \in DOMAIN timer,
           Elapse(t) \/ CallbackDeletes(t) \/ CallbackAdds(t)
    PROVE  FlowInv'
<1> USE DEF FlowInv
<1>1. PICK before, after \in TimerState : Thread(t, before, after)
  BY DEF Elapse, CallbackDeletes, CallbackAdds, TimerState
<1>2. Channels' /\ Inbox' /\ Loop'
  BY <1>1, SameChannels, SameInbox, SameLoop DEF Thread
<1>3. timer \in Seq([exchange : PeerExchange, at : TimerState])
  BY DEF Timing
<1>4. timer[t].exchange \in PeerExchange
  <2>1. PICK R : R = [exchange : PeerExchange, at : TimerState]
    OBVIOUS
  <2>2. timer \in Seq(R) /\ t \in 1 .. Len(timer)
    BY <1>3, <2>1
  <2>3. timer[t] \in R
    BY <2>2, ElementOfSeq
  <2> QED
    BY <2>1, <2>3
<1>5. /\ timer' \in Seq([exchange : PeerExchange, at : TimerState])
      /\ Len(timer') = Len(timer)
  BY <1>1, <1>3, SetTimer DEF Thread
<1>6. CASE /\ timed_requests[timer[t].exchange] # 0
           /\ timed_requests' = [timed_requests EXCEPT ![timer[t].exchange] = 0]
           /\ entries' = [entries EXCEPT ![timer[t].exchange].lapsed = @ + 1]
           /\ UNCHANGED expired_timeouts
  <2>1. Timing'
    BY <1>4, <1>5, <1>6, EntryGoes
  <2> QED
    BY <1>2, <2>1
<1>7. CASE UNCHANGED <<timed_requests, entries>> /\ expired_timeouts' \subseteq PeerExchange
  BY <1>2, <1>5, <1>7, TimerMoves
<1>8. expired_timeouts \subseteq PeerExchange
  BY DEF Timing
<1> QED
  BY <1>4, <1>6, <1>7, <1>8 DEF Elapse, CallbackDeletes, CallbackAdds

LEMMA StepInv == FlowInv /\ [Next]_vars => FlowInv'
<1> SUFFICES ASSUME FlowInv, [Next]_vars PROVE FlowInv'
  OBVIOUS
<1>1. ASSUME NEW x \in Exchange, NEW m \in Request \cup Answer, Receive(x, m)
      PROVE  FlowInv'
  BY <1>1, ReceiveKeeps, SameChannels, SameLoop, SameTiming DEF FlowInv, Receive
<1>2. ASSUME NEW x \in DeviceExchange, NEW r \in Reports, SubscriptionReport(x, r)
      PROVE  FlowInv'
  BY <1>2, SubscriptionReportKeeps
<1>3. ASSUME NEW t \in DOMAIN timer, Elapse(t) \/ CallbackDeletes(t) \/ CallbackAdds(t)
      PROVE  FlowInv'
  BY <1>3, ThreadsKeep
<1>4. CASE UNCHANGED vars
  BY <1>4, SameChannels, SameInbox, SameLoop, SameTiming DEF FlowInv, vars
<1> QED
  BY <1>1, <1>2, <1>3, <1>4, StatusResponseKeeps, ReadRequestKeeps, SubscribeRequestKeeps,
     ActRequestKeeps, LookForExpiredKeeps, LookForEntryKeeps, CancelTimerKeeps,
     DeleteEntryKeeps, TimedRequestKeeps, LookIfKnownKeeps, LookIfLapsedKeeps,
     ArmTimerKeeps DEF Next

LEMMA Always == Spec => []FlowInv
BY InitInv, StepInv, PTL DEF Spec
-----------------------------------------------------------------------------
(* Every variable keeps its type: no handler meets a message it is not for.     *)
THEOREM TypeCorrect == Spec => []TypeOK
<1>1. FlowInv => TypeOK
  BY InvIsEnough
<1> QED
  BY Always, <1>1, PTL

(* Protocol.send_message and release_next_message lose and reorder nothing,     *)
(* whatever is answered, abandoned or asked again under the same id.            *)
THEOREM PartsInOrderHolds == Spec => []PartsInOrder
<1>1. FlowInv => PartsInOrder
  BY InvIsEnough
<1> QED
  BY Always, <1>1, PTL

(* At most one part of an exchange is unanswered, and what is pending on an     *)
(* exchange of the peer is waiting for an answer that will release it.          *)
THEOREM StopAndWaitHolds == Spec => []StopAndWait
<1>1. FlowInv => StopAndWait
  BY InvIsEnough
<1> QED
  BY Always, <1>1, PTL

(* chunk_report_data: whatever is read, of any lengths and for any size of a    *)
(* chunk, the parts handed over hold it all, once and in order.                 *)
THEOREM ReportsAreWholeHolds == Spec => []ReportsAreWhole
<1>1. FlowInv => ReportsAreWhole
  BY InvIsEnough
<1> QED
  BY Always, <1>1, PTL

(* An entry of _timed_requests is used up at most once, by the handler of the   *)
(* timed interaction or by the thread of the timer, however they interleave.    *)
THEOREM EntriesUsedOnceHolds == Spec => []EntriesUsedOnce
<1>1. FlowInv => EntriesUsedOnce
  BY InvIsEnough
<1> QED
  BY Always, <1>1, PTL
=============================================================================
