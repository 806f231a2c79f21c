------------------------ MODULE ClientSessionProofs -------------------------
(***************************************************************************)
(* Theorems about ClientSession, for any keys and threads, any bound of    *)
(* the queue and any number of calls.                                      *)
(***************************************************************************)
EXTENDS ClientSession, SequenceTheorems, TLAPS

\* How far the closing of the session is, and what there is of it by then.
ClosingPhases ==
  /\ listed => closer = "no"
  /\ closing <=> closer \in {"flagged", "taken", "done"}
  /\ closer = "taken" => ~channel
  /\ closer = "done" => ~channel /\ socket # "open"
  /\ closer = "taken" \/ channel <=> socket = "open"

\* The same for the coroutine: until it has connected there is nothing to flush
\* or replay, and afterwards the channel is there until someone closes it.
RunPhases ==
  /\ run = "none" => closer = "no" /\ ~listed
  /\ run \in {"none", "loop", "connecting"} => ~channel /\ socket # "open" /\ waiting = <<>>
  /\ run # "replay" => replay = {}
  /\ run \in {"replay", "ended"} => waiting = <<>>
  /\ run \in {"flush", "replay", "ended"} /\ ~closing => channel
  /\ run = "none" \/ listed \/ closer # "no"

\* Frames are numbered in the order in which they were accepted, in each queue
\* and from one queue to the next.
Rising(q) == \A i, j \in 1..Len(q) : i < j => q[i].n < q[j].n
Distinct(q) == \A i, j \in 1..Len(q) : i # j => q[i].n # q[j].n

NumbersFit ==
  /\ NumbersIn(pending) \cup NumbersIn(waiting) \cup NumbersIn(wire) \subseteq 1..accepted
  /\ \A f \in overflow : f.n \in 1..accepted
  /\ Rising(pending) /\ Rising(waiting) /\ Distinct(wire)

Covered ==
  closing \/ \A n \in 1..accepted :
    \/ n \in NumbersIn(pending) \cup NumbersIn(waiting) \cup NumbersIn(wire)
    \/ \E f \in overflow : f.n = n

Apart ==
  /\ NumbersIn(pending) \cap (NumbersIn(waiting) \cup NumbersIn(wire)) = {}
  /\ NumbersIn(waiting) \cap NumbersIn(wire) = {}

NewestKept ==
  /\ Len(pending) <= MaxPending
  /\ \A f \in overflow : \A n \in NumbersIn(pending) : f.n < n

Phases == TypeOK /\ ClosingPhases /\ RunPhases

SessionInv ==
  /\ Phases /\ NoStrandedFrame
  /\ NumbersFit /\ Covered /\ Apart /\ NewestKept

\* Nobody is about to take back what is held, but for the exception.
Withdrawn == \A k \in Keys \ crossed : Held(k) => ~Cancelling(k)

\* Someone has still to ask for k, or it was asked for and not withdrawn since.
WillAsk(k) ==
  \/ run \in {"none", "loop", "connecting", "flush"}
  \/ \E r \in replay : r[2] = k
  \/ \E t \in Threads : sender[t].at # "idle" /\ sender[t].req = [kind |-> "subscribe", key |-> k]
  \/ Asked(k)

AskInv == Withdrawn /\ (listed => \A k \in Keys \ crossed : Held(k) => WillAsk(k))

-----------------------------------------------------------------------------
(* Queues of numbered frames                                               *)

LEMMA NoNumbers == NumbersIn(<<>>) = {} /\ Rising(<<>>) /\ Distinct(<<>>) /\ Len(<<>>) = 0
BY DEF NumbersIn, Rising, Distinct

LEMMA NumbersAppend ==
  ASSUME NEW q \in Seq(Frame), NEW f \in Frame
  PROVE  LET p == Append(q, f)
         IN  /\ p \in Seq(Frame) /\ Len(p) = Len(q) + 1
             /\ NumbersIn(p) = NumbersIn(q) \cup {f.n}
             /\ Rising(q) /\ (\A n \in NumbersIn(q) : n < f.n) => Rising(p)
             /\ Distinct(q) /\ f.n \notin NumbersIn(q) => Distinct(p)
<1> DEFINE p == Append(q, f)
<1>1. /\ p \in Seq(Frame) /\ Len(q) \in Nat /\ Len(p) = Len(q) + 1
      /\ \A i \in 1..Len(q) : p[i] = q[i]
      /\ p[Len(q) + 1] = f
  OBVIOUS
<1> HIDE DEF p
<1>2. \A i : i \in 1..Len(p) <=> i \in 1..Len(q) \/ i = Len(q) + 1
  BY <1>1
<1>3. NumbersIn(p) = NumbersIn(q) \cup {f.n}
  BY <1>1, <1>2 DEF NumbersIn
<1>4. \A i \in 1..Len(q) : q[i].n \in NumbersIn(q)
  BY DEF NumbersIn
<1>5. ASSUME Rising(q), \A n \in NumbersIn(q) : n < f.n PROVE Rising(p)
  <2> SUFFICES ASSUME NEW i \in 1..Len(p), NEW j \in 1..Len(p), i < j PROVE p[i].n < p[j].n
    BY DEF Rising
  <2>1. i \in 1..Len(q)
    BY <1>1, <1>2
  <2>2. CASE j \in 1..Len(q)
    BY <1>1, <1>5, <2>1, <2>2 DEF Rising
  <2>3. CASE j = Len(q) + 1
    BY <1>1, <1>4, <1>5, <2>1, <2>3
  <2> QED
    BY <1>2, <2>2, <2>3
<1>6. ASSUME Distinct(q), f.n \notin NumbersIn(q) PROVE Distinct(p)
  <2> SUFFICES ASSUME NEW i \in 1..Len(p), NEW j \in 1..Len(p), i # j PROVE p[i].n # p[j].n
    BY DEF Distinct
  <2>1. CASE i \in 1..Len(q) /\ j \in 1..Len(q)
    BY <1>1, <1>6, <2>1 DEF Distinct
  <2>2. CASE i \in 1..Len(q) /\ j = Len(q) + 1
    BY <1>1, <1>4, <1>6, <2>2
  <2>3. CASE j \in 1..Len(q) /\ i = Len(q) + 1
    BY <1>1, <1>4, <1>6, <2>3
  <2> QED
    BY <1>2, <2>1, <2>2, <2>3
<1> QED
  BY <1>1, <1>3, <1>5, <1>6 DEF p

LEMMA NumbersTail ==
  ASSUME NEW q \in Seq(Frame), q # <<>>
  PROVE  /\ Tail(q) \in Seq(Frame) /\ Len(Tail(q)) = Len(q) - 1 /\ Head(q) \in Frame
         /\ Len(q) \in Nat \ {0}
         /\ NumbersIn(q) = {Head(q).n} \cup NumbersIn(Tail(q))
         /\ Rising(q) => Rising(Tail(q)) /\ \A n \in NumbersIn(Tail(q)) : Head(q).n < n
<1> DEFINE p == Tail(q)
<1>1. /\ p \in Seq(Frame) /\ Len(q) \in Nat \ {0} /\ Len(p) = Len(q) - 1
      /\ Head(q) = q[1] /\ q[1] \in Frame
      /\ \A i \in 1..Len(p) : p[i] = q[i + 1]
  OBVIOUS
<1> HIDE DEF p
<1>2. \A i \in 1..Len(p) : i + 1 \in 1..Len(q)
  BY <1>1
<1>3. \A i \in 1..Len(q) : i = 1 \/ (i - 1 \in 1..Len(p) /\ p[i - 1] = q[i])
  BY <1>1
<1>4. 1 \in 1..Len(q)
  BY <1>1
<1>5. NumbersIn(q) \subseteq {q[1].n} \cup NumbersIn(p)
  <2> SUFFICES ASSUME NEW i \in 1..Len(q) PROVE q[i].n \in {q[1].n} \cup NumbersIn(p)
    BY DEF NumbersIn
  <2>1. \A j \in 1..Len(p) : p[j].n \in NumbersIn(p)
    BY DEF NumbersIn
  <2> QED
    BY <1>3, <2>1
<1>6. {q[1].n} \cup NumbersIn(p) \subseteq NumbersIn(q)
  <2>1. \A i \in 1..Len(q) : q[i].n \in NumbersIn(q)
    BY DEF NumbersIn
  <2>2. \A i \in 1..Len(p) : p[i].n \in NumbersIn(q)
    BY <1>1, <1>2, <2>1
  <2> QED
    BY <1>4, <2>1, <2>2 DEF NumbersIn
<1>7. ASSUME Rising(q) PROVE Rising(p)
  <2> SUFFICES ASSUME NEW i \in 1..Len(p), NEW j \in 1..Len(p), i < j PROVE p[i].n < p[j].n
    BY DEF Rising
  <2>1. i + 1 \in 1..Len(q) /\ j + 1 \in 1..Len(q) /\ i + 1 < j + 1
    BY <1>2
  <2> QED
    BY <1>1, <1>7, <2>1 DEF Rising
<1>8. ASSUME Rising(q), NEW n \in NumbersIn(p) PROVE q[1].n < n
  <2>1. PICK i \in 1..Len(p) : n = p[i].n
    BY <1>8 DEF NumbersIn
  <2>2. i + 1 \in 1..Len(q) /\ 1 < i + 1
    BY <1>2
  <2> QED
    BY <1>1, <1>4, <1>8, <2>1, <2>2 DEF Rising
<1> QED
  BY <1>1, <1>5, <1>6, <1>7, <1>8 DEF p

-----------------------------------------------------------------------------
(* What the threads do                                                     *)

LEMMA SenderMoves ==
  ASSUME TypeOK, NEW t \in Threads, NEW x \in {Idle} \cup [at : {"find", "test", "lock"}, req : Request],
         sender' = [sender EXCEPT ![t] = x]
  PROVE  sender' \in [Threads -> {Idle} \cup [at : {"find", "test", "lock"}, req : Request]]
BY DEF TypeOK

LEMMA SenderBusy ==
  ASSUME TypeOK, NEW t \in Threads, sender[t].at # "idle"
  PROVE  /\ sender[t] \in [at : {"find", "test", "lock"}, req : Request]
         /\ sender[t].req \in Request
BY DEF TypeOK, Idle

LEMMA NumberedFrame ==
  ASSUME NEW r \in Request, NEW n \in Nat
  PROVE  /\ Numbered(r, n) \in Frame /\ Numbered(r, n).n = n
         /\ Numbered(r, n).kind = r.kind /\ Numbered(r, n).key = r.key
BY DEF Numbered, Request, Frame

-----------------------------------------------------------------------------
(* Phases                                                                  *)

\* Steps of senders leave the phases alone.
senderless == <<listed, closing, channel, socket, waiting, run, closer>>

LEMMA SamePhases ==
  ASSUME ClosingPhases, RunPhases, UNCHANGED senderless, replay' = replay
  PROVE  ClosingPhases' /\ RunPhases'
BY DEF ClosingPhases, RunPhases, senderless

LEMMA ApplicationPhases ==
  ASSUME Phases, Application
  PROVE  Phases' /\ UNCHANGED <<senderless, replay, pending, wire, overflow, accepted>>
<1>1. UNCHANGED <<senderless, replay, pending, wire, overflow, accepted>>
  BY DEF Application, RegisterSubscription, CancelSubscription, Write, senderless
<1>2. calls' \in 0..MaxCalls
  <2>1. calls' = calls + 1 /\ calls < MaxCalls
    BY DEF Application, RegisterSubscription, CancelSubscription, Write, Call
  <2> QED
    BY <2>1, CallsAssumption DEF Phases, TypeOK
<1>3. subscriptions' \subseteq Scopes \X Keys
  <2>1. \/ subscriptions' = subscriptions
        \/ \E s \in Scopes, k \in Keys : subscriptions' \subseteq subscriptions \cup {<<s, k>>}
    BY Zenon DEF Application, RegisterSubscription, CancelSubscription, Write
  <2> QED
    BY <2>1 DEF Phases, TypeOK
<1>4. sender' \in [Threads -> {Idle} \cup [at : {"find", "test", "lock"}, req : Request]]
  <2>1. PICK t \in Threads : \E kind \in Kinds : \E k \in Keys :
          sender' = [sender EXCEPT ![t] = Sending("find", [kind |-> kind, key |-> k])]
    BY DEF Application, RegisterSubscription, CancelSubscription, Write, Threads, Kinds
  <2>2. PICK kind \in Kinds, k \in Keys :
          sender' = [sender EXCEPT ![t] = Sending("find", [kind |-> kind, key |-> k])]
    BY <2>1
  <2>3. Sending("find", [kind |-> kind, key |-> k])
          \in {Idle} \cup [at : {"find", "test", "lock"}, req : Request]
    BY DEF Sending, Request
  <2> QED
    BY <2>2, <2>3, SenderMoves DEF Phases
<1>5. crossed' \subseteq Keys
  <2>1. crossed' \subseteq crossed \/ \E k \in Keys : crossed' \subseteq crossed \cup {k}
    BY DEF Application, RegisterSubscription, CancelSubscription, Write
  <2> QED
    BY <2>1 DEF Phases, TypeOK
<1>6. TypeOK'
  BY <1>1, <1>2, <1>3, <1>4, <1>5 DEF Phases, TypeOK, senderless
<1> QED
  BY <1>1, <1>6, SamePhases DEF Phases

\* The tests before the lock.
Looking(t) == FindSession(t) \/ TestClosing(t)

LEMMA LookingPhases ==
  ASSUME Phases, NEW t \in Threads, Looking(t)
  PROVE  Phases' /\ UNCHANGED <<senderless, replay, pending, wire, overflow, accepted, subscriptions>>
<1>1. UNCHANGED <<senderless, replay, pending, wire, overflow, accepted, subscriptions, crossed, calls>>
  BY DEF Looking, FindSession, TestClosing, senderless
<1>2. PICK x \in {Idle, Sending("test", sender[t].req), Sending("lock", sender[t].req)} :
        sender' = [sender EXCEPT ![t] = x] /\ sender[t].at # "idle"
  BY DEF Looking, FindSession, TestClosing
<1>3. x \in {Idle} \cup [at : {"find", "test", "lock"}, req : Request]
  BY <1>2, SenderBusy DEF Sending, Phases
<1>4. sender' \in [Threads -> {Idle} \cup [at : {"find", "test", "lock"}, req : Request]]
  BY <1>2, <1>3, SenderMoves DEF Phases
<1>5. TypeOK'
  BY <1>1, <1>4 DEF Phases, TypeOK, senderless
<1> QED
  BY <1>1, <1>5, SamePhases DEF Phases

\* The steps of the coroutine and of the closer that move no frames.
Control ==
  \/ AddSession \/ RunLoop \/ ConnectFails \/ Discard \/ StartReplay \/ ReplayNext \/ RunReturns
  \/ RemoveSession \/ CloseFlag \/ CloseChannel

LEMMA ControlPhases ==
  ASSUME Phases, Control
  PROVE  /\ Phases' /\ UNCHANGED <<pending, waiting, wire, overflow, accepted, subscriptions>>
         /\ closing => closing'
         /\ run' \in {"flush", "replay", "ended"} /\ ~closing' => run \in {"flush", "replay", "ended"}
<1>1. UNCHANGED <<pending, waiting, wire, overflow, accepted, subscriptions, calls, channel>>
  BY DEF Control, AddSession, RunLoop, ConnectFails, Discard, StartReplay, ReplayNext, RunReturns,
         RemoveSession, CloseFlag, CloseChannel
<1>2. sender' \in [Threads -> {Idle} \cup [at : {"find", "test", "lock"}, req : Request]]
  <2>1. CASE ReplayNext
    <3>1. PICK r \in replay :
            sender' = [sender EXCEPT ![Run] = Sending("test", [kind |-> "subscribe", key |-> r[2]])]
      BY <2>1 DEF ReplayNext
    <3>2. r[2] \in Keys
      BY DEF Phases, TypeOK
    <3>3. Sending("test", [kind |-> "subscribe", key |-> r[2]])
            \in {Idle} \cup [at : {"find", "test", "lock"}, req : Request]
      BY <3>2 DEF Sending, Request, Kinds
    <3>4. Run \in Threads
      BY DEF Threads
    <3> QED
      BY <3>1, <3>3, <3>4, SenderMoves DEF Phases
  <2>2. CASE ~ReplayNext
    <3>1. sender' = sender
      BY <2>2 DEF Control, AddSession, RunLoop, ConnectFails, Discard, StartReplay, RunReturns,
                  RemoveSession, CloseFlag, CloseChannel
    <3> QED
      BY <3>1 DEF Phases, TypeOK
  <2> QED
    BY <2>1, <2>2
<1>0. crossed' \subseteq Keys
  <2>1. crossed' \subseteq crossed
    BY DEF Control, AddSession, RunLoop, ConnectFails, Discard, StartReplay, ReplayNext, RunReturns,
           RemoveSession, CloseFlag, CloseChannel
  <2> QED
    BY <2>1 DEF Phases, TypeOK
<1>3. CASE AddSession
  BY <1>0, <1>1, <1>2, <1>3 DEF AddSession, Phases, TypeOK, ClosingPhases, RunPhases
<1>4. CASE RunLoop
  BY <1>0, <1>1, <1>2, <1>4 DEF RunLoop, Phases, TypeOK, ClosingPhases, RunPhases
<1>5. CASE ConnectFails
  BY <1>0, <1>1, <1>2, <1>5 DEF ConnectFails, Phases, TypeOK, ClosingPhases, RunPhases
<1>6. CASE Discard
  BY <1>0, <1>1, <1>2, <1>6 DEF Discard, Phases, TypeOK, ClosingPhases, RunPhases
<1>7. CASE StartReplay
  BY <1>0, <1>1, <1>2, <1>7 DEF StartReplay, Phases, TypeOK, ClosingPhases, RunPhases
<1>8. CASE ReplayNext
  <2>1. /\ UNCHANGED <<senderless, pending, wire, overflow, accepted>>
        /\ replay' \subseteq replay /\ run = "replay"
    BY <1>8 DEF ReplayNext, senderless
  <2>2. TypeOK'
    BY <1>0, <1>1, <1>2, <2>1 DEF Phases, TypeOK, senderless
  <2>3. ClosingPhases' /\ RunPhases'
    BY <2>1 DEF Phases, ClosingPhases, RunPhases, senderless
  <2> QED
    BY <1>1, <2>1, <2>2, <2>3 DEF Phases, senderless
<1>9. CASE RunReturns
  BY <1>0, <1>1, <1>2, <1>9 DEF RunReturns, Phases, TypeOK, ClosingPhases, RunPhases
<1>10. CASE RemoveSession
  <2>1. TypeOK'
    BY <1>0, <1>1, <1>2, <1>10 DEF RemoveSession, Phases, TypeOK
  <2>2. ClosingPhases'
    BY <1>10 DEF RemoveSession, Phases, ClosingPhases
  <2>3. RunPhases'
    BY <1>10 DEF RemoveSession, Phases, RunPhases
  <2> QED
    BY <1>1, <1>10, <2>1, <2>2, <2>3 DEF RemoveSession, Phases
<1>11. CASE CloseFlag
  BY <1>0, <1>1, <1>2, <1>11 DEF CloseFlag, Phases, TypeOK, ClosingPhases, RunPhases
<1>12. CASE CloseChannel
  BY <1>0, <1>1, <1>2, <1>12 DEF CloseChannel, Phases, TypeOK, ClosingPhases, RunPhases
<1> QED
  BY <1>3, <1>4, <1>5, <1>6, <1>7, <1>8, <1>9, <1>10, <1>11, <1>12 DEF Control

-----------------------------------------------------------------------------
(* Frames                                                                  *)

\* A step that moves no frame loses none, unless it connects.
LEMMA SameFrames ==
  ASSUME SessionInv, Phases', UNCHANGED <<pending, waiting, wire, overflow, accepted>>,
         closing => closing',
         run' \in {"flush", "replay", "ended"} /\ ~closing' => run \in {"flush", "replay", "ended"}
  PROVE  SessionInv'
<1>1. NoStrandedFrame'
  BY DEF SessionInv, NoStrandedFrame
<1>2. /\ pending' = pending /\ waiting' = waiting /\ wire' = wire /\ overflow' = overflow
      /\ accepted' = accepted
  OBVIOUS
<1>3. NumbersFit' /\ Apart' /\ NewestKept'
  BY <1>2 DEF SessionInv, NumbersFit, Apart, NewestKept, NumbersIn, Rising, Distinct
<1>4. Covered'
  BY <1>2 DEF SessionInv, Covered, NumbersIn
<1> QED
  BY <1>1, <1>3, <1>4 DEF SessionInv

LEMMA SendDirectKeeps ==
  ASSUME SessionInv, NEW t \in Threads, SendDirect(t)
  PROVE  SessionInv'
<1> DEFINE f == Numbered(sender[t].req, accepted + 1)
<1>1. /\ sender[t].at = "lock" /\ channel /\ accepted' = accepted + 1
      /\ sender' = [sender EXCEPT ![t] = Idle]
      /\ UNCHANGED <<senderless, replay, pending, overflow, subscriptions, crossed, calls>>
      /\ wire' = IF socket = "open" THEN Append(wire, f) ELSE wire
  BY DEF SendDirect, Offer, senderless
<1>2. accepted \in Nat /\ wire \in Seq(Frame) /\ socket = "open"
  BY <1>1 DEF SessionInv, Phases, TypeOK, ClosingPhases
<1>3. f \in Frame /\ f.n = accepted + 1
  <2>1. sender[t].req \in Request
    BY <1>1, SenderBusy DEF SessionInv, Phases
  <2> QED
    BY <1>2, <2>1, NumberedFrame
<1> HIDE DEF f
<1>4. /\ wire' \in Seq(Frame) /\ NumbersIn(wire') = NumbersIn(wire) \cup {accepted + 1}
      /\ Distinct(wire')
  <2>1. accepted + 1 \notin NumbersIn(wire)
    BY <1>2 DEF SessionInv, NumbersFit
  <2> QED
    BY <1>1, <1>2, <1>3, <2>1, NumbersAppend DEF SessionInv, NumbersFit
<1>5. Phases'
  <2>1. sender' \in [Threads -> {Idle} \cup [at : {"find", "test", "lock"}, req : Request]]
    BY <1>1, SenderMoves DEF SessionInv, Phases
  <2>2. TypeOK'
    BY <1>1, <1>2, <1>4, <2>1 DEF SessionInv, Phases, TypeOK, senderless
  <2> QED
    BY <1>1, <2>2, SamePhases DEF SessionInv, Phases
<1>6. NoStrandedFrame'
  BY <1>1 DEF SessionInv, NoStrandedFrame, senderless
<1>7. NumbersIn(pending)' = NumbersIn(pending) /\ NumbersIn(waiting)' = NumbersIn(waiting)
  BY <1>1 DEF NumbersIn, senderless
<1>8. /\ NumbersIn(pending) \cup NumbersIn(waiting) \cup NumbersIn(wire) \subseteq 1..accepted
      /\ \A g \in overflow : g.n \in 1..accepted
  BY DEF SessionInv, NumbersFit
<1>9. NumbersFit'
  <2>1. Rising(pending)' /\ Rising(waiting)'
    BY <1>1 DEF SessionInv, NumbersFit, Rising, senderless
  <2>2. Distinct(wire)'
    BY <1>4
  <2> QED
    BY <1>1, <1>2, <1>4, <1>7, <1>8, <2>1, <2>2 DEF NumbersFit
<1>10. Covered'
  BY <1>1, <1>2, <1>4, <1>7 DEF SessionInv, Covered, senderless
<1>11. Apart'
  BY <1>2, <1>4, <1>7, <1>8 DEF SessionInv, Apart
<1>12. NewestKept'
  BY <1>1, <1>7 DEF SessionInv, NewestKept
<1> QED
  BY <1>5, <1>6, <1>9, <1>10, <1>11, <1>12 DEF SessionInv

LEMMA SendPendingKeeps ==
  ASSUME SessionInv, NEW t \in Threads, SendPending(t)
  PROVE  SessionInv'
<1> DEFINE f == Numbered(sender[t].req, accepted + 1)
           q == IF Full THEN Tail(pending) ELSE pending
<1>1. /\ sender[t].at = "lock" /\ ~channel /\ accepted' = accepted + 1
      /\ sender' = [sender EXCEPT ![t] = Idle]
      /\ UNCHANGED <<senderless, replay, wire, subscriptions, crossed, calls>>
      /\ pending' = Append(q, f)
      /\ overflow' = IF Full THEN overflow \cup {Head(pending)} ELSE overflow
  BY DEF SendPending, senderless
<1>2. accepted \in Nat /\ pending \in Seq(Frame) /\ overflow \subseteq Frame
  BY DEF SessionInv, Phases, TypeOK
<1>3. f \in Frame /\ f.n = accepted + 1
  <2>1. sender[t].req \in Request
    BY <1>1, SenderBusy DEF SessionInv, Phases
  <2> QED
    BY <1>2, <2>1, NumberedFrame
<1> HIDE DEF f
<1>4. /\ NumbersIn(pending) \cup NumbersIn(waiting) \cup NumbersIn(wire) \subseteq 1..accepted
      /\ \A g \in overflow : g.n \in 1..accepted
      /\ Rising(pending) /\ Len(pending) <= MaxPending
      /\ \A g \in overflow : \A n \in NumbersIn(pending) : g.n < n
  BY DEF SessionInv, NumbersFit, NewestKept
\* What is kept of the queue, and what is given up.
<1>5. /\ q \in Seq(Frame) /\ Rising(q) /\ Len(q) < MaxPending
      /\ NumbersIn(q) \subseteq NumbersIn(pending)
      /\ overflow \subseteq overflow' /\ overflow' \subseteq Frame
      /\ \A g \in overflow' : g.n \in 1..accepted /\ \A n \in NumbersIn(q) : g.n < n
      /\ \A n \in NumbersIn(pending) : n \in NumbersIn(q) \/ \E g \in overflow' : g.n = n
  <2>1. CASE Full
    <3>1. pending # <<>>
      BY <2>1, PendingAssumption, NoNumbers DEF Full
    <3>2. /\ q \in Seq(Frame) /\ Len(q) = Len(pending) - 1 /\ Head(pending) \in Frame
          /\ Len(pending) \in Nat
          /\ NumbersIn(pending) = {Head(pending).n} \cup NumbersIn(q)
          /\ Rising(q) /\ \A n \in NumbersIn(q) : Head(pending).n < n
      BY <1>2, <1>4, <2>1, <3>1, NumbersTail
    <3>3. overflow' = overflow \cup {Head(pending)}
      BY <1>1, <2>1
    <3> HIDE DEF q
    <3> QED
      BY <1>2, <1>4, <3>2, <3>3, PendingAssumption
  <2>2. CASE ~Full
    <3>1. q = pending /\ overflow' = overflow
      BY <1>1, <2>2
    <3>2. Len(pending) < MaxPending
      BY <1>2, <2>2, PendingAssumption DEF Full
    <3> QED
      BY <1>2, <1>4, <3>1, <3>2
  <2> QED
    BY <2>1, <2>2
<1> HIDE DEF q
<1>6. /\ pending' \in Seq(Frame) /\ Len(pending') = Len(q) + 1 /\ Rising(pending')
      /\ NumbersIn(pending') = NumbersIn(q) \cup {accepted + 1}
  <2>1. \A n \in NumbersIn(q) : n < f.n
    BY <1>2, <1>3, <1>4, <1>5
  <2> QED
    BY <1>1, <1>3, <1>5, <2>1, NumbersAppend
<1>7. Phases'
  <2>1. sender' \in [Threads -> {Idle} \cup [at : {"find", "test", "lock"}, req : Request]]
    BY <1>1, SenderMoves DEF SessionInv, Phases
  <2>2. TypeOK'
    BY <1>1, <1>2, <1>5, <1>6, <2>1 DEF SessionInv, Phases, TypeOK, senderless
  <2> QED
    BY <1>1, <2>2, SamePhases DEF SessionInv, Phases
<1>8. NoStrandedFrame'
  BY <1>1 DEF SessionInv, Phases, RunPhases, NoStrandedFrame, senderless
<1>9. NumbersIn(wire)' = NumbersIn(wire) /\ NumbersIn(waiting)' = NumbersIn(waiting)
  BY <1>1 DEF NumbersIn, senderless
<1>10. NumbersFit'
  <2>1. Distinct(wire)' /\ Rising(waiting)'
    BY <1>1 DEF SessionInv, NumbersFit, Rising, Distinct, senderless
  <2>2. Rising(pending)'
    BY <1>6
  <2> QED
    BY <1>1, <1>2, <1>4, <1>5, <1>6, <1>9, <2>1, <2>2 DEF NumbersFit
<1>11. Covered'
  <2> SUFFICES ASSUME ~closing, NEW n \in 1..(accepted + 1)
               PROVE  \/ n \in NumbersIn(pending') \cup NumbersIn(waiting) \cup NumbersIn(wire)
                      \/ \E g \in overflow' : g.n = n
    BY <1>1, <1>9 DEF Covered, senderless
  <2>1. n = accepted + 1 \/ n \in 1..accepted
    BY <1>2
  <2>2. n \in 1..accepted => \/ n \in NumbersIn(pending) \cup NumbersIn(waiting) \cup NumbersIn(wire)
                             \/ \E g \in overflow : g.n = n
    BY DEF SessionInv, Covered
  <2> QED
    BY <1>5, <1>6, <2>1, <2>2
<1>12. Apart'
  BY <1>2, <1>4, <1>5, <1>6, <1>9 DEF SessionInv, Apart
<1>13. NewestKept'
  <2>1. Len(pending') <= MaxPending
    BY <1>2, <1>5, <1>6, PendingAssumption
  <2>2. \A g \in overflow' : \A n \in NumbersIn(pending') : g.n < n
    BY <1>2, <1>5, <1>6
  <2> QED
    BY <2>1, <2>2 DEF NewestKept
<1> QED
  BY <1>7, <1>8, <1>10, <1>11, <1>12, <1>13 DEF SessionInv

\* The queue goes with the channel, in one critical section.
LEMMA AdoptKeeps ==
  ASSUME SessionInv, Adopt
  PROVE  SessionInv'
<1>1. /\ run = "connecting" /\ ~closing /\ channel' = TRUE /\ socket' = "open"
      /\ waiting' = pending /\ pending' = <<>> /\ run' = "flush"
      /\ UNCHANGED <<subscriptions, crossed, listed, closing, replay, closer, sender, wire, overflow,
                     accepted, calls>>
  BY DEF Adopt
<1>2. /\ waiting = <<>> /\ closer \notin {"flagged", "taken", "done"}
  BY <1>1 DEF SessionInv, Phases, RunPhases, ClosingPhases
<1>3. Phases'
  <2>1. TypeOK'
    BY <1>1 DEF SessionInv, Phases, TypeOK
  <2>2. ClosingPhases' /\ RunPhases'
    BY <1>1, <1>2 DEF SessionInv, Phases, ClosingPhases, RunPhases
  <2> QED
    BY <2>1, <2>2 DEF Phases
<1>4. NoStrandedFrame'
  BY <1>1 DEF NoStrandedFrame
<1>5. /\ NumbersIn(pending)' = {} /\ NumbersIn(waiting)' = NumbersIn(pending)
      /\ NumbersIn(wire)' = NumbersIn(wire) /\ NumbersIn(waiting) = {}
  BY <1>1, <1>2, NoNumbers DEF NumbersIn
<1>6. Rising(pending)' /\ Rising(waiting)' /\ Distinct(wire)'
  BY <1>1 DEF SessionInv, NumbersFit, Rising, Distinct
<1>7. NumbersFit'
  BY <1>1, <1>5, <1>6 DEF SessionInv, NumbersFit
<1>8. Covered' /\ Apart'
  BY <1>1, <1>5 DEF SessionInv, Covered, Apart
<1>9. NewestKept'
  BY <1>1, <1>5, PendingAssumption, NoNumbers DEF NewestKept
<1> QED
  BY <1>3, <1>4, <1>7, <1>8, <1>9 DEF SessionInv

LEMMA FlushNextKeeps ==
  ASSUME SessionInv, FlushNext
  PROVE  SessionInv'
<1> DEFINE f == Head(waiting)
<1>1. /\ run = "flush" /\ waiting # <<>> /\ waiting' = Tail(waiting)
      /\ wire' = IF socket = "open" THEN Append(wire, f) ELSE wire
      /\ UNCHANGED <<subscriptions, crossed, listed, closing, channel, socket, pending, run,
                     replay, closer, sender, overflow, accepted, calls>>
  BY DEF FlushNext, Offer
<1>2. accepted \in Nat /\ wire \in Seq(Frame) /\ waiting \in Seq(Frame)
  BY DEF SessionInv, Phases, TypeOK
<1>3. ~closing => socket = "open"
  BY <1>1 DEF SessionInv, Phases, RunPhases, ClosingPhases
<1>4. /\ NumbersIn(pending) \cup NumbersIn(waiting) \cup NumbersIn(wire) \subseteq 1..accepted
      /\ Rising(waiting) /\ Rising(pending) /\ Distinct(wire)
      /\ NumbersIn(pending) \cap (NumbersIn(waiting) \cup NumbersIn(wire)) = {}
      /\ NumbersIn(waiting) \cap NumbersIn(wire) = {}
  BY DEF SessionInv, NumbersFit, Apart
<1>5. /\ waiting' \in Seq(Frame) /\ f \in Frame /\ Rising(waiting')
      /\ NumbersIn(waiting) = {f.n} \cup NumbersIn(waiting') /\ f.n \notin NumbersIn(waiting')
  <2>1. /\ Tail(waiting) \in Seq(Frame) /\ f \in Frame /\ Rising(Tail(waiting))
        /\ NumbersIn(waiting) = {f.n} \cup NumbersIn(Tail(waiting))
        /\ \A n \in NumbersIn(Tail(waiting)) : f.n < n
    BY <1>1, <1>2, <1>4, NumbersTail
  <2>2. f.n \notin NumbersIn(Tail(waiting))
    BY <2>1 DEF Frame
  <2> QED
    BY <1>1, <2>1, <2>2
<1> HIDE DEF f
<1>6. /\ wire' \in Seq(Frame) /\ Distinct(wire')
      /\ NumbersIn(wire') \subseteq NumbersIn(wire) \cup {f.n}
      /\ NumbersIn(wire) \subseteq NumbersIn(wire')
      /\ closing \/ f.n \in NumbersIn(wire')
  <2>1. f.n \notin NumbersIn(wire)
    BY <1>4, <1>5
  <2>2. CASE socket = "open"
    BY <1>1, <1>2, <1>4, <1>5, <2>1, <2>2, NumbersAppend
  <2>3. CASE socket # "open"
    BY <1>1, <1>2, <1>3, <1>4, <2>3
  <2> QED
    BY <2>2, <2>3
<1>7. Phases'
  <2>1. TypeOK'
    BY <1>1, <1>5, <1>6 DEF SessionInv, Phases, TypeOK
  <2>2. ClosingPhases' /\ RunPhases'
    BY <1>1 DEF SessionInv, Phases, ClosingPhases, RunPhases
  <2> QED
    BY <2>1, <2>2 DEF Phases
<1>8. NoStrandedFrame'
  BY <1>1 DEF SessionInv, NoStrandedFrame
<1>9. NumbersIn(pending)' = NumbersIn(pending)
  BY <1>1 DEF NumbersIn
<1>10. NumbersFit'
  <2>1. Rising(pending)'
    BY <1>1, <1>4 DEF Rising
  <2>2. Rising(waiting)' /\ Distinct(wire)'
    BY <1>5, <1>6
  <2> QED
    BY <1>1, <1>4, <1>5, <1>6, <1>9, <2>1, <2>2 DEF SessionInv, NumbersFit
<1>11. Covered'
  BY <1>1, <1>5, <1>6, <1>9 DEF SessionInv, Covered
<1>12. Apart'
  BY <1>4, <1>5, <1>6, <1>9 DEF Apart
<1>13. NewestKept'
  BY <1>1, <1>9 DEF SessionInv, NewestKept
<1> QED
  BY <1>7, <1>8, <1>10, <1>11, <1>12, <1>13 DEF SessionInv

LEMMA CloseTakeKeeps ==
  ASSUME SessionInv, CloseTake
  PROVE  SessionInv'
<1>1. /\ closer = "flagged" /\ channel' = FALSE /\ pending' = <<>>
      /\ closer' = IF channel THEN "taken" ELSE "done"
      /\ UNCHANGED <<subscriptions, crossed, listed, closing, socket, waiting, run, replay,
                     sender, wire, overflow, accepted, calls>>
  BY DEF CloseTake
<1>2. closing
  BY <1>1 DEF SessionInv, Phases, ClosingPhases
<1>3. Phases'
  <2>1. TypeOK'
    <3>1. pending' \in Seq(Frame)
      BY <1>1
    <3>2. closer' \in {"no", "erased", "flagged", "taken", "done"}
      BY <1>1
    <3>3. channel' \in BOOLEAN
      BY <1>1
    <3> QED
      BY <1>1, <3>1, <3>2, <3>3 DEF SessionInv, Phases, TypeOK
  <2>2. ClosingPhases'
    <3>1. CASE channel
      BY <1>1, <1>2, <3>1 DEF SessionInv, Phases, ClosingPhases
    <3>2. CASE ~channel
      BY <1>1, <1>2, <3>2 DEF SessionInv, Phases, ClosingPhases
    <3> QED
      BY <3>1, <3>2
  <2>3. RunPhases'
    BY <1>1, <1>2 DEF SessionInv, Phases, RunPhases
  <2> QED
    BY <2>1, <2>2, <2>3 DEF Phases
<1>4. NoStrandedFrame' /\ Covered'
  BY <1>1, <1>2 DEF NoStrandedFrame, Covered
<1>5. /\ NumbersIn(pending)' = {} /\ NumbersIn(waiting)' = NumbersIn(waiting)
      /\ NumbersIn(wire)' = NumbersIn(wire)
  BY <1>1, NoNumbers DEF NumbersIn
<1>6. Rising(pending)' /\ Rising(waiting)' /\ Distinct(wire)'
  BY <1>1 DEF SessionInv, NumbersFit, Rising, Distinct
<1>7. NumbersFit' /\ Apart'
  BY <1>1, <1>5, <1>6 DEF SessionInv, NumbersFit, Apart
<1>8. NewestKept'
  BY <1>1, <1>5, PendingAssumption, NoNumbers DEF NewestKept
<1> QED
  BY <1>3, <1>4, <1>7, <1>8 DEF SessionInv

-----------------------------------------------------------------------------
(* The session is safe                                                     *)

LEMMA SessionInvInit == Init => SessionInv
<1> SUFFICES ASSUME Init PROVE SessionInv
  OBVIOUS
<1>1. TypeOK
  <2>1. pending \in Seq(Frame) /\ waiting \in Seq(Frame) /\ wire \in Seq(Frame)
    BY DEF Init
  <2>2. sender \in [Threads -> {Idle} \cup [at : {"find", "test", "lock"}, req : Request]]
    BY DEF Init
  <2>3. calls \in 0..MaxCalls /\ accepted \in Nat
    BY CallsAssumption DEF Init
  <2> QED
    BY <2>1, <2>2, <2>3 DEF Init, TypeOK
<1>2. ClosingPhases /\ RunPhases /\ NoStrandedFrame
  BY DEF Init, ClosingPhases, RunPhases, NoStrandedFrame
<1>3. NumbersFit /\ Covered /\ Apart /\ NewestKept
  BY NoNumbers, PendingAssumption DEF Init, NumbersFit, Covered, Apart, NewestKept
<1> QED
  BY <1>1, <1>2, <1>3 DEF SessionInv, Phases

\* The steps of Next, by what they move.
LEMMA StepKinds ==
  ASSUME [Next]_vars
  PROVE  \/ Application \/ Control \/ Adopt \/ FlushNext \/ CloseTake \/ UNCHANGED vars
         \/ \E t \in Threads : Looking(t) \/ SendDirect(t) \/ SendPending(t)
BY DEF Next, Progress, Coroutine, Closing, Control, Looking

LEMMA SessionInvStep == SessionInv /\ [Next]_vars => SessionInv'
<1> SUFFICES ASSUME SessionInv, [Next]_vars PROVE SessionInv'
  OBVIOUS
<1>1. CASE Application
  <2>1. Phases' /\ UNCHANGED <<senderless, replay, pending, wire, overflow, accepted>>
    BY <1>1, ApplicationPhases DEF SessionInv
  <2> QED
    BY <2>1, SameFrames DEF senderless
<1>2. CASE Control
  BY <1>2, ControlPhases, SameFrames DEF SessionInv
<1>3. CASE Adopt
  BY <1>3, AdoptKeeps
<1>4. CASE FlushNext
  BY <1>4, FlushNextKeeps
<1>5. CASE CloseTake
  BY <1>5, CloseTakeKeeps
<1>6. CASE UNCHANGED vars
  <2>1. Phases'
    <3>1. TypeOK'
      BY <1>6 DEF SessionInv, Phases, TypeOK, vars
    <3> QED
      BY <1>6, <3>1, SamePhases DEF SessionInv, Phases, vars, senderless
  <2> QED
    BY <1>6, <2>1, SameFrames DEF vars
<1>7. ASSUME NEW t \in Threads, Looking(t) \/ SendDirect(t) \/ SendPending(t)
      PROVE  SessionInv'
  <2>1. CASE Looking(t)
    <3>1. Phases' /\ UNCHANGED <<senderless, replay, pending, wire, overflow, accepted>>
      BY <2>1, LookingPhases DEF SessionInv
    <3> QED
      BY <3>1, SameFrames DEF senderless
  <2> QED
    BY <1>7, <2>1, SendDirectKeeps, SendPendingKeeps
<1> QED
  BY <1>1, <1>2, <1>3, <1>4, <1>5, <1>6, <1>7, StepKinds

\* The state of a session is well formed, whatever its threads do.
THEOREM SessionTypeCorrect == Spec => []TypeOK
<1>1. SessionInv => TypeOK
  BY DEF SessionInv, Phases
<1> QED
  BY <1>1, SessionInvInit, SessionInvStep, PTL DEF Spec

\* However connect() and close() interleave, no channel stays open with nobody
\* to shut it down.
THEOREM ChannelSafety == Spec => []NoLeakedChannel
<1>1. SessionInv => NoLeakedChannel
  BY DEF SessionInv, Phases, ClosingPhases, NoLeakedChannel
<1> QED
  BY <1>1, SessionInvInit, SessionInvStep, PTL DEF Spec

\* Every frame is accounted for, whatever order connect(), close() and the
\* senders take channel_mutex_ in, and whatever kMaxPendingFrames is: held once,
\* sent once, or given up as the oldest.
THEOREM FrameSafety == Spec => []FramesAccounted
<1>1. ASSUME SessionInv PROVE FramesAccounted
  <2>1. NothingLostOrDoubled
    BY <1>1 DEF SessionInv, Covered, Apart, NumbersFit, Distinct, NothingLostOrDoubled
  <2>2. KeepsNewest
    <3>1. \A i \in 1..Len(pending) : pending[i].n \in NumbersIn(pending)
      BY DEF NumbersIn
    <3> QED
      BY <1>1, <3>1 DEF SessionInv, NumbersFit, Rising, NewestKept, KeepsNewest
  <2> QED
    BY <1>1, <2>1, <2>2 DEF SessionInv, FramesAccounted
<1> QED
  BY <1>1, SessionInvInit, SessionInvStep, PTL DEF Spec

-----------------------------------------------------------------------------
(* What is held is asked for                                               *)

\* The last frame about k in q asks for it.
AskedIn(q, k) ==
  \E i \in 1..Len(q) :
    /\ q[i].kind = "subscribe" /\ q[i].key = k
    /\ \A j \in i+1..Len(q) : q[j].kind = "unsubscribe" => q[j].key # k

LEMMA AskedAppend ==
  ASSUME NEW q \in Seq(Frame), NEW f \in Frame, NEW k,
         \/ f.kind = "subscribe" /\ f.key = k
         \/ AskedIn(q, k) /\ ~(f.kind = "unsubscribe" /\ f.key = k)
  PROVE  AskedIn(Append(q, f), k)
<1> DEFINE p == Append(q, f)
<1>1. /\ Len(q) \in Nat /\ Len(p) = Len(q) + 1 /\ p[Len(q) + 1] = f
      /\ \A i \in 1..Len(q) : p[i] = q[i]
  OBVIOUS
<1> HIDE DEF p
<1>2. CASE f.kind = "subscribe" /\ f.key = k
  <2>1. Len(q) + 1 \in 1..Len(p) /\ (Len(q) + 1) + 1..Len(p) = {}
    BY <1>1
  <2> QED
    BY <1>1, <1>2, <2>1 DEF AskedIn, p
<1>3. CASE AskedIn(q, k) /\ ~(f.kind = "unsubscribe" /\ f.key = k)
  <2>1. PICK i \in 1..Len(q) :
          /\ q[i].kind = "subscribe" /\ q[i].key = k
          /\ \A j \in i+1..Len(q) : q[j].kind = "unsubscribe" => q[j].key # k
    BY <1>3 DEF AskedIn
  <2>2. i \in 1..Len(p) /\ p[i] = q[i]
    BY <1>1
  <2>3. ASSUME NEW j \in i+1..Len(p), p[j].kind = "unsubscribe" PROVE p[j].key # k
    <3>1. (j \in i+1..Len(q) /\ j \in 1..Len(q)) \/ j = Len(q) + 1
      BY <1>1
    <3> QED
      BY <1>1, <1>3, <2>1, <2>3, <3>1
  <2> QED
    BY <2>1, <2>2, <2>3 DEF AskedIn, p
<1> QED
  BY <1>2, <1>3

\* A thread that was idle makes a request: nobody else's is forgotten.
LEMMA RequestMade ==
  ASSUME TypeOK, NEW t \in Threads, NEW x, sender[t] = Idle, sender' = [sender EXCEPT ![t] = x],
         UNCHANGED <<run, replay, wire>>, NEW k, WillAsk(k)
  PROVE  WillAsk(k)'
<1>1. run' = run /\ replay' = replay /\ wire' = wire
  OBVIOUS
<1>2. \A u \in Threads : u # t => sender'[u] = sender[u]
  BY DEF TypeOK
<1>3. \A u \in Threads : sender[u].at # "idle" => u # t
  BY DEF Idle
<1>4. ASSUME Asked(k) PROVE Asked(k)'
  BY <1>1, <1>4 DEF Asked
<1> QED
  BY <1>1, <1>2, <1>3, <1>4 DEF WillAsk

LEMMA ApplicationAsks ==
  ASSUME SessionInv, AskInv, Application
  PROVE  AskInv'
<1>1. UNCHANGED <<listed, run, replay, wire>>
  BY DEF Application, RegisterSubscription, CancelSubscription, Write
<1>2. TypeOK /\ sender \in [Threads -> {Idle} \cup [at : {"find", "test", "lock"}, req : Request]]
  BY DEF SessionInv, Phases, TypeOK
\* The new request is the only one.
<1>3. ASSUME NEW t \in Threads, NEW r, sender[t] = Idle,
             sender' = [sender EXCEPT ![t] = Sending("find", r)]
      PROVE  /\ sender'[t].at = "find" /\ sender'[t].req = r
             /\ \A k : WillAsk(k) => WillAsk(k)'
             /\ \A k : Cancelling(k)' => Cancelling(k) \/ r = [kind |-> "unsubscribe", key |-> k]
  <2>1. sender'[t] = Sending("find", r) /\ \A u \in Threads : u # t => sender'[u] = sender[u]
    BY <1>2, <1>3
  <2>2. sender'[t].at = "find" /\ sender'[t].req = r
    BY <2>1 DEF Sending
  <2>3. \A k : WillAsk(k) => WillAsk(k)'
    BY <1>1, <1>2, <1>3, RequestMade
  <2> QED
    BY <2>1, <2>2, <2>3 DEF Cancelling
<1>4. ASSUME NEW t \in Subscribers, NEW c \in Scopes, NEW k \in Keys, RegisterSubscription(t, c, k)
      PROVE  AskInv'
  <2> DEFINE r == [kind |-> "subscribe", key |-> k]
  <2>1. /\ t \in Threads /\ sender[t] = Idle /\ subscriptions' = subscriptions \cup {<<c, k>>}
        /\ sender' = [sender EXCEPT ![t] = Sending("find", r)]
        /\ crossed' = IF Cancelling(k) THEN crossed \cup {k} ELSE crossed \ {k}
    BY <1>4 DEF RegisterSubscription, Call, Threads
  <2>2. \A j : r # [kind |-> "unsubscribe", key |-> j]
    OBVIOUS
  <2> HIDE DEF r
  <2>3. /\ sender'[t].at = "find" /\ sender'[t].req = r
        /\ \A j : WillAsk(j) => WillAsk(j)'
        /\ \A j : Cancelling(j)' => Cancelling(j)
    BY <1>3, <2>1, <2>2
  <2>4. WillAsk(k)'
    BY <2>1, <2>3 DEF WillAsk, r
  <2>5. ASSUME NEW j \in Keys \ crossed', Held(j)'
        PROVE  ~Cancelling(j)' /\ (listed' => WillAsk(j)')
    <3>1. CASE j = k
      BY <2>1, <2>3, <2>4, <2>5, <3>1
    <3>2. CASE j # k
      <4>1. Held(j) /\ j \notin crossed
        BY <2>1, <2>5, <3>2 DEF Held
      <4> QED
        BY <1>1, <2>3, <4>1 DEF AskInv, Withdrawn
    <3> QED
      BY <3>1, <3>2
  <2> QED
    BY <2>5 DEF AskInv, Withdrawn
<1>5. ASSUME NEW t \in Subscribers, NEW c \in Scopes, NEW k \in Keys, CancelSubscription(t, c, k)
      PROVE  AskInv'
  <2> DEFINE r == [kind |-> "unsubscribe", key |-> k]
  <2>1. /\ t \in Threads /\ sender[t] = Idle /\ subscriptions' = subscriptions \ {<<c, k>>}
        /\ sender' = [sender EXCEPT ![t] = Sending("find", r)]
        /\ crossed \subseteq crossed' /\ (Held(k)' => k \in crossed')
    BY <1>5 DEF CancelSubscription, Call, Threads
  <2>2. \A j : r = [kind |-> "unsubscribe", key |-> j] => j = k
    OBVIOUS
  <2> HIDE DEF r
  <2>3. /\ \A j : WillAsk(j) => WillAsk(j)'
        /\ \A j : Cancelling(j)' => Cancelling(j) \/ j = k
    BY <1>3, <2>1, <2>2
  <2>4. ASSUME NEW j \in Keys \ crossed', Held(j)'
        PROVE  ~Cancelling(j)' /\ (listed' => WillAsk(j)')
    <3>1. Held(j) /\ j \notin crossed /\ j # k
      BY <2>1, <2>4 DEF Held
    <3> QED
      BY <1>1, <2>3, <3>1 DEF AskInv, Withdrawn
  <2> QED
    BY <2>4 DEF AskInv, Withdrawn
<1>6. ASSUME NEW t \in Writers, NEW kind \in {"value", "removal"}, NEW k \in Keys, Write(t, kind, k)
      PROVE  AskInv'
  <2> DEFINE r == [kind |-> kind, key |-> k]
  <2>1. /\ t \in Threads /\ sender[t] = Idle /\ UNCHANGED <<subscriptions, crossed>>
        /\ sender' = [sender EXCEPT ![t] = Sending("find", r)]
    BY <1>6 DEF Write, Call, Threads
  <2>2. \A j : r # [kind |-> "unsubscribe", key |-> j]
    OBVIOUS
  <2> HIDE DEF r
  <2>3. /\ \A j : WillAsk(j) => WillAsk(j)'
        /\ \A j : Cancelling(j)' => Cancelling(j)
        /\ \A j : Held(j)' => Held(j)
    BY <1>3, <2>1, <2>2 DEF Held
  <2> QED
    BY <1>1, <2>1, <2>3 DEF AskInv, Withdrawn
<1> QED
  BY <1>4, <1>5, <1>6 DEF Application

\* With the records as they are, nothing more is taken back, as long as every
\* request was there before or is a subscription.
LEMMA StaysWithdrawn ==
  ASSUME AskInv, subscriptions' = subscriptions, crossed' = crossed,
         \A u \in Threads : sender'[u].at # "idle" =>
           \/ sender[u].at # "idle" /\ sender'[u].req = sender[u].req
           \/ sender'[u].req.kind = "subscribe"
  PROVE  Withdrawn' /\ \A k : Held(k)' => Held(k)
<1>1. \A k : Held(k)' => Held(k)
  BY DEF Held
<1>2. ASSUME NEW k, Cancelling(k)' PROVE Cancelling(k)
  BY <1>2 DEF Cancelling
<1> QED
  BY <1>1, <1>2 DEF AskInv, Withdrawn

\* A listed session is not closing: the tests before the lock lose no request.
LEMMA LookingAsks ==
  ASSUME SessionInv, AskInv, NEW t \in Threads, Looking(t)
  PROVE  AskInv'
<1>1. UNCHANGED <<listed, run, replay, wire, subscriptions, crossed>>
  BY DEF Looking, FindSession, TestClosing
<1>2. sender \in [Threads -> {Idle} \cup [at : {"find", "test", "lock"}, req : Request]]
  BY DEF SessionInv, Phases, TypeOK
<1>3. /\ sender[t].at # "idle"
      /\ \A u \in Threads : u # t => sender'[u] = sender[u]
      /\ \/ sender'[t] = Idle /\ ~listed
         \/ sender'[t] = Sending("test", sender[t].req)
         \/ sender'[t] = Sending("lock", sender[t].req)
  <2>1. listed => ~closing
    BY DEF SessionInv, Phases, ClosingPhases
  <2> QED
    BY <1>2, <2>1 DEF Looking, FindSession, TestClosing
<1>4. \/ sender'[t].at = "idle" /\ ~listed
      \/ sender'[t].at # "idle" /\ sender'[t].req = sender[t].req
  BY <1>3 DEF Sending, Idle
<1>5. Withdrawn' /\ \A k : Held(k)' => Held(k)
  BY <1>1, <1>3, <1>4, StaysWithdrawn
<1>6. ASSUME listed, NEW k, WillAsk(k) PROVE WillAsk(k)'
  <2>1. \A u \in Threads : sender[u].at # "idle" =>
          sender'[u].at # "idle" /\ sender'[u].req = sender[u].req
    BY <1>3, <1>4, <1>6
  <2>2. run' = run /\ replay' = replay /\ wire' = wire
    BY <1>1
  <2>3. Asked(k) => Asked(k)'
    BY <2>2 DEF Asked
  <2> QED
    BY <1>6, <2>1, <2>2, <2>3 DEF WillAsk
<1> QED
  BY <1>1, <1>5, <1>6 DEF AskInv

\* What a thread leaves behind when it has sent its request.
LEMMA RequestSent ==
  ASSUME SessionInv, AskInv, NEW t \in Threads, sender' = [sender EXCEPT ![t] = Idle],
         UNCHANGED <<subscriptions, crossed>>
  PROVE  /\ \A u \in Threads : u # t => sender'[u] = sender[u]
         /\ Withdrawn' /\ \A k : Held(k)' => Held(k)
<1>1. sender'[t] = Idle /\ \A u \in Threads : u # t => sender'[u] = sender[u]
  BY DEF SessionInv, Phases, TypeOK
<1>2. \A u \in Threads : sender'[u].at # "idle" => u # t
  BY <1>1 DEF Idle
<1> QED
  BY <1>1, <1>2, StaysWithdrawn

LEMMA SendAsks ==
  ASSUME SessionInv, AskInv, NEW t \in Threads, SendDirect(t) \/ SendPending(t)
  PROVE  AskInv'
<1>1. /\ sender[t].at = "lock" /\ sender' = [sender EXCEPT ![t] = Idle]
      /\ UNCHANGED <<listed, run, replay, subscriptions, crossed>>
  BY DEF SendDirect, SendPending
<1>2. /\ \A u \in Threads : u # t => sender'[u] = sender[u]
      /\ Withdrawn' /\ \A k : Held(k)' => Held(k)
  BY <1>1, RequestSent
<1>3. ASSUME listed, NEW k \in Keys \ crossed, Held(k) PROVE WillAsk(k)'
  <2>1. CASE run \in {"none", "loop", "connecting", "flush"}
    BY <1>1, <2>1 DEF WillAsk
  <2>2. CASE run \in {"replay", "ended"}
    <3> DEFINE f == Numbered(sender[t].req, accepted + 1)
    <3>1. channel /\ socket = "open"
      BY <1>3, <2>2 DEF SessionInv, Phases, ClosingPhases, RunPhases
    <3>2. wire' = Append(wire, f)
      BY <3>1 DEF SendDirect, SendPending, Offer
    <3>3. sender[t].req \in Request /\ wire \in Seq(Frame) /\ accepted + 1 \in Nat
      BY <1>1, SenderBusy DEF SessionInv, Phases, TypeOK
    <3>4. f \in Frame /\ f.kind = sender[t].req.kind /\ f.key = sender[t].req.key
      BY <3>3, NumberedFrame
    <3> HIDE DEF f
    <3>5. ~(f.kind = "unsubscribe" /\ f.key = k)
      <4>1. CASE sender[t].req = [kind |-> "unsubscribe", key |-> k]
        BY <1>1, <1>3, <4>1 DEF AskInv, Withdrawn, Cancelling
      <4>2. CASE sender[t].req # [kind |-> "unsubscribe", key |-> k]
        BY <3>3, <3>4, <4>2 DEF Request
      <4> QED
        BY <4>1, <4>2
    <3>6. WillAsk(k)
      BY <1>3 DEF AskInv
    <3>7. AskedIn(wire', k) => WillAsk(k)'
      BY DEF AskedIn, WillAsk, Asked
    <3>8. CASE \E r \in replay : r[2] = k
      BY <1>1, <3>8 DEF WillAsk
    <3>9. CASE Asked(k)
      <4>1. AskedIn(wire, k)
        BY <3>9 DEF Asked, AskedIn
      <4> QED
        BY <3>2, <3>3, <3>4, <3>5, <3>7, <4>1, AskedAppend
    <3>10. CASE \E u \in Threads : /\ sender[u].at # "idle"
                                   /\ sender[u].req = [kind |-> "subscribe", key |-> k]
      <4>1. PICK u \in Threads : /\ sender[u].at # "idle"
                                 /\ sender[u].req = [kind |-> "subscribe", key |-> k]
        BY <3>10
      <4>2. CASE u = t
        <5>1. f.kind = "subscribe" /\ f.key = k
          BY <3>4, <4>1, <4>2
        <5> QED
          BY <3>2, <3>3, <3>4, <3>7, <5>1, AskedAppend
      <4>3. CASE u # t
        BY <1>2, <4>1, <4>3 DEF WillAsk
      <4> QED
        BY <4>2, <4>3
    <3> QED
      BY <2>2, <3>6, <3>8, <3>9, <3>10 DEF WillAsk
  <2> QED
    BY <2>1, <2>2 DEF SessionInv, Phases, TypeOK
<1> QED
  BY <1>1, <1>2, <1>3 DEF AskInv

\* The coroutine and the closer: the replay takes over what was held, and ends
\* with nothing left to send.
LEMMA ControlAsks ==
  ASSUME SessionInv, AskInv, Control \/ Adopt \/ FlushNext \/ CloseTake
  PROVE  AskInv'
<1>1. subscriptions' = subscriptions
  BY DEF Control, AddSession, RunLoop, ConnectFails, Discard, StartReplay, ReplayNext, RunReturns,
         RemoveSession, CloseFlag, CloseChannel, Adopt, FlushNext, CloseTake
<1>2. sender \in [Threads -> {Idle} \cup [at : {"find", "test", "lock"}, req : Request]]
  BY DEF SessionInv, Phases, TypeOK
<1>3. CASE ReplayNext
  <2>1. PICK r \in replay :
          /\ replay' = replay \ {r} /\ sender[Run] = Idle
          /\ sender' = [sender EXCEPT ![Run] =
               Sending("test", [kind |-> "subscribe", key |-> r[2]])]
    BY <1>3 DEF ReplayNext
  <2>2. /\ Run \in Threads /\ sender[Run].at = "idle"
        /\ sender'[Run] = Sending("test", [kind |-> "subscribe", key |-> r[2]])
        /\ \A u \in Threads : u # Run => sender'[u] = sender[u]
    BY <1>2, <2>1 DEF Threads, Idle
  <2>3. /\ sender'[Run].at # "idle"
        /\ sender'[Run].req = [kind |-> "subscribe", key |-> r[2]]
        /\ sender'[Run].req.kind = "subscribe"
    BY <2>2 DEF Sending
  <2>5. run' = run /\ wire' = wire /\ listed' = listed /\ crossed' = crossed
    BY <1>3 DEF ReplayNext
  <2>4. Withdrawn' /\ \A k : Held(k)' => Held(k)
    BY <1>1, <2>2, <2>3, <2>5, StaysWithdrawn
  <2>6. ASSUME NEW k, WillAsk(k) PROVE WillAsk(k)'
    <3>1. CASE k = r[2]
      BY <2>2, <2>3, <3>1 DEF WillAsk
    <3>2. CASE k # r[2]
      <4>1. (\E x \in replay : x[2] = k) => \E x \in replay' : x[2] = k
        BY <2>1, <3>2
      <4>2. Asked(k) => Asked(k)'
        BY <2>5 DEF Asked
      <4>3. \A u \in Threads : sender[u].at # "idle" => sender'[u] = sender[u]
        BY <2>2
      <4> QED
        BY <2>5, <2>6, <4>1, <4>2, <4>3 DEF WillAsk
    <3> QED
      BY <3>1, <3>2
  <2> QED
    BY <2>4, <2>5, <2>6 DEF AskInv
<1>4. CASE ~ReplayNext
  <2>1. sender' = sender
    BY <1>4 DEF Control, AddSession, RunLoop, ConnectFails, Discard, StartReplay, RunReturns,
                RemoveSession, CloseFlag, CloseChannel, Adopt, FlushNext, CloseTake
  <2>0. /\ ~StartReplay => crossed' = crossed
        /\ StartReplay => crossed' = {k \in crossed : Cancelling(k)}
    BY <1>4 DEF Control, AddSession, RunLoop, ConnectFails, Discard, StartReplay, RunReturns,
                RemoveSession, CloseFlag, CloseChannel, Adopt, FlushNext, CloseTake
  <2>2. Withdrawn' /\ \A k : Held(k)' => Held(k)
    <3>1. CASE ~StartReplay
      BY <1>1, <2>0, <2>1, <3>1, StaysWithdrawn
    <3>2. CASE StartReplay
      BY <1>1, <2>0, <2>1, <3>2 DEF AskInv, Withdrawn, Held, Cancelling
    <3> QED
      BY <3>1, <3>2
  <2>3. CASE listed' /\ run' \in {"none", "loop", "connecting", "flush"}
    BY <2>2, <2>3 DEF AskInv, WillAsk
  <2>4. CASE ~listed'
    BY <2>2, <2>4 DEF AskInv
  <2>5. CASE StartReplay
    <3>1. replay' = subscriptions
      BY <2>5 DEF StartReplay
    <3>2. ASSUME NEW k \in Keys, Held(k) PROVE WillAsk(k)'
      <4>1. PICK s \in Scopes : <<s, k>> \in replay'
        BY <3>1, <3>2 DEF Held
      <4>2. \E r \in replay' : r[2] = k
        BY <4>1
      <4> QED
        BY <4>2 DEF WillAsk
    <3> QED
      BY <2>2, <3>2 DEF AskInv
  <2>6. CASE listed' /\ run' \in {"replay", "ended"} /\ ~StartReplay
    <3>1. /\ listed /\ ~closing /\ closer = "no"
      BY <1>4, <2>6 DEF Control, AddSession, RunLoop, ConnectFails, Discard, RunReturns,
                RemoveSession, CloseFlag, CloseChannel, Adopt, FlushNext, CloseTake,
                SessionInv, Phases, ClosingPhases
    <3>2. run \in {"replay", "ended"} /\ replay' = replay /\ wire' = wire
      BY <1>4, <2>6, <3>1 DEF Control, AddSession, RunLoop, ConnectFails, Discard, RunReturns,
                RemoveSession, CloseFlag, CloseChannel, Adopt, FlushNext, CloseTake
    <3>3. ASSUME NEW k, WillAsk(k) PROVE WillAsk(k)'
      <4>1. Asked(k) => Asked(k)'
        BY <3>2 DEF Asked
      <4> QED
        BY <2>1, <3>2, <3>3, <4>1 DEF WillAsk
    <3> QED
      BY <2>0, <2>2, <2>6, <3>1, <3>3 DEF AskInv
  <2>7. run' \in {"none", "loop", "connecting", "flush", "replay", "ended"}
    BY DEF SessionInv, Phases, TypeOK, Control, AddSession, RunLoop, ConnectFails,
         Discard, StartReplay, RunReturns, RemoveSession, CloseFlag, CloseChannel, ReplayNext,
         Adopt, FlushNext, CloseTake
  <2> QED
    BY <2>3, <2>4, <2>5, <2>6, <2>7
<1> QED
  BY <1>3, <1>4

LEMMA AskInvStep == SessionInv /\ AskInv /\ [Next]_vars => AskInv'
<1> SUFFICES ASSUME SessionInv, AskInv, [Next]_vars PROVE AskInv'
  OBVIOUS
<1>1. CASE UNCHANGED vars
  <2>1. /\ subscriptions' = subscriptions /\ sender' = sender /\ run' = run /\ replay' = replay
        /\ wire' = wire /\ listed' = listed /\ crossed' = crossed
    BY <1>1 DEF vars
  <2>2. Withdrawn' /\ \A k : Held(k)' => Held(k)
    BY <2>1, StaysWithdrawn
  <2>3. \A k : WillAsk(k) => WillAsk(k)'
    BY <2>1 DEF WillAsk, Asked
  <2> QED
    BY <2>1, <2>2, <2>3 DEF AskInv
<1> QED
  BY <1>1, StepKinds, ApplicationAsks, LookingAsks, SendAsks, ControlAsks

\* Whatever is subscribed to when the session is up and quiet was asked for, the
\* last thing said about it: whether it was registered before the component was
\* there, while frames waited or overflowed, or while the replay was under way.
\* Any number of threads subscribe, for any scopes; crossed is what a cancellation
\* that comes behind leaves out.
THEOREM ReplaySafety == Spec => []HeldIsAsked
<1>1. Init => AskInv
  <2> SUFFICES ASSUME Init PROVE AskInv
    OBVIOUS
  <2>1. \A t \in Threads : sender[t].at = "idle"
    BY DEF Init, Idle
  <2> QED
    BY <2>1 DEF Init, AskInv, Withdrawn, Held
<1>2. SessionInv /\ AskInv /\ [Next]_vars => AskInv'
  BY AskInvStep
<1>3. SessionInv /\ AskInv => HeldIsAsked
  <2> SUFFICES ASSUME SessionInv, AskInv, Quiet, NEW k \in Keys \ crossed, Held(k) PROVE Asked(k)
    BY DEF HeldIsAsked
  <2>1. run = "ended" /\ listed /\ \A t \in Threads : sender[t].at = "idle"
    BY DEF Quiet, Idle
  <2>2. replay = {}
    BY <2>1 DEF SessionInv, Phases, RunPhases
  <2> QED
    BY <2>1, <2>2 DEF AskInv, WillAsk
<1> QED
  BY <1>1, <1>2, <1>3, SessionInvInit, SessionInvStep, PTL DEF Spec
=============================================================================
