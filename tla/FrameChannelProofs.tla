------------------------- MODULE FrameChannelProofs -------------------------
(***************************************************************************)
(* Theorems about FrameChannel, for every number of threads and keys and   *)
(* every cap on the outbox.                                                *)
(***************************************************************************)
EXTENDS FrameChannel, SequenceTheorems, WellFoundedInduction, TLAPS

-----------------------------------------------------------------------------
(* What RemoveAt and ReplaceAt return.                                     *)

\* Erasing a list node: the others keep their order.
LEMMA RemoveAtFacts ==
  ASSUME NEW S, NEW s \in Seq(S), NEW d \in 1..Len(s)
  PROVE  /\ RemoveAt(s, d) \in Seq(S)
         /\ Len(RemoveAt(s, d)) = Len(s) - 1
         /\ \A i \in 1..Len(s)-1 :
              RemoveAt(s, d)[i] = IF i < d THEN s[i] ELSE s[i+1]
<1> DEFINE a == SubSeq(s, 1, d-1)
           b == SubSeq(s, d+1, Len(s))
<1>1. a \in Seq(S) /\ Len(a) = d-1 /\ \A i \in 1..d-1 : a[i] = s[i]
  OBVIOUS
<1>2. b \in Seq(S) /\ Len(b) = Len(s)-d /\ \A i \in 1..Len(s)-d : b[i] = s[d+i]
  OBVIOUS
<1>3. RemoveAt(s, d) = a \o b
  BY DEF RemoveAt
<1> HIDE DEF a, b
<1>4. a \o b \in Seq(S)
  BY <1>1, <1>2
<1>5. Len(a \o b) = Len(s)-1
  BY <1>1, <1>2
<1>6. ASSUME NEW i \in 1..Len(s)-1
      PROVE  (a \o b)[i] = IF i < d THEN s[i] ELSE s[i+1]
  <2>1. CASE i < d
    BY <1>1, <1>2, <2>1
  <2>2. CASE ~(i < d)
    <3>1. (a \o b)[i] = b[i - (d-1)]
      BY <1>1, <1>2, <2>2
    <3>2. i - (d-1) \in 1..Len(s)-d
      BY <2>2
    <3> QED
      BY <1>2, <3>1, <3>2, <2>2
  <2> QED
    BY <2>1, <2>2
<1> QED
  BY <1>3, <1>4, <1>5, <1>6

\* Overwriting a node's bytes: length and the other nodes stay.
LEMMA ReplaceAtFacts ==
  ASSUME NEW S, NEW s \in Seq(S), NEW d \in 1..Len(s), NEW x \in S
  PROVE  /\ ReplaceAt(s, d, x) \in Seq(S)
         /\ Len(ReplaceAt(s, d, x)) = Len(s)
         /\ \A i \in 1..Len(s) :
              ReplaceAt(s, d, x)[i] = IF i = d THEN x ELSE s[i]
  BY DEF ReplaceAt

\* The same of the frames in the outbox.
LEMMA OutboxReplaced ==
  ASSUME NEW q \in Seq(Outbound), NEW d \in 1..Len(q), NEW x \in Outbound,
         NEW q2, q2 = ReplaceAt(q, d, x)
  PROVE  /\ Len(q2) = Len(q)
         /\ \A i \in 1..Len(q) : q2[i] = IF i = d THEN x ELSE q[i]
  BY DEF ReplaceAt

-----------------------------------------------------------------------------
(* Types and the single writer                                             *)


LEMMA IncomingType ==
  ASSUME TypeOK, NEW t \in Threads, pc[t] = "send"
  PROVE  /\ Incoming(t) \in Frame
         /\ Incoming(t).n = sends + 1
         /\ Incoming(t).update = arg[t].update
         /\ Incoming(t).about = arg[t].about
         /\ CoalesceKey(Incoming(t)) \in Keys \cup {NoKey}
         /\ arg[t].about \in Keys
<1>1. arg[t] \in Frame /\ sends \in Nat
  BY DEF TypeOK
<1> QED
  BY <1>1 DEF Incoming, Frame, CoalesceKey

LEMMA PushBackType ==
  ASSUME TypeOK, NEW t \in Threads, pc[t] = "send",
         NEW room \in Seq(Outbound), NEW index \in [Keys -> Nat],
         PushBack(t, room, index)
  PROVE  TypeOK'
<1> DEFINE f == Incoming(t)
           node == [id |-> f.n, bytes |-> f, coalesce_key |-> CoalesceKey(f)]
<1>1. f \in Frame /\ f.n = sends + 1 /\ f.n \in Nat /\ f.about \in Keys
      /\ CoalesceKey(f) \in Keys \cup {NoKey} /\ f.update \in BOOLEAN
  BY IncomingType DEF Frame, TypeOK
<1> HIDE DEF f
<1>2. node \in Outbound
  BY <1>1 DEF Outbound
<1>3. outbox' = Append(room, node)
  BY DEF PushBack, f
<1>4. outbox' \in Seq(Outbound)
  BY <1>2, <1>3
<1>5. coalescable' \in [Keys -> Nat]
  BY <1>1 DEF PushBack, f
<1>6. /\ sends' \in Nat
      /\ latest' \in [Keys -> Nat]
      /\ controls' \in Seq(Nat)
  BY <1>1 DEF PushBack, Record, f, TypeOK
<1>7. /\ pc' \in [Threads -> {"idle", "send", "spawn", "close", "clear"}]
      /\ arg' \in [Threads -> Frame \cup {NoFrame}]
      /\ \A u \in Threads : pc'[u] \in {"send", "spawn"} => arg'[u] \in Frame
  BY <1>1 DEF PushBack, f, TypeOK
<1> QED
  BY <1>4, <1>5, <1>6, <1>7 DEF PushBack, TypeOK

LEMMA ErasedType ==
  ASSUME NEW index \in [Keys -> Nat], NEW k
  PROVE  Erased(index, k) \in [Keys -> Nat]
  BY DEF Erased

LEMMA EmptyTypes == <<>> \in Seq(Outbound) /\ [k \in Keys |-> 0] \in [Keys -> Nat]
  OBVIOUS

LEMMA NoFrameNotFrame == NoFrame \notin Frame
  BY KeysAssumption DEF NoFrame, Frame

LEMMA CoalescedType ==
  ASSUME TypeOK, NEW i \in 1..Len(outbox), NEW f \in Frame
  PROVE  [outbox[i] EXCEPT !.bytes = f] \in Outbound
<1>1. outbox[i] \in Outbound
  BY DEF TypeOK
<1> QED
  BY <1>1 DEF Outbound

LEMMA TypeStep == TypeOK /\ [Next]_vars => TypeOK'
<1> SUFFICES ASSUME TypeOK, [Next]_vars PROVE TypeOK'
  OBVIOUS
<1>1. ASSUME NEW t \in Threads, NEW k \in Keys, NEW u \in BOOLEAN,
             CallSend(t, k, u)
      PROVE  TypeOK'
  <2>1. [about |-> k, update |-> u, n |-> 0] \in Frame
    BY DEF Frame
  <2> QED
    BY <1>1, <2>1 DEF CallSend, TypeOK
<1>2. ASSUME NEW t \in Threads, SendCoalesce(t) PROVE TypeOK'
  <2>1. PICK i \in 1..Len(outbox) :
          outbox' = ReplaceAt(outbox, i, [outbox[i] EXCEPT !.bytes = Incoming(t)])
    BY <1>2 DEF SendCoalesce
  <2>2. Incoming(t) \in Frame /\ Incoming(t).n = sends + 1
        /\ Incoming(t).about \in Keys
    BY <1>2, IncomingType DEF SendCoalesce
  <2>3. outbox \in Seq(Outbound)
    BY DEF TypeOK
  <2>4. [outbox[i] EXCEPT !.bytes = Incoming(t)] \in Outbound
    BY <2>2, CoalescedType
  <2>5. outbox' \in Seq(Outbound)
    BY <2>1, <2>3, <2>4, ReplaceAtFacts
  <2>6. sends' \in Nat /\ latest' \in [Keys -> Nat] /\ controls' \in Seq(Nat)
    BY <1>2, <2>2 DEF SendCoalesce, Record, TypeOK, Frame
  <2> QED
    BY <1>2, <2>5, <2>6 DEF SendCoalesce, TypeOK
<1>3. ASSUME NEW t \in Threads, SendPush(t) PROVE TypeOK'
  BY <1>3, PushBackType DEF SendPush, TypeOK
<1>4. ASSUME NEW t \in Threads, SendDropping(t) PROVE TypeOK'
  <2>1. PICK i \in 1..Len(outbox) :
          PushBack(t, RemoveAt(outbox, i), Erased(coalescable, outbox[i].coalesce_key))
    BY <1>4 DEF SendDropping
  <2>2. RemoveAt(outbox, i) \in Seq(Outbound)
    BY RemoveAtFacts DEF TypeOK
  <2>3. Erased(coalescable, outbox[i].coalesce_key) \in [Keys -> Nat]
    BY ErasedType DEF TypeOK
  <2> QED
    BY <1>4, <2>1, <2>2, <2>3, PushBackType DEF SendDropping
<1>5. ASSUME NEW t \in Threads, SendOverfull(t) PROVE TypeOK'
  BY <1>5 DEF SendOverfull, TypeOK
<1>6. ASSUME NEW t \in Threads, Spawn(t) PROVE TypeOK'
  <2>1. [id |-> arg[t].n, next |-> NoFrame] \in [id : Nat, next : Frame \cup {NoFrame}]
    BY <1>6 DEF Spawn, TypeOK, Frame
  <2> QED
    BY <1>6, <2>1 DEF Spawn, TypeOK
<1>7. ASSUME NEW t \in Threads, CallClose(t) \/ CloseFlag(t) \/ CloseClear(t)
      PROVE  TypeOK'
  <2>1. CASE CallClose(t)
    BY <2>1 DEF CallClose, TypeOK
  <2>2. CASE CloseFlag(t)
    BY <2>2 DEF CloseFlag, TypeOK
  <2>3. CASE CloseClear(t)
    BY <2>3, EmptyTypes DEF CloseClear, TypeOK
  <2> QED
    BY <1>7, <2>1, <2>2, <2>3
<1>8. CASE StrandClose \/ PeerGone
  BY <1>8 DEF StrandClose, PeerGone, TypeOK
<1>9. ASSUME NEW d \in drains, DrainPop(d) PROVE TypeOK'
  <2>1. /\ Head(outbox) \in Outbound /\ Tail(outbox) \in Seq(Outbound)
        /\ d \in [id : Nat, next : Frame \cup {NoFrame}]
    BY <1>9 DEF DrainPop, TypeOK
  <2>2. [d EXCEPT !.next = Head(outbox).bytes] \in [id : Nat, next : Frame \cup {NoFrame}]
    BY <2>1 DEF Outbound
  <2>3. coalescable' \in [Keys -> Nat]
    BY <1>9, ErasedType DEF DrainPop, TypeOK
  <2> QED
    BY <1>9, <2>1, <2>2, <2>3 DEF DrainPop, TypeOK
<1>10. ASSUME NEW d \in drains, DrainExit(d) PROVE TypeOK'
  BY <1>10 DEF DrainExit, TypeOK
<1>11. ASSUME NEW d \in drains, DrainWrite(d) PROVE TypeOK'
  <2>1. /\ d \in [id : Nat, next : Frame \cup {NoFrame}]
        /\ d.next \in Frame
    BY <1>11 DEF DrainWrite, TypeOK
  <2>2. [d EXCEPT !.next = NoFrame] \in [id : Nat, next : Frame \cup {NoFrame}]
    BY <2>1
  <2>3. wire' \in Seq(Frame)
    BY <1>11, <2>1 DEF DrainWrite, TypeOK
  <2> QED
    BY <1>11, <2>2, <2>3 DEF DrainWrite, TypeOK
<1>12. ASSUME NEW d \in drains, DrainError(d) PROVE TypeOK'
  BY <1>12, EmptyTypes DEF DrainError, TypeOK
<1>13. CASE UNCHANGED vars
  BY <1>13 DEF vars, TypeOK
<1> QED
  BY <1>1, <1>2, <1>3, <1>4, <1>5, <1>6, <1>7, <1>8, <1>9, <1>10, <1>11, <1>12,
     <1>13 DEF Next, Finish, SendLocked, Drain

LEMMA TypeInit == Init => TypeOK
<1> SUFFICES ASSUME Init PROVE TypeOK
  OBVIOUS
<1>1. <<>> \in Seq(Frame) /\ <<>> \in Seq(Nat)
  OBVIOUS
<1>2. pc \in [Threads -> {"idle", "send", "spawn", "close", "clear"}]
      /\ arg \in [Threads -> Frame \cup {NoFrame}]
      /\ \A t \in Threads : pc[t] = "idle"
  BY DEF Init
<1> QED
  BY EmptyTypes, <1>1, <1>2 DEF Init, TypeOK

\* Every reachable state of a channel is well typed.
THEOREM TypeCorrect == Spec => []TypeOK
<1> QED
  BY TypeInit, TypeStep, PTL DEF Spec

-----------------------------------------------------------------------------
(* One writer, no lost wake-up, bounded memory                             *)

WriterInv == TypeOK /\ OneWriter /\ NoLostWakeup /\ Bounded

\* Pushing keeps the single writer: whoever finds writing_ false spawns.
LEMMA PushBackWriter ==
  ASSUME WriterInv, NEW t \in Threads, pc[t] = "send",
         NEW room, NEW index, PushBack(t, room, index)
  PROVE  OneWriter' /\ NoLostWakeup'
<1> USE DEF WriterInv
<1>1. writing' = TRUE /\ drains' = drains
  BY DEF PushBack
<1>2. CASE writing
  <2>1. Spawning' = Spawning
    BY <1>2 DEF PushBack, Spawning, TypeOK
  <2> QED
    BY <1>1, <1>2, <2>1 DEF OneWriter, NoLostWakeup
<1>3. CASE ~writing
  <2>1. Spawning = {} /\ drains = {}
    BY <1>3 DEF OneWriter
  <2>2. Spawning' = {t}
    BY <1>3, <2>1 DEF PushBack, Spawning, TypeOK
  <2> QED
    BY <1>1, <2>1, <2>2 DEF OneWriter, NoLostWakeup
<1> QED
  BY <1>2, <1>3 DEF TypeOK

LEMMA WriterStep == WriterInv /\ [Next]_vars => WriterInv'
<1> SUFFICES ASSUME WriterInv, [Next]_vars PROVE WriterInv'
  OBVIOUS
<1> USE DEF WriterInv
<1>0. TypeOK'
  BY TypeStep
<1> DEFINE Goal == OneWriter' /\ NoLostWakeup' /\ Bounded'
<1>1. ASSUME NEW t \in Threads, NEW k \in Keys, NEW u \in BOOLEAN,
             CallSend(t, k, u)
      PROVE  Goal
  <2>1. Spawning' = Spawning
    BY <1>1 DEF CallSend, Spawning, TypeOK
  <2> QED
    BY <1>1, <2>1 DEF CallSend, OneWriter, NoLostWakeup, Bounded
<1>2. ASSUME NEW t \in Threads, SendCoalesce(t) PROVE Goal
  <2>1. PICK i \in 1..Len(outbox) :
          outbox' = ReplaceAt(outbox, i, [outbox[i] EXCEPT !.bytes = Incoming(t)])
    BY <1>2 DEF SendCoalesce
  <2>2. Incoming(t) \in Frame
    BY <1>2, IncomingType DEF SendCoalesce
  <2>3. [outbox[i] EXCEPT !.bytes = Incoming(t)] \in Outbound
    BY <2>2, CoalescedType
  <2>4. Len(outbox') = Len(outbox)
    BY <2>1, <2>3, ReplaceAtFacts DEF TypeOK
  <2>5. Spawning' = Spawning /\ writing' = writing /\ closed' = closed /\ drains' = drains
    BY <1>2 DEF SendCoalesce, Spawning, TypeOK
  <2>6. outbox # <<>>
    BY <2>1 DEF TypeOK
  <2> QED
    BY <2>4, <2>5, <2>6 DEF OneWriter, NoLostWakeup, Bounded
<1>3. ASSUME NEW t \in Threads, SendPush(t) PROVE Goal
  <2>1. OneWriter' /\ NoLostWakeup'
    BY <1>3, PushBackWriter DEF SendPush
  <2>2. Len(outbox') = Len(outbox) + 1 /\ Len(outbox) < kMaxOutboxFrames
    BY <1>3, CapAssumption DEF SendPush, PushBack, Full, TypeOK
  <2> QED
    BY <2>1, <2>2, CapAssumption DEF Bounded, TypeOK
<1>4. ASSUME NEW t \in Threads, SendDropping(t) PROVE Goal
  <2>1. PICK i \in 1..Len(outbox) :
          PushBack(t, RemoveAt(outbox, i), Erased(coalescable, outbox[i].coalesce_key))
    BY <1>4 DEF SendDropping
  <2>2. /\ RemoveAt(outbox, i) \in Seq(Outbound)
        /\ Len(RemoveAt(outbox, i)) = Len(outbox) - 1
    BY RemoveAtFacts DEF TypeOK
  <2>3. Len(outbox') = Len(outbox)
    BY <2>1, <2>2 DEF PushBack, TypeOK
  <2>4. OneWriter' /\ NoLostWakeup'
    BY <1>4, <2>1, PushBackWriter DEF SendDropping
  <2> QED
    BY <2>3, <2>4 DEF Bounded
<1>5. ASSUME NEW t \in Threads, SendOverfull(t) PROVE Goal
  <2>1. Spawning' = Spawning
    BY <1>5 DEF SendOverfull, Spawning, TypeOK
  <2> QED
    BY <1>5, <2>1 DEF SendOverfull, OneWriter, NoLostWakeup, Bounded
<1>6. ASSUME NEW t \in Threads, Spawn(t) PROVE Goal
  <2>1. t \in Spawning /\ Spawning = {t}
    BY <1>6 DEF Spawn, Spawning, OneWriter
  <2>2. drains = {}
    BY <2>1 DEF OneWriter
  <2>3. Spawning' = {}
    BY <1>6, <2>1 DEF Spawn, Spawning, TypeOK
  <2> QED
    BY <1>6, <2>1, <2>2, <2>3 DEF Spawn, OneWriter, NoLostWakeup, Bounded
<1>7. ASSUME NEW t \in Threads, CallClose(t) \/ CloseFlag(t) PROVE Goal
  <2>1. Spawning' = Spawning
    BY <1>7 DEF CallClose, CloseFlag, Spawning, TypeOK
  <2> QED
    BY <1>7, <2>1 DEF CallClose, CloseFlag, OneWriter, NoLostWakeup, Bounded, TypeOK
<1>8. ASSUME NEW t \in Threads, CloseClear(t) PROVE Goal
  <2>1. Spawning' = Spawning
    BY <1>8 DEF CloseClear, Spawning, TypeOK
  <2> QED
    BY <1>8, <2>1, CapAssumption DEF CloseClear, OneWriter, NoLostWakeup, Bounded
<1>9. CASE StrandClose \/ PeerGone
  BY <1>0, <1>9 DEF StrandClose, PeerGone, OneWriter, Spawning, NoLostWakeup, Bounded
<1>10. ASSUME NEW d \in drains, DrainPop(d) PROVE Goal
  <2>1. drains = {d} /\ writing /\ Spawning = {}
    BY DEF OneWriter
  <2>2. drains' = {[d EXCEPT !.next = Head(outbox).bytes]} /\ Spawning' = {} /\ writing' = writing
    BY <1>10, <2>1 DEF DrainPop, Spawning
  <2>3. Len(outbox') = Len(outbox) - 1 /\ Len(outbox) \in Nat /\ Len(outbox) > 0
    BY <1>10 DEF DrainPop, TypeOK
  <2> QED
    BY <2>1, <2>2, <2>3, CapAssumption DEF OneWriter, NoLostWakeup, Bounded
<1>11. ASSUME NEW d \in drains, DrainExit(d) PROVE Goal
  <2>1. drains = {d} /\ writing /\ Spawning = {}
    BY DEF OneWriter
  <2> QED
    BY <1>11, <2>1 DEF DrainExit, OneWriter, Spawning, NoLostWakeup, Bounded
<1>12. ASSUME NEW d \in drains, DrainWrite(d) PROVE Goal
  <2>1. drains = {d} /\ writing /\ Spawning = {}
    BY DEF OneWriter
  <2> QED
    BY <1>12, <2>1 DEF DrainWrite, OneWriter, Spawning, NoLostWakeup, Bounded
<1>13. ASSUME NEW d \in drains, DrainError(d) PROVE Goal
  <2>1. drains = {d} /\ writing /\ Spawning = {}
    BY DEF OneWriter
  <2> QED
    BY <1>13, <2>1, CapAssumption DEF DrainError, OneWriter, Spawning, NoLostWakeup, Bounded
<1>14. CASE UNCHANGED vars
  BY <1>0, <1>14 DEF vars, OneWriter, Spawning, NoLostWakeup, Bounded
<1> QED
  BY <1>0, <1>1, <1>2, <1>3, <1>4, <1>5, <1>6, <1>7, <1>8, <1>9, <1>10, <1>11,
     <1>12, <1>13, <1>14 DEF Next, Finish, SendLocked, Drain

LEMMA WriterInit == Init => WriterInv
<1> SUFFICES ASSUME Init PROVE WriterInv
  OBVIOUS
<1>1. TypeOK
  BY TypeInit
<1>2. Spawning = {}
  BY DEF Init, Spawning
<1> QED
  BY <1>1, <1>2, CapAssumption DEF Init, WriterInv, OneWriter, NoLostWakeup, Bounded

\* Frames never interleave on the socket, none waits for a drain that is not
\* coming, and a peer that stopped reading costs a bounded queue.
THEOREM WriterSafety == Spec => [](OneWriter /\ NoLostWakeup /\ Bounded)
<1>1. WriterInv => OneWriter /\ NoLostWakeup /\ Bounded
  BY DEF WriterInv
<1> QED
  BY WriterInit, WriterStep, <1>1, PTL DEF Spec

-----------------------------------------------------------------------------
(* The queue: its index and its order, as facts about a list of nodes      *)

\* A node knows its key, and neither it nor its bytes are from the future.
NodesOK(q, s) ==
  \A i \in 1..Len(q) :
    /\ q[i].coalesce_key = CoalesceKey(q[i].bytes)
    /\ q[i].id \in 1..s
    /\ q[i].bytes.n \in 1..s

\* Nodes stand in the order they were made, updates of one pair in the order
\* they were accepted.
Ordered(q) ==
  \A i, j \in 1..Len(q) : i < j =>
    /\ q[i].id < q[j].id
    /\ q[i].coalesce_key # NoKey /\ q[i].coalesce_key = q[j].coalesce_key
       => q[i].bytes.n < q[j].bytes.n

\* The entries of the index point at the youngest node of their key.
Indexed(q, index) ==
  \A k \in Keys : index[k] # 0 =>
    \E i \in 1..Len(q) :
      /\ q[i].id = index[k]
      /\ q[i].coalesce_key = k
      /\ \A j \in 1..Len(q) : q[j].coalesce_key = k => j <= i

ListInv(q, index, s) == NodesOK(q, s) /\ Ordered(q) /\ Indexed(q, index)

\* Every node of q2 is one of q, or has bytes younger than s.
Newer(q2, q, s) ==
  \A i \in 1..Len(q2) :
    \/ \E j \in 1..Len(q) : q2[i] = q[j]
    \/ q2[i].bytes.n > s

Node(f) == [id |-> f.n, bytes |-> f, coalesce_key |-> CoalesceKey(f)]

\* push_back and insert_or_assign.
LEMMA ListPush ==
  ASSUME NEW q \in Seq(Outbound), NEW index \in [Keys -> Nat], NEW s \in Nat,
         NEW f \in Frame, f.n = s + 1, ListInv(q, index, s)
  PROVE  /\ ListInv(Append(q, Node(f)),
                    IF f.update THEN [index EXCEPT ![f.about] = f.n] ELSE index,
                    s + 1)
         /\ Newer(Append(q, Node(f)), q, s)
<1> DEFINE q2 == Append(q, Node(f))
           ix == IF f.update THEN [index EXCEPT ![f.about] = f.n] ELSE index
<1>1. f.about \in Keys /\ f.update \in BOOLEAN /\ f.n \in Nat
  BY DEF Frame
<1>2. /\ Len(q2) = Len(q) + 1
      /\ \A i \in 1..Len(q) : q2[i] = q[i]
      /\ q2[Len(q) + 1] = Node(f)
      /\ Len(q) \in Nat
  OBVIOUS
<1>3. /\ Node(f).id = s + 1 /\ Node(f).bytes = f
      /\ Node(f).coalesce_key = CoalesceKey(f)
      /\ f.update => CoalesceKey(f) = f.about
      /\ ~f.update => CoalesceKey(f) = NoKey
  BY DEF Node, CoalesceKey
<1> HIDE DEF q2
<1>4. NodesOK(q2, s + 1)
  <2> SUFFICES ASSUME NEW i \in 1..Len(q2)
               PROVE  /\ q2[i].coalesce_key = CoalesceKey(q2[i].bytes)
                      /\ q2[i].id \in 1..s+1
                      /\ q2[i].bytes.n \in 1..s+1
    BY DEF NodesOK
  <2>1. CASE i \in 1..Len(q)
    BY <1>2, <2>1 DEF ListInv, NodesOK
  <2>2. CASE i = Len(q) + 1
    BY <1>2, <1>3, <2>2
  <2> QED
    BY <1>2, <2>1, <2>2
<1>6. Ordered(q2)
  <2> SUFFICES ASSUME NEW i \in 1..Len(q2), NEW j \in 1..Len(q2), i < j
               PROVE  /\ q2[i].id < q2[j].id
                      /\ q2[i].coalesce_key # NoKey /\ q2[i].coalesce_key = q2[j].coalesce_key
                         => q2[i].bytes.n < q2[j].bytes.n
    BY DEF Ordered
  <2>1. CASE j \in 1..Len(q)
    <3>1. i \in 1..Len(q) /\ q2[i] = q[i] /\ q2[j] = q[j]
      BY <1>2, <2>1
    <3> QED
      BY <2>1, <3>1 DEF ListInv, Ordered
  <2>2. CASE j = Len(q) + 1
    <3>1. i \in 1..Len(q) /\ q2[i] = q[i] /\ q2[j] = Node(f)
      BY <1>2, <2>2
    <3>2. q[i].id \in 1..s /\ q[i].bytes.n \in 1..s
      BY <3>1 DEF ListInv, NodesOK
    <3> QED
      BY <3>1, <3>2, <1>3
  <2> QED
    BY <1>2, <2>1, <2>2
<1>7. Indexed(q2, ix)
  <2> SUFFICES ASSUME NEW k \in Keys, ix[k] # 0
               PROVE  \E i \in 1..Len(q2) :
                        /\ q2[i].id = ix[k]
                        /\ q2[i].coalesce_key = k
                        /\ \A j \in 1..Len(q2) : q2[j].coalesce_key = k => j <= i
    BY DEF Indexed
  <2>1. CASE f.update /\ k = f.about
    <3>1. ix[k] = s + 1
      BY <1>1, <2>1
    <3>2. Len(q) + 1 \in 1..Len(q2)
      BY <1>2
    <3>3. \A j \in 1..Len(q2) : j <= Len(q) + 1
      BY <1>2
    <3> QED
      BY <1>2, <1>3, <2>1, <3>1, <3>2, <3>3
  <2>2. CASE ~(f.update /\ k = f.about)
    <3>1. ix[k] = index[k]
      BY <1>1, <2>2
    <3>2. PICK i \in 1..Len(q) :
            /\ q[i].id = index[k]
            /\ q[i].coalesce_key = k
            /\ \A j \in 1..Len(q) : q[j].coalesce_key = k => j <= i
      BY <3>1 DEF ListInv, Indexed
    <3>3. q2[Len(q) + 1].coalesce_key # k
      BY <1>1, <1>2, <1>3, <2>2, KeysAssumption
    <3>4. \A j \in 1..Len(q2) : q2[j].coalesce_key = k => j <= i
      <4> SUFFICES ASSUME NEW j \in 1..Len(q2), q2[j].coalesce_key = k
                   PROVE  j <= i
        OBVIOUS
      <4>1. j \in 1..Len(q)
        BY <1>2, <3>3
      <4> QED
        BY <1>2, <3>2, <4>1
    <3>5. i \in 1..Len(q2) /\ q2[i] = q[i]
      BY <1>2
    <3> QED
      BY <3>1, <3>2, <3>4, <3>5
  <2> QED
    BY <2>1, <2>2
<1>8. Newer(q2, q, s)
  BY <1>1, <1>2, <1>3 DEF Newer
<1> QED
  BY <1>4, <1>6, <1>7, <1>8 DEF ListInv, q2

\* erase of a node, with its key's index entry.
LEMMA ListErase ==
  ASSUME NEW q \in Seq(Outbound), NEW index \in [Keys -> Nat], NEW s \in Nat,
         NEW d \in 1..Len(q), ListInv(q, index, s)
  PROVE  /\ ListInv(RemoveAt(q, d), Erased(index, q[d].coalesce_key), s)
         /\ Newer(RemoveAt(q, d), q, s)
<1> DEFINE q2 == RemoveAt(q, d)
           ix == Erased(index, q[d].coalesce_key)
           old(i) == IF i < d THEN i ELSE i + 1
<1>1. /\ Len(q2) = Len(q) - 1 /\ Len(q) \in Nat
      /\ \A i \in 1..Len(q2) : q2[i] = q[old(i)] /\ old(i) \in 1..Len(q) /\ old(i) # d
  <2>1. /\ Len(q2) = Len(q) - 1
        /\ \A i \in 1..Len(q)-1 : q2[i] = IF i < d THEN q[i] ELSE q[i+1]
    BY RemoveAtFacts
  <2>2. Len(q) \in Nat
    OBVIOUS
  <2> HIDE DEF q2
  <2> QED
    BY <2>1, <2>2
<1>2. \A i, j \in 1..Len(q2) : i < j => old(i) < old(j)
  BY <1>1
<1> HIDE DEF q2
<1>3. NodesOK(q2, s)
  BY <1>1 DEF ListInv, NodesOK
<1>4. Ordered(q2)
  BY <1>1, <1>2 DEF ListInv, Ordered
<1>5. Indexed(q2, ix)
  <2> SUFFICES ASSUME NEW k \in Keys, ix[k] # 0
               PROVE  \E i \in 1..Len(q2) :
                        /\ q2[i].id = ix[k]
                        /\ q2[i].coalesce_key = k
                        /\ \A j \in 1..Len(q2) : q2[j].coalesce_key = k => j <= i
    BY DEF Indexed
  <2>1. k # q[d].coalesce_key /\ ix[k] = index[k]
    BY DEF Erased
  <2>2. PICK i \in 1..Len(q) :
          /\ q[i].id = index[k]
          /\ q[i].coalesce_key = k
          /\ \A j \in 1..Len(q) : q[j].coalesce_key = k => j <= i
    BY <2>1 DEF ListInv, Indexed
  <2>3. i # d
    BY <2>1, <2>2
  <2> DEFINE h == IF i < d THEN i ELSE i - 1
  <2>4. h \in 1..Len(q2) /\ old(h) = i
    BY <1>1, <2>3
  <2>5. \A j \in 1..Len(q2) : q2[j].coalesce_key = k => j <= h
    <3> SUFFICES ASSUME NEW j \in 1..Len(q2), q2[j].coalesce_key = k
                 PROVE  j <= h
      OBVIOUS
    <3>1. old(j) <= i /\ old(j) # d
      BY <1>1, <2>2
    <3> QED
      BY <2>3, <3>1
  <2> HIDE DEF h
  <2> QED
    BY <1>1, <2>1, <2>2, <2>4, <2>5
<1>6. Newer(q2, q, s)
  BY <1>1 DEF Newer
<1> QED
  BY <1>3, <1>4, <1>5, <1>6 DEF ListInv, q2

\* pop_front is the erasure of the first node.
LEMMA TailIsErase ==
  ASSUME NEW S, NEW q \in Seq(S), q # <<>>
  PROVE  1 \in 1..Len(q) /\ Tail(q) = RemoveAt(q, 1)
<1>1. 1 \in 1..Len(q)
  OBVIOUS
<1>2. /\ RemoveAt(q, 1) \in Seq(S)
      /\ Len(RemoveAt(q, 1)) = Len(q) - 1
      /\ \A i \in 1..Len(q)-1 : RemoveAt(q, 1)[i] = IF i < 1 THEN q[i] ELSE q[i+1]
  BY <1>1, RemoveAtFacts
<1>3. /\ Tail(q) \in Seq(S)
      /\ Len(Tail(q)) = Len(q) - 1
      /\ \A i \in 1..Len(q)-1 : Tail(q)[i] = q[i+1]
  BY <1>1
<1>4. \A i \in 1..Len(Tail(q)) : Tail(q)[i] = RemoveAt(q, 1)[i]
  BY <1>2, <1>3
<1> QED
  BY <1>1, <1>2, <1>3, <1>4, SeqEqual

\* Coalescing: the node the index names takes the new update's bytes.
LEMMA ListReplace ==
  ASSUME NEW q \in Seq(Outbound), NEW index \in [Keys -> Nat], NEW s \in Nat,
         NEW f \in Frame, f.n = s + 1, f.update, ListInv(q, index, s),
         NEW d \in 1..Len(q), index[f.about] # 0, q[d].id = index[f.about]
  PROVE  /\ ListInv(ReplaceAt(q, d, [q[d] EXCEPT !.bytes = f]), index, s + 1)
         /\ Newer(ReplaceAt(q, d, [q[d] EXCEPT !.bytes = f]), q, s)
         /\ q[d].coalesce_key = f.about
<1> DEFINE x == [q[d] EXCEPT !.bytes = f]
           q2 == ReplaceAt(q, d, x)
<1>1. f.about \in Keys /\ f.about # NoKey /\ CoalesceKey(f) = f.about /\ Len(q) \in Nat
  BY KeysAssumption DEF Frame, CoalesceKey
<1>2. PICK i \in 1..Len(q) :
        /\ q[i].id = index[f.about]
        /\ q[i].coalesce_key = f.about
        /\ \A j \in 1..Len(q) : q[j].coalesce_key = f.about => j <= i
  BY <1>1 DEF ListInv, Indexed
<1>3. i = d
  <2>1. /\ i < d => q[i].id < q[d].id
        /\ d < i => q[d].id < q[i].id
    BY DEF ListInv, Ordered
  <2>2. q[i].id \in Nat
    BY DEF ListInv, NodesOK
  <2> QED
    BY <1>2, <2>1, <2>2
<1>4. q[d] \in Outbound
  OBVIOUS
<1>5. x \in Outbound /\ x.id = q[d].id /\ x.coalesce_key = f.about /\ x.bytes = f
  BY <1>2, <1>3, <1>4 DEF Outbound
<1> HIDE DEF x
<1>6. Len(q2) = Len(q) /\ \A j \in 1..Len(q) : q2[j] = IF j = d THEN x ELSE q[j]
  BY <1>5, ReplaceAtFacts
<1> HIDE DEF q2
<1>7. NodesOK(q2, s + 1)
  BY <1>1, <1>2, <1>3, <1>5, <1>6 DEF ListInv, NodesOK
<1>8. Ordered(q2)
  <2> SUFFICES ASSUME NEW a \in 1..Len(q), NEW b \in 1..Len(q), a < b
               PROVE  /\ q2[a].id < q2[b].id
                      /\ q2[a].coalesce_key # NoKey /\ q2[a].coalesce_key = q2[b].coalesce_key
                         => q2[a].bytes.n < q2[b].bytes.n
    BY <1>6 DEF Ordered
  <2>1. /\ q[a].id < q[b].id
        /\ q[a].coalesce_key # NoKey /\ q[a].coalesce_key = q[b].coalesce_key
           => q[a].bytes.n < q[b].bytes.n
        /\ q[a].bytes.n \in 1..s
    BY DEF ListInv, Ordered, NodesOK
  <2>2. CASE a = d
    <3>1. q[b].coalesce_key # f.about
      BY <1>2, <1>3, <2>2
    <3> QED
      BY <1>5, <1>6, <2>1, <2>2, <3>1
  <2>3. CASE b = d
    BY <1>5, <1>6, <2>1, <2>3
  <2>4. CASE a # d /\ b # d
    BY <1>6, <2>1, <2>4
  <2> QED
    BY <2>2, <2>3, <2>4
<1>9. \A j \in 1..Len(q) : q2[j].id = q[j].id /\ q2[j].coalesce_key = q[j].coalesce_key
  BY <1>2, <1>3, <1>5, <1>6
<1>10. Indexed(q2, index)
  <2> SUFFICES ASSUME NEW k \in Keys, index[k] # 0
               PROVE  \E j \in 1..Len(q2) :
                        /\ q2[j].id = index[k]
                        /\ q2[j].coalesce_key = k
                        /\ \A m \in 1..Len(q2) : q2[m].coalesce_key = k => m <= j
    BY DEF Indexed
  <2>1. PICK j \in 1..Len(q) :
          /\ q[j].id = index[k]
          /\ q[j].coalesce_key = k
          /\ \A m \in 1..Len(q) : q[m].coalesce_key = k => m <= j
    BY DEF ListInv, Indexed
  <2> QED
    BY <1>6, <1>9, <2>1
<1>11. Newer(q2, q, s)
  BY <1>5, <1>6 DEF Newer
<1> QED
  BY <1>2, <1>3, <1>7, <1>8, <1>10, <1>11 DEF ListInv, q2, x

-----------------------------------------------------------------------------
(* The order through the whole pipe: wire, the frame in hand, the queue    *)

\* The update f left the queue before every update of its pair in q.
Ahead(f, q) ==
  \A i \in 1..Len(q) :
    f.update /\ q[i].coalesce_key = f.about => f.n < q[i].bytes.n

HandFirst ==
  \A d \in drains : d.next # NoFrame =>
    d.next.n \in 1..sends /\ Ahead(d.next, outbox)

WireFirst ==
  \A w \in 1..Len(wire) :
    /\ wire[w].n \in 1..sends
    /\ Ahead(wire[w], outbox)
    /\ \A d \in drains :
         d.next # NoFrame /\ d.next.update /\ wire[w].update
           /\ d.next.about = wire[w].about => wire[w].n < d.next.n

\* The inductive invariant behind UpdatesInOrder and IndexSound.
ChannelInv ==
  /\ WriterInv
  /\ ListInv(outbox, coalescable, sends)
  /\ HandFirst
  /\ WireFirst
  /\ UpdatesInOrder

\* A step that only changes the queue, and only adds younger frames, keeps the
\* order of the pipe.
LEMMA QueueStep ==
  ASSUME ChannelInv, TypeOK',
         UNCHANGED <<drains, wire>>,
         sends' >= sends, Newer(outbox', outbox, sends)
  PROVE  HandFirst' /\ WireFirst' /\ UpdatesInOrder'
<1>1. sends \in Nat /\ sends' \in Nat
  BY DEF ChannelInv, WriterInv, TypeOK
<1>2. ASSUME NEW f, f.n \in 1..sends, Ahead(f, outbox)
      PROVE  f.n \in 1..sends' /\ Ahead(f, outbox')
  <2>1. ASSUME NEW i \in 1..Len(outbox'), f.update, outbox'[i].coalesce_key = f.about
        PROVE  f.n < outbox'[i].bytes.n
    <3>1. CASE \E j \in 1..Len(outbox) : outbox'[i] = outbox[j]
      BY <1>2, <2>1, <3>1 DEF Ahead
    <3>2. CASE outbox'[i].bytes.n > sends
      <4>0. outbox'[i] \in Outbound
        BY DEF TypeOK
      <4>1. outbox'[i].bytes.n \in Nat
        BY <4>0 DEF Outbound, Frame
      <4> QED
        BY <1>1, <1>2, <3>2, <4>1
    <3> QED
      BY <3>1, <3>2 DEF Newer
  <2> QED
    BY <1>1, <1>2, <2>1 DEF Ahead
<1>3. HandFirst'
  BY <1>2 DEF ChannelInv, HandFirst
<1>4. WireFirst'
  BY <1>2 DEF ChannelInv, WireFirst
<1>5. UpdatesInOrder'
  BY DEF ChannelInv, UpdatesInOrder
<1> QED
  BY <1>3, <1>4, <1>5

LEMMA ListEmpty ==
  ASSUME NEW s \in Nat, NEW q
  PROVE  ListInv(<<>>, [k \in Keys |-> 0], s) /\ Newer(<<>>, q, s)
  BY DEF ListInv, NodesOK, Ordered, Indexed, Newer

LEMMA ListSame ==
  ASSUME ChannelInv, UNCHANGED <<outbox, coalescable, sends>>
  PROVE  ListInv(outbox, coalescable, sends)' /\ Newer(outbox', outbox, sends)
  BY DEF ChannelInv, ListInv, NodesOK, Ordered, Indexed, Newer, CoalesceKey

LEMMA PushBackList ==
  ASSUME ChannelInv, NEW t \in Threads, pc[t] = "send",
         NEW room \in Seq(Outbound), NEW index \in [Keys -> Nat],
         ListInv(room, index, sends), PushBack(t, room, index)
  PROVE  /\ ListInv(outbox, coalescable, sends)'
         /\ Newer(outbox', room, sends)
         /\ sends' = sends + 1
<1> DEFINE f == Incoming(t)
<1>1. f \in Frame /\ f.n = sends + 1 /\ sends \in Nat
  BY IncomingType DEF ChannelInv, WriterInv, TypeOK
<1>2. /\ outbox' = Append(room, Node(f))
      /\ coalescable' = IF f.update THEN [index EXCEPT ![f.about] = f.n] ELSE index
      /\ sends' = sends + 1
  BY <1>1 DEF PushBack, Record, Node
<1> HIDE DEF f
<1>3. /\ ListInv(outbox', coalescable', sends')
      /\ Newer(outbox', room, sends)
  BY <1>1, <1>2, ListPush
<1> QED
  BY <1>2, <1>3 DEF ListInv, NodesOK, Ordered, Indexed, CoalesceKey

LEMMA NewerSubset ==
  ASSUME NEW q3, NEW q2, NEW q \in Seq(Outbound), NEW s \in Nat,
         Newer(q3, q2, s), Newer(q2, q, s)
  PROVE  Newer(q3, q, s)
  BY DEF Newer

LEMMA ChannelStep == ChannelInv /\ [Next]_vars => ChannelInv'
<1> SUFFICES ASSUME ChannelInv, [Next]_vars PROVE ChannelInv'
  OBVIOUS
<1>0. WriterInv' /\ TypeOK /\ TypeOK' /\ sends \in Nat
  BY WriterStep DEF ChannelInv, WriterInv, TypeOK
<1> DEFINE ListNext == ListInv(outbox, coalescable, sends)'
           PipeNext == HandFirst' /\ WireFirst' /\ UpdatesInOrder'
\* Steps that leave the wire and the drains alone need only their list facts.
<1>1. ASSUME ListNext, UNCHANGED <<drains, wire>>, sends' >= sends,
             Newer(outbox', outbox, sends)
      PROVE  ChannelInv'
  BY <1>0, <1>1, QueueStep DEF ChannelInv
<1>2. ASSUME UNCHANGED <<outbox, coalescable, sends, drains, wire>>
      PROVE  ChannelInv'
  BY <1>0, <1>1, <1>2, ListSame
<1>3. ASSUME NEW t \in Threads, NEW k \in Keys, NEW u \in BOOLEAN,
             CallSend(t, k, u)
      PROVE  ChannelInv'
  BY <1>2, <1>3 DEF CallSend
<1>4. ASSUME NEW t \in Threads, SendCoalesce(t) PROVE ChannelInv'
  <2> DEFINE f == Incoming(t)
  <2>1. PICK i \in 1..Len(outbox) :
          /\ outbox[i].id = coalescable[arg[t].about]
          /\ outbox' = ReplaceAt(outbox, i, [outbox[i] EXCEPT !.bytes = f])
    BY <1>4 DEF SendCoalesce
  <2>2. /\ f \in Frame /\ f.n = sends + 1 /\ f.update /\ f.about = arg[t].about
        /\ coalescable[f.about] # 0
        /\ sends' = sends + 1 /\ coalescable' = coalescable
        /\ UNCHANGED <<drains, wire>>
    BY <1>0, <1>4, IncomingType DEF SendCoalesce, Record
  <2> HIDE DEF f
  <2>3. /\ ListInv(outbox', coalescable', sends')
        /\ Newer(outbox', outbox, sends)
    <3>1. /\ outbox \in Seq(Outbound) /\ coalescable \in [Keys -> Nat]
          /\ ListInv(outbox, coalescable, sends)
      BY <1>0 DEF ChannelInv, TypeOK
    <3>2. outbox[i].id = coalescable[f.about]
      BY <2>1, <2>2
    <3>3. LET q2 == ReplaceAt(outbox, i, [outbox[i] EXCEPT !.bytes = f])
          IN  ListInv(q2, coalescable, sends + 1) /\ Newer(q2, outbox, sends)
      BY <1>0, <2>2, <3>1, <3>2, ListReplace
    <3> QED
      BY <2>1, <2>2, <3>3
  <2>4. ListNext
    BY <2>3 DEF ListInv, NodesOK, Ordered, Indexed, CoalesceKey
  <2> QED
    BY <1>0, <1>1, <2>2, <2>3, <2>4
<1>5. ASSUME NEW t \in Threads, SendPush(t) PROVE ChannelInv'
  <2>1. /\ ListNext /\ Newer(outbox', outbox, sends) /\ sends' = sends + 1
    BY <1>0, <1>5, PushBackList DEF SendPush, ChannelInv, TypeOK
  <2> QED
    BY <1>0, <1>1, <1>5, <2>1 DEF SendPush, PushBack
<1>6. ASSUME NEW t \in Threads, SendDropping(t) PROVE ChannelInv'
  <2>1. PICK i \in 1..Len(outbox) :
          PushBack(t, RemoveAt(outbox, i), Erased(coalescable, outbox[i].coalesce_key))
    BY <1>6 DEF SendDropping
  <2> DEFINE room == RemoveAt(outbox, i)
             index == Erased(coalescable, outbox[i].coalesce_key)
  <2>2. ListInv(room, index, sends) /\ Newer(room, outbox, sends)
    BY <1>0, ListErase DEF ChannelInv, TypeOK
  <2>3. room \in Seq(Outbound) /\ index \in [Keys -> Nat]
    BY <1>0, RemoveAtFacts, ErasedType DEF TypeOK
  <2>4. PushBack(t, room, index) /\ pc[t] = "send"
    BY <1>6, <2>1 DEF SendDropping
  <2> HIDE DEF room, index
  <2>5. /\ ListNext /\ Newer(outbox', room, sends) /\ sends' = sends + 1
    BY <2>2, <2>3, <2>4, PushBackList
  <2>6. Newer(outbox', outbox, sends)
    BY <1>0, <2>2, <2>5, NewerSubset DEF TypeOK
  <2> QED
    BY <1>0, <1>1, <2>4, <2>5, <2>6 DEF PushBack
<1>7. ASSUME NEW t \in Threads, SendOverfull(t) \/ CallClose(t) \/ CloseFlag(t)
      PROVE  ChannelInv'
  BY <1>2, <1>7 DEF SendOverfull, CallClose, CloseFlag
<1>8. ASSUME NEW t \in Threads, Spawn(t) PROVE ChannelInv'
  <2>1. ListNext
    BY <1>8, ListSame DEF Spawn
  <2>2. ASSUME NEW d \in drains', d.next # NoFrame PROVE d \in drains
    BY <1>8, <2>2 DEF Spawn
  <2>3. PipeNext
    BY <1>8, <2>2 DEF Spawn, ChannelInv, HandFirst, WireFirst, UpdatesInOrder, Ahead
  <2> QED
    BY <1>0, <2>1, <2>3 DEF ChannelInv
<1>9. ASSUME NEW t \in Threads, CloseClear(t) PROVE ChannelInv'
  <2>1. /\ ListInv(outbox', coalescable', sends') /\ Newer(outbox', outbox, sends)
        /\ sends' = sends /\ UNCHANGED <<drains, wire>>
    BY <1>0, <1>9, ListEmpty DEF CloseClear
  <2>2. ListNext
    BY <2>1 DEF ListInv, NodesOK, Ordered, Indexed, CoalesceKey
  <2> QED
    BY <1>0, <1>1, <2>1, <2>2
<1>10. CASE StrandClose \/ PeerGone
  BY <1>2, <1>10 DEF StrandClose, PeerGone
<1>11. ASSUME NEW d \in drains, DrainPop(d) PROVE ChannelInv'
  <2> DEFINE f == Head(outbox).bytes
  <2>1. /\ 1 \in 1..Len(outbox) /\ Head(outbox) = outbox[1]
        /\ outbox' = RemoveAt(outbox, 1) /\ sends' = sends /\ wire' = wire
        /\ coalescable' = Erased(coalescable, outbox[1].coalesce_key)
    BY <1>0, <1>11, TailIsErase DEF DrainPop, TypeOK
  <2>2. ListInv(outbox', coalescable', sends') /\ Newer(outbox', outbox, sends)
    BY <1>0, <2>1, ListErase DEF ChannelInv, TypeOK
  <2>3. ListNext
    BY <2>2 DEF ListInv, NodesOK, Ordered, Indexed, CoalesceKey
  <2>4. /\ f = outbox[1].bytes /\ f.n \in 1..sends /\ f \in Frame
        /\ f.update => outbox[1].coalesce_key = f.about /\ f.about # NoKey
    <3>1. outbox[1] \in Outbound
      BY <1>0, <2>1 DEF TypeOK
    <3>2. f \in Frame /\ f = outbox[1].bytes
      BY <2>1, <3>1 DEF Outbound
    <3>3. f.n \in 1..sends /\ outbox[1].coalesce_key = CoalesceKey(f)
      BY <2>1, <3>2 DEF ChannelInv, ListInv, NodesOK
    <3> QED
      BY <3>2, <3>3, KeysAssumption DEF CoalesceKey, Frame
  <2> HIDE DEF f
  <2>5. \A i \in 1..Len(outbox') : i + 1 \in 1..Len(outbox) /\ outbox'[i] = outbox[i + 1]
    <3>1. /\ Len(outbox') = Len(outbox) - 1 /\ Len(outbox) \in Nat
          /\ \A i \in 1..Len(outbox)-1 :
               outbox'[i] = IF i < 1 THEN outbox[i] ELSE outbox[i+1]
      <4>1. outbox \in Seq(Outbound)
        BY <1>0 DEF TypeOK
      <4>2. /\ Len(RemoveAt(outbox, 1)) = Len(outbox) - 1
            /\ \A i \in 1..Len(outbox)-1 :
                 RemoveAt(outbox, 1)[i] = IF i < 1 THEN outbox[i] ELSE outbox[i+1]
        BY <2>1, <4>1, RemoveAtFacts
      <4> QED
        BY <2>1, <4>1, <4>2
    <3> QED
      BY <3>1
  <2>6. Ahead(f, outbox')
    <3> SUFFICES ASSUME NEW i \in 1..Len(outbox'), f.update,
                        outbox'[i].coalesce_key = f.about
                 PROVE  f.n < outbox'[i].bytes.n
      BY DEF Ahead
    <3>1. i + 1 \in 1..Len(outbox) /\ outbox'[i] = outbox[i + 1] /\ 1 < i + 1
      BY <2>5
    <3> QED
      BY <2>1, <2>4, <3>1 DEF ChannelInv, ListInv, Ordered
  <2>7. ASSUME NEW g, Ahead(g, outbox) PROVE Ahead(g, outbox')
    BY <2>5, <2>7 DEF Ahead
  <2>8. drains = {d}
    BY DEF ChannelInv, WriterInv, OneWriter
  <2>9. drains' = {[d EXCEPT !.next = f]}
    BY <1>11, <2>8 DEF DrainPop, f
  <2>10. \A e \in drains' : e.next = f
    <3>1. [d EXCEPT !.next = f].next = f
      BY <1>0 DEF TypeOK
    <3> QED
      BY <2>9, <3>1
  <2>11. HandFirst'
    BY <2>1, <2>4, <2>6, <2>10 DEF HandFirst
  <2>12. WireFirst'
    <3> SUFFICES ASSUME NEW w \in 1..Len(wire)
                 PROVE  /\ wire[w].n \in 1..sends
                        /\ Ahead(wire[w], outbox')
                        /\ f.update /\ wire[w].update /\ f.about = wire[w].about
                             => wire[w].n < f.n
      BY <2>1, <2>10 DEF WireFirst
    <3>1. wire[w].n \in 1..sends /\ Ahead(wire[w], outbox)
      BY DEF ChannelInv, WireFirst
    <3> QED
      BY <2>1, <2>4, <2>7, <3>1 DEF Ahead
  <2> QED
    BY <1>0, <2>1, <2>3, <2>11, <2>12 DEF ChannelInv, UpdatesInOrder
<1>12. ASSUME NEW d \in drains, DrainExit(d) PROVE ChannelInv'
  <2>1. ListNext
    BY <1>12, ListSame DEF DrainExit
  <2>2. PipeNext
    BY <1>12 DEF DrainExit, ChannelInv, HandFirst, WireFirst, UpdatesInOrder, Ahead
  <2> QED
    BY <1>0, <2>1, <2>2 DEF ChannelInv
<1>13. ASSUME NEW d \in drains, DrainWrite(d) PROVE ChannelInv'
  <2>1. ListNext
    BY <1>13, ListSame DEF DrainWrite
  <2>2. drains = {d}
    BY DEF ChannelInv, WriterInv, OneWriter
  <2>3. \A e \in drains' : e.next = NoFrame
    <3>1. [d EXCEPT !.next = NoFrame].next = NoFrame
      BY <1>0 DEF TypeOK
    <3> QED
      BY <1>13, <2>2, <3>1 DEF DrainWrite
  <2>4. /\ d.next \in Frame /\ d.next.n \in 1..sends /\ Ahead(d.next, outbox)
        /\ UNCHANGED <<outbox, sends>>
    BY <1>0, <1>13 DEF DrainWrite, ChannelInv, HandFirst, TypeOK
  <2>5. /\ Len(wire') = Len(wire) + 1 /\ Len(wire) \in Nat
        /\ wire'[Len(wire) + 1] = d.next
        /\ \A w \in 1..Len(wire) : wire'[w] = wire[w]
    BY <1>0, <1>13 DEF DrainWrite, TypeOK
  <2>6. HandFirst'
    BY <2>3 DEF HandFirst
  <2>7. WireFirst'
    <3> SUFFICES ASSUME NEW w \in 1..Len(wire')
                 PROVE  wire'[w].n \in 1..sends /\ Ahead(wire'[w], outbox)
      BY <2>3, <2>4 DEF WireFirst
    <3>1. CASE w \in 1..Len(wire)
      BY <2>5, <3>1 DEF ChannelInv, WireFirst
    <3>2. CASE w = Len(wire) + 1
      BY <2>4, <2>5, <3>2
    <3> QED
      BY <2>5, <3>1, <3>2
  <2>8. UpdatesInOrder'
    <3> SUFFICES ASSUME NEW i \in 1..Len(wire'), NEW j \in 1..Len(wire'), i < j,
                        wire'[i].update, wire'[j].update,
                        wire'[i].about = wire'[j].about
                 PROVE  wire'[i].n < wire'[j].n
      BY DEF UpdatesInOrder
    <3>1. i \in 1..Len(wire) /\ wire'[i] = wire[i]
      BY <2>5
    <3>2. CASE j \in 1..Len(wire)
      BY <2>5, <3>1, <3>2 DEF ChannelInv, UpdatesInOrder
    <3>3. CASE j = Len(wire) + 1
      BY <1>13, <2>5, <3>1, <3>3 DEF DrainWrite, ChannelInv, WireFirst
    <3> QED
      BY <2>5, <3>2, <3>3
  <2> QED
    BY <1>0, <2>1, <2>6, <2>7, <2>8 DEF ChannelInv
<1>14. ASSUME NEW d \in drains, DrainError(d) PROVE ChannelInv'
  <2>1. ListInv(outbox', coalescable', sends') /\ outbox' = <<>>
    BY <1>0, <1>14, ListEmpty DEF DrainError
  <2>2. ListNext
    BY <2>1 DEF ListInv, NodesOK, Ordered, Indexed, CoalesceKey
  <2>3. \A g : Ahead(g, outbox')
    BY <2>1 DEF Ahead
  <2>4. PipeNext
    BY <1>14, <2>3 DEF DrainError, ChannelInv, HandFirst, WireFirst, UpdatesInOrder
  <2> QED
    BY <1>0, <2>2, <2>4 DEF ChannelInv
<1>15. CASE UNCHANGED vars
  BY <1>2, <1>15 DEF vars
<1> QED
  BY <1>3, <1>4, <1>5, <1>6, <1>7, <1>8, <1>9, <1>10, <1>11, <1>12, <1>13,
     <1>14, <1>15 DEF Next, Finish, SendLocked, Drain

LEMMA ChannelInit == Init => ChannelInv
<1> SUFFICES ASSUME Init PROVE ChannelInv
  OBVIOUS
<1>1. ListInv(outbox, coalescable, sends)
  BY ListEmpty DEF Init
<1> QED
  BY <1>1, WriterInit DEF Init, ChannelInv, HandFirst, WireFirst, UpdatesInOrder

\* Coalescing never writes through a dangling iterator, and the values of a
\* pair never go backwards at the peer, for any cap, keys and threads.
THEOREM UpdateOrder == Spec => [](IndexSound /\ UpdatesInOrder)
<1>1. ChannelInv => IndexSound /\ UpdatesInOrder
  BY DEF ChannelInv, ListInv, Indexed, IndexSound
<1> QED
  BY ChannelInit, ChannelStep, <1>1, PTL DEF Spec

\* However send(), drainOutbox() and close() interleave on any number of
\* threads: the outbox is bounded, the index of it never dangles, and there is
\* one drain while there is something to write.
THEOREM QueueSafety == Spec => []QueueSound
<1> QED
  BY WriterSafety, UpdateOrder, PTL DEF QueueSound

-----------------------------------------------------------------------------
(* Control frames are kept                                                 *)

\* What the droppable frames of the queue are not: control frames.
UpdatesAreNotControls ==
  \A c \in 1..Len(controls) :
    /\ controls[c] \in 1..sends
    /\ \A i \in 1..Len(outbox) :
         outbox[i].coalesce_key # NoKey => outbox[i].bytes.n # controls[c]

\* A thread inside close()'s locked section has set closed_.
ClosersClosed == \A t \in Threads : pc[t] = "clear" => closed

\* Frame n is in the list q, in the hands of one of ds, or in w.
InPipe(n, q, ds, w) ==
  \/ \E d \in ds : d.next.n = n
  \/ \E i \in 1..Len(q) : q[i].bytes.n = n
  \/ \E i \in 1..Len(w) : w[i].n = n

KeptInv == ChannelInv /\ UpdatesAreNotControls /\ ClosersClosed /\ ControlsKept

\* Taking in the frame f next to the list room keeps every control frame, if
\* all that room lacks of outbox is an update.
LEMMA KeptPush ==
  ASSUME KeptInv, NEW t \in Threads, pc[t] = "send",
         NEW room \in Seq(Outbound), NEW index, PushBack(t, room, index),
         \A i \in 1..Len(room) : \E j \in 1..Len(outbox) : room[i] = outbox[j],
         \A j \in 1..Len(outbox) : \/ outbox[j].coalesce_key # NoKey
                                  \/ \E i \in 1..Len(room) : room[i] = outbox[j]
  PROVE  UpdatesAreNotControls' /\ ControlsKept'
<1> DEFINE f == Incoming(t)
<1>0. TypeOK /\ sends \in Nat /\ controls \in Seq(Nat)
  BY DEF KeptInv, ChannelInv, WriterInv, TypeOK
<1>1. /\ f \in Frame /\ f.n = sends + 1 /\ f.update \in BOOLEAN
  BY <1>0, IncomingType DEF Frame
<1>2. /\ outbox' = Append(room, Node(f)) /\ sends' = sends + 1
      /\ controls' = IF f.update THEN controls ELSE Append(controls, f.n)
      /\ UNCHANGED <<closed, drains, socket, wire>>
  BY <1>1 DEF PushBack, Record, Node
<1>3. /\ Node(f).bytes = f /\ (Node(f).coalesce_key # NoKey => f.update)
  BY DEF Node, CoalesceKey
<1> HIDE DEF f
<1>4. /\ Len(outbox') = Len(room) + 1 /\ Len(room) \in Nat
      /\ outbox'[Len(room) + 1] = Node(f)
      /\ \A i \in 1..Len(room) : outbox'[i] = room[i]
  BY <1>2
<1>5. ASSUME NEW c \in 1..Len(controls')
      PROVE  \/ c \in 1..Len(controls) /\ controls'[c] = controls[c]
             \/ ~f.update /\ controls'[c] = sends + 1
  BY <1>0, <1>1, <1>2
<1>6. UpdatesAreNotControls'
  <2> SUFFICES ASSUME NEW c \in 1..Len(controls')
               PROVE  /\ controls'[c] \in 1..sends'
                      /\ \A i \in 1..Len(outbox') :
                           outbox'[i].coalesce_key # NoKey
                             => outbox'[i].bytes.n # controls'[c]
    BY DEF UpdatesAreNotControls
  <2>1. controls'[c] \in 1..sends'
    BY <1>0, <1>2, <1>5 DEF KeptInv, UpdatesAreNotControls
  <2>2. ASSUME NEW i \in 1..Len(outbox'), outbox'[i].coalesce_key # NoKey
        PROVE  outbox'[i].bytes.n # controls'[c]
    <3>1. CASE i = Len(room) + 1
      <4>1. f.update /\ outbox'[i].bytes = f
        BY <1>3, <1>4, <2>2, <3>1
      <4>2. controls'[c] \in 1..sends
        BY <1>5, <4>1 DEF KeptInv, UpdatesAreNotControls
      <4> QED
        BY <1>0, <1>1, <4>1, <4>2
    <3>2. CASE i \in 1..Len(room)
      <4>1. PICK j \in 1..Len(outbox) : outbox'[i] = outbox[j]
        BY <1>4, <3>2
      <4>2. outbox[j].bytes.n \in 1..sends
        BY DEF KeptInv, ChannelInv, ListInv, NodesOK
      <4> QED
        <5>1. CASE c \in 1..Len(controls) /\ controls'[c] = controls[c]
          BY <2>2, <4>1, <5>1 DEF KeptInv, UpdatesAreNotControls
        <5>2. CASE controls'[c] = sends + 1
          BY <1>0, <4>1, <4>2, <5>2
        <5> QED
          BY <1>5, <5>1, <5>2
    <3> QED
      BY <1>4, <3>1, <3>2
  <2> QED
    BY <2>1, <2>2
<1>7. ControlsKept'
  <2> SUFFICES ASSUME ~closed, socket = "open", NEW c \in 1..Len(controls')
               PROVE  InPipe(controls'[c], outbox', drains', wire')
    BY <1>2 DEF ControlsKept, Queued, Written, InPipe
  <2>1. CASE c \in 1..Len(controls) /\ controls'[c] = controls[c]
    <3>1. InPipe(controls[c], outbox, drains, wire)
      BY <2>1 DEF KeptInv, ControlsKept, Queued, Written, InPipe
    <3>2. CASE \E w \in 1..Len(wire) : wire[w].n = controls[c]
      BY <1>2, <2>1, <3>2 DEF InPipe
    <3>3. CASE \E d \in drains : d.next.n = controls[c]
      BY <1>2, <2>1, <3>3 DEF InPipe
    <3>4. ASSUME NEW j \in 1..Len(outbox), outbox[j].bytes.n = controls[c]
          PROVE  InPipe(controls'[c], outbox', drains', wire')
      <4>1. outbox[j].coalesce_key = NoKey
        BY <2>1, <3>4 DEF KeptInv, UpdatesAreNotControls
      <4>2. PICK i \in 1..Len(room) : room[i] = outbox[j]
        BY <4>1
      <4>3. i \in 1..Len(outbox') /\ outbox'[i] = outbox[j]
        BY <1>4, <4>2
      <4> QED
        BY <2>1, <3>4, <4>3 DEF InPipe
    <3> QED
      BY <3>1, <3>2, <3>3, <3>4 DEF InPipe
  <2>2. CASE controls'[c] = sends + 1
    <3>1. /\ Len(room) + 1 \in 1..Len(outbox')
          /\ outbox'[Len(room) + 1].bytes.n = controls'[c]
      BY <1>1, <1>3, <1>4, <2>2
    <3> QED
      BY <3>1 DEF InPipe
  <2> QED
    BY <1>5, <2>1, <2>2
<1> QED
  BY <1>6, <1>7

LEMMA KeptStep == KeptInv /\ [Next]_vars => KeptInv'
<1> SUFFICES ASSUME KeptInv, [Next]_vars PROVE KeptInv'
  OBVIOUS
<1>0. /\ ChannelInv' /\ TypeOK /\ sends \in Nat /\ outbox \in Seq(Outbound)
      /\ ClosersClosed /\ controls \in Seq(Nat)
  BY ChannelStep DEF KeptInv, ChannelInv, WriterInv, TypeOK
<1> DEFINE Goal == UpdatesAreNotControls' /\ ClosersClosed' /\ ControlsKept'
\* Steps that touch neither the pipe nor the connection.
<1>1. ASSUME UNCHANGED <<outbox, drains, wire, controls, sends>>,
             closed => closed', socket # "open" => socket' # "open"
      PROVE  UpdatesAreNotControls' /\ ControlsKept'
  BY <1>1 DEF KeptInv, UpdatesAreNotControls, ControlsKept, Queued, Written
\* Steps after which the connection is given up.
<1>2. ASSUME closed' \/ socket' # "open", UNCHANGED <<controls, sends>>,
             outbox' = <<>> \/ outbox' = outbox
      PROVE  UpdatesAreNotControls' /\ ControlsKept'
  BY <1>2 DEF KeptInv, UpdatesAreNotControls, ControlsKept
<1>3. ASSUME NEW t \in Threads, NEW k \in Keys, NEW u \in BOOLEAN,
             CallSend(t, k, u)
      PROVE  Goal
  BY <1>0, <1>1, <1>3 DEF CallSend, ClosersClosed, TypeOK
<1>4. ASSUME NEW t \in Threads, SendCoalesce(t) PROVE Goal
  <2> DEFINE f == Incoming(t)
  <2>1. PICK i \in 1..Len(outbox) :
          /\ outbox[i].id = coalescable[arg[t].about]
          /\ outbox' = ReplaceAt(outbox, i, [outbox[i] EXCEPT !.bytes = f])
    BY <1>4 DEF SendCoalesce
  <2>2. /\ f \in Frame /\ f.n = sends + 1 /\ f.update /\ f.about = arg[t].about
        /\ coalescable[f.about] # 0
        /\ sends' = sends + 1 /\ controls' = controls
        /\ UNCHANGED <<drains, wire, closed, socket>>
    BY <1>0, <1>4, IncomingType DEF SendCoalesce, Record
  <2> HIDE DEF f
  <2>3. outbox[i].coalesce_key # NoKey
    <3>1. /\ coalescable \in [Keys -> Nat] /\ ListInv(outbox, coalescable, sends)
          /\ f.about \in Keys
      BY <1>0, <2>2 DEF KeptInv, ChannelInv, TypeOK, Frame
    <3>2. outbox[i].id = coalescable[f.about]
      BY <2>1, <2>2
    <3>3. outbox[i].coalesce_key = f.about
      BY <1>0, <2>2, <3>1, <3>2, ListReplace
    <3> QED
      BY <3>1, <3>3, KeysAssumption
  <2> DEFINE x == [outbox[i] EXCEPT !.bytes = f]
  <2>4. x \in Outbound /\ x.bytes = f
    <3>1. outbox[i] \in Outbound
      BY <1>0
    <3> QED
      BY <2>2, <3>1 DEF Outbound
  <2> HIDE DEF x
  <2>5. /\ Len(outbox') = Len(outbox)
        /\ \A j \in 1..Len(outbox) : outbox'[j] = IF j = i THEN x ELSE outbox[j]
    <3>1. outbox \in Seq(Outbound) /\ i \in 1..Len(outbox) /\ x \in Outbound
      BY <1>0, <2>1, <2>4
    <3>2. outbox' = ReplaceAt(outbox, i, x)
      BY <2>1 DEF x
    <3> QED
      BY <3>1, <3>2, OutboxReplaced
  <2>6. UpdatesAreNotControls'
    <3> SUFFICES ASSUME NEW c \in 1..Len(controls)
                 PROVE  /\ controls[c] \in 1..sends + 1
                        /\ \A j \in 1..Len(outbox) :
                             outbox'[j].coalesce_key # NoKey
                               => outbox'[j].bytes.n # controls[c]
      BY <2>2, <2>5 DEF UpdatesAreNotControls
    <3>1. controls[c] \in 1..sends
      BY DEF KeptInv, UpdatesAreNotControls
    <3>2. ASSUME NEW j \in 1..Len(outbox), outbox'[j].coalesce_key # NoKey
          PROVE  outbox'[j].bytes.n # controls[c]
      <4>1. CASE j = i
        BY <1>0, <2>2, <2>4, <2>5, <3>1, <4>1
      <4>2. CASE j # i
        BY <2>5, <3>2, <4>2 DEF KeptInv, UpdatesAreNotControls
      <4> QED
        BY <4>1, <4>2
    <3> QED
      BY <1>0, <3>1, <3>2
  <2>7. ControlsKept'
    <3> SUFFICES ASSUME ~closed, socket = "open", NEW c \in 1..Len(controls)
                 PROVE  InPipe(controls[c], outbox', drains, wire)
      BY <2>2 DEF ControlsKept, Queued, Written, InPipe
    <3>1. InPipe(controls[c], outbox, drains, wire)
      BY DEF KeptInv, ControlsKept, Queued, Written, InPipe
    <3>2. ASSUME NEW j \in 1..Len(outbox), outbox[j].bytes.n = controls[c]
          PROVE  outbox'[j].bytes.n = controls[c]
      <4>1. j # i
        BY <2>3, <3>2 DEF KeptInv, UpdatesAreNotControls
      <4> QED
        BY <2>5, <3>2, <4>1
    <3> QED
      BY <2>5, <3>1, <3>2 DEF InPipe
  <2>8. ClosersClosed'
    BY <1>0, <1>4 DEF SendCoalesce, ClosersClosed, TypeOK
  <2> QED
    BY <2>6, <2>7, <2>8
<1>5. ASSUME NEW t \in Threads, SendPush(t) PROVE Goal
  <2>1. UpdatesAreNotControls' /\ ControlsKept'
    BY <1>0, <1>5, KeptPush DEF SendPush
  <2>2. ClosersClosed'
    BY <1>0, <1>5 DEF SendPush, PushBack, ClosersClosed, TypeOK
  <2> QED
    BY <2>1, <2>2
<1>6. ASSUME NEW t \in Threads, SendDropping(t) PROVE Goal
  <2>1. PICK i \in 1..Len(outbox) :
          /\ outbox[i].coalesce_key # NoKey
          /\ PushBack(t, RemoveAt(outbox, i), Erased(coalescable, outbox[i].coalesce_key))
    BY <1>6 DEF SendDropping, OldestDroppable, Droppable
  <2> DEFINE room == RemoveAt(outbox, i)
             index == Erased(coalescable, outbox[i].coalesce_key)
  <2>2. /\ room \in Seq(Outbound) /\ Len(room) = Len(outbox) - 1
        /\ \A j \in 1..Len(outbox)-1 :
             room[j] = IF j < i THEN outbox[j] ELSE outbox[j+1]
    BY <1>0, RemoveAtFacts
  <2>3. PushBack(t, room, index) /\ pc[t] = "send"
    BY <1>6, <2>1 DEF SendDropping
  <2> HIDE DEF room, index
  <2>4. Len(outbox) \in Nat
    BY <1>0
  <2>5. \A j \in 1..Len(room) : \E m \in 1..Len(outbox) : room[j] = outbox[m]
    BY <2>2, <2>4
  <2>6. ASSUME NEW m \in 1..Len(outbox), m # i
        PROVE  \E j \in 1..Len(room) : room[j] = outbox[m]
    <3>1. CASE m < i
      BY <2>2, <2>4, <3>1
    <3>2. CASE m > i
      <4>1. m - 1 \in 1..Len(room) /\ room[m - 1] = outbox[m]
        BY <2>2, <2>4, <3>2
      <4> QED
        BY <4>1
    <3> QED
      BY <2>6, <3>1, <3>2
  <2>7. UpdatesAreNotControls' /\ ControlsKept'
    BY <2>1, <2>2, <2>3, <2>5, <2>6, KeptPush
  <2>8. ClosersClosed'
    BY <1>0, <2>3 DEF PushBack, ClosersClosed, TypeOK
  <2> QED
    BY <2>7, <2>8
<1>7. ASSUME NEW t \in Threads, SendOverfull(t) \/ CallClose(t) PROVE Goal
  BY <1>0, <1>1, <1>7 DEF SendOverfull, CallClose, ClosersClosed, TypeOK
<1>8. ASSUME NEW t \in Threads, Spawn(t) PROVE Goal
  <2>1. drains \subseteq drains' /\ UNCHANGED <<outbox, wire, controls, sends, closed, socket>>
    BY <1>8 DEF Spawn
  <2>2. UpdatesAreNotControls' /\ ControlsKept'
    BY <2>1 DEF KeptInv, UpdatesAreNotControls, ControlsKept, Queued, Written
  <2>3. ClosersClosed'
    BY <1>0, <1>8 DEF Spawn, ClosersClosed, TypeOK
  <2> QED
    BY <2>2, <2>3
<1>9. ASSUME NEW t \in Threads, CloseFlag(t) PROVE Goal
  BY <1>0, <1>2, <1>9 DEF CloseFlag, ClosersClosed
<1>10. ASSUME NEW t \in Threads, CloseClear(t) PROVE Goal
  BY <1>0, <1>2, <1>10 DEF CloseClear, ClosersClosed
<1>11. CASE StrandClose \/ PeerGone
  BY <1>0, <1>2, <1>11 DEF StrandClose, PeerGone, ClosersClosed, KeptInv
<1>12. ASSUME NEW d \in drains, DrainPop(d) PROVE Goal
  <2>1. /\ 1 \in 1..Len(outbox) /\ Head(outbox) = outbox[1] /\ Len(outbox) \in Nat
        /\ Len(outbox') = Len(outbox) - 1
        /\ \A i \in 1..Len(outbox)-1 : outbox'[i] = outbox[i+1]
        /\ UNCHANGED <<sends, wire, controls, closed, socket>>
    BY <1>0, <1>12 DEF DrainPop
  <2>2. UpdatesAreNotControls'
    BY <2>1 DEF KeptInv, UpdatesAreNotControls
  <2>3. drains = {d} /\ d.next.n = 0
    BY <1>12 DEF KeptInv, ChannelInv, WriterInv, OneWriter, DrainPop, NoFrame
  <2>4. \E e \in drains' : e.next = outbox[1].bytes
    <3>1. [d EXCEPT !.next = outbox[1].bytes].next = outbox[1].bytes
      BY <1>0 DEF TypeOK
    <3> QED
      BY <1>12, <2>1, <3>1 DEF DrainPop
  <2>5. ControlsKept'
    <3> SUFFICES ASSUME ~closed, socket = "open", NEW c \in 1..Len(controls)
                 PROVE  InPipe(controls[c], outbox', drains', wire)
      BY <2>1 DEF ControlsKept, Queued, Written, InPipe
    <3>1. InPipe(controls[c], outbox, drains, wire) /\ controls[c] # 0
      BY DEF KeptInv, ControlsKept, Queued, Written, InPipe, UpdatesAreNotControls
    <3>2. ASSUME NEW j \in 1..Len(outbox), outbox[j].bytes.n = controls[c]
          PROVE  InPipe(controls[c], outbox', drains', wire)
      <4>1. CASE j = 1
        BY <2>4, <3>2, <4>1 DEF InPipe
      <4>2. CASE j # 1
        <5>1. j - 1 \in 1..Len(outbox') /\ outbox'[j - 1] = outbox[j]
          BY <2>1, <4>2
        <5> QED
          BY <3>2, <5>1 DEF InPipe
      <4> QED
        BY <4>1, <4>2
    <3> QED
      BY <2>3, <3>1, <3>2 DEF InPipe
  <2>6. ClosersClosed'
    BY <1>0, <1>12 DEF DrainPop, ClosersClosed
  <2> QED
    BY <2>2, <2>5, <2>6
<1>13. ASSUME NEW d \in drains, DrainExit(d) PROVE Goal
  <2>1. d.next.n = 0 /\ drains' = drains \ {d}
        /\ UNCHANGED <<outbox, wire, controls, sends, closed, socket, pc>>
    BY <1>13 DEF DrainExit, NoFrame
  <2>2. ControlsKept'
    <3> SUFFICES ASSUME ~closed, socket = "open", NEW c \in 1..Len(controls)
                 PROVE  InPipe(controls[c], outbox, drains', wire)
      BY <2>1 DEF ControlsKept, Queued, Written, InPipe
    <3>1. InPipe(controls[c], outbox, drains, wire) /\ controls[c] # 0
      BY DEF KeptInv, ControlsKept, Queued, Written, InPipe, UpdatesAreNotControls
    <3> QED
      BY <2>1, <3>1 DEF InPipe
  <2> QED
    BY <1>0, <2>1, <2>2 DEF KeptInv, UpdatesAreNotControls, ClosersClosed
<1>14. ASSUME NEW d \in drains, DrainWrite(d) PROVE Goal
  <2>1. /\ Len(wire') = Len(wire) + 1 /\ Len(wire) \in Nat
        /\ wire'[Len(wire) + 1] = d.next
        /\ \A w \in 1..Len(wire) : wire'[w] = wire[w]
    <3>1. wire \in Seq(Frame) /\ wire' = Append(wire, d.next)
      BY <1>0, <1>14 DEF DrainWrite, TypeOK
    <3> QED
      BY <3>1
  <2>2. drains = {d} /\ UNCHANGED <<outbox, controls, sends, closed, socket, pc>>
    BY <1>14 DEF KeptInv, ChannelInv, WriterInv, OneWriter, DrainWrite
  <2>3. ControlsKept'
    <3> SUFFICES ASSUME ~closed, socket = "open", NEW c \in 1..Len(controls)
                 PROVE  InPipe(controls[c], outbox, drains', wire')
      BY <2>2 DEF ControlsKept, Queued, Written, InPipe
    <3>1. InPipe(controls[c], outbox, drains, wire)
      BY DEF KeptInv, ControlsKept, Queued, Written, InPipe
    <3>2. CASE d.next.n = controls[c]
      <4>1. Len(wire) + 1 \in 1..Len(wire') /\ wire'[Len(wire) + 1].n = controls[c]
        BY <2>1, <3>2
      <4> QED
        BY <4>1 DEF InPipe
    <3>3. ASSUME NEW w \in 1..Len(wire), wire[w].n = controls[c]
          PROVE  w \in 1..Len(wire') /\ wire'[w].n = controls[c]
      BY <2>1, <3>3
    <3> QED
      BY <2>2, <3>1, <3>2, <3>3 DEF InPipe
  <2> QED
    BY <1>0, <2>2, <2>3 DEF KeptInv, UpdatesAreNotControls, ClosersClosed
<1>15. ASSUME NEW d \in drains, DrainError(d) PROVE Goal
  BY <1>0, <1>2, <1>15 DEF DrainError, ClosersClosed
<1>16. CASE UNCHANGED vars
  BY <1>0, <1>1, <1>16 DEF vars, ClosersClosed, KeptInv
<1> QED
  BY <1>0, <1>3, <1>4, <1>5, <1>6, <1>7, <1>8, <1>9, <1>10, <1>11, <1>12, <1>13,
     <1>14, <1>15, <1>16 DEF KeptInv, Next, Finish, SendLocked, Drain

\* A removal or a subscription is never dropped in silence: on a connection
\* that lives, every accepted control frame is queued, in hand or written.
THEOREM ControlSafety == Spec => []ControlsKept
<1>1. Init => KeptInv
  <2> SUFFICES ASSUME Init PROVE KeptInv
    OBVIOUS
  <2>1. ChannelInv
    BY ChannelInit
  <2> QED
    BY <2>1 DEF Init, KeptInv, UpdatesAreNotControls, ClosersClosed, ControlsKept
<1>2. KeptInv => ControlsKept
  BY DEF KeptInv
<1> QED
  BY <1>1, <1>2, KeptStep, PTL DEF Spec

-----------------------------------------------------------------------------
(* The refinement.  What the peer has received is defined by recursion on  *)
(* the wire and by a maximum; both need induction, here over sets.         *)

LEMMA LeastNatural ==
  ASSUME NEW T, T \subseteq Nat, T # {}
  PROVE  \E x \in T : \A y \in T : x <= y
<1> DEFINE R == {p \in Nat \X Nat : p[1] < p[2]}
<1>1. IsWellFoundedOn(R, Nat)
  BY NatLessThanWellFounded DEF OpToRel
<1>2. PICK x \in T : \A y \in T : ~ (<<y, x>> \in R)
  BY <1>1, WFMin
<1>3. \A y \in T : y \in Nat /\ ~(y < x)
  BY <1>2
<1>4. \A y \in T : x <= y
  BY <1>3
<1> QED
  BY <1>4

LEMMA SetInduction ==
  ASSUME NEW S, 0 \in S, \A n \in Nat : n \in S => n + 1 \in S
  PROVE  Nat \subseteq S
<1> SUFFICES ASSUME Nat \ S # {} PROVE FALSE
  OBVIOUS
<1>1. PICK x \in Nat \ S : \A y \in Nat \ S : x <= y
  BY LeastNatural
<1>2. x \in Nat /\ x # 0 /\ x - 1 \in Nat /\ x - 1 \in S
  BY <1>1
<1> QED
  BY <1>1, <1>2

\* A bounded set of numbers has a maximum.
LEMMA MaxFacts ==
  ASSUME NEW n \in Nat, NEW T, T \subseteq 1..n, T # {}
  PROVE  Max(T) \in T /\ \A y \in T : y <= Max(T)
<1> DEFINE U == {n - i : i \in T}
<1>1. U \subseteq Nat /\ U # {}
  <2>1. \A i \in T : n - i \in Nat
    OBVIOUS
  <2> QED
    BY <2>1
<1>2. PICK x \in U : \A y \in U : x <= y
  <2> HIDE DEF U
  <2> QED
    BY <1>1, LeastNatural
<1>3. PICK m \in T : x = n - m
  BY <1>2
<1>4. \A i \in T : n - m <= n - i
  BY <1>2, <1>3
<1>5. \A i \in T : m >= i
  BY <1>4
<1>6. \E z \in T : \A y \in T : z >= y
  BY <1>5
<1>7. Max(T) \in T /\ \A y \in T : Max(T) >= y
  BY <1>6 DEF Max
<1>8. \A y \in T : y \in Int
  OBVIOUS
<1> QED
  BY <1>7, <1>8

\* The steps of Passed.
Passes(p, w, n) ==
  p = [i \in 0..n |->
         IF i = 0 THEN <<>>
         ELSE IF w[i].update THEN p[i - 1] ELSE Append(p[i - 1], w[i].n)]

\* One of them.
Passing(r, f) == IF f.update THEN r ELSE Append(r, f.n)

LEMMA PassesAt ==
  ASSUME NEW p, NEW w, NEW n \in Nat, Passes(p, w, n)
  PROVE  p[0] = <<>> /\ \A i \in 1..n : p[i] = Passing(p[i - 1], w[i])
<1>1. \A i \in 0..n : p[i] = IF i = 0 THEN <<>> ELSE Passing(p[i - 1], w[i])
  BY DEF Passes, Passing
<1>2. 0 \in 0..n /\ \A i \in 1..n : i \in 0..n /\ i # 0
  OBVIOUS
<1> QED
  BY <1>1, <1>2

LEMMA PassesExists ==
  ASSUME NEW w, NEW m \in Nat
  PROVE  \E p : Passes(p, w, m)
<1> DEFINE S == {n \in Nat : \E p : Passes(p, w, n)}
<1>1. 0 \in S
  <2> DEFINE p == [i \in 0..0 |-> <<>>]
  <2>1. Passes(p, w, 0)
    BY DEF Passes
  <2> QED
    BY <2>1
<1>2. ASSUME NEW n \in Nat, n \in S PROVE n + 1 \in S
  <2>1. PICK p : Passes(p, w, n)
    BY <1>2
  <2> DEFINE g == [i \in 0..n + 1 |-> IF i = n + 1 THEN Passing(p[n], w[n + 1]) ELSE p[i]]
  <2>2. p[0] = <<>> /\ \A i \in 1..n : p[i] = Passing(p[i - 1], w[i])
    BY <2>1, PassesAt
  <2>3. \A i \in 0..n : g[i] = p[i]
    OBVIOUS
  <2>4. g[n + 1] = Passing(p[n], w[n + 1])
    OBVIOUS
  <2>5. ASSUME NEW i \in 0..n + 1
        PROVE  g[i] = IF i = 0 THEN <<>> ELSE Passing(g[i - 1], w[i])
    <3>1. CASE i = n + 1
      BY <2>3, <2>4, <3>1
    <3>2. CASE i = 0
      BY <2>2, <2>3, <3>2
    <3>3. CASE i \in 1..n
      <4>1. i \in 0..n /\ i - 1 \in 0..n /\ i # 0
        BY <3>3
      <4> QED
        BY <2>2, <2>3, <3>3, <4>1
    <3> QED
      BY <3>1, <3>2, <3>3
  <2>6. g = [i \in 0..n + 1 |-> IF i = 0 THEN <<>> ELSE Passing(g[i - 1], w[i])]
    BY <2>5
  <2>7. Passes(g, w, n + 1)
    BY <2>6 DEF Passes, Passing
  <2> HIDE DEF g
  <2> QED
    BY <2>7
<1>3. Nat \subseteq S
  <2> HIDE DEF S
  <2> QED
    BY <1>1, <1>2, SetInduction
<1> QED
  BY <1>3

LEMMA PassedIs ==
  ASSUME NEW w, Len(w) \in Nat
  PROVE  \E p : Passes(p, w, Len(w)) /\ Passed(w) = p[Len(w)]
<1> DEFINE p == CHOOSE x : Passes(x, w, Len(w))
<1>1. Passes(p, w, Len(w))
  BY PassesExists
<1>2. Passed(w) = p[Len(w)]
  BY DEF Passed, Passes
<1> HIDE DEF p
<1> QED
  BY <1>1, <1>2

LEMMA PassedEmpty == Passed(<<>>) = <<>>
<1>1. Len(<<>>) = 0
  OBVIOUS
<1>2. PICK p : Passes(p, <<>>, 0) /\ Passed(<<>>) = p[0]
  BY <1>1, PassedIs
<1> QED
  BY <1>2, PassesAt

\* A frame written adds itself if it is a control frame.
LEMMA PassedAppend ==
  ASSUME NEW M, NEW w \in Seq(M), NEW f \in M
  PROVE  Passed(Append(w, f)) = Passing(Passed(w), f)
<1> DEFINE v == Append(w, f)
<1>1. /\ Len(w) \in Nat /\ Len(v) = Len(w) + 1 /\ v[Len(w) + 1] = f
      /\ \A i \in 1..Len(w) : v[i] = w[i]
  OBVIOUS
<1> HIDE DEF v
<1>2. PICK p : Passes(p, w, Len(w)) /\ Passed(w) = p[Len(w)]
  BY <1>1, PassedIs
<1>3. PICK g : Passes(g, v, Len(w) + 1) /\ Passed(v) = g[Len(w) + 1]
  BY <1>1, PassedIs
<1>4. /\ p[0] = <<>> /\ \A i \in 1..Len(w) : p[i] = Passing(p[i - 1], w[i])
      /\ g[0] = <<>> /\ \A i \in 1..Len(w) + 1 : g[i] = Passing(g[i - 1], v[i])
  BY <1>1, <1>2, <1>3, PassesAt
<1> DEFINE S == {n \in Nat : n <= Len(w) => g[n] = p[n]}
<1>5. 0 \in S
  BY <1>4
<1>6. ASSUME NEW n \in Nat, n \in S PROVE n + 1 \in S
  <2> SUFFICES ASSUME n + 1 <= Len(w) PROVE g[n + 1] = p[n + 1]
    OBVIOUS
  <2>1. /\ n + 1 \in 1..Len(w) /\ n + 1 \in 1..Len(w) + 1 /\ (n + 1) - 1 = n /\ n <= Len(w)
    BY <1>1
  <2>2. g[n] = p[n]
    BY <1>6, <2>1
  <2> QED
    BY <1>1, <1>4, <2>1, <2>2
<1>7. Nat \subseteq S
  <2> HIDE DEF S
  <2> QED
    BY <1>5, <1>6, SetInduction
<1>8. g[Len(w)] = p[Len(w)]
  BY <1>1, <1>7
<1>9. Len(w) + 1 \in 1..Len(w) + 1 /\ (Len(w) + 1) - 1 = Len(w)
  BY <1>1
<1>10. Passed(v) = Passing(Passed(w), f)
  BY <1>1, <1>2, <1>3, <1>4, <1>8, <1>9
<1> QED
  BY <1>10 DEF v

-----------------------------------------------------------------------------
(* Where the control frames are, as sets of serials                        *)

\* The queued ones, and the one a drain holds.
Waiting(q) == {q[i].id : i \in {j \in 1..Len(q) : q[j].coalesce_key = NoKey}}
InHand(ds) == {d.next.n : d \in {e \in ds : e.next # NoFrame /\ ~e.next.update}}

Serials(cs) == {cs[i] : i \in 1..Len(cs)}

\* The control frames cs in flight: r have arrived, W wait and H are in hand.
\* What is in hand is the next one on an open socket, and as long as the channel
\* lives exactly those that have not arrived are on their way.
Flows(W, H, cs, r, s, open, alive) ==
  /\ \A i \in 1..Len(cs) : cs[i] \in 1..s
  /\ \A i, j \in 1..Len(cs) : i < j => cs[i] < cs[j]
  /\ W \subseteq Serials(cs) /\ H \subseteq Serials(cs)
  /\ \A h \in H, w \in W : h < w
  /\ Len(r) <= Len(cs) /\ \A i \in 1..Len(r) : r[i] = cs[i]
  /\ open => \A h \in H : Len(r) < Len(cs) /\ h = cs[Len(r) + 1]
  /\ alive => \A i \in 1..Len(cs) : i > Len(r) <=> cs[i] \in W \cup H

\* The connection is given up, or another frame is numbered.
LEMMA FlowsLess ==
  ASSUME NEW W, NEW H, NEW cs \in Seq(Nat), NEW r \in Seq(Nat), NEW s \in Nat, NEW s2 \in Nat,
         NEW open \in BOOLEAN, NEW alive \in BOOLEAN, NEW open2 \in BOOLEAN, NEW alive2 \in BOOLEAN,
         Flows(W, H, cs, r, s, open, alive), s <= s2, open2 => open, alive2 => alive
  PROVE  Flows(W, H, cs, r, s2, open2, alive2)
BY DEF Flows

\* What waits is thrown away.
LEMMA FlowsCleared ==
  ASSUME NEW W, NEW H, NEW cs \in Seq(Nat), NEW r \in Seq(Nat), NEW s \in Nat,
         NEW open \in BOOLEAN, NEW alive \in BOOLEAN, NEW open2 \in BOOLEAN, NEW alive2, NEW H2,
         Flows(W, H, cs, r, s, open, alive), open2 => open, ~alive2, H2 \subseteq H
  PROVE  Flows({}, H2, cs, r, s, open2, alive2)
BY DEF Flows

\* A control frame is accepted.
LEMMA FlowsAccepted ==
  ASSUME NEW W, NEW H, NEW cs \in Seq(Nat), NEW r \in Seq(Nat), NEW s \in Nat,
         NEW open \in BOOLEAN, NEW alive \in BOOLEAN,
         Flows(W, H, cs, r, s, open, alive)
  PROVE  Flows(W \cup {s + 1}, H, Append(cs, s + 1), r, s + 1, open, alive)
<1> DEFINE c2 == Append(cs, s + 1)
<1>1. /\ Len(cs) \in Nat /\ Len(c2) = Len(cs) + 1 /\ c2[Len(cs) + 1] = s + 1
      /\ \A i \in 1..Len(cs) : c2[i] = cs[i]
      /\ Len(r) \in Nat
  OBVIOUS
<1> HIDE DEF c2
<1>2. /\ \A i \in 1..Len(cs) : cs[i] \in 1..s
      /\ Len(r) <= Len(cs)
  BY DEF Flows
<1>3. \A i \in 1..Len(c2) : i \in 1..Len(cs) \/ i = Len(cs) + 1
  BY <1>1
<1>4. Serials(c2) = Serials(cs) \cup {s + 1}
  <2>1. \A x \in Serials(cs) : x \in Serials(c2)
    <3>1. \A i \in 1..Len(cs) : i \in 1..Len(c2) /\ c2[i] = cs[i]
      BY <1>1
    <3> QED
      BY <3>1 DEF Serials
  <2>2. s + 1 \in Serials(c2)
    <3>1. Len(cs) + 1 \in 1..Len(c2)
      BY <1>1
    <3> QED
      BY <1>1, <3>1 DEF Serials
  <2>3. \A x \in Serials(c2) : x \in Serials(cs) \cup {s + 1}
    BY <1>1, <1>3 DEF Serials
  <2> QED
    BY <2>1, <2>2, <2>3
<1>5. \A h \in H : h \in 1..s
  BY <1>2 DEF Flows, Serials
<1>6. \A w \in W : w \in 1..s
  BY <1>2 DEF Flows, Serials
<1>7. \A i \in 1..Len(c2) : c2[i] \in 1..s + 1
  BY <1>1, <1>2, <1>3
<1>8. ASSUME NEW i \in 1..Len(c2), NEW j \in 1..Len(c2), i < j PROVE c2[i] < c2[j]
  <2>1. i \in 1..Len(cs)
    BY <1>1, <1>8
  <2>2. CASE j \in 1..Len(cs)
    BY <1>1, <1>8, <2>1, <2>2 DEF Flows
  <2>3. CASE j = Len(cs) + 1
    <3>1. c2[j] = s + 1 /\ c2[i] = cs[i] /\ cs[i] \in 1..s
      BY <1>1, <1>2, <2>1, <2>3
    <3> QED
      BY <3>1
  <2> QED
    BY <1>3, <2>2, <2>3
<1>9. \A h \in H, w \in W \cup {s + 1} : h < w
  BY <1>5 DEF Flows
<1>10. Len(r) <= Len(c2) /\ \A i \in 1..Len(r) : r[i] = c2[i]
  BY <1>1, <1>2 DEF Flows
<1>11. open => \A h \in H : Len(r) < Len(c2) /\ h = c2[Len(r) + 1]
  <2> SUFFICES ASSUME open, NEW h \in H PROVE Len(r) < Len(c2) /\ h = c2[Len(r) + 1]
    OBVIOUS
  <2>1. Len(r) < Len(cs) /\ h = cs[Len(r) + 1]
    BY DEF Flows
  <2>2. Len(r) + 1 \in 1..Len(cs)
    BY <1>1, <2>1
  <2> QED
    BY <1>1, <2>1, <2>2
<1>12. ASSUME alive, NEW i \in 1..Len(c2)
       PROVE  i > Len(r) <=> c2[i] \in W \cup {s + 1} \cup H
  <2>1. CASE i \in 1..Len(cs)
    <3>1. i > Len(r) <=> cs[i] \in W \cup H
      BY <1>12, <2>1 DEF Flows
    <3>2. cs[i] # s + 1
      BY <1>2, <2>1
    <3> QED
      BY <1>1, <2>1, <3>1, <3>2
  <2>2. CASE i = Len(cs) + 1
    BY <1>1, <1>2, <2>2
  <2> QED
    BY <1>3, <2>1, <2>2
<1>13. W \cup {s + 1} \subseteq Serials(c2) /\ H \subseteq Serials(c2)
  BY <1>4 DEF Flows
<1>14. Flows(W \cup {s + 1}, H, c2, r, s + 1, open, alive)
  BY <1>7, <1>8, <1>9, <1>10, <1>11, <1>12, <1>13 DEF Flows
<1> QED
  BY <1>14 DEF c2

\* A drain takes the oldest one.
LEMMA FlowsTaken ==
  ASSUME NEW W, NEW cs \in Seq(Nat), NEW r \in Seq(Nat), NEW s \in Nat, NEW w \in W,
         NEW open \in BOOLEAN, NEW alive \in BOOLEAN, open => alive,
         Flows(W, {}, cs, r, s, open, alive), \A x \in W : w <= x
  PROVE  Flows(W \ {w}, {w}, cs, r, s, open, alive)
<1>1. \A x \in W : x \in Nat
  <2>1. (\A i \in 1..Len(cs) : cs[i] \in 1..s) /\ W \subseteq Serials(cs)
    BY DEF Flows
  <2> QED
    BY <2>1 DEF Serials
<1>2. \A x \in W \ {w} : w < x
  BY <1>1
<1>3. PICK p \in 1..Len(cs) : cs[p] = w
  BY DEF Flows, Serials
<1>4. ASSUME open PROVE Len(r) < Len(cs) /\ w = cs[Len(r) + 1]
  <2>0. Len(r) \in Nat /\ Len(cs) \in Nat /\ Len(r) <= Len(cs)
    BY DEF Flows
  <2>1. p > Len(r)
    BY <1>3, <1>4 DEF Flows
  <2>2. Len(r) + 1 \in 1..Len(cs) /\ Len(r) + 1 > Len(r) /\ Len(r) + 1 <= p
    BY <2>0, <2>1
  <2>3. cs[Len(r) + 1] \in W
    BY <1>4, <2>2 DEF Flows
  <2>4. Len(r) + 1 < p => cs[Len(r) + 1] < cs[p]
    BY <2>2 DEF Flows
  <2>5. cs[Len(r) + 1] \in Nat /\ w \in Nat /\ w <= cs[Len(r) + 1]
    BY <1>1, <2>3
  <2>6. Len(r) + 1 = p
    <3>1. CASE Len(r) + 1 < p
      <4>1. cs[Len(r) + 1] < w /\ w <= cs[Len(r) + 1]
        BY <1>3, <2>4, <2>5, <3>1
      <4> QED
        BY <2>5, <4>1
    <3>2. p \in Nat /\ Len(r) + 1 \in Nat /\ Len(r) + 1 <= p
      BY <2>0, <2>2
    <3> QED
      BY <3>1, <3>2
  <2> QED
    BY <1>3, <2>0, <2>2, <2>6
<1>5. (W \ {w}) \cup {w} = W \cup {}
  OBVIOUS
<1> QED
  BY <1>2, <1>4, <1>5 DEF Flows

\* It writes it.
LEMMA FlowsWritten ==
  ASSUME NEW W, NEW cs \in Seq(Nat), NEW r \in Seq(Nat), NEW s \in Nat, NEW h,
         NEW open \in BOOLEAN, NEW alive \in BOOLEAN, Flows(W, {h}, cs, r, s, open, alive),
         Len(r) < Len(cs), h = cs[Len(r) + 1]
  PROVE  Flows(W, {}, cs, Append(r, h), s, open, alive)
<1> DEFINE p == Append(r, h)
<1>1. Len(r) < Len(cs) /\ h = cs[Len(r) + 1] /\ Len(r) \in Nat /\ Len(cs) \in Nat
  BY DEF Flows
<1>2. Len(r) + 1 \in 1..Len(cs) /\ h \in Nat
  BY <1>1
<1>3. /\ Len(p) = Len(r) + 1 /\ p[Len(r) + 1] = h
      /\ \A i \in 1..Len(r) : p[i] = r[i]
  BY <1>1, <1>2
<1> HIDE DEF p
<1>4. \A i \in 1..Len(p) : i \in 1..Len(r) \/ i = Len(r) + 1
  BY <1>1, <1>3
<1>5. Len(p) <= Len(cs) /\ \A i \in 1..Len(p) : p[i] = cs[i]
  <2>1. \A i \in 1..Len(r) : r[i] = cs[i]
    BY DEF Flows
  <2>2. \A i \in 1..Len(p) : p[i] = cs[i]
    BY <1>1, <1>3, <1>4, <2>1
  <2> QED
    BY <1>1, <1>3, <2>2
<1>6. ASSUME alive, NEW i \in 1..Len(cs) PROVE i > Len(p) <=> cs[i] \in W \cup {}
  <2>1. i > Len(r) <=> cs[i] \in W \cup {h}
    BY <1>6 DEF Flows
  <2>2. h \notin W
    <3>1. \A w \in W : h < w
      BY DEF Flows
    <3>2. ~(h < h)
      BY <1>2
    <3> QED
      BY <3>1, <3>2
  <2>3. i # Len(r) + 1 => cs[i] # h
    <3>1. i < Len(r) + 1 => cs[i] < h
      BY <1>1, <1>2 DEF Flows
    <3>2. Len(r) + 1 < i => h < cs[i]
      BY <1>1, <1>2 DEF Flows
    <3>3. cs[i] \in Nat
      OBVIOUS
    <3>4. i # Len(r) + 1 => i < Len(r) + 1 \/ Len(r) + 1 < i
      <4>1. i \in Int /\ Len(r) + 1 \in Int
        BY <1>1
      <4> QED
        BY <4>1
    <3>5. ~(h < h)
      BY <1>2
    <3> QED
      BY <3>1, <3>2, <3>4, <3>5
  <2> QED
    BY <1>1, <1>3, <2>1, <2>2, <2>3
<1>7. Flows(W, {}, cs, p, s, open, alive)
  BY <1>5, <1>6 DEF Flows
<1> QED
  BY <1>7 DEF p

\* Lists with the same control frames.
LEMMA WaitingSame ==
  ASSUME NEW q, NEW q2,
         \A i \in 1..Len(q) : q[i].coalesce_key = NoKey =>
           \E j \in 1..Len(q2) : q2[j].coalesce_key = NoKey /\ q2[j].id = q[i].id,
         \A j \in 1..Len(q2) : q2[j].coalesce_key = NoKey =>
           \E i \in 1..Len(q) : q[i].coalesce_key = NoKey /\ q[i].id = q2[j].id
  PROVE  Waiting(q2) = Waiting(q)
<1>1. ASSUME NEW x \in Waiting(q) PROVE x \in Waiting(q2)
  BY DEF Waiting
<1>2. ASSUME NEW x \in Waiting(q2) PROVE x \in Waiting(q)
  BY DEF Waiting
<1> QED
  BY <1>1, <1>2

LEMMA WaitingAppend ==
  ASSUME NEW q \in Seq(Outbound), NEW x \in Outbound
  PROVE  Waiting(Append(q, x)) = IF x.coalesce_key = NoKey THEN Waiting(q) \cup {x.id} ELSE Waiting(q)
<1> DEFINE p == Append(q, x)
<1>1. /\ Len(q) \in Nat /\ Len(p) = Len(q) + 1 /\ p[Len(q) + 1] = x
      /\ \A i \in 1..Len(q) : p[i] = q[i]
  OBVIOUS
<1> HIDE DEF p
<1>2. \A i \in 1..Len(p) : i \in 1..Len(q) \/ i = Len(q) + 1
  BY <1>1
<1>3. Len(q) + 1 \in 1..Len(p) /\ \A i \in 1..Len(q) : i \in 1..Len(p)
  BY <1>1
<1>4. Waiting(p) = IF x.coalesce_key = NoKey THEN Waiting(q) \cup {x.id} ELSE Waiting(q)
  <2>1. ASSUME NEW y \in Waiting(p) PROVE y \in Waiting(q) \/ (x.coalesce_key = NoKey /\ y = x.id)
    BY <1>1, <1>2 DEF Waiting
  <2>2. ASSUME NEW y \in Waiting(q) PROVE y \in Waiting(p)
    BY <1>1, <1>3 DEF Waiting
  <2>3. x.coalesce_key = NoKey => x.id \in Waiting(p)
    BY <1>1, <1>3 DEF Waiting
  <2> QED
    BY <2>1, <2>2, <2>3
<1> QED
  BY <1>4 DEF p

\* The front of the list is its oldest node.
LEMMA WaitingTail ==
  ASSUME NEW q \in Seq(Outbound), q # <<>>, Ordered(q)
  PROVE  IF q[1].coalesce_key = NoKey
         THEN /\ Waiting(Tail(q)) = Waiting(q) \ {q[1].id} /\ q[1].id \in Waiting(q)
              /\ \A x \in Waiting(q) : q[1].id <= x
         ELSE Waiting(Tail(q)) = Waiting(q)
<1> DEFINE p == Tail(q)
<1>1. /\ Len(q) \in Nat \ {0} /\ Len(p) = Len(q) - 1
      /\ \A i \in 1..Len(p) : p[i] = q[i + 1]
      /\ \A i \in 1..Len(q) : q[i] \in Outbound
  OBVIOUS
<1> HIDE DEF p
<1>2. 1 \in 1..Len(q) /\ \A i \in 1..Len(p) : i + 1 \in 1..Len(q) /\ 1 < i + 1
  BY <1>1
<1>3. ASSUME NEW i \in 1..Len(q), i # 1 PROVE i - 1 \in 1..Len(p) /\ p[i - 1] = q[i]
  BY <1>1, <1>3
<1>4. \A i \in 1..Len(q) : q[i].id \in Nat
  BY <1>1 DEF Outbound
<1>5. \A i \in 1..Len(q) : i # 1 => q[1].id < q[i].id
  <2> SUFFICES ASSUME NEW i \in 1..Len(q), i # 1 PROVE q[1].id < q[i].id
    OBVIOUS
  <2>1. 1 < i
    OBVIOUS
  <2> QED
    BY <1>2, <2>1 DEF Ordered
<1>6. ASSUME NEW x \in Waiting(p) PROVE x \in Waiting(q) /\ x # q[1].id
  <2>1. PICK i \in 1..Len(p) : p[i].coalesce_key = NoKey /\ x = p[i].id
    BY DEF Waiting
  <2>2. i + 1 \in 1..Len(q) /\ i + 1 # 1 /\ q[i + 1] = p[i]
    BY <1>1, <1>2
  <2>3. x \in Waiting(q)
    BY <2>1, <2>2 DEF Waiting
  <2>4. q[1].id < x /\ x \in Nat /\ q[1].id \in Nat
    BY <1>2, <1>4, <1>5, <2>1, <2>2
  <2> QED
    BY <2>3, <2>4
<1>7. ASSUME NEW x \in Waiting(q)
      PROVE  x \in Waiting(p) \/ (q[1].coalesce_key = NoKey /\ x = q[1].id)
  <2>1. PICK i \in 1..Len(q) : q[i].coalesce_key = NoKey /\ x = q[i].id
    BY DEF Waiting
  <2>2. CASE i = 1
    BY <2>1, <2>2
  <2>3. CASE i # 1
    BY <1>3, <2>1, <2>3 DEF Waiting
  <2> QED
    BY <2>2, <2>3
<1>8. q[1].coalesce_key = NoKey => q[1].id \in Waiting(q)
  BY <1>2 DEF Waiting
<1>9. \A x \in Waiting(q) : q[1].id <= x
  <2> SUFFICES ASSUME NEW x \in Waiting(q) PROVE q[1].id <= x
    OBVIOUS
  <2>1. PICK i \in 1..Len(q) : x = q[i].id
    BY DEF Waiting
  <2>2. q[1].id \in Nat /\ x \in Nat
    BY <1>2, <1>4, <2>1
  <2> QED
    BY <1>5, <2>1, <2>2
<1>10. IF q[1].coalesce_key = NoKey
       THEN /\ Waiting(p) = Waiting(q) \ {q[1].id} /\ q[1].id \in Waiting(q)
            /\ \A x \in Waiting(q) : q[1].id <= x
       ELSE Waiting(p) = Waiting(q)
  <2>1. CASE q[1].coalesce_key = NoKey
    <3>1. Waiting(p) = Waiting(q) \ {q[1].id}
      BY <1>6, <1>7
    <3> QED
      BY <1>8, <1>9, <2>1, <3>1
  <2>2. CASE q[1].coalesce_key # NoKey
    <3>1. Waiting(p) = Waiting(q)
      BY <1>6, <1>7, <2>2
    <3> QED
      BY <2>2, <3>1
  <2> QED
    BY <2>1, <2>2
<1> QED
  BY <1>10 DEF p

\* One drain, or none.
LEMMA InHandFacts ==
  ASSUME NEW d
  PROVE  /\ InHand({}) = {}
         /\ d.next = NoFrame \/ d.next.update => InHand({d}) = {}
         /\ d.next # NoFrame /\ ~d.next.update => InHand({d}) = {d.next.n}
BY DEF InHand

-----------------------------------------------------------------------------
(* The inductive invariant                                                 *)

\* A control frame is queued in the node made for it.
Named(q) == \A i \in 1..Len(q) : q[i].coalesce_key = NoKey => q[i].bytes.n = q[i].id

Open  == socket = "open"
Alive == Open /\ ~closed

FlowInv ==
  /\ KeptInv
  /\ Named(outbox)
  /\ Flows(Waiting(outbox), InHand(drains), controls, Received, sends, Open, Alive)
  /\ Received \in Seq(Nat)

LEMMA FlowTypes ==
  ASSUME FlowInv
  PROVE  /\ controls \in Seq(Nat) /\ sends \in Nat /\ outbox \in Seq(Outbound)
         /\ wire \in Seq(Frame) /\ Open \in BOOLEAN /\ Alive \in BOOLEAN
         /\ ListInv(outbox, coalescable, sends) /\ TypeOK
<1>1. TypeOK /\ ListInv(outbox, coalescable, sends)
  BY DEF FlowInv, KeptInv, ChannelInv, WriterInv
<1>2. Open \in BOOLEAN /\ Alive \in BOOLEAN
  BY DEF Open, Alive
<1> QED
  BY <1>1, <1>2 DEF TypeOK

\* Steps that leave the control frames where they are.
LEMMA FlowSame ==
  ASSUME FlowInv, KeptInv', Named(outbox'), Waiting(outbox') = Waiting(outbox),
         InHand(drains') = InHand(drains), UNCHANGED <<controls, wire>>,
         sends' \in Nat, sends <= sends', Open' => Open, Alive' => Alive
  PROVE  FlowInv'
<1>1. /\ controls \in Seq(Nat) /\ sends \in Nat /\ Open \in BOOLEAN /\ Alive \in BOOLEAN
      /\ Received \in Seq(Nat) /\ Received' = Received
      /\ Flows(Waiting(outbox), InHand(drains), controls, Received, sends, Open, Alive)
  BY FlowTypes DEF FlowInv, Received
<1>2. Open' \in BOOLEAN /\ Alive' \in BOOLEAN
  BY DEF Open, Alive
<1>3. Flows(Waiting(outbox), InHand(drains), controls, Received, sends', Open', Alive')
  BY <1>1, <1>2, FlowsLess
<1>4. Flows(Waiting(outbox'), InHand(drains'), controls', Received', sends', Open', Alive')
  BY <1>1, <1>3
<1> QED
  BY <1>1, <1>4 DEF FlowInv

\* Steps that throw the queue away.
LEMMA FlowCleared ==
  ASSUME FlowInv, KeptInv', outbox' = <<>>, InHand(drains') \subseteq InHand(drains),
         UNCHANGED <<controls, wire, sends>>, Open' => Open, ~Alive'
  PROVE  FlowInv'
<1>1. /\ controls \in Seq(Nat) /\ sends \in Nat /\ Open \in BOOLEAN /\ Alive \in BOOLEAN
      /\ Received \in Seq(Nat) /\ Received' = Received
      /\ Flows(Waiting(outbox), InHand(drains), controls, Received, sends, Open, Alive)
  BY FlowTypes DEF FlowInv, Received
<1>2. Open' \in BOOLEAN
  BY DEF Open
<1>3. Flows({}, InHand(drains'), controls, Received, sends, Open', Alive')
  BY <1>1, <1>2, FlowsCleared
<1>4. Waiting(outbox') = {} /\ Named(outbox')
  BY DEF Waiting, Named
<1>5. Flows(Waiting(outbox'), InHand(drains'), controls', Received', sends', Open', Alive')
  BY <1>1, <1>2, <1>3, <1>4
<1> QED
  BY <1>1, <1>4, <1>5 DEF FlowInv

\* The end of send()'s locked section.
LEMMA FlowPushed ==
  ASSUME FlowInv, KeptInv', NEW t \in Threads, pc[t] = "send",
         NEW room \in Seq(Outbound), NEW index, PushBack(t, room, index),
         Waiting(room) = Waiting(outbox), Named(room)
  PROVE  /\ FlowInv'
         /\ wire' = wire /\ sends' = sends + 1
         /\ controls' = IF arg[t].update THEN controls ELSE Append(controls, sends + 1)
<1> DEFINE f == Incoming(t)
<1>1. /\ controls \in Seq(Nat) /\ sends \in Nat /\ Open \in BOOLEAN /\ Alive \in BOOLEAN
      /\ Received \in Seq(Nat) /\ TypeOK
      /\ Flows(Waiting(outbox), InHand(drains), controls, Received, sends, Open, Alive)
  BY FlowTypes DEF FlowInv
<1>2. f \in Frame /\ f.n = sends + 1 /\ f.update = arg[t].update
  BY <1>1, IncomingType
<1>3. /\ outbox' = Append(room, Node(f)) /\ sends' = sends + 1
      /\ controls' = IF f.update THEN controls ELSE Append(controls, sends + 1)
      /\ UNCHANGED <<drains, wire, closed, socket>>
  BY <1>2 DEF PushBack, Record, Node
<1> HIDE DEF f
<1>4. /\ Node(f) \in Outbound /\ Node(f).id = sends + 1 /\ Node(f).bytes = f
      /\ Node(f).coalesce_key = NoKey <=> ~f.update
  <2>1. f.update => f.about # NoKey
    BY <1>2, KeysAssumption DEF Frame
  <2>2. f.about \in Keys /\ f.n \in Nat
    BY <1>2 DEF Frame
  <2> QED
    BY <1>2, <2>1, <2>2 DEF Node, Outbound, CoalesceKey
<1>5. Named(outbox')
  <2>1. /\ Len(room) \in Nat /\ Len(outbox') = Len(room) + 1
        /\ outbox'[Len(room) + 1] = Node(f)
        /\ \A i \in 1..Len(room) : outbox'[i] = room[i]
    BY <1>3, <1>4
  <2>2. \A i \in 1..Len(outbox') : i \in 1..Len(room) \/ i = Len(room) + 1
    BY <2>1
  <2> QED
    BY <1>2, <1>4, <2>1, <2>2 DEF Named
<1>6. /\ Received' = Received /\ Open' = Open /\ Alive' = Alive /\ InHand(drains') = InHand(drains)
  BY <1>3 DEF Received, Open, Alive
<1>7. CASE f.update
  <2>1. Waiting(outbox') = Waiting(outbox)
    BY <1>3, <1>4, <1>7, WaitingAppend
  <2>2. FlowInv'
    BY <1>1, <1>3, <1>5, <1>6, <1>7, <2>1, FlowSame
  <2> QED
    BY <1>2, <1>3, <2>2
<1>8. CASE ~f.update
  <2>1. Waiting(outbox') = Waiting(outbox) \cup {sends + 1}
    BY <1>3, <1>4, <1>8, WaitingAppend
  <2>2. Flows(Waiting(outbox) \cup {sends + 1}, InHand(drains), Append(controls, sends + 1),
              Received, sends + 1, Open, Alive)
    BY <1>1, FlowsAccepted
  <2>3. Flows(Waiting(outbox'), InHand(drains'), controls', Received', sends', Open', Alive')
    BY <1>3, <1>6, <1>8, <2>1, <2>2
  <2>4. FlowInv'
    BY <1>1, <1>5, <1>6, <2>3 DEF FlowInv
  <2> QED
    BY <1>2, <1>3, <2>4
<1> QED
  BY <1>7, <1>8

\* The drain takes the frame at the front.
LEMMA FlowTaken ==
  ASSUME FlowInv, KeptInv', NEW d \in drains, DrainPop(d)
  PROVE  FlowInv'
<1>1. /\ controls \in Seq(Nat) /\ sends \in Nat /\ Open \in BOOLEAN /\ Alive \in BOOLEAN
      /\ Received \in Seq(Nat) /\ TypeOK /\ outbox \in Seq(Outbound) /\ Ordered(outbox)
      /\ Flows(Waiting(outbox), InHand(drains), controls, Received, sends, Open, Alive)
      /\ NodesOK(outbox, sends) /\ Named(outbox)
  BY FlowTypes DEF FlowInv, ListInv
<1>2. /\ outbox # <<>> /\ d.next = NoFrame /\ ~closed /\ outbox' = Tail(outbox)
      /\ UNCHANGED <<controls, wire, sends, socket, closed>>
      /\ drains' = (drains \ {d}) \cup {[d EXCEPT !.next = Head(outbox).bytes]}
  BY DEF DrainPop
<1> DEFINE e == [d EXCEPT !.next = outbox[1].bytes]
<1>3. drains = {d} /\ drains' = {e} /\ e.next = outbox[1].bytes
  <2>1. drains = {d}
    BY DEF FlowInv, KeptInv, ChannelInv, WriterInv, OneWriter
  <2>2. Head(outbox) = outbox[1]
    BY <1>1, <1>2
  <2>3. d \in [id : Nat, next : Frame \cup {NoFrame}]
    BY <1>1 DEF TypeOK
  <2> QED
    BY <1>2, <2>1, <2>2, <2>3
<1> HIDE DEF e
<1>4. 1 \in 1..Len(outbox)
  BY <1>1, <1>2
<1>5. /\ outbox[1].bytes \in Frame /\ outbox[1].bytes # NoFrame
      /\ outbox[1].coalesce_key = CoalesceKey(outbox[1].bytes)
  <2>1. outbox[1] \in Outbound
    BY <1>1, <1>4
  <2> QED
    BY <1>1, <1>4, <2>1, NoFrameNotFrame DEF Outbound, NodesOK
<1>6. outbox[1].coalesce_key = NoKey <=> ~outbox[1].bytes.update
  BY <1>5, KeysAssumption DEF CoalesceKey, Frame
<1>7. InHand(drains) = {}
  BY <1>2, <1>3, InHandFacts
<1>8. /\ Received' = Received /\ Open' = Open /\ Alive' = Alive /\ (Open => Alive)
  BY <1>2 DEF Received, Open, Alive
<1>9. Named(outbox')
  <2>1. /\ Len(outbox') = Len(outbox) - 1 /\ Len(outbox) \in Nat
        /\ \A i \in 1..Len(outbox') : outbox'[i] = outbox[i + 1]
    BY <1>1, <1>2
  <2>2. \A i \in 1..Len(outbox') : i + 1 \in 1..Len(outbox)
    BY <2>1
  <2> QED
    BY <1>1, <2>1, <2>2 DEF Named
<1>10. CASE outbox[1].coalesce_key # NoKey
  <2>1. Waiting(outbox') = Waiting(outbox)
    BY <1>1, <1>2, <1>10, WaitingTail
  <2>2. InHand(drains') = {}
    BY <1>3, <1>6, <1>10, InHandFacts
  <2>3. sends' \in Nat /\ sends <= sends'
    BY <1>1, <1>2
  <2> QED
    BY <1>2, <1>7, <1>8, <1>9, <2>1, <2>2, <2>3, FlowSame
<1>11. CASE outbox[1].coalesce_key = NoKey
  <2> DEFINE w == outbox[1].id
  <2>1. /\ Waiting(outbox') = Waiting(outbox) \ {w} /\ w \in Waiting(outbox)
        /\ \A x \in Waiting(outbox) : w <= x
    BY <1>1, <1>2, <1>11, WaitingTail
  <2>2. InHand(drains') = {w}
    BY <1>1, <1>3, <1>4, <1>5, <1>6, <1>11, InHandFacts DEF Named
  <2> HIDE DEF w
  <2>3. Flows(Waiting(outbox) \ {w}, {w}, controls, Received, sends, Open, Alive)
    BY <1>1, <1>7, <1>8, <2>1, FlowsTaken
  <2>4. Flows(Waiting(outbox'), InHand(drains'), controls', Received', sends', Open', Alive')
    BY <1>2, <1>8, <2>1, <2>2, <2>3
  <2> QED
    BY <1>1, <1>8, <1>9, <2>4 DEF FlowInv
<1> QED
  BY <1>10, <1>11

\* The drain writes the frame it holds.
LEMMA FlowWritten ==
  ASSUME FlowInv, KeptInv', NEW d \in drains, DrainWrite(d)
  PROVE  /\ FlowInv'
         /\ d.next \in Frame
         /\ d.next.update => Received' = Received
         /\ ~d.next.update => /\ Len(Received) < Len(controls)
                              /\ Received' = Append(Received, controls[Len(Received) + 1])
<1>1. /\ controls \in Seq(Nat) /\ sends \in Nat /\ Open \in BOOLEAN /\ Alive \in BOOLEAN
      /\ Received \in Seq(Nat) /\ TypeOK /\ wire \in Seq(Frame) /\ Named(outbox)
      /\ Flows(Waiting(outbox), InHand(drains), controls, Received, sends, Open, Alive)
  BY FlowTypes DEF FlowInv
<1>2. /\ d.next # NoFrame /\ socket = "open" /\ wire' = Append(wire, d.next)
      /\ UNCHANGED <<controls, outbox, sends, socket, closed>>
      /\ drains' = (drains \ {d}) \cup {[d EXCEPT !.next = NoFrame]}
  BY DEF DrainWrite
<1>3. d \in [id : Nat, next : Frame \cup {NoFrame}] /\ d.next \in Frame
  BY <1>1, <1>2 DEF TypeOK
<1> DEFINE e == [d EXCEPT !.next = NoFrame]
<1>4. drains = {d} /\ drains' = {e} /\ e.next = NoFrame
  <2>1. drains = {d}
    BY DEF FlowInv, KeptInv, ChannelInv, WriterInv, OneWriter
  <2> QED
    BY <1>2, <1>3, <2>1
<1> HIDE DEF e
<1>5. InHand(drains') = {}
  BY <1>4, InHandFacts
<1>6. Received' = Passing(Received, d.next)
  BY <1>1, <1>2, <1>3, PassedAppend DEF Received
<1>7. Open /\ Open' = Open /\ Alive' = Alive
  BY <1>2 DEF Open, Alive
<1>8. Named(outbox') /\ Waiting(outbox') = Waiting(outbox)
  BY <1>1, <1>2
<1>9. CASE d.next.update
  <2>1. InHand(drains) = {} /\ Received' = Received
    BY <1>4, <1>6, <1>9, InHandFacts DEF Passing
  <2>2. Flows(Waiting(outbox'), InHand(drains'), controls', Received', sends', Open', Alive')
    BY <1>1, <1>2, <1>5, <1>7, <1>8, <2>1
  <2> QED
    BY <1>1, <1>3, <1>8, <1>9, <2>1, <2>2 DEF FlowInv
<1>10. CASE ~d.next.update
  <2>1. InHand(drains) = {d.next.n} /\ Received' = Append(Received, d.next.n)
    BY <1>2, <1>4, <1>6, <1>10, InHandFacts DEF Passing
  <2>2. /\ Flows(Waiting(outbox), {}, controls, Received', sends, Open, Alive)
        /\ Len(Received) < Len(controls) /\ d.next.n = controls[Len(Received) + 1]
    <3> DEFINE h == d.next.n
    <3>1. Flows(Waiting(outbox), {h}, controls, Received, sends, Open, Alive)
      BY <1>1, <2>1
    <3> HIDE DEF h
    <3>2. Len(Received) < Len(controls) /\ h = controls[Len(Received) + 1]
      BY <1>7, <3>1 DEF Flows
    <3>3. Flows(Waiting(outbox), {}, controls, Append(Received, h), sends, Open, Alive)
      BY <1>1, <3>1, <3>2, FlowsWritten
    <3> QED
      BY <2>1, <3>2, <3>3 DEF h
  <2>3. Flows(Waiting(outbox'), InHand(drains'), controls', Received', sends', Open', Alive')
    BY <1>2, <1>5, <1>7, <1>8, <2>1, <2>2
  <2>4. Received' \in Seq(Nat)
    BY <1>1, <1>3, <2>1 DEF Frame
  <2> QED
    BY <1>3, <1>8, <1>10, <2>1, <2>2, <2>3, <2>4 DEF FlowInv
<1> QED
  BY <1>9, <1>10

-----------------------------------------------------------------------------
(* What the peer is shown of a pair                                        *)

AboutIn(w, k) == {i \in 1..Len(w) : w[i].update /\ w[i].about = k}
ShownOf(w, k) == IF AboutIn(w, k) = {} THEN 0 ELSE w[Max(AboutIn(w, k))].n

LEMMA ShownIs == \A k : Shown(k) = ShownOf(wire, k)
BY DEF Shown, ShownOf, AboutIn

LEMMA ShownAppend ==
  ASSUME NEW w \in Seq(Frame), NEW f \in Frame, NEW k
  PROVE  ShownOf(Append(w, f), k) = IF f.update /\ f.about = k THEN f.n ELSE ShownOf(w, k)
<1> DEFINE v == Append(w, f)
           n == Len(w) + 1
<1>1. /\ Len(w) \in Nat /\ Len(v) = n /\ v[n] = f /\ \A i \in 1..Len(w) : v[i] = w[i]
  OBVIOUS
<1> HIDE DEF v
<1>2. \A i \in 1..Len(v) : i \in 1..Len(w) \/ i = n
  BY <1>1
<1>3. n \in 1..Len(v) /\ \A i \in 1..Len(w) : i \in 1..Len(v)
  BY <1>1
<1>4. CASE f.update /\ f.about = k
  <2>1. n \in AboutIn(v, k)
    BY <1>1, <1>3, <1>4 DEF AboutIn
  <2>2. AboutIn(v, k) \subseteq 1..n
    BY <1>1 DEF AboutIn
  <2>3. Max(AboutIn(v, k)) \in AboutIn(v, k) /\ \A y \in AboutIn(v, k) : y <= Max(AboutIn(v, k))
    BY <1>1, <2>1, <2>2, MaxFacts
  <2>4. Max(AboutIn(v, k)) = n
    <3>1. Max(AboutIn(v, k)) \in 1..n /\ n <= Max(AboutIn(v, k))
      BY <2>1, <2>2, <2>3
    <3> QED
      BY <1>1, <3>1
  <2>5. ShownOf(v, k) = f.n
    BY <1>1, <2>1, <2>4 DEF ShownOf
  <2> QED
    BY <1>4, <2>5 DEF v
<1>5. CASE ~(f.update /\ f.about = k)
  <2>1. AboutIn(v, k) = AboutIn(w, k)
    <3>1. \A i \in AboutIn(v, k) : i \in AboutIn(w, k)
      BY <1>1, <1>2, <1>5 DEF AboutIn
    <3>2. \A i \in AboutIn(w, k) : i \in AboutIn(v, k)
      BY <1>1, <1>3 DEF AboutIn
    <3> QED
      BY <3>1, <3>2
  <2>2. CASE AboutIn(w, k) = {}
    BY <1>5, <2>1, <2>2 DEF ShownOf, v
  <2>3. CASE AboutIn(w, k) # {}
    <3>1. AboutIn(w, k) \subseteq 1..Len(w)
      BY DEF AboutIn
    <3>2. Max(AboutIn(w, k)) \in 1..Len(w)
      BY <1>1, <2>3, <3>1, MaxFacts
    <3>3. ShownOf(v, k) = ShownOf(w, k)
      BY <1>1, <2>1, <2>3, <3>2 DEF ShownOf
    <3> QED
      BY <1>5, <3>3 DEF v
  <2> QED
    BY <2>2, <2>3
<1> QED
  BY <1>4, <1>5

\* The update in hand is news.
LEMMA ShownBelow ==
  ASSUME FlowInv, NEW d \in drains, d.next # NoFrame, d.next.update
  PROVE  d.next.n \in ShownOf(wire, d.next.about) + 1 .. sends
<1> DEFINE f == d.next
           k == d.next.about
<1>1. f.n \in 1..sends /\ sends \in Nat /\ wire \in Seq(Frame) /\ Len(wire) \in Nat
  BY FlowTypes DEF FlowInv, KeptInv, ChannelInv, HandFirst
<1>2. \A w \in 1..Len(wire) : /\ wire[w].n \in 1..sends
                              /\ wire[w].update /\ f.about = wire[w].about => wire[w].n < f.n
  BY DEF FlowInv, KeptInv, ChannelInv, WireFirst
<1> HIDE DEF f
<1>3. CASE AboutIn(wire, k) = {}
  <2>1. ShownOf(wire, k) = 0
    BY <1>3 DEF ShownOf
  <2> QED
    BY <1>1, <2>1 DEF f
<1>4. CASE AboutIn(wire, k) # {}
  <2>1. AboutIn(wire, k) \subseteq 1..Len(wire)
    BY DEF AboutIn
  <2>2. Max(AboutIn(wire, k)) \in AboutIn(wire, k)
    BY <1>1, <1>4, <2>1, MaxFacts
  <2>3. ShownOf(wire, k) = wire[Max(AboutIn(wire, k))].n
    BY <1>4 DEF ShownOf
  <2>4. ShownOf(wire, k) \in 1..sends /\ ShownOf(wire, k) < f.n
    BY <1>2, <2>1, <2>2, <2>3 DEF AboutIn, f
  <2> QED
    BY <1>1, <2>4 DEF f
<1> QED
  BY <1>3, <1>4

-----------------------------------------------------------------------------
(* Every step is a step of the contract, or none                           *)

\* What the contract sees.
Seen == <<controls, Received, sends, [k \in Keys |-> Shown(k)]>>

LEMMA SeenSame ==
  ASSUME UNCHANGED <<controls, wire, sends>>
  PROVE  Seen' = Seen
BY DEF Seen, Received, Shown

LEMMA AcceptStep ==
  ASSUME NEW u \in BOOLEAN, wire' = wire, sends' = sends + 1,
         controls' = IF u THEN controls ELSE Append(controls, sends + 1)
  PROVE  Contract!Next
<1>1. Received' = Received /\ [k \in Keys |-> Shown(k)]' = [k \in Keys |-> Shown(k)]
  BY DEF Received, Shown
<1>2. CASE u
  BY <1>1, <1>2 DEF Contract!Next, Contract!AcceptUpdate
<1>3. CASE ~u
  BY <1>1, <1>3 DEF Contract!Next, Contract!AcceptControl
<1> QED
  BY <1>2, <1>3

LEMMA DeliverStep ==
  ASSUME FlowInv, KeptInv', NEW d \in drains, DrainWrite(d)
  PROVE  FlowInv' /\ Contract!Next
<1>1. /\ FlowInv' /\ d.next \in Frame
      /\ d.next.update => Received' = Received
      /\ ~d.next.update => /\ Len(Received) < Len(controls)
                           /\ Received' = Append(Received, controls[Len(Received) + 1])
  BY FlowWritten
<1>2. /\ wire \in Seq(Frame) /\ wire' = Append(wire, d.next) /\ d.next # NoFrame
      /\ UNCHANGED <<controls, sends>>
  BY FlowTypes DEF DrainWrite
<1>3. ASSUME NEW k
      PROVE  Shown(k)' = IF d.next.update /\ d.next.about = k THEN d.next.n ELSE Shown(k)
  <2>1. Shown(k) = ShownOf(wire, k) /\ Shown(k)' = ShownOf(wire', k)
    BY ShownIs DEF Shown, ShownOf, AboutIn
  <2> QED
    BY <1>1, <1>2, <2>1, ShownAppend
<1>4. CASE d.next.update
  <2> DEFINE k == d.next.about
             shown == [j \in Keys |-> Shown(j)]
  <2>1. k \in Keys
    BY <1>1 DEF Frame
  <2>2. d.next.n \in shown[k] + 1 .. sends
    <3>1. d.next.n \in ShownOf(wire, k) + 1 .. sends
      BY <1>2, <1>4, ShownBelow
    <3>2. shown[k] = ShownOf(wire, k)
      BY <2>1, ShownIs
    <3> QED
      BY <3>1, <3>2
  <2>3. shown' = [shown EXCEPT ![k] = d.next.n]
    <3>1. \A j \in Keys : Shown(j)' = IF j = k THEN d.next.n ELSE Shown(j)
      BY <1>3, <1>4
    <3> QED
      BY <3>1
  <2>4. Contract!DeliverUpdate(k)
    BY <1>1, <1>2, <1>4, <2>2, <2>3 DEF Contract!DeliverUpdate
  <2> QED
    BY <1>1, <2>1, <2>4 DEF Contract!Next
<1>5. CASE ~d.next.update
  <2>1. [k \in Keys |-> Shown(k)]' = [k \in Keys |-> Shown(k)]
    <3>1. \A k \in Keys : Shown(k)' = Shown(k)
      BY <1>3, <1>5
    <3> QED
      BY <3>1
  <2>2. Contract!DeliverControl
    BY <1>1, <1>2, <1>5, <2>1 DEF Contract!DeliverControl
  <2> QED
    BY <1>1, <2>2 DEF Contract!Next
<1> QED
  BY <1>4, <1>5

LEMMA FlowStep ==
  ASSUME FlowInv, [Next]_vars
  PROVE  FlowInv' /\ (Contract!Next \/ Seen' = Seen)
<1>0. /\ KeptInv' /\ KeptInv /\ TypeOK /\ sends \in Nat /\ outbox \in Seq(Outbound)
      /\ Named(outbox) /\ ListInv(outbox, coalescable, sends)
  BY KeptStep, FlowTypes DEF FlowInv
<1> DEFINE Goal == FlowInv' /\ (Contract!Next \/ Seen' = Seen)
<1>1. ASSUME UNCHANGED <<outbox, controls, wire, sends>>, InHand(drains') = InHand(drains),
             closed => closed', Open' => Open
      PROVE  Goal
  <2>1. Alive' => Alive
    BY <1>1 DEF Alive
  <2>2. Named(outbox') /\ Waiting(outbox') = Waiting(outbox) /\ sends' \in Nat /\ sends <= sends'
    BY <1>0, <1>1
  <2>3. FlowInv'
    BY <1>0, <1>1, <2>1, <2>2, FlowSame
  <2> QED
    BY <1>1, <2>3, SeenSame
<1>2. ASSUME UNCHANGED <<controls, wire, sends>>, outbox' = <<>>, Open' => Open, ~Alive',
             InHand(drains') \subseteq InHand(drains)
      PROVE  Goal
  BY <1>0, <1>2, FlowCleared, SeenSame
<1>3. ASSUME NEW t \in Threads, NEW k \in Keys, NEW u \in BOOLEAN, CallSend(t, k, u)
      PROVE  Goal
  BY <1>1, <1>3 DEF CallSend, Open
<1>4. ASSUME NEW t \in Threads, SendCoalesce(t) PROVE Goal
  <2> DEFINE f == Incoming(t)
  <2>1. PICK i \in 1..Len(outbox) :
          /\ outbox[i].id = coalescable[arg[t].about]
          /\ outbox' = ReplaceAt(outbox, i, [outbox[i] EXCEPT !.bytes = f])
    BY <1>4 DEF SendCoalesce
  <2>2. /\ f \in Frame /\ f.n = sends + 1 /\ f.update /\ f.about = arg[t].about
        /\ coalescable[f.about] # 0
        /\ sends' = sends + 1 /\ controls' = controls
        /\ UNCHANGED <<drains, wire, closed, socket>>
    BY <1>0, <1>4, IncomingType DEF SendCoalesce, Record
  <2> HIDE DEF f
  <2>3. outbox[i].coalesce_key # NoKey
    <3>1. coalescable \in [Keys -> Nat] /\ f.about \in Keys
      BY <1>0, <2>2 DEF TypeOK, Frame
    <3>2. outbox[i].id = coalescable[f.about]
      BY <2>1, <2>2
    <3>3. outbox[i].coalesce_key = f.about
      BY <1>0, <2>2, <3>1, <3>2, ListReplace
    <3> QED
      BY <3>1, <3>3, KeysAssumption
  <2> DEFINE x == [outbox[i] EXCEPT !.bytes = f]
  <2>4. x \in Outbound /\ x.coalesce_key # NoKey
    <3>1. outbox[i] \in Outbound
      BY <1>0
    <3> QED
      BY <2>2, <2>3, <3>1 DEF Outbound
  <2> HIDE DEF x
  <2>5. /\ Len(outbox') = Len(outbox)
        /\ \A j \in 1..Len(outbox) : outbox'[j] = IF j = i THEN x ELSE outbox[j]
    <3>1. outbox \in Seq(Outbound) /\ i \in 1..Len(outbox) /\ x \in Outbound
      BY <1>0, <2>1, <2>4
    <3>2. outbox' = ReplaceAt(outbox, i, x)
      BY <2>1 DEF x
    <3> QED
      BY <3>1, <3>2, OutboxReplaced
  <2>6. Named(outbox')
    BY <1>0, <2>4, <2>5 DEF Named
  <2>7. \A j \in 1..Len(outbox) :
          /\ outbox[j].coalesce_key = NoKey => outbox'[j] = outbox[j]
          /\ outbox'[j].coalesce_key = NoKey => outbox'[j] = outbox[j]
    BY <2>3, <2>4, <2>5
  <2>8. Waiting(outbox') = Waiting(outbox)
    BY <2>5, <2>7, WaitingSame
  <2>9. Open' = Open /\ Alive' = Alive /\ sends' \in Nat /\ sends <= sends'
    BY <1>0, <2>2 DEF Open, Alive
  <2>10. FlowInv'
    BY <1>0, <2>2, <2>6, <2>8, <2>9, FlowSame
  <2>11. Contract!Next
    BY <2>2, AcceptStep
  <2> QED
    BY <2>10, <2>11
<1>5. ASSUME NEW t \in Threads, pc[t] = "send", NEW room \in Seq(Outbound), NEW index,
             PushBack(t, room, index), Waiting(room) = Waiting(outbox), Named(room)
      PROVE  Goal
  <2>1. /\ FlowInv' /\ wire' = wire /\ sends' = sends + 1
        /\ controls' = IF arg[t].update THEN controls ELSE Append(controls, sends + 1)
    BY <1>0, <1>5, FlowPushed
  <2>2. arg[t].update \in BOOLEAN
    BY <1>0, <1>5 DEF TypeOK, Frame
  <2>3. Contract!Next
    BY <2>1, <2>2, AcceptStep
  <2> QED
    BY <2>1, <2>3
<1>6. ASSUME NEW t \in Threads, SendPush(t) PROVE Goal
  BY <1>0, <1>5, <1>6 DEF SendPush
<1>7. ASSUME NEW t \in Threads, SendDropping(t) PROVE Goal
  <2>1. PICK i \in 1..Len(outbox) :
          /\ outbox[i].coalesce_key # NoKey
          /\ PushBack(t, RemoveAt(outbox, i), Erased(coalescable, outbox[i].coalesce_key))
    BY <1>7 DEF SendDropping, OldestDroppable, Droppable
  <2> DEFINE room == RemoveAt(outbox, i)
             index == Erased(coalescable, outbox[i].coalesce_key)
  <2>2. /\ room \in Seq(Outbound) /\ Len(room) = Len(outbox) - 1
        /\ \A j \in 1..Len(outbox)-1 : room[j] = IF j < i THEN outbox[j] ELSE outbox[j+1]
    BY <1>0, RemoveAtFacts
  <2>3. PushBack(t, room, index) /\ pc[t] = "send"
    BY <1>7, <2>1 DEF SendDropping
  <2> HIDE DEF room, index
  <2>4. Len(outbox) \in Nat
    BY <1>0
  <2>5. \A j \in 1..Len(room) : \E m \in 1..Len(outbox) : room[j] = outbox[m]
    BY <2>2, <2>4
  <2>6. ASSUME NEW m \in 1..Len(outbox), m # i
        PROVE  \E j \in 1..Len(room) : room[j] = outbox[m]
    <3>1. CASE m < i
      BY <2>2, <2>4, <3>1
    <3>2. CASE m > i
      <4>1. m - 1 \in 1..Len(room) /\ room[m - 1] = outbox[m]
        BY <2>2, <2>4, <3>2
      <4> QED
        BY <4>1
    <3> QED
      BY <2>6, <3>1, <3>2
  <2>7. Waiting(room) = Waiting(outbox)
    <3>1. \A m \in 1..Len(outbox) : outbox[m].coalesce_key = NoKey =>
            \E j \in 1..Len(room) : room[j].coalesce_key = NoKey /\ room[j].id = outbox[m].id
      BY <2>1, <2>6
    <3>2. \A j \in 1..Len(room) : room[j].coalesce_key = NoKey =>
            \E m \in 1..Len(outbox) : outbox[m].coalesce_key = NoKey /\ outbox[m].id = room[j].id
      BY <2>5
    <3> QED
      BY <3>1, <3>2, WaitingSame
  <2>8. Named(room)
    BY <1>0, <2>5 DEF Named
  <2> QED
    BY <1>5, <2>2, <2>3, <2>7, <2>8
<1>8. ASSUME NEW t \in Threads, SendOverfull(t) \/ CallClose(t) \/ CloseFlag(t) PROVE Goal
  BY <1>1, <1>8 DEF SendOverfull, CallClose, CloseFlag, Open
<1>9. ASSUME NEW t \in Threads, Spawn(t) PROVE Goal
  <2>1. InHand(drains') = InHand(drains)
    <3> DEFINE e == [id |-> arg[t].n, next |-> NoFrame]
    <3>1. drains' = drains \cup {e} /\ e.next = NoFrame
      BY <1>9 DEF Spawn
    <3> HIDE DEF e
    <3> QED
      BY <3>1 DEF InHand
  <2> QED
    BY <1>1, <1>9, <2>1 DEF Spawn, Open
<1>10. ASSUME NEW t \in Threads, CloseClear(t) PROVE Goal
  <2>1. closed'
    BY <1>0, <1>10 DEF CloseClear, KeptInv, ClosersClosed
  <2> QED
    BY <1>2, <1>10, <2>1 DEF CloseClear, Open, Alive
<1>11. ASSUME StrandClose \/ PeerGone PROVE Goal
  BY <1>1, <1>11 DEF StrandClose, PeerGone, Open
<1>12. ASSUME NEW d \in drains, DrainPop(d) PROVE Goal
  <2>1. FlowInv'
    BY <1>0, <1>12, FlowTaken
  <2>2. Seen' = Seen
    BY <1>12, SeenSame DEF DrainPop
  <2> QED
    BY <2>1, <2>2
<1>13. ASSUME NEW d \in drains, DrainExit(d) PROVE Goal
  <2>1. InHand(drains') = InHand(drains)
    BY <1>13 DEF InHand, DrainExit
  <2> QED
    BY <1>1, <1>13, <2>1 DEF DrainExit, Open
<1>14. ASSUME NEW d \in drains, DrainWrite(d) PROVE Goal
  BY <1>0, <1>14, DeliverStep
<1>15. ASSUME NEW d \in drains, DrainError(d) PROVE Goal
  <2>1. InHand(drains') \subseteq InHand(drains)
    BY <1>15 DEF InHand, DrainError
  <2> QED
    BY <1>2, <1>15, <2>1 DEF DrainError, Open, Alive
<1>16. ASSUME UNCHANGED vars PROVE Goal
  BY <1>1, <1>16 DEF vars, Open
<1> HIDE DEF Goal
<1>17. ASSUME NEW t \in Threads, Finish(t) PROVE Goal
  BY <1>4, <1>6, <1>7, <1>8, <1>9, <1>10, <1>17 DEF Finish, SendLocked
<1>18. ASSUME Drain PROVE Goal
  BY <1>12, <1>13, <1>14, <1>15, <1>18 DEF Drain
<1>19. Goal
  BY <1>3, <1>8, <1>11, <1>16, <1>17, <1>18 DEF Next
<1> QED
  BY <1>19 DEF Goal

LEMMA FlowInit == Init => FlowInv /\ Contract!Init
<1> SUFFICES ASSUME Init PROVE FlowInv /\ Contract!Init
  OBVIOUS
<1>1. KeptInv
  BY ChannelInit DEF Init, KeptInv, UpdatesAreNotControls, ClosersClosed, ControlsKept
<1>2. /\ outbox = <<>> /\ drains = {} /\ controls = <<>> /\ sends = 0 /\ wire = <<>>
      /\ Received = <<>>
  BY PassedEmpty DEF Init, Received
<1>3. Waiting(outbox) = {} /\ InHand(drains) = {} /\ Named(outbox)
  BY <1>2 DEF Waiting, InHand, Named
<1>4. Flows({}, {}, <<>>, <<>>, 0, Open, Alive)
  BY DEF Flows
<1>5. FlowInv
  BY <1>1, <1>2, <1>3, <1>4 DEF FlowInv
<1>6. \A k : Shown(k) = 0
  BY <1>2 DEF Shown
<1>7. Contract!Init
  BY <1>2, <1>6 DEF Contract!Init
<1> QED
  BY <1>5, <1>7

\* The channel implements its contract for any number of threads and pairs and
\* any cap: whatever is coalesced, dropped or given up, control frames reach the
\* peer in order with none skipped, and what it is shown of a pair only moves
\* forward.
THEOREM ContractRefined == Spec => ImplementsContract
<1>1. Init => FlowInv /\ Contract!Init
  BY FlowInit
<1>2. FlowInv /\ [Next]_vars => FlowInv' /\ [Contract!Next]_(Contract!cvars)
  BY FlowStep DEF Seen, Contract!cvars
<1> QED
  BY <1>1, <1>2, PTL DEF Spec, ImplementsContract, Contract!Spec
=============================================================================
