---------------------------- MODULE FrameChannel ----------------------------
(***************************************************************************)
(* One outgoing connection: FrameChannel of src/src/session.cpp.           *)
(*                                                                         *)
(* Any thread may call send() or close().  Frames wait in outbox, a list   *)
(* of at most kMaxOutboxFrames nodes; a coroutine, drainOutbox(), takes    *)
(* them off its front and writes them to the socket one at a time.  A full *)
(* outbox coalesces an update with the queued update of the same pair, or  *)
(* drops the oldest update, or gives the connection up.                    *)
(*                                                                         *)
(* A frame is abstracted to the pair it is about, whether it is a pair     *)
(* update (the only frames sent with a coalesce key) or a control frame (a *)
(* removal or a subscription), and its serial number n: the order in which *)
(* the callers of send() took outbox_mutex_.                               *)
(***************************************************************************)
EXTENDS Integers, SequencesExt

CONSTANTS Threads,           \* the threads that call send() and close()
          Keys,              \* the pairs frames are about
          NoKey,             \* std::nullopt as a coalesce key
          kMaxOutboxFrames,  \* the cap on outbox
          MaxSends           \* bound: no send() starts after this many frames

ASSUME KeysAssumption == NoKey \notin Keys
ASSUME CapAssumption  == kMaxOutboxFrames \in Nat \ {0}
ASSUME SendsAssumption == MaxSends \in Nat

VARIABLES
  outbox,       \* outbox_: sequence of nodes
  coalescable,  \* coalescable_: the node each key's entry points at, 0 if none
  writing,      \* writing_
  closed,       \* closed_
  drains,       \* the running drainOutbox() coroutines and the frame each holds
  socket,       \* "open", "broken" (the peer is gone) or "closed"
  posted,       \* close() has posted the socket's close to the strand
  pc,           \* where each thread is in send() or close()
  arg,          \* the frame each thread is sending
  sends,        \* history: frames accepted under outbox_mutex_ so far
  wire,         \* history: the frames written to the socket
  controls,     \* history: serials of the control frames accepted, in order
  latest        \* history: serial of the last frame accepted about each key

vars == <<outbox, coalescable, writing, closed, drains, socket, posted, pc,
          arg, sends, wire, controls, latest>>

Frame   == [about : Keys, update : BOOLEAN, n : Nat]
NoFrame == [about |-> NoKey, update |-> FALSE, n |-> 0]

\* struct Outbound, with the identity its list iterator stands for.
Outbound == [id : Nat, bytes : Frame, coalesce_key : Keys \cup {NoKey}]

Init ==
  /\ outbox = <<>>
  /\ coalescable = [k \in Keys |-> 0]
  /\ writing = FALSE
  /\ closed = FALSE
  /\ drains = {}
  /\ socket = "open"
  /\ posted = FALSE
  /\ pc = [t \in Threads |-> "idle"]
  /\ arg = [t \in Threads |-> NoFrame]
  /\ sends = 0
  /\ wire = <<>>
  /\ controls = <<>>
  /\ latest = [k \in Keys |-> 0]

-----------------------------------------------------------------------------
(* send()                                                                  *)

Full == Len(outbox) >= kMaxOutboxFrames

\* The frame's coalesce key: set on pair updates only.
CoalesceKey(f) == IF f.update THEN f.about ELSE NoKey

\* The frame thread t brings to the locked section, numbered by lock order.
Incoming(t) == [arg[t] EXCEPT !.n = sends + 1]

\* Mutant: a frame leaves the list and the index keeps pointing at it.
ErasedNothing(index, k) == index

\* The map with the entry for key k erased; k may be NoKey, then nothing is.
Erased(index, k) == [j \in Keys |-> IF j = k THEN 0 ELSE index[j]]

\* Mutant: control frames may be dropped too.
DroppableAny == 1..Len(outbox)

\* Positions of the frames makeRoomLocked() may drop.
Droppable == {i \in 1..Len(outbox) : outbox[i].coalesce_key # NoKey}

\* i is the oldest of them.
OldestDroppable(i) == i \in Droppable /\ \A j \in Droppable : i <= j

\* The history of what the locked section took in.
Record(f) ==
  /\ sends' = f.n
  /\ latest' = [latest EXCEPT ![f.about] = f.n]
  /\ controls' = IF f.update THEN controls ELSE Append(controls, f.n)

\* Mutant: the frame is left behind.
CallSendEmpty(t, k, u) ==
  /\ pc[t] = "idle" /\ sends < MaxSends
  /\ pc' = [pc EXCEPT ![t] = "send"]
  /\ UNCHANGED <<outbox, coalescable, writing, closed, drains, socket, posted,
                 arg, sends, wire, controls, latest>>

\* send() is entered: a closed channel drops the frame at once.
CallSend(t, k, u) ==
  /\ pc[t] = "idle" /\ sends < MaxSends
  /\ ~closed
  /\ pc' = [pc EXCEPT ![t] = "send"]
  /\ arg' = [arg EXCEPT ![t] = [about |-> k, update |-> u, n |-> 0]]
  /\ UNCHANGED <<outbox, coalescable, writing, closed, drains, socket, posted,
                 sends, wire, controls, latest>>

\* makeRoomLocked(): the key is waiting in a full outbox, so its node takes
\* the new bytes and keeps its place.
SendCoalesce(t) ==
  /\ pc[t] = "send" /\ Full
  /\ arg[t].update /\ coalescable[arg[t].about] # 0
  /\ \E i \in 1..Len(outbox) :
       /\ outbox[i].id = coalescable[arg[t].about]
       /\ outbox' = ReplaceAt(outbox, i, [outbox[i] EXCEPT !.bytes = Incoming(t)])
  /\ Record(Incoming(t))
  /\ pc' = [pc EXCEPT ![t] = "idle"]
  /\ arg' = [arg EXCEPT ![t] = NoFrame]
  /\ UNCHANGED <<coalescable, writing, closed, drains, socket, posted, wire>>

\* Mutant: emplace where the code has insert_or_assign, so that the index goes
\* on pointing at an older update of the key.
PushBackEmplacing(t, room, index) ==
  LET f == Incoming(t)
  IN  /\ outbox' = Append(room, [id |-> f.n, bytes |-> f,
                                 coalesce_key |-> CoalesceKey(f)])
      /\ coalescable' = IF f.update /\ index[f.about] = 0
                        THEN [index EXCEPT ![f.about] = f.n] ELSE index
      /\ writing' = TRUE
      /\ pc' = [pc EXCEPT ![t] = IF writing THEN "idle" ELSE "spawn"]
      /\ arg' = [arg EXCEPT ![t] = IF writing THEN NoFrame ELSE f]
      /\ Record(f)
      /\ UNCHANGED <<closed, drains, socket, posted, wire>>

\* The rest of send()'s locked section: queue the frame at the back of the
\* list "room", point the index at it, and become the one who spawns a drain
\* if none is running.
PushBack(t, room, index) ==
  LET f == Incoming(t)
  IN  /\ outbox' = Append(room, [id |-> f.n, bytes |-> f,
                                 coalesce_key |-> CoalesceKey(f)])
      /\ coalescable' = IF f.update THEN [index EXCEPT ![f.about] = f.n]
                                    ELSE index
      /\ writing' = TRUE
      /\ pc' = [pc EXCEPT ![t] = IF writing THEN "idle" ELSE "spawn"]
      /\ arg' = [arg EXCEPT ![t] = IF writing THEN NoFrame ELSE f]
      /\ Record(f)
      /\ UNCHANGED <<closed, drains, socket, posted, wire>>

SendPush(t) ==
  /\ pc[t] = "send" /\ ~Full
  /\ PushBack(t, outbox, coalescable)

\* makeRoomLocked(): the oldest droppable frame gives way, and its key's
\* index entry goes with it.
SendDropping(t) ==
  /\ pc[t] = "send" /\ Full
  /\ ~(arg[t].update /\ coalescable[arg[t].about] # 0)
  /\ \E i \in 1..Len(outbox) :
       /\ OldestDroppable(i)
       /\ PushBack(t, RemoveAt(outbox, i),
                   Erased(coalescable, outbox[i].coalesce_key))

\* Nothing may be dropped: leave the lock and close the connection.
SendOverfull(t) ==
  /\ pc[t] = "send" /\ Full
  /\ ~(arg[t].update /\ coalescable[arg[t].about] # 0)
  /\ Droppable = {}
  /\ pc' = [pc EXCEPT ![t] = "close"]
  /\ arg' = [arg EXCEPT ![t] = NoFrame]
  /\ UNCHANGED <<outbox, coalescable, writing, closed, drains, socket, posted,
                 sends, wire, controls, latest>>

\* co_spawn(strand_, drainOutbox), after the lock is released.
Spawn(t) ==
  /\ pc[t] = "spawn"
  /\ drains' = drains \cup {[id |-> arg[t].n, next |-> NoFrame]}
  /\ pc' = [pc EXCEPT ![t] = "idle"]
  /\ arg' = [arg EXCEPT ![t] = NoFrame]
  /\ UNCHANGED <<outbox, coalescable, writing, closed, socket, posted,
                 sends, wire, controls, latest>>

-----------------------------------------------------------------------------
(* close()                                                                 *)

CallClose(t) ==
  /\ pc[t] = "idle"
  /\ pc' = [pc EXCEPT ![t] = "close"]
  /\ UNCHANGED <<outbox, coalescable, writing, closed, drains, socket, posted,
                 arg, sends, wire, controls, latest>>

\* closed_.exchange(true): only the first caller goes on.
CloseFlag(t) ==
  /\ pc[t] = "close"
  /\ closed' = TRUE
  /\ pc' = [pc EXCEPT ![t] = IF closed THEN "idle" ELSE "clear"]
  /\ UNCHANGED <<outbox, coalescable, writing, drains, socket, posted, arg,
                 sends, wire, controls, latest>>

\* Mutant: a running drain is expected to close the socket.
CloseClearIdle(t) ==
  /\ pc[t] = "clear"
  /\ outbox' = <<>>
  /\ coalescable' = [k \in Keys |-> 0]
  /\ posted' = ~writing
  /\ pc' = [pc EXCEPT ![t] = "idle"]
  /\ UNCHANGED <<writing, closed, drains, socket, arg, sends, wire, controls,
                 latest>>

\* The queue is cleared under the lock; the socket's close goes to the strand.
CloseClear(t) ==
  /\ pc[t] = "clear"
  /\ outbox' = <<>>
  /\ coalescable' = [k \in Keys |-> 0]
  /\ posted' = TRUE
  /\ pc' = [pc EXCEPT ![t] = "idle"]
  /\ UNCHANGED <<writing, closed, drains, socket, arg, sends, wire, controls,
                 latest>>

\* The posted handler runs on the strand.
StrandClose ==
  /\ posted /\ socket # "closed"
  /\ socket' = "closed"
  /\ UNCHANGED <<outbox, coalescable, writing, closed, drains, posted, pc, arg,
                 sends, wire, controls, latest>>

\* The peer's end of the connection goes away.
PeerGone ==
  /\ socket = "open"
  /\ socket' = "broken"
  /\ UNCHANGED <<outbox, coalescable, writing, closed, drains, posted, pc, arg,
                 sends, wire, controls, latest>>

-----------------------------------------------------------------------------
(* drainOutbox()                                                           *)

\* The frame at the front is taken, and its key leaves the index.
DrainPop(d) ==
  /\ d.next = NoFrame
  /\ outbox # <<>> /\ ~closed
  /\ drains' = (drains \ {d}) \cup {[d EXCEPT !.next = Head(outbox).bytes]}
  /\ outbox' = Tail(outbox)
  /\ coalescable' = Erased(coalescable, Head(outbox).coalesce_key)
  /\ UNCHANGED <<writing, closed, socket, posted, pc, arg, sends, wire,
                 controls, latest>>

\* Mutant: a drain ends after a frame, whatever is queued.
DrainExitEarly(d) ==
  /\ d.next = NoFrame
  /\ writing' = FALSE
  /\ drains' = drains \ {d}
  /\ UNCHANGED <<outbox, coalescable, closed, socket, posted, pc, arg, sends,
                 wire, controls, latest>>

\* Nothing left, or the channel was closed: the coroutine ends.
DrainExit(d) ==
  /\ d.next = NoFrame
  /\ outbox = <<>> \/ closed
  /\ writing' = FALSE
  /\ drains' = drains \ {d}
  /\ UNCHANGED <<outbox, coalescable, closed, socket, posted, pc, arg, sends,
                 wire, controls, latest>>

\* async_write has put the whole frame on the connection.
DrainWrite(d) ==
  /\ d.next # NoFrame
  /\ socket = "open"
  /\ wire' = Append(wire, d.next)
  /\ drains' = (drains \ {d}) \cup {[d EXCEPT !.next = NoFrame]}
  /\ UNCHANGED <<outbox, coalescable, writing, closed, socket, posted, pc, arg,
                 sends, controls, latest>>

\* async_write fails: the peer is gone, or the strand closed the socket.
DrainError(d) ==
  /\ d.next # NoFrame
  /\ socket # "open"
  /\ outbox' = <<>>
  /\ coalescable' = [k \in Keys |-> 0]
  /\ writing' = FALSE
  /\ drains' = drains \ {d}
  /\ UNCHANGED <<closed, socket, posted, pc, arg, sends, wire, controls, latest>>

-----------------------------------------------------------------------------

SendLocked(t) ==
  SendCoalesce(t) \/ SendPush(t) \/ SendDropping(t) \/ SendOverfull(t)

\* What a thread inside send() or close() goes on to do.
Finish(t) == SendLocked(t) \/ Spawn(t) \/ CloseFlag(t) \/ CloseClear(t)

Drain == \E d \in drains : DrainPop(d) \/ DrainExit(d) \/ DrainWrite(d) \/ DrainError(d)

Next ==
  \/ \E t \in Threads :
       \/ \E k \in Keys, u \in BOOLEAN : CallSend(t, k, u)
       \/ CallClose(t)
       \/ Finish(t)
  \/ StrandClose
  \/ PeerGone
  \/ Drain

Spec == Init /\ [][Next]_vars

\* Threads leave send() and close(), the io_context runs what is on the strand,
\* and the peer reads: a write on an open connection completes.
Fairness ==
  /\ \A t \in Threads : WF_vars(Finish(t))
  /\ WF_vars(StrandClose)
  /\ WF_vars(Drain)

FairSpec == Spec /\ Fairness

-----------------------------------------------------------------------------
(* Properties                                                              *)

TypeOK ==
  /\ outbox \in Seq(Outbound)
  /\ coalescable \in [Keys -> Nat]
  /\ writing \in BOOLEAN /\ closed \in BOOLEAN /\ posted \in BOOLEAN
  /\ socket \in {"open", "broken", "closed"}
  /\ drains \subseteq [id : Nat, next : Frame \cup {NoFrame}]
  /\ pc \in [Threads -> {"idle", "send", "spawn", "close", "clear"}]
  /\ arg \in [Threads -> Frame \cup {NoFrame}]
  /\ \A t \in Threads : pc[t] \in {"send", "spawn"} => arg[t] \in Frame
  /\ sends \in Nat
  /\ wire \in Seq(Frame)
  /\ controls \in Seq(Nat)
  /\ latest \in [Keys -> Nat]

\* kMaxOutboxFrames: whatever the callers of send() do, a peer that has stopped
\* reading costs at most that many queued frames.
Bounded == Len(outbox) <= kMaxOutboxFrames

\* coalescable_ holds list iterators.  None ever dangles, and each points at
\* the youngest queued update of its key: the node a coalesced update may
\* replace without letting an older value of the pair follow it.
IndexSound ==
  \A k \in Keys : coalescable[k] # 0 =>
    \E i \in 1..Len(outbox) :
      /\ outbox[i].id = coalescable[k]
      /\ outbox[i].coalesce_key = k
      /\ \A j \in 1..Len(outbox) : outbox[j].coalesce_key = k => j <= i

Spawning == {t \in Threads : pc[t] = "spawn"}

\* writing_ is true exactly while one drain exists or is about to be spawned,
\* and never two: frames would interleave on the socket.
OneWriter ==
  /\ writing <=> (drains # {} \/ Spawning # {})
  /\ \A d, e \in drains : d = e
  /\ \A t, u \in Spawning : t = u
  /\ drains = {} \/ Spawning = {}

\* No lost wake-up between send() and the drain's exit: frames wait without a
\* drain only on a channel that is closed.
NoLostWakeup == outbox # <<>> => writing \/ closed

\* What send(), the drain and close() rely on together: memory stays bounded,
\* the index usable, and there is a drain, and one only, while there is work.
QueueSound == Bounded /\ IndexSound /\ OneWriter /\ NoLostWakeup

\* The pair updates of one key reach the peer in the order they were accepted:
\* coalescing, dropping and draining never let a value go backwards.
UpdatesInOrder ==
  \A i, j \in 1..Len(wire) :
    i < j /\ wire[i].update /\ wire[j].update /\ wire[i].about = wire[j].about
      => wire[i].n < wire[j].n

\* The frames on their way: in a drain's hands, or queued.
Queued(n) == \/ \E d \in drains : d.next.n = n
             \/ \E i \in 1..Len(outbox) : outbox[i].bytes.n = n
Written(n) == \E i \in 1..Len(wire) : wire[i].n = n

\* A removal or subscription that send() accepted is on its way or written for
\* as long as the connection lives: only a connection given up loses one.
ControlsKept ==
  closed \/ socket # "open" \/
  \A i \in 1..Len(controls) : Queued(controls[i]) \/ Written(controls[i])

\* What the peer receives, as ChannelContract states it: the serials of the
\* control frames of w, in order.
Passed(w) ==
  LET passed[i \in 0..Len(w)] ==
        IF i = 0 THEN <<>>
        ELSE IF w[i].update THEN passed[i - 1] ELSE Append(passed[i - 1], w[i].n)
  IN  passed[Len(w)]

Received == Passed(wire)
Shown(k) ==
  LET about == {i \in 1..Len(wire) : wire[i].update /\ wire[i].about = k}
  IN  IF about = {} THEN 0 ELSE wire[Max(about)].n

Contract == INSTANCE ChannelContract WITH
  accepted <- controls, received <- Received,
  offered <- sends, shown <- [k \in Keys |-> Shown(k)]

\* The channel implements its contract: control frames arrive in order with
\* none skipped, updates of a pair arrive in order.
ImplementsContract == Contract!Spec

AllWritten == \A i \in 1..Len(controls) : Written(controls[i])

\* The accepted control frames are eventually written, if the connection lives.
ControlsWritten == ~AllWritten ~> (AllWritten \/ closed \/ socket # "open")

\* close() ends: the socket is closed and no coroutine keeps the channel alive,
\* although threads already past the isClosed() check still queue frames.
CloseReleases == closed ~> (socket = "closed" /\ drains = {} /\ Spawning = {})

Quiet == /\ outbox = <<>> /\ ~closed /\ socket = "open"
         /\ drains = {} /\ \A t \in Threads : pc[t] = "idle"

\* "srnp promises only that a subscriber converges on the current value"
\* (docs/user/concepts.md): once everything is written, the last frame the peer
\* has about a pair is the last one accepted.  A full outbox breaks it twice:
\* it drops the only update of another pair, and coalescing in place moves an
\* update ahead of a removal.
ConvergesOnCurrent ==
  Quiet => \A k \in Keys : latest[k] # 0 =>
    \E i \in 1..Len(wire) :
      /\ wire[i].n = latest[k]
      /\ \A j \in i+1..Len(wire) : wire[j].about # k

=============================================================================
