--------------------------- MODULE ClientSession ----------------------------
(***************************************************************************)
(* The outbound connection to one other component, and the subscriptions   *)
(* the client wants from it (ClientSession and the subscription part of    *)
(* Client, src/src/client.cpp).                                            *)
(*                                                                         *)
(* Three kinds of thread meet in a session.  Its coroutine run() connects, *)
(* retrying until it succeeds, hands the frames that waited to the new     *)
(* channel and replays the client's subscriptions.  Application threads    *)
(* and the io threads that publish call send().  The link to the master    *)
(* closes the session when the component leaves.                           *)
(*                                                                         *)
(* channel_mutex_ guards channel_ and pending_, state_mutex_ the client's  *)
(* maps; what happens under one lock is one action, and what a thread has  *)
(* read before it takes the next lock is kept in its sender record.        *)
(*                                                                         *)
(* The channel accepts every frame until it is closed: what it does with   *)
(* them afterwards is FrameChannel's subject.                              *)
(***************************************************************************)
EXTENDS Integers, Sequences

CONSTANTS Keys,         \* the keys subscribed to or written
          Scopes,       \* whom a subscription is for: "one" component or "any"
          Subscribers,  \* threads that register and cancel subscriptions
          Writers,      \* threads that send values and removals
          Run,          \* the session's own coroutine, as a sender
          MaxPending,   \* kMaxPendingFrames
          MaxCalls      \* bound: calls made by Subscribers and Writers

ASSUME PendingAssumption == MaxPending \in Nat \ {0}
ASSUME ThreadsAssumption == Run \notin Subscribers \cup Writers
ASSUME CallsAssumption   == MaxCalls \in Nat

VARIABLES
  subscriptions,  \* Client::subscriptions_, as <<scope, key>>
  listed,         \* the session is in Client::sessions_
  closing,        \* closing_
  channel,        \* channel_: adopted and not yet taken by close()
  socket,         \* the channel made by connect(): "none", "open" or "closed"
  pending,        \* pending_
  waiting,        \* connect()'s local queue, being flushed
  run,            \* where run() is
  replay,         \* the records sendSubscriptionsFor() has still to send
  closer,         \* where removeSession() and close() are
  sender,         \* each thread's progress through send()
  wire,           \* history: the frames the channel accepted, in order
  overflow,       \* history: the frames pushed out of pending_
  accepted,       \* history: frames numbered in the order of their critical sections
  crossed,        \* history: keys whose cancellation may come behind their subscription
  calls

vars == <<subscriptions, listed, closing, channel, socket, pending, waiting, run,
          replay, closer, sender, wire, overflow, accepted, crossed, calls>>

Threads == Subscribers \cup Writers \cup {Run}

Kinds   == {"subscribe", "unsubscribe", "value", "removal"}
Request == [kind : Kinds, key : Keys]
Frame   == [kind : Kinds, key : Keys, n : Nat]

\* A thread outside send(); looking for the session; inside send() before the
\* test of closing_; and between that test and the lock.
Idle == [at |-> "idle"]
Sending(at, r) == [at |-> at, req |-> r]

Numbered(r, n) == [kind |-> r.kind, key |-> r.key, n |-> n]

Init ==
  /\ subscriptions = {}
  /\ listed = FALSE
  /\ closing = FALSE
  /\ channel = FALSE
  /\ socket = "none"
  /\ pending = <<>>
  /\ waiting = <<>>
  /\ run = "none"
  /\ replay = {}
  /\ closer = "no"
  /\ sender = [t \in Threads |-> Idle]
  /\ wire = <<>>
  /\ overflow = {}
  /\ accepted = 0
  /\ crossed = {}
  /\ calls = 0

-----------------------------------------------------------------------------
(* The client's subscriptions                                              *)

Held(k) == \E s \in Scopes : <<s, k>> \in subscriptions

\* Somebody has erased a record of k and not yet sent the frame.
Cancelling(k) ==
  \E t \in Threads : sender[t].at # "idle" /\ sender[t].req = [kind |-> "unsubscribe", key |-> k]

Call(t) == sender[t] = Idle /\ calls < MaxCalls /\ calls' = calls + 1

\* registerSubscription: the record first, the frame afterwards.
RegisterSubscription(t, s, k) ==
  /\ Call(t)
  /\ <<s, k>> \notin subscriptions
  /\ subscriptions' = subscriptions \cup {<<s, k>>}
  /\ sender' = [sender EXCEPT ![t] =
       Sending("find", [kind |-> "subscribe", key |-> k])]
  /\ crossed' = IF Cancelling(k) THEN crossed \cup {k} ELSE crossed \ {k}
  /\ UNCHANGED <<listed, closing, channel, socket, pending, waiting, run, replay,
                 closer, wire, overflow, accepted>>

CancelSubscription(t, s, k) ==
  /\ Call(t)
  /\ <<s, k>> \in subscriptions
  /\ subscriptions' = subscriptions \ {<<s, k>>}
  /\ sender' = [sender EXCEPT ![t] =
       Sending("find", [kind |-> "unsubscribe", key |-> k])]
  /\ crossed' = IF Held(k)' THEN crossed \cup {k} ELSE crossed
  /\ UNCHANGED <<listed, closing, channel, socket, pending, waiting, run, replay,
                 closer, wire, overflow, accepted>>

\* setRemotePair, removeRemotePair and the two fan-outs.
Write(t, kind, k) ==
  /\ Call(t)
  /\ sender' = [sender EXCEPT ![t] = Sending("find", [kind |-> kind, key |-> k])]
  /\ UNCHANGED <<subscriptions, crossed, listed, closing, channel, socket, pending, waiting,
                 run, replay, closer, wire, overflow, accepted>>

\* sessionFor, or allSessions for a subscription on any owner.  Without a
\* session nothing is sent: the record will be replayed.
FindSession(t) ==
  /\ sender[t].at = "find"
  /\ sender' = [sender EXCEPT ![t] =
       IF listed THEN Sending("test", sender[t].req) ELSE Idle]
  /\ UNCHANGED <<subscriptions, crossed, listed, closing, channel, socket, pending, waiting,
                 run, replay, closer, wire, overflow, accepted, calls>>

-----------------------------------------------------------------------------
(* ClientSession::send                                                     *)

TestClosing(t) ==
  /\ sender[t].at = "test"
  /\ sender' = [sender EXCEPT ![t] =
       IF closing THEN Idle ELSE Sending("lock", sender[t].req)]
  /\ UNCHANGED <<subscriptions, crossed, listed, closing, channel, socket, pending, waiting,
                 run, replay, closer, wire, overflow, accepted, calls>>

\* FrameChannel::send: a closed channel takes nothing.
Offer(f) == wire' = IF socket = "open" THEN Append(wire, f) ELSE wire

\* send's critical section, connected.
SendDirect(t) ==
  /\ sender[t].at = "lock"
  /\ channel
  /\ Offer(Numbered(sender[t].req, accepted + 1))
  /\ accepted' = accepted + 1
  /\ sender' = [sender EXCEPT ![t] = Idle]
  /\ UNCHANGED <<subscriptions, crossed, listed, closing, channel, socket, pending, waiting,
                 run, replay, closer, overflow, calls>>

Full == Len(pending) >= MaxPending

\* Mutant: whether there is a channel was found out before the lock was taken.
SendPendingUnchecked(t) ==
  /\ sender[t].at = "lock"
  /\ pending' = Append(IF Full THEN Tail(pending) ELSE pending,
                       Numbered(sender[t].req, accepted + 1))
  /\ overflow' = IF Full THEN overflow \cup {Head(pending)} ELSE overflow
  /\ accepted' = accepted + 1
  /\ sender' = [sender EXCEPT ![t] = Idle]
  /\ UNCHANGED <<subscriptions, crossed, listed, closing, channel, socket, waiting, run,
                 replay, closer, wire, calls>>

\* send's critical section, not connected: the oldest makes room.
SendPending(t) ==
  LET f == Numbered(sender[t].req, accepted + 1)
  IN  /\ sender[t].at = "lock"
      /\ ~channel
      /\ pending' = Append(IF Full THEN Tail(pending) ELSE pending, f)
      /\ overflow' = IF Full THEN overflow \cup {Head(pending)} ELSE overflow
      /\ accepted' = accepted + 1
      /\ sender' = [sender EXCEPT ![t] = Idle]
      /\ UNCHANGED <<subscriptions, crossed, listed, closing, channel, socket, waiting, run,
                     replay, closer, wire, calls>>

-----------------------------------------------------------------------------
(* ClientSession::run                                                      *)

\* addSession, once the master has announced the component.
AddSession ==
  /\ run = "none"
  /\ listed' = TRUE
  /\ run' = "loop"
  /\ UNCHANGED <<subscriptions, crossed, closing, channel, socket, pending, waiting, replay,
                 closer, sender, wire, overflow, accepted, calls>>

\* Mutant: the loop does not look at closing_.
RunLoopForever ==
  /\ run = "loop"
  /\ run' = "connecting"
  /\ UNCHANGED <<subscriptions, crossed, listed, closing, channel, socket, pending, waiting,
                 replay, closer, sender, wire, overflow, accepted, calls>>

RunLoop ==
  /\ run = "loop"
  /\ run' = IF closing THEN "ended" ELSE "connecting"
  /\ UNCHANGED <<subscriptions, crossed, listed, closing, channel, socket, pending, waiting,
                 replay, closer, sender, wire, overflow, accepted, calls>>

\* Unresolved or unreachable; the loop continues after kReconnectDelay.
ConnectFails ==
  /\ run = "connecting"
  /\ run' = "loop"
  /\ UNCHANGED <<subscriptions, crossed, listed, closing, channel, socket, pending, waiting,
                 replay, closer, sender, wire, overflow, accepted, calls>>

\* connect()'s critical section when close() has run meanwhile.
Discard ==
  /\ run = "connecting"
  /\ closing
  /\ socket' = "closed"
  /\ run' = "loop"
  /\ UNCHANGED <<subscriptions, crossed, listed, closing, channel, pending, waiting, replay,
                 closer, sender, wire, overflow, accepted, calls>>

\* Mutant: the channel is adopted although close() has run.
AdoptClosing ==
  /\ run = "connecting"
  /\ channel' = TRUE
  /\ socket' = "open"
  /\ waiting' = pending
  /\ pending' = <<>>
  /\ run' = "flush"
  /\ UNCHANGED <<subscriptions, crossed, listed, closing, replay, closer, sender, wire,
                 overflow, accepted, calls>>

\* connect()'s critical section otherwise: the channel, and the queue with it.
Adopt ==
  /\ run = "connecting"
  /\ ~closing
  /\ channel' = TRUE
  /\ socket' = "open"
  /\ waiting' = pending
  /\ pending' = <<>>
  /\ run' = "flush"
  /\ UNCHANGED <<subscriptions, crossed, listed, closing, replay, closer, sender, wire,
                 overflow, accepted, calls>>

\* One frame of the flush, outside the lock.
FlushNext ==
  /\ run = "flush"
  /\ waiting # <<>>
  /\ Offer(Head(waiting))
  /\ waiting' = Tail(waiting)
  /\ UNCHANGED <<subscriptions, crossed, listed, closing, channel, socket, pending, run,
                 replay, closer, sender, overflow, accepted, calls>>

\* Mutant: only what is registered once the connection is up is asked for.
StartReplayEmpty ==
  /\ run = "flush"
  /\ waiting = <<>>
  /\ replay' = {}
  /\ run' = "replay"
  /\ crossed' = {k \in crossed : Cancelling(k)}
  /\ UNCHANGED <<subscriptions, listed, closing, channel, socket, pending, waiting,
                 closer, sender, wire, overflow, accepted, calls>>

\* sendSubscriptionsFor reads the records under state_mutex_ ...
StartReplay ==
  /\ run = "flush"
  /\ waiting = <<>>
  /\ replay' = subscriptions
  /\ run' = "replay"
  /\ crossed' = {k \in crossed : Cancelling(k)}
  /\ UNCHANGED <<subscriptions, listed, closing, channel, socket, pending, waiting,
                 closer, sender, wire, overflow, accepted, calls>>

\* ... and sends them one by one, through send() like everyone else.
ReplayNext ==
  /\ run = "replay"
  /\ sender[Run] = Idle
  /\ \E r \in replay :
       /\ replay' = replay \ {r}
       /\ sender' = [sender EXCEPT ![Run] =
            Sending("test", [kind |-> "subscribe", key |-> r[2]])]
  /\ UNCHANGED <<subscriptions, crossed, listed, closing, channel, socket, pending, waiting,
                 run, closer, wire, overflow, accepted, calls>>

\* Mutant: returns with records still to be sent.
RunReturnsEarly ==
  /\ run = "replay"
  /\ sender[Run] = Idle
  /\ run' = "ended"
  /\ UNCHANGED <<subscriptions, crossed, listed, closing, channel, socket, pending, waiting,
                 replay, closer, sender, wire, overflow, accepted, calls>>

RunReturns ==
  /\ run = "replay"
  /\ replay = {}
  /\ sender[Run] = Idle
  /\ run' = "ended"
  /\ UNCHANGED <<subscriptions, crossed, listed, closing, channel, socket, pending, waiting,
                 replay, closer, sender, wire, overflow, accepted, calls>>

-----------------------------------------------------------------------------
(* Client::removeSession and ClientSession::close                          *)

RemoveSession ==
  /\ listed
  /\ listed' = FALSE
  /\ closer' = "erased"
  /\ UNCHANGED <<subscriptions, crossed, closing, channel, socket, pending, waiting, run,
                 replay, sender, wire, overflow, accepted, calls>>

CloseFlag ==
  /\ closer = "erased"
  /\ closing' = TRUE
  /\ closer' = "flagged"
  /\ UNCHANGED <<subscriptions, crossed, listed, channel, socket, pending, waiting, run,
                 replay, sender, wire, overflow, accepted, calls>>

CloseTake ==
  /\ closer = "flagged"
  /\ channel' = FALSE
  /\ pending' = <<>>
  /\ closer' = IF channel THEN "taken" ELSE "done"
  /\ UNCHANGED <<subscriptions, crossed, listed, closing, socket, waiting, run, replay,
                 sender, wire, overflow, accepted, calls>>

CloseChannel ==
  /\ closer = "taken"
  /\ socket' = "closed"
  /\ closer' = "done"
  /\ UNCHANGED <<subscriptions, crossed, listed, closing, channel, pending, waiting, run,
                 replay, sender, wire, overflow, accepted, calls>>

-----------------------------------------------------------------------------

Application ==
  \/ \E t \in Subscribers, s \in Scopes, k \in Keys :
       RegisterSubscription(t, s, k) \/ CancelSubscription(t, s, k)
  \/ \E t \in Writers, kind \in {"value", "removal"}, k \in Keys : Write(t, kind, k)

Progress(t) == FindSession(t) \/ TestClosing(t) \/ SendDirect(t) \/ SendPending(t)

Coroutine ==
  \/ RunLoop \/ ConnectFails \/ Discard \/ Adopt
  \/ FlushNext \/ StartReplay \/ ReplayNext \/ RunReturns

Closing == CloseFlag \/ CloseTake \/ CloseChannel

Next ==
  \/ Application \/ (\E t \in Threads : Progress(t))
  \/ AddSession \/ Coroutine \/ RemoveSession \/ Closing

Spec == Init /\ [][Next]_vars

\* Calls return, the coroutine is scheduled and retries, a close that has
\* started ends, and the component answers one of the connection attempts.
Fairness ==
  /\ \A t \in Threads : WF_vars(Progress(t))
  /\ WF_vars(Coroutine)
  /\ SF_vars(Adopt)
  /\ WF_vars(Closing)

FairSpec == Spec /\ Fairness

-----------------------------------------------------------------------------
(* Properties                                                              *)

TypeOK ==
  /\ subscriptions \subseteq Scopes \X Keys
  /\ listed \in BOOLEAN
  /\ closing \in BOOLEAN
  /\ channel \in BOOLEAN
  /\ socket \in {"none", "open", "closed"}
  /\ pending \in Seq(Frame)
  /\ waiting \in Seq(Frame)
  /\ run \in {"none", "loop", "connecting", "flush", "replay", "ended"}
  /\ replay \subseteq Scopes \X Keys
  /\ closer \in {"no", "erased", "flagged", "taken", "done"}
  /\ sender \in [Threads -> {Idle} \cup [at : {"find", "test", "lock"}, req : Request]]
  /\ wire \in Seq(Frame)
  /\ overflow \subseteq Frame
  /\ accepted \in Nat
  /\ crossed \subseteq Keys
  /\ calls \in 0..MaxCalls

\* Nothing is left in pending_ once the connection is up: "checking the channel
\* and queueing in two steps would ... strand the frame in a queue nobody
\* flushes again" (the comment in ClientSession::send).
NoStrandedFrame ==
  run \in {"flush", "replay", "ended"} /\ ~closing => pending = <<>>

\* However close() and connect() interleave, no channel stays open: "Adopting
\* the channel now would leave it open with nobody to shut it down".
NoLeakedChannel ==
  /\ closer = "done" => socket # "open"
  /\ closer = "taken" \/ channel <=> socket = "open"

\* The numbers of the frames in a queue.
NumbersIn(q) == {q[i].n : i \in 1..Len(q)}

\* A frame is in one place at a time, and none disappears unless the queue
\* overflowed or the session is closing; the queues never reorder or repeat.
NothingLostOrDoubled ==
  /\ \A n \in 1..accepted :
       \/ closing
       \/ n \in NumbersIn(pending) \cup NumbersIn(waiting) \cup NumbersIn(wire)
       \/ \E f \in overflow : f.n = n
  /\ NumbersIn(pending) \cap (NumbersIn(waiting) \cup NumbersIn(wire)) = {}
  /\ NumbersIn(waiting) \cap NumbersIn(wire) = {}
  /\ \A i, j \in 1..Len(wire) : i # j => wire[i].n # wire[j].n

\* A component that stays away costs no more than MaxPending frames, and the
\* ones given up are older than all that are kept.
KeepsNewest ==
  /\ Len(pending) <= MaxPending
  /\ \A i, j \in 1..Len(pending) : i < j => pending[i].n < pending[j].n
  /\ \A f \in overflow, i \in 1..Len(pending) : f.n < pending[i].n

\* Every frame is accounted for, whatever order connect, close and the senders
\* take the lock in: held once, sent once, or given up as the oldest.
FramesAccounted == NoStrandedFrame /\ NothingLostOrDoubled /\ KeepsNewest

\* The last thing the component was told about k is that we want it.
Asked(k) ==
  \E i \in 1..Len(wire) :
    /\ wire[i].kind = "subscribe" /\ wire[i].key = k
    /\ \A j \in i+1..Len(wire) : wire[j].kind = "unsubscribe" => wire[j].key # k

\* Nobody is inside a call and the session is up.
Quiet == run = "ended" /\ listed /\ \A t \in Threads : sender[t] = Idle

\* "Subscribing before the other component exists is fine.  Subscriptions are
\* replayed to components as they connect" (docs/user/api-reference.md):
\* whenever it was registered, by whichever thread and for whichever scope, and
\* whatever overflowed meanwhile.  Except (crossed) that a frame of a cancellation
\* may be the last one: record and frame are two steps of registerSubscription and
\* cancelSubscription, so that a cancellation on one thread can be sent behind a
\* subscription made after it on another; and cancelling the record of one scope
\* sends the frame that ends the other's too, which the same document calls separate
\* subscriptions.  The next registration of the key, and the replay of a new
\* connection, end the exception.
HeldIsAsked == Quiet => \A k \in Keys \ crossed : Held(k) => Asked(k)

\* A held subscription is asked for, once the component answers, but for a
\* cancellation that comes behind it.
HeldGetsAsked ==
  \A k \in Keys : (Held(k) /\ listed) ~> (Asked(k) \/ ~Held(k) \/ ~listed \/ k \in crossed)

\* A closed session gives up its coroutine and its connection.
CloseEnds == (closer = "erased") ~> (closer = "done" /\ run = "ended" /\ socket # "open")

=============================================================================
