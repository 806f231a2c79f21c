----------------------------- MODULE LockPaths ------------------------------
(***************************************************************************)
(* The paths of Locks for the library (src/src) and the GUI's link         *)
(* (src/gui/srnp_link.cpp): which mutexes every call of the API and every  *)
(* handler on an io thread takes, in which order and around what.  Every   *)
(* SRNP_* line that is printed takes g_write_mutex, under whatever is held *)
(* at the time.                                                            *)
(***************************************************************************)
EXTENDS Locks

CONSTANTS Peers  \* the sessions: each has a channel mutex, its channel an outbox

\* The mutexes, in the order the code takes them in.
Kinds == <<"SrnpLink::mutex_", "g_mutex", "PairSpace::mutex", "state_mutex_", "ready_mutex_",
           "channel_mutex_", "outbox_mutex_", "g_write_mutex">>

The(kind) == <<kind, Nobody>>
OfSession(kind, p) == <<kind, p>>

SrnpMutexes ==
  {The(Kinds[i]) : i \in {1, 2, 3, 4, 5, 8}} \cup {OfSession(Kinds[i], p) : i \in {6, 7}, p \in Peers}
SrnpRank == [m \in SrnpMutexes |-> CHOOSE i \in 1..Len(Kinds) : Kinds[i] = m[1]]

\* std::lock_guard lock(m) at the head of a scope with these steps.
Under(m, steps) ==
  <<[op |-> "lock", m |-> m, held |-> {}]>>
  \o [i \in 1..Len(steps) |-> [steps[i] EXCEPT !.held = @ \cup {m}]]
  \o <<[op |-> "unlock", m |-> m, held |-> {m}]>>

Just(m) == Under(m, <<>>)

callback == <<[op |-> "callback", m |-> Nobody, held |-> {}]>>

-----------------------------------------------------------------------------
(* FrameChannel and ClientSession                                          *)

log == Just(The("g_write_mutex"))

closeChannel(p) == Just(OfSession("outbox_mutex_", p))

\* FrameChannel::send: closed, replaced in place, overfull or queued.
sendFrame(p) == log \o Under(OfSession("outbox_mutex_", p), log) \o closeChannel(p)

drainOutbox(p) == Just(OfSession("outbox_mutex_", p)) \o log \o Just(OfSession("outbox_mutex_", p))

\* ClientSession::send
send(p) == Under(OfSession("channel_mutex_", p), sendFrame(p) \o log)

\* ClientSession::close
close(p) == Just(OfSession("channel_mutex_", p)) \o closeChannel(p)

sessionFor == Just(The("state_mutex_"))

\* Mutant: the subscriptions are replayed before the channel's mutex is released.
connectHolding(p) ==
  log \o Under(OfSession("channel_mutex_", p), closeChannel(p) \o sessionFor) \o sendFrame(p)

\* ClientSession::connect, then sendSubscriptionsFor, as run() has them.
connect(p) ==
  log \o Under(OfSession("channel_mutex_", p), closeChannel(p)) \o sendFrame(p)
  \o log \o sessionFor \o send(p)

-----------------------------------------------------------------------------
(* Client                                                                  *)

\* fanOutPair and fanOutRemoval, for one subscriber.
fanOut(p) == sessionFor \o send(p) \o log

\* setPair queues its frames under the pair space's mutex; removePair takes the same
\* locks in the same order, and so does removeRemotePair as setRemotePair.
setPair(p) == Under(The("PairSpace::mutex"), log \o fanOut(p))

setRemotePair(p) == sessionFor \o log \o send(p)

getPair == Just(The("PairSpace::mutex"))

\* getPairIndirectly and setPairIndirectly
getIndirectly == getPair \o log \o getPair
setIndirectly(p) == getPair \o log \o setPair(p) \o setRemotePair(p)

\* registerCallback and cancelCallback
registerCallback == Under(The("PairSpace::mutex"), log)

\* registerSubscription and cancelSubscription: the record, then the frame.
registerSubscription(p) == Under(The("state_mutex_"), log) \o sessionFor \o send(p)

\* onComponentUpdate, and Client::close
updateComponents(p) == log \o Just(The("state_mutex_")) \o close(p)

onWelcome == Just(The("state_mutex_")) \o Just(The("ready_mutex_"))

-----------------------------------------------------------------------------
(* The meta-pair trackers: every operation is one scope of g_mutex         *)

releaseTarget(p) == registerCallback \o registerSubscription(p)
acquireTarget(p) == registerSubscription(p) \o registerCallback

onMetaPairChanged(p) == Under(The("g_mutex"), releaseTarget(p) \o acquireTarget(p))
registerTracker(p) == Under(The("g_mutex"), registerSubscription(p) \o registerCallback)
cancelMetaCallback(p) ==
  Under(The("g_mutex"), log \o releaseTarget(p) \o registerSubscription(p) \o registerCallback)

-----------------------------------------------------------------------------
(* ServerSession and the GUI's link                                        *)

\* Mutant: the callbacks run before the lock is released.
applyHolding(p) == Under(The("PairSpace::mutex"), callback) \o fanOut(p)

\* Callbacks and frames come after the critical section.
applyAndNotify(p) == Just(The("PairSpace::mutex")) \o callback \o fanOut(p)

\* handleSubscription and handleRemovePair; handlePairRemoved is the first part.
handleSubscription(p) == log \o Under(The("PairSpace::mutex"), log) \o fanOut(p)

\* SrnpLink: connectLoop after initialize, and setSubscribedToAll, whose state()
\* is a scope of its own.
connectLoop(p) ==
  Just(The("SrnpLink::mutex_")) \o onWelcome \o registerSubscription(p)
  \o Under(The("SrnpLink::mutex_"), log)

-----------------------------------------------------------------------------

\* What the application and a user callback may call; a tracker's own callback
\* on its meta-pair runs as user callbacks do.
Api ==
  {getIndirectly} \cup
  UNION {{setIndirectly(p), registerSubscription(p), registerTracker(p), cancelMetaCallback(p)} :
         p \in Peers}
SrnpCallbacks == Api \cup {registerCallback} \cup {onMetaPairChanged(p) : p \in Peers}

\* What the threads run: calls of the application, handlers, posted callbacks.
SrnpPaths ==
  Api \cup {callback} \cup
  UNION {{drainOutbox(p), connect(p), updateComponents(p), applyAndNotify(p),
          handleSubscription(p), connectLoop(p)} : p \in Peers}
=============================================================================
