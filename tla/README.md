# TLA+ verification of srnp

srnp is a blackboard shared by a network of components. Every component keeps
key/value pairs it *owns*, other components subscribe to them, and one *master*
tells the components about each other. This directory holds TLA+ modules for
the parts of srnp in which something can go wrong between two steps, TLC
configurations that check them on small instances, and TLAPS proofs of the
results that should hold for every number of threads, keys, components and
every queue limit.

All source paths are relative to the repository root (`src/client.cpp` is the
library's `client.cpp`; `PROJECT.json` gives the exact lines of every
definition).

## 1. Inventory

### Components of the system

| Part | Source | State | Operations |
|---|---|---|---|
| FrameChannel | `session.cpp`, `session.h` | `outbox_`, `coalescable_`, `writing_`, `closed_`, the socket | `send`, `makeRoomLocked`, `drainOutbox`, `close`, `read` |
| PairSpace | `PairSpace.cpp`, `PairSpace.h` | `pairs_` (value, subscribers, callbacks), `u_subscribers_`, `callback_owners_`, `universal_callbacks_`, the handle counter | `addPair`, `removePair`, `addCallback[ToAll]`, `removeCallback`, `addSubscription[ToAll]`, `removeSubscription[ToAll]` |
| ServerSession | `server.cpp` | what a handler has collected and not yet sent | `handleIncomingPair`, `handlePairUpdate`, `handleSubscription`, `handleRemovePair`, `handlePairRemoved` |
| Client, publishing | `client.cpp` | `callback_strand_` | `setPair`, `removePair`, `notifyLocal`, `fanOutPair`, `fanOutRemoval` |
| Client, subscriptions | `client.cpp` | `subscriptions_` | `registerSubscription`, `cancelSubscription` |
| ClientSession | `client.cpp` | `channel_`, `pending_`, `closing_` | `run`, `connect`, `sendSubscriptionsFor`, `send`, `close` |
| Client, components | `client.cpp` | `sessions_`, `components_`, `owner_id_` | `onWelcome`, `onComponentUpdate`, `addSession`, `removeSession` |
| MasterHub | `master_hub.cpp` | `sessions_`, the id generator | `registerComponent`, `makeOwnerId`, `removeComponent`, `sendToAll` |
| MasterLink | `server.cpp` | the link to the master | `registerWithMaster`, `run`, `close` |
| Server | `server.cpp` | acceptor, four worker threads | `acceptLoop`, `startWorkers`, `stop` |
| Kernel | `srnp_kernel.cpp` | the process-wide node | `initialize`, `ok`, `shutdown`, wrappers |
| Meta-pairs | `meta_pair_callback.cpp`, `client.cpp` | a tracker's current target, subscription and callback | tracker callback, indirect reads and writes |
| Wire format, codec | `wire.*`, `msgs/` | none | header and payload encoding and decoding |
| pairview, link | `gui/srnp_link.*` | state of the link, wildcard handle | connect thread, wildcard subscription |
| pairview, window | `gui/pair_view.*` | `selection_`, the open dialog, `subscriptions_` | select, follow a meta-pair, post, delete with confirmation, subscription controls |
| Mutexes | all of the above, `srnp_print.cpp` | who holds which | every lock and unlock, and the calls in between |
| pairview's drawing, logging, master executable | | | output; runs the hub on one thread |

### How they interact

A component's own threads publish through `Client::setPair`, which changes the
PairSpace and queues frames for the subscribers inside one critical section.
Other components' frames arrive on ServerSessions, one coroutine per
connection, run by four io threads: a handler changes the PairSpace under its
mutex and sends afterwards, outside it. Everything sent to another component
goes through the ClientSession for it, which holds frames back until it is
connected, and then through that session's FrameChannel, which bounds what a
slow peer costs. MasterHub tells each component which others there are; the
client opens and closes its sessions accordingly, and replays its
subscriptions to each new one. A component that another one sends an update to
applies it to its own PairSpace, and passes it on to whoever is subscribed there.

### What is hard about it

- Windows between unlocking and sending (`applyAndNotify`, `handleSubscription`,
  `handleRemovePair`, `connect`'s flush, `notifyLocal`'s post).
- The hand-over between `send` and the drain coroutine (a lost wake-up, or two
  writers on one socket), and `close` against both.
- List iterators kept in an index while the list changes under coalescing,
  dropping and draining.
- Queue limits: the outbox (4096 frames) and the pending queue (1024).
- Four indexes of the PairSpace that must agree after every sequence of calls.
- Connecting, retrying, being announced and being closed at the same time.
- Ids that are forced, derived, taken and freed while components crash.
- A meta-pair that changes while an earlier change of it is still to be acted
  on, and a subscription that tracker and application share.
- Shutting down while handlers run, and retrying an initialization that failed
  halfway.
- A byte stream that may end anywhere, and limits on both sides of it.
- Eight kinds of mutex, taken inside one another by the application, by handlers
  and by user callbacks that call the library in turn.
- Several components together: updates passed on by a third one, subscriptions
  that arrive before the announcement of whoever made them, components that come
  back under an id with subscriptions of its former bearer.
- A window that acts on a snapshot the network has since overtaken.

`hazards` in `PROJECT.json` lists these one by one, each with its line and the
properties that would catch it going wrong.

### What makes each part correct

- FrameChannel: at most one drain, none missing; the cap holds; the index never
  dangles; updates of a pair are never reordered; no control frame is lost while
  the connection lives; `close` releases everything.
- PairSpace: the indexes agree; nobody is in a list twice; deleting a value
  keeps the registrations on it; wildcard subscribers are in every entry.
- Publishing: whoever is subscribed ends up with the current value; nobody is
  sent what it did not ask for; one thread's callbacks run in its order.
- ClientSession: no frame stranded, lost or doubled; no channel leaked; every
  held subscription is asked for.
- MasterHub: an id names one component; each component's list amounts to the
  master's; nobody lists itself; a session is never silently replaced.
- Meta-pairs: a tracker points where its meta-pair does; it leaves no callback
  behind and takes away no subscription that is not its own.
- Node: no handler meets a node that is being taken down; every session is
  closed; a failed attempt leaves nothing; the link connects and can be closed.
- Wire: what arrives is what was sent, at every limit; anything else ends the
  connection.
- Locks: every mutex is taken in one order; user callbacks run with none held;
  every call returns.
- Network: nobody is told about its own pair; whoever is listed is current; an
  owner lists exactly those that asked; the traffic about a change ends.
- pairview's window: the controls show what is subscribed to, and can undo it.

## 2. Modules

```
FrameChannel ----> ChannelContract        (refinement)
   |   \-- FrameChannelProofs             (theorems)
PairSpace
   |
PublishPath   EXTENDS PairSpace           (composition, refinement)
   \-- PublishPathProofs                  (theorems, of PairSpace too)
Network                                   (several components)
   |
PairView      EXTENDS Network             (composition)
   \-- PairViewProofs                     (theorems, of Network too)
Locks --- LocksProofs                     (theorems)
   |
LockPaths     EXTENDS Locks               (the paths of this code)
ClientSession --- ClientSessionProofs     (theorems)
MasterHub --- MasterHubProofs             (theorems)
MetaTracker --- MetaTrackerProofs         (theorems)
Node --- NodeProofs                       (theorems)
Wire
```

An `MC...` module has the constants of a module's instances; PairSpace is run as
part of PublishPath, Locks as part of LockPaths. An
operator whose comment starts with *Mutant:* is a plausible bug in the
definition that follows it, used to show that the properties notice; no
specification refers to it.

### FrameChannel (`session.cpp`)

State: the outbox (a sequence of nodes, with the identity that a list iterator
stands for), the index `coalescable`, the flags `writing` and `closed`, the
running drains, the socket, each thread's position inside `send` or `close`.

| Action | Code |
|---|---|
| `CallSend` | entry of `send`, the test of `isClosed()` |
| `SendCoalesce`, `SendPush`, `SendDropping`, `SendOverfull` | the locked section of `send` with `makeRoomLocked`, one action per outcome |
| `Spawn` | the `co_spawn` after the lock |
| `CallClose`, `CloseFlag`, `CloseClear`, `StrandClose` | `close`: the exchange, the locked clearing, the handler on the strand |
| `DrainPop`, `DrainExit`, `DrainWrite`, `DrainError` | `drainOutbox`, split at its lock and at its suspension |
| `PeerGone` | the environment: the peer disconnects |

A frame is the pair it is about, whether it is an update or a control frame,
and its serial number in the order in which callers took `outbox_mutex_`.
`ChannelContract` says what a channel promises to its users without naming the
queue: control frames arrive in order and none is skipped; updates of a pair
arrive in order. `ImplementsContract` states the refinement, with what the
peer received computed from `wire`.

### PairSpace (`PairSpace.cpp`)

One action per operation; callers hold the mutex throughout. Subscriber lists
are functions to counts, so that a duplicate entry is visible. `narrowed` is a
history variable: wildcard subscribers that cancelled one key. Times of writes
and expiry are left out, since nothing in the code reads them.

### PublishPath (`client.cpp`, `server.cpp`)

Extends PairSpace; each handler conjoins the PairSpace action it performs with
what it queues or collects in the same critical section. `todo[p]` is what the
session of peer `p` has collected and not yet sent: a session handles its next
frame when it is empty, and the actions of everyone else can come in between.
`SetPair` and `RemoveOwnPair` queue inside the critical section, as the code
does. `NotifyLocal` and `RunCallbacks` are the post to the callback strand and
the strand. Values are the numbers of the operations that wrote them. The
history variable `raced[k]` says that the last write of `k` happened while
frames about `k` were collected and unsent, `lapsed` which subscribers have
cancelled a pair and been told nothing about it since.

### ClientSession (`client.cpp`)

One other component, from before its announcement to after its departure.
`run` is split at its suspensions and locks (`RunLoop`, `ConnectFails`,
`Discard`, `Adopt`, `FlushNext`, `StartReplay`, `ReplayNext`, `RunReturns`),
`send` at the test of `closing_` and the lock (`TestClosing`, `SendDirect`,
`SendPending`), `removeSession` and `close` at theirs (`RemoveSession`,
`CloseFlag`, `CloseTake`, `CloseChannel`). Callers first look the session up
(`FindSession`), after having changed `subscriptions_` if the call is about a
subscription. The channel takes every frame until it is closed; what happens
to frames inside it is FrameChannel's subject. A subscription is held for one
component or for any owner (`Scopes`), and its frame names the key alone, as on
the wire. The history variable `crossed` has the keys whose cancellation may be
the last thing that is sent although they are still held: a key is entered when it
is registered while a cancellation of it is inside a call of another thread, and when
one of its two records is cancelled and the other stays; it is taken out by the next
registration that meets no cancellation, and by the replay. No guard refers to it.

### MasterHub (`master_hub.cpp`, `server.cpp`, `client.cpp`)

The master runs its io_context on one thread, and between two reads a session's
coroutine does not suspend, so `Register` (from reading the hello to announcing
the component) and `Unregister` are one action each. A component is one
connection: a process that restarts is another one, and `Seed` lets both draw
the same id. `End` is an exit or crash at any time, `LoseMaster` a connection
that breaks while the component goes on.

### MetaTracker (`meta_pair_callback.cpp`, `client.cpp`)

`trackers` is `g_trackers`; `callbacks` and `subscriptions` are the records of
PairSpace and Client that trackers and the application make. `g_mutex` makes
`RegisterTracker`, `ReplaceFunction`, `CancelTracker` and `MetaPairChanged` one
action each. `WriteMeta` collects the callbacks under the pair space's mutex and
leaves them to a strand: `running[s]` is what strand `s` has still to run. A
meta value is what its parser tells apart: one that names a target, the null
value, anything else. `settled` is a history variable: the last write of a
meta-pair was collected for its tracker while no other was on its way.

### Node (`srnp_kernel.cpp`, `server.cpp`, `client.cpp`, `gui/srnp_link.cpp`)

The three kinds of thread in the life of a node: the link's own, which
initializes and retries (`BeginAttempt` to `Retry`); the io threads, where a
handler is anything the server runs (`BeginHandler`, `EndHandler`, `AddSession`,
`RemoveSession`, `LeaveRun`); and the render thread, which switches the wildcard
subscription and takes everything down (`Toggle`, `RequestStop` to `Reset`).
`MasterAnswers` is the rest of `Server`'s constructor, which nothing else can
observe halfway: the io threads start at its end, a moment before
`initialize` stores the server, which none of their handlers looks up. `MasterSilent` is the master
that accepts the connection and says nothing.

### Wire (`wire.*`, `codec.*`, `session.cpp`)

A byte has `Base` values; the widths of the fields are the code's, numbers wrap
around and are read back signed where the code does so. What `encode` writes
(`EncodeLayout`) and what `decode` reads (`DecodeLayout`) are two tables, as they
are two sets of functions in the code, and nothing but the run makes them agree.
Operators of the reader return the set of their result, the empty set standing
for a thrown `DecodeError`. The state machine is one connection: a sender of this
or the previous protocol version, a stream that may break after any byte, and a
reader in one of the three roles that read frames (`ServerSession`,
`MasterHubSession`, `MasterLink`). A frame of an unexpected type is refused when its
payload is there (`ReadPayload`); the one reader that looks at the type before
(`registerWithMaster`) ends the connection as well.

### Network (`client.cpp`, `server.cpp`)

Several components, each with a pair space, a client and a server of its own,
and the frames between every two. Each component owns one pair, named by its
owner. A handler is one action here and connections are FIFO: what can come in
between is the subject of PublishPath, ClientSession and FrameChannel, and what
the compositions add is what several correct components do to each other.
`Leave`, `Join` and `Announce` are the master's part: a newcomer's welcome names
the others at once, and they hear of it one by one, each connecting and sending
its subscriptions when it does. In between, a newcomer's frames arrive at
components that have no session to answer with. Pair spaces keep the
subscriptions of components that left, as nothing in the code removes them.
Four history variables state the exceptions in the properties; no guard refers to
them.
- `forwarded`: somebody has passed the owner's pair on.
- `lapsed`: a subscriber was away, or had cancelled, and was told nothing since
  while it was on the list. An answer to a repeated wildcard subscription alone
  does not end it: the answer carries the value, but the subscriber may still be
  missing from the list.
- `cut`: an owner's list may lack a component that has asked. One of two
  subscriptions that cover a pair was cancelled; or a pair was taken out of a
  wildcard subscription which is still among the owner's wildcard subscribers,
  under the id, when another component takes the id over.
- `replaced`: the id has another bearer now.

Components register no callbacks here, so an entry outlives its removal for its
subscribers only (`RemovePair`); PairSpace has both reasons.

Not covered: a component that comes back before the frames of its former self are
read.

### PairView (`gui/pair_view.cpp`)

The window as the application of one component of Network. A drawn frame works on
one snapshot of the pair space and handles at most one click, so each click is an
action whose guard is what is on screen: the pairs of the snapshot, whether the
selected pair is among them, whether the modal dialog is open. Between two clicks
the network and the other components go on. `PopupCloses` is Dear ImGui's choice:
a popup that is not drawn for a frame is closed. The link is taken to be connected;
how it gets there is in Node. `TogglesServed` says of a pair whose toggle is on that
its owner sends it, exactly unless the pair is `cut` for the window, that is, unless the
checkbox for everything was switched off over the toggle.

### Locks and LockPaths (all mutexes)

Locks has threads that take and release mutexes along *paths*. A path is the
longest way through a call: its locks, unlocks and user callbacks in order, each
with the mutexes held at that place. As the code's conditions leave out whole
scopes, never half of one, a thread may skip from any step to a later one of the
same scope (`Onwards`). A user callback may call the library in turn
(`RunCallback`). LockPaths has the paths of the code: one operator per function
that locks, built from the ones it calls, so that a change in, say,
`ClientSession::send` is a change to everything that sends. The lines that print
are in them, because printing takes `g_write_mutex`. `Kinds` is the order that the
code follows; nothing in the code states it.

## 3. Runs

| Run | Bounds | Shows |
|---|---|---|
| `channel` | 2 threads, 2 keys, cap 2, 3 sends | `QueueSound` (`Bounded`, `IndexSound`, `OneWriter`, `NoLostWakeup`), `UpdatesInOrder`, `ControlsKept`, refinement of ChannelContract, `ControlsWritten`, `CloseReleases` |
| `publish_path` | 1 own and 1 foreign key, 2 peers, 1 local publisher, 4 operations | `IndexesAgree` (`NoDuplicateSubscriber`, `CallbackIndexAgrees`, `AbsentIsBare`, `WildcardCovers`), `RegistrationsSurvive`, `CurrentUnlessRaced`, `OnlyWhatIsDue` (`NothingStaleUnsent`, `NothingUnasked`), `ThreadInPublishOrder`, `CatchesUp` |
| `session` | 1 key, both scopes, 2 subscribing and 1 writing thread, pending limit 2, 3 calls | `NoLeakedChannel`, `FramesAccounted` (`NoStrandedFrame`, `NothingLostOrDoubled`, `KeepsNewest`), `HeldIsAsked`, `HeldGetsAsked`, `CloseEnds` |
| `master` | 3 components, 3 ids, one id forced or drawn by two | `SessionsAgree` (`MapExact`, `IdsUnique`), `ViewsSettle`, `AnnouncementsFit` (`NeverListsSelf`, `NothingReplaced`), `ViewsConverge` |
| `meta` | 2 meta-pairs, 2 targets, 2 strands, 1 pair of the application's own, 3 writes, 3 calls | `RegistrationsOwned` (`CallbacksOwned`, `SubscriptionsOwned`), `FollowsMetaPair`, `CatchesOn` |
| `node` | 4 io threads, 2 other components, 5 wildcard handles | `TakenDownWhole` (`HandlersAlive`, `SessionsClosed`, `OneNode`), `WildcardAgrees`, `DestroyEnds`, `Connects` |
| `wire` | 9 messages of all types, 2 frames, payload limit 40 | `ReadsWhatWasSent`, `AllRead`, `BadFrameEnds` |
| `locks` | 2 threads, 1 session, 2 calls, and those of the callbacks | `LockOrder`, `CallsReturn` |
| `network` | a window, an owner, a component that follows the owner, 3 operations | `NoEcho`, `CurrentUnlessForwarded`, `ListedIsAsked`, `WindowAgrees` (`TogglesHeld`, `EverythingIsEverything`, `TogglesServed`), `Quiet` |

In parentheses are the named parts of a conjunction. `channel` and `publish_path`
also check their type invariant, which is proved as well; the other modules
define one for their readers and for proofs.

Bounds. Every limit that matters is reached inside them: with a cap of two,
three sends fill the outbox, coalesce, drop and overflow it, while a drain
holds one frame more; a pending limit of two overflows with three calls, which are
also enough for a registration, its cancellation and another one on two threads, or
for two scopes; a second key of `session` would meet the first in the queues only,
which the theorems cover; three
components suffice for one to leave, one to take its id and one to watch; two
peers for one to write while another subscribes; with three writes a meta-pair
is pointed somewhere, elsewhere and back while two strands are behind; a circle
of waiting needs two threads and two mutexes, and `locks` has every pair of calls,
and every call a callback may make (one, as nothing is held between two); with three operations
of `network` an owner publishes, leaves and publishes again under its id while a
window subscribes (cancelling and coming back are not counted); the
messages of `wire` include empty strings, negative numbers, one payload at the
limit and one a byte above it. Bytes have ten values there, so that eight-byte
numbers stay within TLC's integers; no definition depends on the base. The
theorems below do not depend on the bounds. `CHECK_DEADLOCK FALSE` is set where the bound on
operations lets a behaviour end, and where the system itself may (everybody
gone, the session closed). No run uses symmetry, as almost all have liveness
properties. `ImplementsContract` has no fairness: it is a safety property.

`NoEcho` and `Quiet` are shown for offers without a circle: the window subscribes to
everything, `b` to the owner `a`, and `a` to nobody. With a circle both fail, which is
what `network_echo` is about. `Acyclic` in Network is that condition; MCPairView has
TLC evaluate it for the run, and `NoEcho` is proved from it.

### Fairness

- FrameChannel: a thread inside `send` or `close` goes on; the strand runs what
  is posted to it; the drain runs, and a write on an open connection ends. The
  last is an assumption about the peer (it reads), and `PeerGone` is there for
  the one that does not.
- PublishPath: a handler that has begun finishes its sends, a posted callback
  runs, peers read. User callbacks return; with four io threads others progress
  meanwhile.
- ClientSession: calls return, the coroutine is resumed, `close` ends: weak
  fairness. `Adopt` is strongly fair: attempts may fail any number of times, and
  one that is repeated for ever succeeds. This is the assumption that the
  announced component can be reached; without it `HeldGetsAsked` would be about
  the network. `CloseEnds` does not depend on it.
- MasterHub: the master serves each session and notices broken connections;
  components read what they are sent. Joining, ending and losing the master
  carry no fairness.
- MetaTracker: a strand runs what it has collected. Writes and calls carry no
  fairness.
- Node: threads run, handlers return, and an attempt to register comes to
  something: failure, an answer, or a master that stays silent, after which
  nothing is promised. `MasterAnswers` is strongly fair, as a master that is tried
  for ever is there in the end; `DestroyEnds` does not depend on it.
- Wire: the reader's coroutine is resumed when there is something to read.
- Locks: the scheduler runs a thread that can go on. Mutexes need not be fair, as
  the calls of a behaviour are finitely many. A user callback returns: it makes one
  call of the library at most.
- Network and PairView: frames are read and announcements arrive. Clicks, publishes,
  departures and arrivals carry no fairness.

### Disagreements between code and documentation

Three runs expect a violation. Each states what a document or a comment says and
shows a behaviour of the code that does otherwise (`findings` quotes both).

- `channel_converges`: a full outbox drops the only queued update of another
  pair (and coalescing moves an update ahead of a removal); the peer keeps an
  outdated value, where `docs/user/concepts.md` promises convergence.
- `network_echo`: a pair received as a subscriber is passed on to the wildcard
  subscribers of the receiver, where a comment in `handlePairUpdate` and
  `docs/dev/protocol.md` say that it is not. Two components that subscribe to
  everything, such as two windows of pairview, send an update of either one's
  pair to and fro without end.
- `network_late`: a component that has just joined subscribes before the owner has
  heard of it. The owner lists it, finds no session for the current value, and does
  not send it later either, where the documentation has a new subscriber get the
  current value without waiting for the next write.

Met while modelling, and not given a run of their own:

- A session sends after unlocking and can do so behind a newer frame, so that a
  subscriber can be left with an older value (`raced` in PublishPath), where
  `docs/user/concepts.md` promises convergence.
- Two publishing threads can post their notifications in the opposite order to
  their publishes, where `client.h` has callbacks run in publish order;
  `ThreadInPublishOrder` is what remains true.
- Cancelling the any-owner subscription on a key ends the per-owner one at the
  component as well, where `docs/user/api-reference.md` calls them "separate
  subscriptions" that "must be cancelled separately" (`crossed` in ClientSession, `cut`
  in Network). `HeldIsAsked` and `ListedIsAsked` do not hold without the two.
- In the window, subscribe to one pair, then to everything, and switch everything
  off: the toggle of the pair is on and the pair does not come. A comment in
  `drawSubscriptionControls` says of switching off the wildcard "anything we subscribed
  to per pair is not" gone, and `removeSubscriptionToAll` removes the subscriber from
  every pair's list. `TogglesServed` states what the code does: it has such a toggle
  not served, and every other one served.
- With a master that accepts the connection and does not answer, `initialize` never
  returns, where `docs/user/api-reference.md` and `gui/srnp_link.h` speak of ten
  seconds (`MasterSilent` in Node).
- `removeSubscriptionToAll`'s comment says it "doubles as the cleanup when a
  component disconnects"; nobody calls it then, so a list keeps the ids of
  components that are gone, and a later bearer of the id is sent what it did not
  ask for (`replaced` in Network).
- A wildcard subscription adds nothing where the owner already has one under the id
  (`addSubscriptionToAll` returns early), although a pair may have been taken out of
  it since: a component that takes over the id of one that left subscribes to
  everything, holds the record, gets the current value in answer, and hears of no
  later change of that pair, where `docs/user/api-reference.md` has `"*"` mean "every
  key that component owns" (`cut` and `lapsed` in Network).
- A frame sent during the flush of a new connection can overtake the waiting
  ones, where a comment in `connect` says that those go first.
- When a tracker and the application, or two trackers, want the same pair, there
  is one subscription, and it ends when the one that holds its handle moves on;
  `docs/user/api-reference.md` has the subscription move for the tracker alone.
- Two strands that write one meta-pair can run the changes in the other order
  and leave the tracker on the older target.
- Registering a meta callback again replaces the function for later targets and
  leaves the old one on the current target. Removing a meta-pair runs no
  callbacks, so its tracker stays where it is. A tracker registered for a
  meta-pair that the component already holds under another subscription, or owns
  itself, has no target before the next write.
- The two functions called `parseMetaValue` differ: the client's insists that
  the whole word is a number, and follows the null value as if it named a pair.
- `ok()` is true during `initialize`, where `srnp_kernel.h` has it true after a
  successful one. `shutdown` called from a callback joins its own thread. A GUI
  link whose master is gone stays `Connected`.
- `decode` limits the number of components by `sizeof(ComponentInfo)`, which is
  larger than a component's encoding: a welcome can be within the payload limit
  and be refused.
- A subscriber that cancels, misses a deletion and subscribes again keeps the
  deleted value: `handleSubscription` sends nothing for a pair that is gone
  (this is `lapsed` in PublishPath).
- The pending queue drops its oldest frame whatever it is, so a removal or a
  cancellation can be lost before a connection is up, where
  `docs/user/concepts.md` speaks of values only. Subscriptions are made up for by
  the replay: that is what `HeldIsAsked` shows.
- A cancellation sent during the flush or the replay can be overtaken by the
  subscription it cancels; the component then goes on sending.
- Registering and cancelling the same subscription on two threads at once can
  leave record and component disagreeing: record and frame are two steps (`crossed` in
  ClientSession).
- A component that lost the master keeps its id, and the master can give it to
  another, where `master_hub.h` has ids unique among all components.
- `Client::removePair` and `setPair` take the session's and channel's mutexes
  inside the pair space's, where `docs/dev/threading.md` says "Never hold two locks".
  The order in which they are nested is sound: that is what `LockOrder` shows.
- Ids are drawn from 1000 to 10000 inclusive, where `docs/dev/architecture.md`
  gives a half-open range; and counting up from a taken one can pass it.

## 4. Proofs

TLAPS checks every proof; the theorems hold for all values of the constants
under the named assumptions in the modules (`KeysAssumption`: the empty
coalesce key is no key, in PublishPath that the component's own pairs are pairs; `CapAssumption`: the cap is at least one;
`SendsAssumption`, `HandlesAssumption`, `OpsAssumption`, `CallsAssumption`: the bounds are natural
numbers, so arbitrarily large; `ValuesAssumption`: the three kinds of value are
distinct; `PathsAssumption`: paths are properly nested scopes, `RankAssumption`,
`FreeAssumption`: every mutex has a rank and a mutex that nobody holds is held by no
thread; `PendingAssumption`: the pending queue holds at least one frame;
`ThreadsAssumption`: a session's coroutine is none of the callers;
`IdsAssumption` and `MetaAssumption`: what stands for no id, no pair and no handle is
none; `FunctionAssumption`: the tracker's callback is a callback; `OwnersAssumption`,
`OffersAssumption` and `ViewAssumption`: any owner is none, offers and writers are of the
components, and the window is one of them).

The library's induction theorems take a predicate as parameter, which the provers
cannot instantiate. `SetInduction` says the same of sets (a set of naturals with 0
and with each successor has them all) and follows from the least element that every
set of naturals has; with it a recursive function is shown to exist and to have the
value of its definition at every argument (`ViewsUnfold`, `PassedIs`), and what
it computes is then proved by another induction over a set.

`FrameChannelProofs`
- `TypeCorrect`: `Spec => []TypeOK`.
- `WriterSafety`: `OneWriter`, `NoLostWakeup` and `Bounded`. `OneWriter` is not
  inductive by itself, since the spawning thread's and the drain's phases have to
  exclude each other; with types and the cap it is.
- `UpdateOrder`: `IndexSound` and `UpdatesInOrder`. The invariant orders every
  update on its way: what a drain holds is younger than all written updates of
  the pair and older than all queued ones, queued updates of one pair are in
  order along the list, and node identities are unique and grow along it. It
  needs `OneWriter`: with two drains the wire order would be anyone's guess.
- `QueueSafety`: `QueueSound`, the conjunction of the parts proved in the two
  above.
- `ControlSafety`: `ControlsKept`, from where control frames can be and the fact
  that only frames with a coalesce key are dropped or overwritten.
- `ContractRefined`: `ImplementsContract`, the refinement of ChannelContract. What
  the peer has received is read off the wire by the recursive function `Passed`; the
  invariant `Flows` has the control frames accepted so far be, in order, the ones
  received, the one in the drain's hand, the ones queued, while the connection is
  up; once it is not, the received ones are still a prefix of the accepted ones.
  A send is then an `Accept` step of the contract, a completed write a `Deliver`
  step, and everything else (coalescing's bookkeeping, drops, closing, errors)
  leaves what the contract sees unchanged.

`PublishPathProofs`
- `PairSpaceSafety`: `IndexesAgree` of PairSpace alone, all its invariants together,
  which is inductive together with the type invariant; `AbsentIsBare` is what makes
  `WildcardCovers` and `NoDuplicateSubscriber` inductive, as a new entry's list
  starts from the wildcard list. `RegistrationSafety`: the action property
  `RegistrationsSurvive`, from it.
- `PathIsPairSpace`: PublishPath implements PairSpace. Every handler and publishing
  thread does one operation of the pair space, with arguments it may have, or leaves
  it alone; so the two theorems above hold of the whole path
  (`PathKeepsRegistrations`).
- `PathTypeCorrect`: the type invariant of PairSpace and path together.
- `SubscribersCurrent`: `CurrentUnlessRaced`. The invariant says, for every peer and pair, that the last
  frame about the pair on its way to the peer (in the session, else in the
  channel, else the peer's copy) carries the current value, or the pair was raced,
  or the peer has cancelled it. That a cancelled pair is one of the lapsed ones
  is needed as well: a repeated subscription to everything sends a pair again that
  the peer had given up by itself.
- `DueSafety`: `OnlyWhatIsDue`, from the same invariant.
- `CallbackOrder`: `ThreadInPublishOrder`, from the order of a thread's
  notifications across its own hand, the strand and the ones already run.

`LocksProofs`
- `ScopeSafety`: `ScopesHeld`, that a thread holds exactly the mutexes of the scope
  it is in. The invariant has the rest of every thread's path end with nothing held
  and each of its steps leave what the next one says is held; skipping along
  `Onwards` and a callback's calls keep that.
- `LockSafety`: `LockOrder`, for any number of threads, sessions and calls, from
  `OrderedPaths`: every path locks upwards by rank and has its callbacks outside
  every scope. This is a property of the constants alone, and the `locks` run
  establishes it for the paths in LockPaths, since every step of every path is
  reached there with exactly the mutexes held that it names.
- `NoCircle`: whoever waits for a mutex holds only mutexes of lower rank than the one
  waited for, so the mutexes along a chain of waiting threads increase and the
  chain is not a circle.

`ClientSessionProofs`
- `SessionTypeCorrect`, and `ChannelSafety`: `NoLeakedChannel`. The invariant couples
  the phases: how far `close` is with what there is of the channel
  (`ClosingPhases`), and how far `run` is with queue, replay and channel
  (`RunPhases`).
- `FrameSafety`: `FramesAccounted`, for any limit of the pending queue. Frames are
  numbered as they are accepted; the numbers in `pending`, in the part being flushed and on
  the wire are disjoint, cover everything accepted but the overflow, rise in
  each queue, and the overflow is older than what is queued.
- `ReplaySafety`: `HeldIsAsked`, for any number of subscribing and writing threads and
  any scopes. The invariant is about the keys that are held and not in `crossed`: such a
  key has been asked for, is still to be replayed, or a thread is on its way to ask for
  it; and no thread is on its way to take it back.

`MasterHubProofs`
- `HubTypeCorrect`; `AgreementSafety`: `SessionsAgree`; `SettlingSafety`:
  `ViewsSettle`; `AnnouncementSafety`: `AnnouncementsFit`. All follow from
  one invariant, stated per component over its link, its session, what it knows and
  the frames on their way to it. Its core is that what a component will know after
  the frames on their way (`Views`, a recursive function) is the hub's map
  without itself, and that each `Add` among them is of an id not known at that
  point. Appending a frame extends `Views` at the end, reading one shifts it, and
  nothing else changes it.

`MetaTrackerProofs`
- `TrackerSafety`: `RegistrationsOwned`, with the type invariant. Handles have to be
  unique and below the counters, no two holders have the same subscription
  (`HeldOnce`), and a pair that is not tracked has no state left from an earlier
  tracker (`UntrackedBare`).
- `FollowingSafety`: `FollowsMetaPair`. The invariant adds that the one change on its
  way carries the meta-pair's current value.

`NodeProofs`
- `TakeDownSafety`: `TakenDownWhole`; `WildcardSafety`: `WildcardAgrees`. The invariant
  says what there is of the node (`Down`, `Made`, `Up`) at every place of the link's and
  of the render thread, and that a session is open exactly while it is in the map.

`PairViewProofs`, for any components, offers (`OffersAssumption`: what an application
may ask for is an owner, or any, and a key or all keys), writers and number of
operations. Steps are first reduced to what they do to each connection (nothing, one
frame appended, the first one read, emptied, or filled with a replay) and to the lists
of one pair space. A theorem `Window...` is about PairView's specification, its
counterpart `Network...` about components alone.
- `WindowTypes`, and the invariant `Links` that the others use: sessions are with
  components that are there, a component that left holds nothing, nothing is on its
  way without a session, and no list has a component that has not connected.
- `WindowLists`, `NetworkLists`: `ListedIsAsked`. The property is about connections with
  nothing unread, the invariant `AskInv` about all of them: it says who *will be* on the
  list once the frames on their way are read. Of the frames, in order, it matters
  whether the last one that can take the subscriber off the list is followed by one that
  adds it, where a wildcard adds only if none is there at that point
  (`WillBeListed`, `MayBeListed`, `WildAfter`). Reading a frame shifts these, asking
  extends them at the end, a replay starts them anew.
- `WindowCurrent`, `NetworkCurrent`: `CurrentUnlessForwarded`. The invariant
  `CurrentInv` has the last frame about the pair on its way to a listed subscriber show
  the owner's value, and its copy if there is none (`Carries`); a subscriber that is
  not listed has no value and nothing on its way, or has lapsed; while nobody
  has passed the pair on all frames about it come from its owner (`Straight`), in one
  queue, so that there is a last one; whoever is away has lapsed (`Away`), and so has
  whoever is subscribed to everything but for the pair (`WildMissed`).
- `ControlsAgree`: `WindowAgrees`. It needs `ListedIsAsked` as an invariant and that,
  while the checkbox is on, nothing is cut for the window (`Whole`): the toggles are
  disabled then, and the window's id is never reused while it runs. For the toggles that
  are cut it needs the converse (`Dropped`): the frames of the window to that owner end
  with a cancellation, or it has been read, and nothing the others do puts the window
  back on the list before it asks again.
- `WindowNoEcho`, `NetworkNoEcho`: `NoEcho`, from the hypothesis `Acyclic`: the
  components can be ordered so that each comes after those whose pairs it may ask for.
  The invariant `EchoInv` has subscriptions go down the order and news of a pair
  go up, away from its owner, and lists hold only components further up, those of
  departed components included. The hypothesis is needed: two components that ask for
  each other's pairs hear of their own. For the window it says that nobody asks for the
  window's pair.

Looking for `AskInv` and `CurrentInv` with larger bounds than the run's (more operations,
two more subscriptions) is how the early return of `addSubscriptionToAll` in section 3
was found; `cut` and `lapsed` now say exactly when a subscription is without effect.

Only model-checked:
- liveness under fairness (`ControlsWritten`, `CloseReleases`, `HeldGetsAsked`, `CloseEnds`, `CatchesUp`,
  `ViewsConverge`, `CatchesOn`, `Connects`, `DestroyEnds`, `AllRead`, `CallsReturn`, `Quiet`),
  and whatever needs `ENABLED`: the installed provers do not reach it;
- `ReadsWhatWasSent` in Wire: what the readers compute rests on powers of `Base`
  and on concatenations of arbitrary length.

## 5. Not modelled

- Logging's output, drawing (the filters, the texts in the form and the theme change
  what is shown and typed, nothing else), the command line, the master's `main`.
- The master's own mutex: the hub runs on one thread.
- Calls of the application on its own threads during `shutdown`.
- The indirect reads and writes of meta-pairs as actions: they are a read followed by
  a read or write that PublishPath has. Their locks are in LockPaths.
- In Network, what happens inside a handler, and connections that outlive a restart
  of their peer.
- Integer widths, except in Wire: the handle counters have 64 bits.

## 6. Plan

In the order of importance; all but the last are done.

1. FrameChannel, ChannelContract, their proofs.
2. PairSpace and its proofs.
3. PublishPath: the composition of PairSpace with the handlers.
4. ClientSession and MasterHub.
5. PublishPath's proofs (`CurrentUnlessRaced` with its invariant).
6. MetaTracker; Node, with the kernel, the server's threads and the GUI's link.
7. Wire and codec: reading undoes writing over bounded inputs.
8. Locks: the order of the mutexes, and its proof.
9. Network and PairView: several components, restarts, and the window.
10. Proofs: the refinement FrameChannel => ChannelContract, and the invariants of
    ClientSession, MasterHub, MetaTracker and Node.
11. Proofs about Network (`ListedIsAsked`, `CurrentUnlessForwarded`, `NoEcho`) and
    PairView (`WindowAgrees`); PublishPath implements PairSpace.
12. Wire's round trip for every value, as far as the provers reach.
