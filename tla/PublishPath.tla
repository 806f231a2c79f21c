---------------------------- MODULE PublishPath -----------------------------
(***************************************************************************)
(* How a value gets from a publisher to the components that subscribed to  *)
(* it, seen from the component that owns it (src/src/client.cpp and        *)
(* src/src/server.cpp).                                                    *)
(*                                                                         *)
(* Values are published by the component's own threads (Client::setPair,   *)
(* Client::removePair) and by other components, whose frames each arrive   *)
(* on a ServerSession of their own; sessions run concurrently on four io   *)
(* threads.  The pair space is shared and guarded by its mutex.            *)
(*                                                                         *)
(* Local publishing queues its frames inside the critical section.  A      *)
(* session collects what it has to send inside the critical section and    *)
(* sends it later, one frame at a time, after running user callbacks: what *)
(* is still to be sent is todo, and the window in which it is not empty is *)
(* where the interleavings of this module happen.                          *)
(*                                                                         *)
(* Connections are reliable FIFO channels here: FrameChannel is about what *)
(* they do under pressure.  The value published by the n-th operation is   *)
(* n, so later values are greater.                                         *)
(***************************************************************************)
EXTENDS PairSpace, Sequences

CONSTANTS OwnKeys,     \* the pairs this component owns
          Publishers,  \* the local threads that publish
          MaxOps       \* bound: publishes and frames handled in a behaviour

ASSUME KeysAssumption == OwnKeys \subseteq PairKeys
ASSUME OpsAssumption  == MaxOps \in Nat /\ Values = 1..MaxOps

VARIABLES
  todo,    \* what each session has still to send: [to, key, val]
  chan,    \* the frames on their way to each peer: [key, val]
  copy,    \* each peer's own copy of the pairs
  note,    \* the notification a publisher has still to post
  strand,  \* callback_strand_: the notifications posted, in order
  ran,     \* history: the notifications whose callbacks have run
  ops,     \* operations so far
  raced,   \* history: keys last written while frames about them were unsent
  lapsed   \* history: <<peer, key>> cancelled, and nothing sent about it since

pathvars == <<todo, chan, copy, note, strand, ran, ops, raced, lapsed>>
vars     == <<psvars, pathvars>>

ForeignKeys == PairKeys \ OwnKeys

\* val is Invalid in a PairRemoved frame.
Message == [key : PairKeys, val : Values \cup {Invalid}]
Send    == [to : Peers, key : PairKeys, val : Values \cup {Invalid}]

\* A snapshot and the callbacks to run on it; no callbacks, no notification.
Note   == [by : Publishers, val : Nat, callbacks : SUBSET (1..MaxHandles)]
Silent == [val |-> 0, callbacks |-> {}]

Init ==
  /\ PSInit
  /\ todo = [p \in Peers |-> {}]
  /\ chan = [p \in Peers |-> <<>>]
  /\ copy = [p \in Peers |-> [k \in PairKeys |-> Invalid]]
  /\ note = [t \in Publishers |-> Silent]
  /\ strand = <<>>
  /\ ran = <<>>
  /\ ops = 0
  /\ raced = [k \in PairKeys |-> FALSE]
  /\ lapsed = {}

-----------------------------------------------------------------------------

\* The next operation's number, which is the value it publishes.
Now == ops + 1
Tick == ops < MaxOps /\ ops' = Now

\* Mutants: the list as it was before addPair(), and every session there is.
AudienceBefore(k) == {p \in Peers : subscribers[k][p] > 0}
AudienceAll(k) == Peers

\* Whom a frame about k goes to, as read in the critical section.
Audience(k) == {p \in Peers : ListOf(k)[p] > 0}

\* What a subscriber of k should hold: the value, or nothing.
Current(k) == IF pairs[k] \in Values THEN pairs[k] ELSE Invalid

\* Some session has collected frames about k and not sent them all.
Unsent(k) == \E p \in Peers : \E m \in todo[p] : m.key = k

\* fanOutPair() and fanOutRemoval() to every subscriber at once.
QueueAll(k, v) ==
  chan' = [p \in Peers |-> IF p \in Audience(k)
                           THEN Append(chan[p], [key |-> k, val |-> v])
                           ELSE chan[p]]

\* Mutant: the sender of a value is not told of it.
CollectOthers(p, k, v) ==
  todo' = [todo EXCEPT ![p] =
    {[to |-> q, key |-> k, val |-> v] : q \in Audience(k) \ {p}}]

\* The same frames collected for later by the session of peer p.
Collect(p, k, v) ==
  todo' = [todo EXCEPT ![p] = {[to |-> q, key |-> k, val |-> v] : q \in Audience(k)}]

\* History: k is written, and its subscribers will hear of it.
Wrote(k) ==
  /\ raced' = [raced EXCEPT ![k] = Unsent(k)]
  /\ lapsed' = lapsed \ (Audience(k) \X {k})

\* History: p is sent the values of these keys; it may have "*" and yet have
\* cancelled one of them.
Refreshed(p, keys) ==
  lapsed' = lapsed \ ({p} \X {k \in keys : subscribers'[k][p] > 0})

-----------------------------------------------------------------------------
(* The component's own threads                                             *)

\* Client::setPair up to the end of its critical section.
SetPair(t, k) ==
  /\ note[t] = Silent
  /\ Tick
  /\ AddPair(k, Now)
  /\ QueueAll(k, Now)
  /\ note' = [note EXCEPT ![t] =
       [by |-> t, val |-> Now, callbacks |-> universal_callbacks \cup callbacks[k]]]
  /\ Wrote(k)
  /\ UNCHANGED <<todo, copy, strand, ran>>

\* notifyLocal, after the lock is released.
NotifyLocal(t) ==
  /\ note[t] # Silent
  /\ strand' = IF note[t].callbacks = {} THEN strand ELSE Append(strand, note[t])
  /\ note' = [note EXCEPT ![t] = Silent]
  /\ UNCHANGED <<psvars, todo, chan, copy, ran, ops, raced, lapsed>>

\* Mutant: posted to the io_context, where any thread may take any handler.
RunCallbacksAnyhow ==
  \E i \in 1..Len(strand) :
    /\ ran' = Append(ran, strand[i])
    /\ strand' = SubSeq(strand, 1, i - 1) \o SubSeq(strand, i + 1, Len(strand))
    /\ UNCHANGED <<psvars, todo, chan, copy, note, ops, raced, lapsed>>

\* The strand runs one posted handler at a time, in the order posted.
RunCallbacks ==
  /\ strand # <<>>
  /\ ran' = Append(ran, Head(strand))
  /\ strand' = Tail(strand)
  /\ UNCHANGED <<psvars, todo, chan, copy, note, ops, raced, lapsed>>

\* Client::removePair, all of it in one critical section.
RemoveOwnPair(k) ==
  /\ Tick
  /\ RemovePair(k)
  /\ QueueAll(k, Invalid)
  /\ Wrote(k)
  /\ UNCHANGED <<todo, copy, note, strand, ran>>

\* Client::registerCallback and Client::cancelCallback.
RegisterCallback(k) ==
  /\ AddCallback(k)
  /\ UNCHANGED pathvars

RegisterCallbackToAll ==
  /\ AddCallbackToAll
  /\ UNCHANGED pathvars

CancelCallback(handle) ==
  /\ RemoveCallback(handle)
  /\ UNCHANGED pathvars

-----------------------------------------------------------------------------
(* The session of peer p: it handles a frame when the last one is done     *)

Reading(p) == todo[p] = {} /\ Tick

\* handleIncomingPair: another component sets a pair of ours.  The user
\* callbacks applyAndNotify runs before it sends are part of the window.
HandleIncomingPair(p, k) ==
  /\ Reading(p)
  /\ AddPair(k, Now)
  /\ Collect(p, k, Now)
  /\ Wrote(k)
  /\ UNCHANGED <<chan, copy, note, strand, ran>>

\* handlePairUpdate: a pair we subscribed to.  applyAndNotify is shared with
\* handleIncomingPair, so its entry's subscribers are sent the update too.
HandlePairUpdate(p, k) ==
  /\ Reading(p)
  /\ AddPair(k, Now)
  /\ Collect(p, k, Now)
  /\ Wrote(k)
  /\ UNCHANGED <<chan, copy, note, strand, ran>>

\* Mutant: a placeholder is sent as well.
HandleSubscribeAny(p, k) ==
  /\ Reading(p)
  /\ AddSubscription(k, p)
  /\ todo' = [todo EXCEPT ![p] = {[to |-> p, key |-> k, val |-> pairs[k]]}]
  /\ Refreshed(p, {k})
  /\ UNCHANGED <<chan, copy, note, strand, ran, raced>>

\* handleSubscription, registering, one key: a value is sent if there is one.
HandleSubscribe(p, k) ==
  LET told == IF pairs[k] \in Values THEN {k} ELSE {}
  IN  /\ Reading(p)
      /\ AddSubscription(k, p)
      /\ todo' = [todo EXCEPT ![p] = {[to |-> p, key |-> j, val |-> pairs[j]] : j \in told}]
      /\ Refreshed(p, told)
      /\ UNCHANGED <<chan, copy, note, strand, ran, raced>>

\* handleSubscription, registering, "*": everything we own is sent, also when
\* the subscription was there already.
HandleSubscribeToAll(p) ==
  LET told == {j \in OwnKeys : pairs[j] \in Values}
  IN  /\ Reading(p)
      /\ AddSubscriptionToAll(p) \/ (u_subscribers[p] > 0 /\ UNCHANGED psvars)
      /\ todo' = [todo EXCEPT ![p] = {[to |-> p, key |-> j, val |-> pairs[j]] : j \in told}]
      /\ Refreshed(p, told)
      /\ UNCHANGED <<chan, copy, note, strand, ran, raced>>

\* handleSubscription, cancelling.
HandleUnsubscribe(p, k) ==
  /\ Reading(p)
  /\ RemoveSubscription(k, p)
  /\ lapsed' = IF p \in Subscribed(k) THEN lapsed \cup {<<p, k>>} ELSE lapsed
  /\ UNCHANGED <<todo, chan, copy, note, strand, ran, raced>>

HandleUnsubscribeFromAll(p) ==
  /\ Reading(p)
  /\ RemoveSubscriptionToAll(p)
  /\ lapsed' = lapsed \cup {<<p, k>> : k \in {j \in PairKeys : p \in Subscribed(j)}}
  /\ UNCHANGED <<todo, chan, copy, note, strand, ran, raced>>

\* handleRemovePair: another component deletes a pair of ours.
HandleRemovePair(p, k) ==
  /\ Reading(p)
  /\ RemovePair(k)
  /\ Collect(p, k, Invalid)
  /\ Wrote(k)
  /\ UNCHANGED <<chan, copy, note, strand, ran>>

\* handlePairRemoved: the owner of a pair we subscribed to deleted it.
HandlePairRemoved(p, k) ==
  /\ Reading(p)
  /\ RemovePair(k)
  /\ UNCHANGED <<todo, chan, copy, note, strand, ran, raced, lapsed>>

\* One of the sends a session makes after its critical section.
SendNext(p) ==
  \E m \in todo[p] :
    /\ chan' = [chan EXCEPT ![m.to] = Append(@, [key |-> m.key, val |-> m.val])]
    /\ todo' = [todo EXCEPT ![p] = @ \ {m}]
    /\ UNCHANGED <<psvars, copy, note, strand, ran, ops, raced, lapsed>>

\* Peer p reads a frame and applies it to its own pair space.
Deliver(p) ==
  /\ chan[p] # <<>>
  /\ copy' = [copy EXCEPT ![p][Head(chan[p]).key] = Head(chan[p]).val]
  /\ chan' = [chan EXCEPT ![p] = Tail(@)]
  /\ UNCHANGED <<psvars, todo, note, strand, ran, ops, raced, lapsed>>

-----------------------------------------------------------------------------

Local ==
  \/ \E t \in Publishers : NotifyLocal(t) \/ \E k \in OwnKeys : SetPair(t, k)
  \/ \E k \in OwnKeys : RemoveOwnPair(k)
  \/ \E k \in PairKeys : RegisterCallback(k)
  \/ RegisterCallbackToAll
  \/ \E h \in 1..MaxHandles : CancelCallback(h)
  \/ RunCallbacks

Session(p) ==
  \/ \E k \in OwnKeys : \/ HandleIncomingPair(p, k)
                        \/ HandleSubscribe(p, k)
                        \/ HandleUnsubscribe(p, k)
                        \/ HandleRemovePair(p, k)
  \/ \E k \in ForeignKeys : HandlePairUpdate(p, k) \/ HandlePairRemoved(p, k)
  \/ HandleSubscribeToAll(p)
  \/ HandleUnsubscribeFromAll(p)
  \/ SendNext(p)

Next == Local \/ \E p \in Peers : Session(p) \/ Deliver(p)

Spec == Init /\ [][Next]_vars

\* A handler that has started ends, posted work runs, peers read their frames.
Fairness ==
  /\ \A p \in Peers : WF_vars(SendNext(p)) /\ WF_vars(Deliver(p))
  /\ \A t \in Publishers : WF_vars(NotifyLocal(t))
  /\ WF_vars(RunCallbacks)

FairSpec == Spec /\ Fairness

-----------------------------------------------------------------------------
(* Properties                                                              *)

TypeOK ==
  /\ PSTypeOK
  /\ todo \in [Peers -> SUBSET Send]
  /\ chan \in [Peers -> Seq(Message)]
  /\ copy \in [Peers -> [PairKeys -> Values \cup {Invalid}]]
  /\ note \in [Publishers -> Note \cup {Silent}]
  /\ strand \in Seq(Note)
  /\ ran \in Seq(Note)
  /\ ops \in 0..MaxOps
  /\ raced \in [PairKeys -> BOOLEAN]
  /\ lapsed \subseteq Peers \X PairKeys

\* The last word on its way to p about k, or else p's copy, is c.
Settled(p, k, c) ==
  \/ \E i \in 1..Len(chan[p]) :
       /\ chan[p][i] = [key |-> k, val |-> c]
       /\ \A j \in i+1..Len(chan[p]) : chan[p][j].key # k
  \/ /\ \A i \in 1..Len(chan[p]) : chan[p][i].key # k
     /\ copy[p][k] = c

\* Nothing is unsent to p about k.
AllSent(p, k) == \A q \in Peers : \A m \in todo[q] : ~(m.to = p /\ m.key = k)

\* Every subscriber ends up with the current value of an owned pair: the last
\* frame sent to it is the current one, whatever threads and sessions publish,
\* subscribe and delete, unless two writes of the pair overlapped (raced), or
\* it came back to a pair deleted while it was away (lapsed).
CurrentUnlessRaced ==
  \A p \in Peers, k \in OwnKeys :
    /\ p \in Subscribed(k) /\ AllSent(p, k)
    /\ ~raced[k] /\ <<p, k>> \notin lapsed
    => Settled(p, k, Current(k))

\* While no two writes overlap, sessions have nothing stale to send.
NothingStaleUnsent ==
  \A p \in Peers, k \in OwnKeys : ~raced[k] =>
    \A m \in todo[p] : m.key = k => m.val = Current(k)

\* A component is told nothing about a pair before it subscribed to it.
NothingUnasked ==
  \A p \in Peers, k \in OwnKeys :
    p \notin Subscribed(k) /\ <<p, k>> \notin lapsed
      => AllSent(p, k) /\ Settled(p, k, Invalid)

\* Sessions send what is due and nothing else: nothing that a later write has made
\* stale, unless the two overlapped, and nothing that was not asked for.
OnlyWhatIsDue == NothingStaleUnsent /\ NothingUnasked

\* The callbacks for one thread's publishes run in the order of its publishes.
ThreadInPublishOrder ==
  \A i, j \in 1..Len(ran) : i < j /\ ran[i].by = ran[j].by => ran[i].val < ran[j].val

\* A subscriber catches up with the current value, if nobody races it there.
CatchesUp ==
  \A p \in Peers, k \in OwnKeys :
    (p \in Subscribed(k) /\ copy[p][k] # Current(k))
      ~> \/ copy[p][k] = Current(k) \/ p \notin Subscribed(k)
         \/ raced[k] \/ <<p, k>> \in lapsed
=============================================================================
