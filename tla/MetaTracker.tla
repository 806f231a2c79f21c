---------------------------- MODULE MetaTracker ----------------------------
(***************************************************************************)
(* Following meta-pairs: src/meta_pair_callback.cpp, with the callbacks of *)
(* PairSpace and the subscriptions of Client that it uses.                 *)
(*                                                                         *)
(* A meta-pair's value names another pair, its target.  A tracker keeps a  *)
(* subscription and a callback on the meta-pair and moves a second         *)
(* subscription and callback along with the target.  Trackers are guarded  *)
(* by g_mutex, so that registering, cancelling and the reaction to a       *)
(* change are one step each.  A change of the meta-pair is not: the        *)
(* writer collects the callbacks under the pair space's mutex and runs     *)
(* them later, on its strand.  Two strands can write one meta-pair: the    *)
(* callback strand for this component's own writes and a ServerSession     *)
(* for the ones that arrive.                                               *)
(***************************************************************************)
EXTENDS Integers, Sequences, FiniteSets

CONSTANTS
  Metas,      \* the keys of meta-pairs
  Targets,    \* the pairs they can point at
  UserKeys,   \* the pairs the application subscribes to by itself
  Fns,        \* the callbacks an application passes
  NoFn,       \* the empty function of registerMetaSubscription
  Nowhere,    \* std::nullopt
  Absent,     \* the value of a pair that is not there
  Strands,    \* the strands that write meta-pairs and run callbacks
  MaxWrites,  \* bound on writes of meta-pairs
  MaxCalls    \* bound on the application's calls

ASSUME MetaAssumption ==
  /\ Nowhere \notin Targets /\ NoFn \notin Fns
  /\ Metas \cap Targets = {} /\ UserKeys \subseteq Targets \cup Metas
  /\ MaxWrites \in Nat /\ MaxCalls \in Nat

VARIABLES
  value,          \* the meta-pairs in the pair space
  running,        \* per strand: onMetaPairChanged calls collected and not run
  trackers,       \* g_trackers
  callbacks,      \* the callbacks on pairs: handle, key and function
  subscriptions,  \* Client::subscriptions_: handle and key
  next_callback,  \* the last handle of the pair space
  next_subscription_handle,
  userSubs,       \* the handles the application was given and has not given up
  revoked,        \* history: handles of trackers that the application cancelled
  settled,        \* history: the last write of a meta-pair was collected for its
                  \* tracker, and no earlier one was still to be run
  writes, calls   \* counters for the bounds

registry == <<trackers, callbacks, subscriptions, next_callback, next_subscription_handle>>
application == <<userSubs, revoked>>
vars == <<value, running, registry, application, settled, writes, calls>>

Keys == Metas \cup Targets

\* kInvalidCallbackHandle and kInvalidSubscriptionHandle
kInvalid == 0

-----------------------------------------------------------------------------
(* Values of meta-pairs                                                    *)

\* A value splits into META, a number and a key; or it is "(META -1 NULL)"; or
\* it is anything else.
Value == [form : {"meta"}, names : Targets] \cup [form : {"null", "other"}, names : {Nowhere}]

parseMetaValue(v) == IF v.form = "meta" THEN v.names ELSE Nowhere

-----------------------------------------------------------------------------
(* What Client and PairSpace do for a tracker                              *)

\* registerSubscription: the record made, none if there is one for k already.
NewSubscription(subs, k) ==
  {r \in {[handle |-> next_subscription_handle + 1, key |-> k]} :
     \A s \in subs : s.key # k}

\* registerCallback: the callback made; acquireTarget makes none without a function.
NewCallback(k, f) ==
  {c \in {[handle |-> next_callback + 1, key |-> k, fn |-> f]} : f # NoFn}

\* The handle returned for what was made.
HandleOf(made) == IF made = {} THEN kInvalid ELSE (CHOOSE r \in made : TRUE).handle

\* cancelSubscription and cancelCallback; an unknown handle is ignored.
Without(records, h) == {r \in records : r.handle # h}

\* What is registered after a step: the given records and the ones made.
Register(subs, newSubs, cbs, newCbs) ==
  /\ subscriptions' = subs \cup newSubs
  /\ callbacks' = cbs \cup newCbs
  /\ next_subscription_handle' = next_subscription_handle + Cardinality(newSubs)
  /\ next_callback' = next_callback + Cardinality(newCbs)

-----------------------------------------------------------------------------
(* Trackers                                                                *)

\* The function of the callback on a meta-pair.
onMetaPairChanged == "onMetaPairChanged"

ASSUME FunctionAssumption == NoFn # onMetaPairChanged

\* The default values of a MetaTracker; a meta-pair without a tracker has none
\* of the handles.
NoTracker == [tracked |-> FALSE, fn |-> NoFn, metaSub |-> kInvalid, metaCb |-> kInvalid,
              target |-> Nowhere, targetSub |-> kInvalid, targetCb |-> kInvalid]

Init ==
  /\ value = [m \in Metas |-> Absent]
  /\ running = [s \in Strands |-> <<>>]
  /\ trackers = [m \in Metas |-> NoTracker]
  /\ callbacks = {} /\ subscriptions = {}
  /\ next_callback = kInvalid /\ next_subscription_handle = kInvalid
  /\ userSubs = {} /\ revoked = {}
  /\ settled = [m \in Metas |-> FALSE]
  /\ writes = 0 /\ calls = 0

Call == calls < MaxCalls /\ calls' = calls + 1

\* registerMetaCallback, or registerMetaSubscription with NoFn, for a meta-pair
\* that has no tracker.
RegisterTracker(m, f) ==
  LET sub == NewSubscription(subscriptions, m)
      cb  == NewCallback(m, onMetaPairChanged)
  IN  /\ Call
      /\ ~trackers[m].tracked
      /\ Register(subscriptions, sub, callbacks, cb)
      /\ trackers' = [trackers EXCEPT ![m] =
           [NoTracker EXCEPT !.tracked = TRUE, !.fn = f,
                             !.metaSub = HandleOf(sub), !.metaCb = HandleOf(cb)]]
      /\ UNCHANGED <<value, running, application, settled, writes>>

\* The same for one that has: only the function is replaced.
ReplaceFunction(m, f) ==
  /\ Call
  /\ trackers[m].tracked
  /\ trackers' = [trackers EXCEPT ![m].fn = f]
  /\ UNCHANGED <<value, running, callbacks, subscriptions, next_callback,
                 next_subscription_handle, application, settled, writes>>

\* cancelMetaCallback and cancelMetaSubscription, releaseTarget included.
CancelTracker(m) ==
  LET t == trackers[m]
  IN  /\ Call
      /\ t.tracked
      /\ Register(Without(Without(subscriptions, t.targetSub), t.metaSub), {},
                  Without(Without(callbacks, t.targetCb), t.metaCb), {})
      /\ trackers' = [trackers EXCEPT ![m] = NoTracker]
      /\ settled' = [settled EXCEPT ![m] = FALSE]
      /\ UNCHANGED <<value, running, application, writes>>

\* acquireTarget, on the registrations that releaseTarget has left.
Acquire(m, target, subs, cbs) ==
  LET sub == IF target = Nowhere THEN {} ELSE NewSubscription(subs, target)
      cb  == IF target = Nowhere THEN {} ELSE NewCallback(target, trackers[m].fn)
  IN  /\ Register(subs, sub, cbs, cb)
      /\ trackers' = [trackers EXCEPT ![m].target = target,
                                      ![m].targetSub = HandleOf(sub),
                                      ![m].targetCb = HandleOf(cb)]

\* Mutant: the old target's subscription is cancelled by key, not by handle.
RepointByKey(m, target) ==
  Acquire(m, target, {r \in subscriptions : r.key # trackers[m].target},
          Without(callbacks, trackers[m].targetCb))

\* Mutant: a meta-pair that points nowhere leaves the tracker as it is.
RepointSomewhere(m, target) ==
  IF target = Nowhere
  THEN UNCHANGED registry
  ELSE Acquire(m, target, Without(subscriptions, trackers[m].targetSub),
               Without(callbacks, trackers[m].targetCb))

\* releaseTarget, then acquireTarget if there is a target.
Repoint(m, target) ==
  Acquire(m, target, Without(subscriptions, trackers[m].targetSub),
          Without(callbacks, trackers[m].targetCb))

\* onMetaPairChanged, run by strand s for the first change it has collected.
MetaPairChanged(s) ==
  LET m      == Head(running[s]).meta
      target == parseMetaValue(Head(running[s]).val)
  IN  /\ running[s] # <<>>
      /\ running' = [running EXCEPT ![s] = Tail(@)]
      /\ IF ~trackers[m].tracked \/ target = trackers[m].target
         THEN UNCHANGED registry
         ELSE Repoint(m, target)
      /\ UNCHANGED <<value, application, settled, writes, calls>>

-----------------------------------------------------------------------------
(* Writers and the application                                             *)

OnItsWay(m) == \E s \in Strands : \E i \in 1..Len(running[s]) : running[s][i].meta = m

Watched(m) == \E c \in callbacks : c.key = m

\* A meta-pair is written: setMetaPair, initMetaPair or any other write.  The
\* callbacks registered at this time are collected with the value.
WriteMeta(s, m, v) ==
  /\ writes < MaxWrites
  /\ writes' = writes + 1
  /\ value' = [value EXCEPT ![m] = v]
  /\ running' = [running EXCEPT ![s] =
       IF Watched(m) THEN Append(@, [meta |-> m, val |-> v]) ELSE @]
  /\ settled' = [settled EXCEPT ![m] = Watched(m) /\ ~OnItsWay(m)]
  /\ UNCHANGED <<registry, application, calls>>

\* A meta-pair is removed.  Removals run no callbacks.
RemoveMeta(m) ==
  /\ writes < MaxWrites
  /\ value[m] # Absent
  /\ writes' = writes + 1
  /\ value' = [value EXCEPT ![m] = Absent]
  /\ settled' = [settled EXCEPT ![m] = FALSE]
  /\ UNCHANGED <<running, registry, application, calls>>

\* The application's own registerSubscription.
UserSubscribe(k) ==
  LET sub == NewSubscription(subscriptions, k)
  IN  /\ Call
      /\ Register(subscriptions, sub, callbacks, {})
      /\ userSubs' = userSubs \cup {r.handle : r \in sub}
      /\ UNCHANGED <<value, running, trackers, revoked, settled, writes>>

\* The application's own cancelSubscription(owner, key), which takes the record
\* for the pair whoever made it.
UserCancel(k) ==
  /\ Call
  /\ \E r \in subscriptions :
       /\ r.key = k
       /\ Register(Without(subscriptions, r.handle), {}, callbacks, {})
       /\ userSubs' = userSubs \ {r.handle}
       /\ revoked' = revoked \cup ({r.handle} \ userSubs)
  /\ UNCHANGED <<value, running, trackers, settled, writes>>

Next ==
  \/ \E m \in Metas : \/ \E f \in Fns \cup {NoFn} : RegisterTracker(m, f) \/ ReplaceFunction(m, f)
                      \/ CancelTracker(m)
                      \/ RemoveMeta(m)
                      \/ \E s \in Strands, v \in Value : WriteMeta(s, m, v)
  \/ \E s \in Strands : MetaPairChanged(s)
  \/ \E k \in UserKeys : UserSubscribe(k) \/ UserCancel(k)

Spec == Init /\ [][Next]_vars

\* A strand runs what was collected for it.
FairSpec == Spec /\ \A s \in Strands : WF_vars(MetaPairChanged(s))

-----------------------------------------------------------------------------
(* Properties                                                              *)

Tracker == [tracked : BOOLEAN, fn : Fns \cup {NoFn}, metaSub : Nat, metaCb : Nat,
            target : Targets \cup {Nowhere}, targetSub : Nat, targetCb : Nat]

TypeOK ==
  /\ value \in [Metas -> Value \cup {Absent}]
  /\ running \in [Strands -> Seq([meta : Metas, val : Value])]
  /\ trackers \in [Metas -> Tracker]
  /\ callbacks \subseteq [handle : Nat, key : Keys, fn : Fns \cup {onMetaPairChanged}]
  /\ subscriptions \subseteq [handle : Nat, key : Keys]
  /\ next_callback \in Nat /\ next_subscription_handle \in Nat
  /\ userSubs \subseteq Nat /\ revoked \subseteq Nat
  /\ settled \in [Metas -> BOOLEAN]
  /\ writes \in 0..MaxWrites /\ calls \in 0..MaxCalls

\* The callbacks in the pair space are the ones that the trackers hold handles
\* of, each on the pair it is meant for: none stays behind when a meta-pair is
\* repointed or its tracker cancelled, however late a change is run.
CallbacksOwned ==
  /\ \A m \in Metas : LET t == trackers[m] IN
       /\ t.tracked <=> \E c \in callbacks : c.handle = t.metaCb /\ c.key = m
       /\ t.targetCb # kInvalid =>
            \E c \in callbacks : c.handle = t.targetCb /\ c.key = t.target
  /\ \A c \in callbacks : \E m \in Metas : c.handle \in {trackers[m].metaCb, trackers[m].targetCb}
  /\ \A c, d \in callbacks : c.handle = d.handle => c = d

\* A subscription lives exactly as long as whoever made it wants it to: every
\* record is one of the application's or of one tracker's, a tracker never gives
\* up what the application subscribed to itself, and only the application's own
\* cancellation takes a tracker's record away before the tracker moves on.
SubscriptionsOwned ==
  /\ \A r \in subscriptions :
       \/ r.handle \in userSubs
       \/ \E m \in Metas : \/ r.handle = trackers[m].metaSub /\ r.key = m
                           \/ r.handle = trackers[m].targetSub /\ r.key = trackers[m].target
  /\ \A h \in userSubs : \E r \in subscriptions : r.handle = h
  /\ \A m \in Metas : LET t == trackers[m] IN
       t.targetSub \notin revoked \cup {kInvalid} =>
         \E r \in subscriptions : r.handle = t.targetSub /\ r.key = t.target

\* Registrations are given up by who made them, neither too early nor too late.
RegistrationsOwned == CallbacksOwned /\ SubscriptionsOwned

\* Once the change is run, a tracker points where the meta-pair does, provided
\* that the meta-pair was written for a tracker and not while another change of
\* it was still to be run: two strands may run two changes in either order.
FollowsMetaPair ==
  \A m \in Metas :
    settled[m] /\ ~OnItsWay(m) => trackers[m].target = parseMetaValue(value[m])

\* ... and it gets there.
CatchesOn ==
  \A m \in Metas :
    settled[m] ~> (~settled[m] \/ trackers[m].target = parseMetaValue(value[m]))
=============================================================================
