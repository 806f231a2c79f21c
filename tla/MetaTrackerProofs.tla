------------------------- MODULE MetaTrackerProofs --------------------------
(***************************************************************************)
(* Theorems about MetaTracker, for any meta-pairs, targets, strands and    *)
(* any number of writes and calls.                                         *)
(***************************************************************************)
EXTENDS MetaTracker, FiniteSetTheorems, SequenceTheorems, TLAPS

\* Handles are given out once: what is registered or held by a tracker has one
\* that was given out, and no two trackers hold the same.
CallbackHandles ==
  /\ \A c \in callbacks : c.handle \in 1..next_callback
  /\ \A m \in Metas : LET t == trackers[m] IN
       /\ t.metaCb <= next_callback /\ t.targetCb <= next_callback
       /\ t.targetCb # kInvalid => t.target \in Targets
  /\ \A m, n \in Metas :
       m # n /\ trackers[m].targetCb # kInvalid => trackers[m].targetCb # trackers[n].targetCb

\* The subscription handles of a tracker.
HeldSubs(t) == {t.metaSub, t.targetSub} \ {kInvalid}

SubscriptionHandles ==
  /\ \A r \in subscriptions : r.handle \in 1..next_subscription_handle
  /\ \A r, q \in subscriptions : r.handle = q.handle => r = q
  /\ userSubs \subseteq 1..next_subscription_handle
  /\ revoked \subseteq 1..next_subscription_handle
  /\ \A m \in Metas : LET t == trackers[m] IN
       /\ t.metaSub <= next_subscription_handle /\ t.targetSub <= next_subscription_handle
       /\ t.metaSub = t.targetSub => t.metaSub = kInvalid

HeldOnce ==
  /\ \A m, n \in Metas : m # n => HeldSubs(trackers[m]) \cap HeldSubs(trackers[n]) = {}
  /\ \A m \in Metas : userSubs \cap HeldSubs(trackers[m]) = {}

\* A meta-pair without a tracker has none of the handles.
UntrackedBare == \A m \in Metas : ~trackers[m].tracked => trackers[m] = NoTracker

\* What is on its way about a settled meta-pair is its value, and as long as
\* nothing is, the tracker is where it should be.
SettledFollows ==
  \A m \in Metas : settled[m] =>
    /\ trackers[m].tracked
    /\ \A s \in Strands : \A i \in 1..Len(running[s]) :
         running[s][i].meta = m => running[s][i].val = value[m]
    /\ OnItsWay(m) \/ trackers[m].target = parseMetaValue(value[m])

MetaInv ==
  /\ TypeOK /\ UntrackedBare
  /\ CallbackHandles /\ CallbacksOwned
  /\ SubscriptionHandles /\ HeldOnce /\ SubscriptionsOwned
  /\ SettledFollows

-----------------------------------------------------------------------------
(* What is made, and with which handle                                     *)

LEMMA HandleOfOne == \A x : HandleOf({x}) = x.handle
BY DEF HandleOf

LEMMA MadeSubscription ==
  ASSUME NEW subs, NEW k
  PROVE  LET sub == NewSubscription(subs, k)
             h   == next_subscription_handle + 1
         IN  \/ sub = {} /\ HandleOf(sub) = kInvalid /\ Cardinality(sub) = 0
             \/ sub = {[handle |-> h, key |-> k]} /\ HandleOf(sub) = h /\ Cardinality(sub) = 1
<1> DEFINE r == [handle |-> next_subscription_handle + 1, key |-> k]
<1>1. NewSubscription(subs, k) \in {{}, {r}}
  BY DEF NewSubscription
<1>2. HandleOf({}) = kInvalid /\ Cardinality({}) = 0
  BY FS_EmptySet DEF HandleOf
<1>3. HandleOf({r}) = next_subscription_handle + 1
  <2>1. HandleOf({r}) = r.handle
    BY HandleOfOne
  <2> QED
    BY <2>1
<1>4. Cardinality({r}) = 1
  BY FS_Singleton
<1> QED
  BY <1>1, <1>2, <1>3, <1>4

LEMMA MadeCallback ==
  ASSUME NEW k, NEW f
  PROVE  LET cb == NewCallback(k, f)
             h  == next_callback + 1
         IN  \/ f = NoFn /\ cb = {} /\ HandleOf(cb) = kInvalid /\ Cardinality(cb) = 0
             \/ /\ f # NoFn
                /\ cb = {[handle |-> h, key |-> k, fn |-> f]}
                /\ HandleOf(cb) = h /\ Cardinality(cb) = 1
<1> DEFINE c == [handle |-> next_callback + 1, key |-> k, fn |-> f]
<1>1. NewCallback(k, f) = IF f = NoFn THEN {} ELSE {c}
  BY DEF NewCallback
<1>2. HandleOf({}) = kInvalid /\ Cardinality({}) = 0
  BY FS_EmptySet DEF HandleOf
<1>3. HandleOf({c}) = next_callback + 1
  <2>1. HandleOf({c}) = c.handle
    BY HandleOfOne
  <2> QED
    BY <2>1
<1>4. Cardinality({c}) = 1
  BY FS_Singleton
<1> QED
  BY <1>1, <1>2, <1>3, <1>4

-----------------------------------------------------------------------------
(* A tracker t takes the place of m's: some of the old one's registrations *)
(* are gone, at most one is made, and the rest carry over.                 *)

\* The tracker that takes the place of m's is one there can be.
Replaces(m, t) ==
  /\ t \in Tracker /\ (~t.tracked => t = NoTracker)
  /\ trackers' = [trackers EXCEPT ![m] = t]

LEMMA Elsewhere ==
  ASSUME TypeOK, NEW m \in Metas, NEW t, Replaces(m, t)
  PROVE  /\ trackers' \in [Metas -> Tracker] /\ trackers'[m] = t
         /\ \A n \in Metas : n # m => trackers'[n] = trackers[n]
BY DEF TypeOK, Replaces

\* The callbacks of the tracker that takes the place of m's: what the old one had is
\* gone or still there, and what the new one has carries over or is made.
CallbackMove(m, t, gone, made, c) ==
  /\ Replaces(m, t)
  /\ c \in [handle : Nat, key : Keys, fn : Fns \cup {onMetaPairChanged}]
  /\ c.handle = next_callback + 1
  /\ \/ made = {} /\ next_callback' = next_callback
     \/ made = {c} /\ next_callback' = next_callback + 1 /\ c.handle \in {t.metaCb, t.targetCb}
  /\ callbacks' = {d \in callbacks : d.handle \notin gone} \cup made
  /\ gone \subseteq {trackers[m].metaCb, trackers[m].targetCb}
  /\ trackers[m].metaCb \in gone \cup {kInvalid, t.metaCb}
  /\ trackers[m].targetCb \in gone \cup {kInvalid}
  /\ \/ trackers[m].tracked /\ t.metaCb = trackers[m].metaCb /\ t.metaCb \notin gone
     \/ made = {c} /\ t.metaCb = c.handle /\ c.key = m
     \/ ~t.tracked
  /\ \/ t.targetCb = kInvalid
     \/ made = {c} /\ t.targetCb = c.handle /\ t.target = c.key /\ c.key \in Targets

LEMMA CallbacksMove ==
  ASSUME MetaInv, NEW m \in Metas, NEW t, NEW gone, NEW made, NEW c,
         CallbackMove(m, t, gone, made, c)
  PROVE  CallbackHandles' /\ CallbacksOwned'
<1> USE DEF CallbackMove
<1> DEFINE old == trackers[m]
<1>1. /\ trackers' \in [Metas -> Tracker] /\ trackers'[m] = t
      /\ \A n \in Metas : n # m => trackers'[n] = trackers[n]
  BY Elsewhere DEF MetaInv
<1>2. /\ old \in Tracker /\ t \in Tracker /\ next_callback \in Nat
      /\ callbacks \subseteq [handle : Nat, key : Keys, fn : Fns \cup {onMetaPairChanged}]
  BY DEF MetaInv, TypeOK, Replaces
<1>3. ~t.tracked => t.metaCb = kInvalid /\ t.targetCb = kInvalid
  BY DEF Replaces, NoTracker
<1>4. next_callback' \in Nat /\ next_callback <= next_callback'
  BY <1>2
<1>5. CallbackHandles'
  <2>1. \A d \in callbacks' : d.handle \in 1..next_callback'
    BY <1>2, <1>4 DEF MetaInv, CallbackHandles
  <2>2. t.metaCb <= next_callback' /\ t.targetCb <= next_callback'
    BY <1>2, <1>3, <1>4 DEF MetaInv, CallbackHandles, kInvalid, Tracker
  <2>3. t.targetCb # kInvalid => t.target \in Targets
    OBVIOUS
  <2>4. \A n \in Metas : n # m => (t.targetCb # kInvalid => t.targetCb # trackers[n].targetCb)
    BY <1>2 DEF MetaInv, CallbackHandles, TypeOK, Tracker
  <2>5. \A n \in Metas :
          /\ trackers'[n].metaCb <= next_callback'
          /\ trackers'[n].targetCb <= next_callback'
    <3> TAKE n \in Metas
    <3>1. CASE n = m
      BY <3>1, <2>2, <1>1
    <3>2. CASE n # m
      <4>1. trackers[n].metaCb \in Nat /\ trackers[n].targetCb \in Nat
        BY DEF MetaInv, TypeOK, Tracker
      <4> QED
        BY <3>2, <4>1, <1>1, <1>2, <1>4 DEF MetaInv, CallbackHandles
    <3> QED
      BY <3>1, <3>2
  <2>6. \A n \in Metas : trackers'[n].targetCb # kInvalid => trackers'[n].target \in Targets
    BY <1>1, <2>3 DEF MetaInv, CallbackHandles
  <2>7. \A n, o \in Metas : n # o /\ trackers'[n].targetCb # kInvalid
            => trackers'[n].targetCb # trackers'[o].targetCb
    BY <1>1, <2>4 DEF MetaInv, CallbackHandles
  <2> QED
    BY <2>1, <2>5, <2>6, <2>7 DEF CallbackHandles, kInvalid
<1>6. \A n \in Metas : n # m =>
         /\ \A d \in callbacks : d.handle = trackers[n].metaCb /\ d.key = n => d.handle \notin gone
         /\ \A d \in callbacks : d.handle = trackers[n].targetCb => d.handle \notin gone
  <2> SUFFICES ASSUME NEW n \in Metas, n # m, NEW d \in callbacks,
                      (d.handle = trackers[n].metaCb /\ d.key = n) \/ d.handle = trackers[n].targetCb,
                      d.handle \in {old.metaCb, old.targetCb}
               PROVE  FALSE
    OBVIOUS
  <2>1. d.handle # kInvalid
    BY DEF MetaInv, CallbackHandles, kInvalid
  <2>2. old.tracked /\ d.handle = old.metaCb => d.key = m
    BY DEF MetaInv, CallbacksOwned
  <2>3. ~old.tracked => old.metaCb = kInvalid /\ old.targetCb = kInvalid
    BY DEF MetaInv, UntrackedBare, NoTracker
  <2>4. d.handle = old.targetCb => d.key = old.target /\ old.target \in Targets
    BY <2>1 DEF MetaInv, CallbacksOwned, CallbackHandles
  <2>5. d.handle = trackers[n].targetCb => d.key = trackers[n].target /\ trackers[n].target \in Targets
    BY <2>1 DEF MetaInv, CallbacksOwned, CallbackHandles
  <2>6. d.handle = trackers[n].targetCb => d.handle # old.targetCb
    BY <2>1 DEF MetaInv, CallbackHandles
  <2> QED
    BY <2>1, <2>2, <2>3, <2>4, <2>5, <2>6, MetaAssumption
<1>7. \A n \in Metas : n # m => (trackers[n].tracked <=>
             \E d \in callbacks' : d.handle = trackers[n].metaCb /\ d.key = n)
  <2> SUFFICES ASSUME NEW n \in Metas, n # m
               PROVE  trackers[n].tracked <=>
                        \E d \in callbacks' : d.handle = trackers[n].metaCb /\ d.key = n
    OBVIOUS
  <2>1. trackers[n].tracked <=> \E d \in callbacks : d.handle = trackers[n].metaCb /\ d.key = n
    BY DEF MetaInv, CallbacksOwned
  <2>2. c.handle # trackers[n].metaCb
    BY <1>2 DEF MetaInv, CallbackHandles, TypeOK, Tracker
  <2>3. (\E d \in callbacks : d.handle = trackers[n].metaCb /\ d.key = n)
          <=> (\E d \in callbacks' : d.handle = trackers[n].metaCb /\ d.key = n)
    BY <1>6, <2>2
  <2> QED
    BY <2>1, <2>3
<1>8. t.tracked <=> \E d \in callbacks' : d.handle = t.metaCb /\ d.key = m
  <2>1. CASE ~t.tracked
    BY <2>1, <1>3, <1>5 DEF CallbackHandles, kInvalid
  <2>2. CASE t.tracked
    BY <2>2 DEF MetaInv, CallbacksOwned
  <2> QED
    BY <2>1, <2>2
<1>9. \A n \in Metas : trackers'[n].targetCb # kInvalid =>
          \E d \in callbacks' : d.handle = trackers'[n].targetCb /\ d.key = trackers'[n].target
  <2> SUFFICES ASSUME NEW n \in Metas, trackers'[n].targetCb # kInvalid
               PROVE  \E d \in callbacks' : d.handle = trackers'[n].targetCb /\ d.key = trackers'[n].target
    OBVIOUS
  <2>1. CASE n = m
    BY <2>1, <1>1
  <2>2. CASE n # m
    BY <2>2, <1>1, <1>6 DEF MetaInv, CallbacksOwned
  <2> QED
    BY <2>1, <2>2
<1>10. \A d \in callbacks' : \E n \in Metas : d.handle \in {trackers'[n].metaCb, trackers'[n].targetCb}
  <2> SUFFICES ASSUME NEW d \in callbacks'
               PROVE  \E n \in Metas : d.handle \in {trackers'[n].metaCb, trackers'[n].targetCb}
    OBVIOUS
  <2>1. CASE d \in made
    BY <2>1, <1>1
  <2>2. CASE d \in callbacks /\ d.handle \notin gone
    <3>1. PICK n \in Metas : d.handle \in {trackers[n].metaCb, trackers[n].targetCb}
      BY <2>2 DEF MetaInv, CallbacksOwned
    <3>2. d.handle # kInvalid
      BY <2>2 DEF MetaInv, CallbackHandles, kInvalid
    <3> QED
      BY <2>2, <3>1, <3>2, <1>1
  <2> QED
    BY <2>1, <2>2
<1>11. \A d, e \in callbacks' : d.handle = e.handle => d = e
  BY <1>2 DEF MetaInv, CallbacksOwned, CallbackHandles
<1>12. \A n \in Metas : trackers'[n].tracked <=>
          \E d \in callbacks' : d.handle = trackers'[n].metaCb /\ d.key = n
  BY <1>1, <1>7, <1>8
<1>13. CallbacksOwned'
  BY <1>9, <1>10, <1>11, <1>12 DEF CallbacksOwned, kInvalid
<1> QED
  BY <1>5, <1>13

\* The same for its subscriptions.
SubscriptionMove(m, t, gone, made, r) ==
  /\ Replaces(m, t)
  /\ r \in [handle : Nat, key : Keys]
  /\ r.handle = next_subscription_handle + 1
  /\ \/ made = {} /\ next_subscription_handle' = next_subscription_handle
     \/ /\ made = {r} /\ next_subscription_handle' = next_subscription_handle + 1
        /\ r.handle \in {t.metaSub, t.targetSub}
  /\ subscriptions' = {q \in subscriptions : q.handle \notin gone} \cup made
  /\ UNCHANGED <<userSubs, revoked>>
  /\ gone \subseteq {trackers[m].metaSub, trackers[m].targetSub}
  /\ trackers[m].metaSub \in gone \cup {kInvalid, t.metaSub}
  /\ trackers[m].targetSub \in gone \cup {kInvalid}
  /\ \/ t.metaSub \in {trackers[m].metaSub, kInvalid}
     \/ made = {r} /\ t.metaSub = r.handle /\ r.key = m
  /\ \/ t.targetSub = kInvalid
     \/ made = {r} /\ t.targetSub = r.handle /\ t.target = r.key /\ r.key \in Targets

LEMMA SubscriptionsMove ==
  ASSUME MetaInv, NEW m \in Metas, NEW t, NEW gone, NEW made, NEW r,
         SubscriptionMove(m, t, gone, made, r)
  PROVE  SubscriptionHandles' /\ HeldOnce' /\ SubscriptionsOwned'
<1> USE DEF SubscriptionMove
<1> DEFINE old == trackers[m]
           last == next_subscription_handle
<1>1. /\ trackers' \in [Metas -> Tracker] /\ trackers'[m] = t
      /\ \A n \in Metas : n # m => trackers'[n] = trackers[n]
  BY Elsewhere DEF MetaInv
<1>2. /\ old \in Tracker /\ t \in Tracker /\ last \in Nat
      /\ subscriptions \subseteq [handle : Nat, key : Keys]
  BY DEF MetaInv, TypeOK, Replaces
<1>3. last' \in Nat /\ last <= last'
  BY <1>2
<1>4. /\ \A n \in Metas : trackers[n].metaSub \in 0..last /\ trackers[n].targetSub \in 0..last
      /\ \A n \in Metas : HeldSubs(trackers[n]) \subseteq 1..last
  <2>1. \A n \in Metas : trackers[n].metaSub \in 0..last /\ trackers[n].targetSub \in 0..last
    BY <1>2 DEF MetaInv, SubscriptionHandles, TypeOK, Tracker
  <2> QED
    BY <2>1 DEF HeldSubs, kInvalid
<1>5. /\ t.metaSub \in 0..last' /\ t.targetSub \in 0..last'
      /\ HeldSubs(t) \subseteq HeldSubs(old) \cup {r.handle}
      /\ t.metaSub = t.targetSub => t.metaSub = kInvalid
  <2>1. old.metaSub \in 0..last
    BY <1>4
  <2>2. t.metaSub \in 0..last' /\ t.targetSub \in 0..last'
    BY <1>2, <1>3, <2>1 DEF kInvalid
  <2>3. HeldSubs(t) \subseteq HeldSubs(old) \cup {r.handle}
    BY DEF HeldSubs
  <2>4. t.metaSub = t.targetSub => t.metaSub = kInvalid
    BY <1>2, <2>1, MetaAssumption DEF kInvalid
  <2> QED
    BY <2>2, <2>3, <2>4
<1>6. r.handle \notin userSubs /\ r.handle \notin revoked
      /\ \A n \in Metas : r.handle \notin HeldSubs(trackers[n])
  BY <1>2, <1>4 DEF MetaInv, SubscriptionHandles
<1>7. SubscriptionHandles'
  <2>1. \A q \in subscriptions' : q.handle \in 1..last'
    BY <1>2, <1>3 DEF MetaInv, SubscriptionHandles
  <2>2. \A p, q \in subscriptions' : p.handle = q.handle => p = q
    BY <1>2 DEF MetaInv, SubscriptionHandles
  <2>3. userSubs' \subseteq 1..last' /\ revoked' \subseteq 1..last'
    BY <1>2, <1>3 DEF MetaInv, SubscriptionHandles
  <2>4. \A n \in Metas :
          /\ trackers'[n].metaSub <= last' /\ trackers'[n].targetSub <= last'
          /\ trackers'[n].metaSub = trackers'[n].targetSub => trackers'[n].metaSub = kInvalid
    <3> TAKE n \in Metas
    <3>1. CASE n = m
      BY <3>1, <1>1, <1>5
    <3>2. CASE n # m
      BY <3>2, <1>1, <1>2, <1>3, <1>4 DEF MetaInv, SubscriptionHandles
    <3> QED
      BY <3>1, <3>2
  <2> QED
    BY <2>1, <2>2, <2>3, <2>4 DEF SubscriptionHandles, kInvalid
<1>14. HeldOnce'
  <2>1. \A n \in Metas : n # m => HeldSubs(t) \cap HeldSubs(trackers[n]) = {}
    BY <1>5, <1>6 DEF MetaInv, HeldOnce
  <2>2. \A n, o \in Metas : n # o => HeldSubs(trackers'[n]) \cap HeldSubs(trackers'[o]) = {}
    BY <2>1, <1>1 DEF MetaInv, HeldOnce
  <2>3. \A n \in Metas : userSubs' \cap HeldSubs(trackers'[n]) = {}
    BY <1>1, <1>5, <1>6 DEF MetaInv, HeldOnce
  <2> QED
    BY <2>2, <2>3 DEF HeldOnce, HeldSubs, kInvalid
<1>8. gone \subseteq HeldSubs(old) \cup {kInvalid}
  BY DEF HeldSubs
<1>9. \A q \in subscriptions : q.handle # kInvalid
  BY DEF MetaInv, SubscriptionHandles, kInvalid
<1>10. \A q \in subscriptions' :
         \/ q.handle \in userSubs'
         \/ \E n \in Metas : \/ q.handle = trackers'[n].metaSub /\ q.key = n
                             \/ q.handle = trackers'[n].targetSub /\ q.key = trackers'[n].target
  <2> SUFFICES ASSUME NEW q \in subscriptions', q.handle \notin userSubs
               PROVE  \E n \in Metas :
                        \/ q.handle = trackers'[n].metaSub /\ q.key = n
                        \/ q.handle = trackers'[n].targetSub /\ q.key = trackers'[n].target
    OBVIOUS
  <2>1. CASE q \in made
    <3>1. q = r
      BY <2>1
    <3> QED
      BY <3>1, <1>1, <1>2, <1>4, <2>1, <1>5 DEF kInvalid
  <2>2. CASE q \in subscriptions /\ q.handle \notin gone
    <3>1. PICK n \in Metas : \/ q.handle = trackers[n].metaSub /\ q.key = n
                             \/ q.handle = trackers[n].targetSub /\ q.key = trackers[n].target
      BY <2>2 DEF MetaInv, SubscriptionsOwned
    <3>2. CASE n = m
      BY <2>2, <3>1, <3>2, <1>1, <1>9
    <3>3. CASE n # m
      BY <3>1, <3>3, <1>1
    <3> QED
      BY <3>2, <3>3
  <2> QED
    BY <2>1, <2>2
<1>11. \A h \in userSubs' : \E q \in subscriptions' : q.handle = h
  <2> SUFFICES ASSUME NEW h \in userSubs PROVE \E q \in subscriptions' : q.handle = h
    OBVIOUS
  <2>1. PICK q \in subscriptions : q.handle = h
    BY DEF MetaInv, SubscriptionsOwned
  <2>2. q.handle \notin gone
    BY <2>1, <1>8, <1>9 DEF MetaInv, HeldOnce
  <2> QED
    BY <2>1, <2>2
<1>12. \A n \in Metas : trackers'[n].targetSub \notin revoked' \cup {kInvalid} =>
         \E q \in subscriptions' : q.handle = trackers'[n].targetSub /\ q.key = trackers'[n].target
  <2> SUFFICES ASSUME NEW n \in Metas, trackers'[n].targetSub \notin revoked \cup {kInvalid}
               PROVE  \E q \in subscriptions' :
                        q.handle = trackers'[n].targetSub /\ q.key = trackers'[n].target
    OBVIOUS
  <2>1. CASE n = m
    BY <2>1, <1>1
  <2>2. CASE n # m
    <3>1. PICK q \in subscriptions : q.handle = trackers[n].targetSub /\ q.key = trackers[n].target
      BY <2>2, <1>1 DEF MetaInv, SubscriptionsOwned
    <3>2. q.handle \in HeldSubs(trackers[n])
      BY <3>1, <2>2, <1>1 DEF HeldSubs
    <3>3. q.handle \notin gone
      BY <2>2, <3>2, <1>8, <1>9 DEF MetaInv, HeldOnce
    <3> QED
      BY <2>2, <3>1, <3>3, <1>1
  <2> QED
    BY <2>1, <2>2
<1>13. SubscriptionsOwned'
  BY <1>10, <1>11, <1>12 DEF SubscriptionsOwned, kInvalid
<1> QED
  BY <1>7, <1>13, <1>14

-----------------------------------------------------------------------------
(* The operations                                                          *)

LEMMA RegisterTrackerKeeps ==
  ASSUME MetaInv, NEW m \in Metas, NEW f \in Fns \cup {NoFn}, RegisterTracker(m, f)
  PROVE  MetaInv'
<1> DEFINE sub == NewSubscription(subscriptions, m)
           cb  == NewCallback(m, onMetaPairChanged)
           c   == [handle |-> next_callback + 1, key |-> m, fn |-> onMetaPairChanged]
           r   == [handle |-> next_subscription_handle + 1, key |-> m]
           t   == [NoTracker EXCEPT !.tracked = TRUE, !.fn = f,
                             !.metaSub = HandleOf(sub), !.metaCb = HandleOf(cb)]
<1>1. cb = {c} /\ HandleOf(cb) = next_callback + 1 /\ Cardinality(cb) = 1
  BY MadeCallback, FunctionAssumption
<1>2. \/ sub = {} /\ HandleOf(sub) = kInvalid /\ Cardinality(sub) = 0
      \/ sub = {r} /\ HandleOf(sub) = next_subscription_handle + 1 /\ Cardinality(sub) = 1
  BY MadeSubscription
<1>3. /\ callbacks' = callbacks \cup cb
      /\ next_callback' = next_callback + Cardinality(cb)
      /\ subscriptions' = subscriptions \cup sub
      /\ next_subscription_handle' = next_subscription_handle + Cardinality(sub)
      /\ UNCHANGED <<value, running, userSubs, revoked, settled, writes>>
      /\ calls' = calls + 1 /\ calls < MaxCalls
      /\ ~trackers[m].tracked
  BY DEF RegisterTracker, Register, Call, application
<1>4. trackers' = [trackers EXCEPT ![m] = t]
  BY DEF RegisterTracker
<1> HIDE DEF sub, cb
<1>5. trackers[m] = NoTracker /\ ~settled[m]
  BY <1>3 DEF MetaInv, UntrackedBare, SettledFollows
<1>6. next_callback \in Nat /\ next_subscription_handle \in Nat
  BY DEF MetaInv, TypeOK
<1>7. /\ t \in Tracker /\ t.tracked /\ t.metaSub = HandleOf(sub) /\ t.metaCb = HandleOf(cb)
      /\ t.target = Nowhere /\ t.targetSub = kInvalid /\ t.targetCb = kInvalid
  <2>1. HandleOf(sub) \in Nat /\ HandleOf(cb) \in Nat
    BY <1>1, <1>2, <1>6 DEF kInvalid
  <2> QED
    BY <2>1 DEF Tracker, NoTracker, kInvalid
<1> HIDE DEF t
<1>8. Replaces(m, t)
  BY <1>4, <1>7 DEF Replaces
<1>9. c \in [handle : Nat, key : Keys, fn : Fns \cup {onMetaPairChanged}]
      /\ r \in [handle : Nat, key : Keys]
  BY <1>6 DEF Keys
<1>10. CallbackHandles' /\ CallbacksOwned'
  <2>1. callbacks' = {d \in callbacks : d.handle \notin {}} \cup {c} /\ next_callback' = next_callback + 1
    BY <1>1, <1>3
  <2>2. trackers[m].metaCb = kInvalid /\ trackers[m].targetCb = kInvalid
    BY <1>5 DEF NoTracker
  <2>3. t.tracked /\ t.metaCb = c.handle /\ c.key = m /\ c.handle = next_callback + 1
        /\ t.targetCb = kInvalid
    BY <1>1, <1>7
  <2> HIDE DEF c
  <2> QED
    <3>1. CallbackMove(m, t, {}, {c}, c)
      BY <1>8, <1>9, <2>1, <2>2, <2>3 DEF CallbackMove
    <3> QED
      BY <3>1, CallbacksMove
<1>11. SubscriptionHandles' /\ HeldOnce' /\ SubscriptionsOwned'
  <2>1. subscriptions' = {q \in subscriptions : q.handle \notin {}} \cup sub
    BY <1>3
  <2>2. trackers[m].metaSub = kInvalid /\ trackers[m].targetSub = kInvalid
    BY <1>5 DEF NoTracker
  <2>3. /\ t.targetSub = kInvalid /\ t.metaSub = HandleOf(sub)
        /\ r.handle = next_subscription_handle + 1 /\ r.key = m
    BY <1>7
  <2>4. UNCHANGED <<userSubs, revoked>>
    BY <1>3
  <2>5. \/ sub = {} /\ t.metaSub = kInvalid /\ next_subscription_handle' = next_subscription_handle
        \/ sub = {r} /\ t.metaSub = r.handle /\ next_subscription_handle' = next_subscription_handle + 1
    BY <1>2, <1>3, <1>6, <2>3
  <2> HIDE DEF r
  <2>6. SubscriptionMove(m, t, {}, sub, r)
    BY <1>8, <1>9, <2>1, <2>2, <2>3, <2>4, <2>5 DEF SubscriptionMove
  <2> QED
    BY <2>6, SubscriptionsMove
<1>12. TypeOK'
  <2>1. trackers' \in [Metas -> Tracker]
    BY <1>8, Elsewhere DEF MetaInv
  <2>2. callbacks' \subseteq [handle : Nat, key : Keys, fn : Fns \cup {onMetaPairChanged}]
    BY <1>1, <1>3, <1>9 DEF MetaInv, TypeOK
  <2>3. subscriptions' \subseteq [handle : Nat, key : Keys]
    BY <1>2, <1>3, <1>9 DEF MetaInv, TypeOK
  <2>4. next_callback' \in Nat /\ next_subscription_handle' \in Nat
    BY <1>1, <1>2, <1>3, <1>6
  <2>5. calls' \in 0..MaxCalls
    BY <1>3, MetaAssumption DEF MetaInv, TypeOK
  <2> QED
    BY <1>3, <2>1, <2>2, <2>3, <2>4, <2>5 DEF MetaInv, TypeOK
<1>13. UntrackedBare' /\ SettledFollows'
  BY <1>3, <1>5, <1>7, <1>8, Elsewhere DEF MetaInv, UntrackedBare, SettledFollows, OnItsWay
<1> QED
  BY <1>10, <1>11, <1>12, <1>13 DEF MetaInv

LEMMA ReplaceFunctionKeeps ==
  ASSUME MetaInv, NEW m \in Metas, NEW f \in Fns \cup {NoFn}, ReplaceFunction(m, f)
  PROVE  MetaInv'
<1>1. /\ trackers' = [trackers EXCEPT ![m].fn = f] /\ trackers[m].tracked
      /\ UNCHANGED <<value, running, callbacks, subscriptions, next_callback,
                     next_subscription_handle, userSubs, revoked, settled, writes>>
      /\ calls' = calls + 1 /\ calls < MaxCalls
  BY DEF ReplaceFunction, Call, application
<1>2. trackers' \in [Metas -> Tracker]
  <2>1. trackers \in [Metas -> Tracker]
    BY DEF MetaInv, TypeOK
  <2> QED
    BY <1>1, <2>1 DEF Tracker
<1>3. \A n \in Metas :
         /\ trackers'[n].tracked = trackers[n].tracked /\ trackers'[n].target = trackers[n].target
         /\ trackers'[n].metaSub = trackers[n].metaSub /\ trackers'[n].metaCb = trackers[n].metaCb
         /\ trackers'[n].targetSub = trackers[n].targetSub
         /\ trackers'[n].targetCb = trackers[n].targetCb
         /\ n # m => trackers'[n] = trackers[n]
  BY <1>1 DEF MetaInv, TypeOK, Tracker
<1>4. TypeOK'
  <2>1. calls' \in 0..MaxCalls
    BY <1>1, MetaAssumption DEF MetaInv, TypeOK
  <2> QED
    BY <1>1, <1>2, <2>1 DEF MetaInv, TypeOK
<1>5. UntrackedBare'
  BY <1>1, <1>3 DEF MetaInv, UntrackedBare
<1>6. CallbackHandles' /\ SubscriptionHandles'
  BY <1>1, <1>3 DEF MetaInv, CallbackHandles, SubscriptionHandles, kInvalid
<1>7. HeldOnce'
  BY <1>1, <1>3 DEF MetaInv, HeldOnce, HeldSubs, kInvalid
<1>8. CallbacksOwned'
  BY <1>1, <1>3 DEF MetaInv, CallbacksOwned, kInvalid
<1>9. SubscriptionsOwned'
  BY <1>1, <1>3 DEF MetaInv, SubscriptionsOwned, kInvalid
<1>10. SettledFollows'
  BY <1>1, <1>3 DEF MetaInv, SettledFollows, OnItsWay
<1> QED
  BY <1>4, <1>5, <1>6, <1>7, <1>8, <1>9, <1>10 DEF MetaInv

\* Nothing is made when a tracker is cancelled.
LEMMA CancelTrackerKeeps ==
  ASSUME MetaInv, NEW m \in Metas, CancelTracker(m)
  PROVE  MetaInv'
<1> DEFINE t == trackers[m]
           goneCbs == {t.metaCb, t.targetCb}
           goneSubs == {t.metaSub, t.targetSub}
           c == [handle |-> next_callback + 1, key |-> m, fn |-> onMetaPairChanged]
           r == [handle |-> next_subscription_handle + 1, key |-> m]
<1>1. Cardinality({}) = 0
  BY FS_EmptySet
<1>2. next_callback \in Nat /\ next_subscription_handle \in Nat
  BY DEF MetaInv, TypeOK
<1>3. /\ callbacks' = {d \in callbacks : d.handle \notin goneCbs} \cup {}
      /\ subscriptions' = {q \in subscriptions : q.handle \notin goneSubs} \cup {}
      /\ next_callback' = next_callback /\ next_subscription_handle' = next_subscription_handle
  BY <1>1, <1>2 DEF CancelTracker, Register, Without
<1>4. /\ trackers' = [trackers EXCEPT ![m] = NoTracker]
      /\ settled' = [settled EXCEPT ![m] = FALSE]
      /\ UNCHANGED <<value, running, userSubs, revoked, writes>>
      /\ calls' = calls + 1 /\ calls < MaxCalls
  BY DEF CancelTracker, Call, application
<1>5. /\ NoTracker \in Tracker /\ ~NoTracker.tracked
      /\ NoTracker.metaCb = kInvalid /\ NoTracker.targetCb = kInvalid
      /\ NoTracker.metaSub = kInvalid /\ NoTracker.targetSub = kInvalid
  BY DEF NoTracker, Tracker, kInvalid
<1>6. Replaces(m, NoTracker)
  BY <1>4, <1>5 DEF Replaces
<1>7. /\ c \in [handle : Nat, key : Keys, fn : Fns \cup {onMetaPairChanged}]
      /\ r \in [handle : Nat, key : Keys]
      /\ c.handle = next_callback + 1 /\ r.handle = next_subscription_handle + 1
  BY <1>2 DEF Keys
<1> HIDE DEF c, r
<1>8. CallbackHandles' /\ CallbacksOwned'
  <2>1. CallbackMove(m, NoTracker, goneCbs, {}, c)
    BY <1>3, <1>5, <1>6, <1>7 DEF CallbackMove
  <2> QED
    BY <2>1, CallbacksMove
<1>9. SubscriptionHandles' /\ HeldOnce' /\ SubscriptionsOwned'
  <2>1. SubscriptionMove(m, NoTracker, goneSubs, {}, r)
    BY <1>3, <1>4, <1>5, <1>6, <1>7 DEF SubscriptionMove
  <2> QED
    BY <2>1, SubscriptionsMove
<1>10. TypeOK'
  <2>1. trackers' \in [Metas -> Tracker]
    BY <1>6, Elsewhere DEF MetaInv
  <2>2. calls' \in 0..MaxCalls /\ settled' \in [Metas -> BOOLEAN]
    BY <1>4, MetaAssumption DEF MetaInv, TypeOK
  <2>3. /\ callbacks' \subseteq callbacks /\ subscriptions' \subseteq subscriptions
        /\ next_callback' \in Nat /\ next_subscription_handle' \in Nat
    BY <1>2, <1>3
  <2> QED
    BY <1>4, <2>1, <2>2, <2>3 DEF MetaInv, TypeOK
<1>11. UntrackedBare'
  BY <1>6, Elsewhere DEF MetaInv, UntrackedBare
<1>12. SettledFollows'
  BY <1>4, <1>6, Elsewhere DEF MetaInv, SettledFollows, OnItsWay, TypeOK
<1> QED
  BY <1>8, <1>9, <1>10, <1>11, <1>12 DEF MetaInv

\* What the strands have still to run is untouched by the registrations.
LEMMA RepointKeeps ==
  ASSUME MetaInv, NEW m \in Metas, trackers[m].tracked, NEW target \in Targets \cup {Nowhere},
         Repoint(m, target), UNCHANGED <<userSubs, revoked>>
  PROVE  /\ CallbackHandles' /\ CallbacksOwned' /\ UntrackedBare'
         /\ SubscriptionHandles' /\ HeldOnce' /\ SubscriptionsOwned'
         /\ trackers' \in [Metas -> Tracker] /\ trackers'[m].target = target
         /\ trackers'[m].tracked
         /\ \A n \in Metas : n # m => trackers'[n] = trackers[n]
         /\ callbacks' \subseteq [handle : Nat, key : Keys, fn : Fns \cup {onMetaPairChanged}]
         /\ subscriptions' \subseteq [handle : Nat, key : Keys]
         /\ next_callback' \in Nat /\ next_subscription_handle' \in Nat
<1> DEFINE old == trackers[m]
           t == trackers'[m]
           subs == Without(subscriptions, old.targetSub)
           cbs == Without(callbacks, old.targetCb)
           sub == IF target = Nowhere THEN {} ELSE NewSubscription(subs, target)
           cb  == IF target = Nowhere THEN {} ELSE NewCallback(target, old.fn)
           k == IF target = Nowhere THEN m ELSE target
           f == IF old.fn = NoFn THEN onMetaPairChanged ELSE old.fn
           c == [handle |-> next_callback + 1, key |-> k, fn |-> f]
           r == [handle |-> next_subscription_handle + 1, key |-> k]
<1>1. next_callback \in Nat /\ next_subscription_handle \in Nat /\ old \in Tracker
  BY DEF MetaInv, TypeOK
<1>2. Cardinality({}) = 0 /\ HandleOf({}) = kInvalid
  BY FS_EmptySet DEF HandleOf
<1>3. /\ callbacks' = cbs \cup cb /\ next_callback' = next_callback + Cardinality(cb)
      /\ subscriptions' = subs \cup sub
      /\ next_subscription_handle' = next_subscription_handle + Cardinality(sub)
      /\ trackers' = [trackers EXCEPT ![m].target = target, ![m].targetSub = HandleOf(sub),
                                      ![m].targetCb = HandleOf(cb)]
  BY DEF Repoint, Acquire, Register
<1>4. \/ sub = {} /\ HandleOf(sub) = kInvalid /\ Cardinality(sub) = 0
      \/ /\ sub = {r} /\ HandleOf(sub) = next_subscription_handle + 1 /\ Cardinality(sub) = 1
         /\ target # Nowhere
  BY <1>2, MadeSubscription
<1>5. \/ cb = {} /\ HandleOf(cb) = kInvalid /\ Cardinality(cb) = 0
      \/ /\ cb = {c} /\ HandleOf(cb) = next_callback + 1 /\ Cardinality(cb) = 1
         /\ target # Nowhere
  BY <1>2, MadeCallback
<1>6. /\ c \in [handle : Nat, key : Keys, fn : Fns \cup {onMetaPairChanged}]
      /\ r \in [handle : Nat, key : Keys]
      /\ c.handle = next_callback + 1 /\ r.handle = next_subscription_handle + 1
      /\ target # Nowhere => c.key = target /\ r.key = target /\ target \in Targets
  BY <1>1 DEF Keys, Tracker
<1> HIDE DEF sub, cb, c, r
<1>7. HandleOf(sub) \in Nat /\ HandleOf(cb) \in Nat
  BY <1>1, <1>4, <1>5 DEF kInvalid
<1>8. /\ trackers' \in [Metas -> Tracker]
      /\ \A n \in Metas : n # m => trackers'[n] = trackers[n]
      /\ trackers' = [trackers EXCEPT ![m] = t]
      /\ t.tracked = old.tracked /\ t.metaSub = old.metaSub /\ t.metaCb = old.metaCb
      /\ t.target = target /\ t.targetSub = HandleOf(sub) /\ t.targetCb = HandleOf(cb)
  BY <1>3, <1>7 DEF MetaInv, TypeOK, Tracker
<1>9. Replaces(m, t)
  BY <1>8 DEF Replaces
<1>10. CallbackHandles' /\ CallbacksOwned'
  <2>1. old.metaCb # old.targetCb
    <3>1. PICK d \in callbacks : d.handle = old.metaCb /\ d.key = m
      BY DEF MetaInv, CallbacksOwned
    <3>2. old.metaCb = old.targetCb => d.key = old.target /\ old.target \in Targets
      BY <3>1 DEF MetaInv, CallbacksOwned, CallbackHandles, kInvalid
    <3> QED
      BY <3>1, <3>2, MetaAssumption
  <2>2. callbacks' = {d \in callbacks : d.handle \notin {old.targetCb}} \cup cb
    BY <1>3 DEF Without
  <2> HIDE DEF t
  <2>3. \/ cb = {} /\ next_callback' = next_callback /\ t.targetCb = kInvalid
        \/ cb = {c} /\ next_callback' = next_callback + 1 /\ t.targetCb = c.handle /\ target # Nowhere
    BY <1>1, <1>3, <1>5, <1>6, <1>8
  <2>4. CallbackMove(m, t, {old.targetCb}, cb, c)
    BY <1>6, <1>8, <1>9, <2>1, <2>2, <2>3 DEF CallbackMove
  <2> QED
    BY <2>4, CallbacksMove
<1>11. SubscriptionHandles' /\ HeldOnce' /\ SubscriptionsOwned'
  <2>1. subscriptions' = {q \in subscriptions : q.handle \notin {old.targetSub}} \cup sub
    BY <1>3 DEF Without
  <2> HIDE DEF t
  <2>2. \/ /\ sub = {} /\ next_subscription_handle' = next_subscription_handle
           /\ t.targetSub = kInvalid
        \/ /\ sub = {r} /\ next_subscription_handle' = next_subscription_handle + 1
           /\ t.targetSub = r.handle /\ target # Nowhere
    BY <1>1, <1>3, <1>4, <1>6, <1>8
  <2>3. SubscriptionMove(m, t, {old.targetSub}, sub, r)
    BY <1>6, <1>8, <1>9, <2>1, <2>2 DEF SubscriptionMove
  <2> QED
    BY <2>3, SubscriptionsMove
<1>12. UntrackedBare'
  BY <1>8 DEF MetaInv, UntrackedBare
<1>13. /\ callbacks' \subseteq [handle : Nat, key : Keys, fn : Fns \cup {onMetaPairChanged}]
       /\ subscriptions' \subseteq [handle : Nat, key : Keys]
       /\ next_callback' \in Nat /\ next_subscription_handle' \in Nat
  BY <1>1, <1>3, <1>4, <1>5, <1>6 DEF MetaInv, TypeOK, Without
<1> QED
  BY <1>8, <1>10, <1>11, <1>12, <1>13

\* What is left of a queue without its first element: the others.
LEMMA RestOf ==
  ASSUME NEW M, NEW q \in Seq(M), q # <<>>
  PROVE  /\ Tail(q) \in Seq(M) /\ Head(q) = q[1] /\ q[1] \in M
         /\ 1 \in 1..Len(q)
         /\ \A i \in 1..Len(Tail(q)) : \E j \in 1..Len(q) : q[j] = Tail(q)[i]
         /\ \A j \in 1..Len(q) : j # 1 => \E i \in 1..Len(Tail(q)) : q[j] = Tail(q)[i]
<1>1. /\ Tail(q) \in Seq(M) /\ Len(Tail(q)) = Len(q) - 1
      /\ Len(q) \in Nat \ {0} /\ Head(q) = q[1] /\ q[1] \in M
  OBVIOUS
<1>2. \A i \in 1..Len(Tail(q)) : i + 1 \in 1..Len(q) /\ q[i + 1] = Tail(q)[i]
  BY <1>1
<1>3. \A j \in 1..Len(q) : j # 1 => j - 1 \in 1..Len(Tail(q)) /\ q[j] = Tail(q)[j - 1]
  BY <1>1
<1> QED
  BY <1>1, <1>2, <1>3

\* What a strand has still to run when its first change is done: the rest.
LEMMA RestOfStrand ==
  ASSUME TypeOK, NEW s \in Strands, running[s] # <<>>,
         running' = [running EXCEPT ![s] = Tail(@)]
  PROVE  /\ running' \in [Strands -> Seq([meta : Metas, val : Value])]
         /\ Head(running[s]) = running[s][1] /\ 1 \in 1..Len(running[s])
         /\ running[s][1] \in [meta : Metas, val : Value]
         /\ \A u \in Strands : \A i \in 1..Len(running'[u]) :
              \E j \in 1..Len(running[u]) : running[u][j] = running'[u][i]
         /\ \A u \in Strands : \A j \in 1..Len(running[u]) :
              u # s \/ j # 1 => \E i \in 1..Len(running'[u]) : running[u][j] = running'[u][i]
<1> DEFINE M == [meta : Metas, val : Value]
           q == running[s]
<1>1. q \in Seq(M) /\ running \in [Strands -> Seq(M)]
  BY DEF TypeOK
<1> HIDE DEF M
<1>2. /\ Tail(q) \in Seq(M) /\ Head(q) = q[1] /\ q[1] \in M
      /\ 1 \in 1..Len(q)
      /\ \A i \in 1..Len(Tail(q)) : \E j \in 1..Len(q) : q[j] = Tail(q)[i]
      /\ \A j \in 1..Len(q) : j # 1 => \E i \in 1..Len(Tail(q)) : q[j] = Tail(q)[i]
  BY <1>1, RestOf
<1>3. running'[s] = Tail(q) /\ \A u \in Strands : u # s => running'[u] = running[u]
  BY <1>1
<1>4. running' \in [Strands -> Seq(M)]
  BY <1>1, <1>2
<1>5. ASSUME NEW u \in Strands, NEW i \in 1..Len(running'[u])
      PROVE  \E j \in 1..Len(running[u]) : running[u][j] = running'[u][i]
  <2>1. CASE u = s
    BY <2>1, <1>2, <1>3, Zenon
  <2>2. CASE u # s
    BY <2>2, <1>3, Zenon
  <2> QED
    BY <2>1, <2>2
<1>6. ASSUME NEW u \in Strands, NEW j \in 1..Len(running[u]), u # s \/ j # 1
      PROVE  \E i \in 1..Len(running'[u]) : running[u][j] = running'[u][i]
  <2>1. CASE u = s
    <3>1. j \in 1..Len(q) /\ j # 1
      BY <2>1, <1>6
    <3>2. \E i \in 1..Len(Tail(q)) : q[j] = Tail(q)[i]
      BY <3>1, <1>2
    <3> QED
      BY <2>1, <3>2, <1>3, Zenon
  <2>2. CASE u # s
    BY <2>2, <1>3, Zenon
  <2> QED
    BY <2>1, <2>2
<1> QED
  BY <1>2, <1>4, <1>5, <1>6, Zenon DEF M

\* A step that leaves the trackers and the callbacks alone keeps what is said of them.
LEMMA SameCallbacks ==
  ASSUME MetaInv, UNCHANGED <<trackers, callbacks, next_callback>>
  PROVE  CallbackHandles' /\ CallbacksOwned' /\ UntrackedBare'
<1>1. trackers' = trackers /\ callbacks' = callbacks /\ next_callback' = next_callback
  OBVIOUS
<1>2. CallbackHandles'
  BY <1>1 DEF MetaInv, CallbackHandles, kInvalid
<1>3. CallbacksOwned'
  <2>1. CallbacksOwned
    BY DEF MetaInv
  <2> QED
    BY <1>1, <2>1 DEF CallbacksOwned, kInvalid
<1>4. UntrackedBare'
  BY <1>1, Zenon DEF MetaInv, UntrackedBare, kInvalid, NoTracker
<1> QED
  BY <1>2, <1>3, <1>4

\* The same for the subscriptions and the application's.
LEMMA SameRegistry ==
  ASSUME MetaInv, UNCHANGED <<registry, application>>
  PROVE  /\ CallbackHandles' /\ CallbacksOwned' /\ UntrackedBare'
         /\ SubscriptionHandles' /\ HeldOnce' /\ SubscriptionsOwned'
<1>1. /\ trackers' = trackers /\ callbacks' = callbacks /\ subscriptions' = subscriptions
      /\ next_callback' = next_callback /\ next_subscription_handle' = next_subscription_handle
      /\ userSubs' = userSubs /\ revoked' = revoked
  BY DEF registry, application
<1>2. CallbackHandles' /\ CallbacksOwned' /\ UntrackedBare'
  BY <1>1, SameCallbacks
<1>3. SubscriptionHandles'
  BY <1>1 DEF MetaInv, SubscriptionHandles, kInvalid
<1>4. HeldOnce'
  BY <1>1, Zenon DEF MetaInv, HeldOnce, HeldSubs, kInvalid
<1>5. SubscriptionsOwned'
  BY <1>1, Zenon DEF MetaInv, SubscriptionsOwned, kInvalid
<1> QED
  BY <1>2, <1>3, <1>4, <1>5

LEMMA MetaPairChangedKeeps ==
  ASSUME MetaInv, NEW s \in Strands, MetaPairChanged(s)
  PROVE  MetaInv'
<1> DEFINE m == Head(running[s]).meta
           v == Head(running[s]).val
           target == parseMetaValue(v)
<1>1. /\ running[s] # <<>> /\ running' = [running EXCEPT ![s] = Tail(@)]
      /\ UNCHANGED <<value, userSubs, revoked, settled, writes, calls>>
      /\ IF ~trackers[m].tracked \/ target = trackers[m].target
         THEN UNCHANGED registry ELSE Repoint(m, target)
  BY DEF MetaPairChanged, application
<1>2. /\ running' \in [Strands -> Seq([meta : Metas, val : Value])]
      /\ Head(running[s]) = running[s][1] /\ 1 \in 1..Len(running[s])
      /\ running[s][1] \in [meta : Metas, val : Value]
      /\ \A u \in Strands : \A i \in 1..Len(running'[u]) :
           \E j \in 1..Len(running[u]) : running[u][j] = running'[u][i]
      /\ \A u \in Strands : \A j \in 1..Len(running[u]) :
           u # s \/ j # 1 => \E i \in 1..Len(running'[u]) : running[u][j] = running'[u][i]
  BY <1>1, RestOfStrand DEF MetaInv
<1>3. m \in Metas /\ v \in Value /\ target \in Targets \cup {Nowhere}
  BY <1>2 DEF Value, parseMetaValue
<1>4. settled[m] => v = value[m]
  BY <1>2, <1>3 DEF MetaInv, SettledFollows
<1> HIDE DEF m, v, target
<1>5. /\ CallbackHandles' /\ CallbacksOwned' /\ UntrackedBare'
      /\ SubscriptionHandles' /\ HeldOnce' /\ SubscriptionsOwned'
      /\ trackers' \in [Metas -> Tracker]
      /\ trackers[m].tracked => trackers'[m].tracked /\ trackers'[m].target = target
      /\ \A n \in Metas : n # m => trackers'[n] = trackers[n]
      /\ callbacks' \subseteq [handle : Nat, key : Keys, fn : Fns \cup {onMetaPairChanged}]
      /\ subscriptions' \subseteq [handle : Nat, key : Keys]
      /\ next_callback' \in Nat /\ next_subscription_handle' \in Nat
  <2>1. CASE ~trackers[m].tracked \/ target = trackers[m].target
    <3>1. UNCHANGED registry
      BY <1>1, <2>1
    <3>2. /\ trackers' = trackers /\ callbacks' = callbacks /\ subscriptions' = subscriptions
          /\ next_callback' = next_callback
          /\ next_subscription_handle' = next_subscription_handle
      BY <3>1 DEF registry
    <3>3. UNCHANGED <<registry, application>>
      BY <1>1, <3>1 DEF application
    <3> QED
      BY <2>1, <3>2, <3>3, SameRegistry DEF MetaInv, TypeOK
  <2>2. CASE trackers[m].tracked /\ target # trackers[m].target
    <3>1. Repoint(m, target)
      BY <1>1, <2>2
    <3> QED
      BY <1>1, <1>3, <2>2, <3>1, RepointKeeps
  <2> QED
    BY <2>1, <2>2
<1>6. TypeOK'
  BY <1>1, <1>2, <1>5 DEF MetaInv, TypeOK
<1>7. SettledFollows'
  <2>0. settled' = settled /\ value' = value
    BY <1>1
  <2> SUFFICES ASSUME NEW n \in Metas, settled'[n]
               PROVE  /\ trackers'[n].tracked
                      /\ \A u \in Strands : \A i \in 1..Len(running'[u]) :
                           running'[u][i].meta = n => running'[u][i].val = value'[n]
                      /\ OnItsWay(n)' \/ trackers'[n].target = parseMetaValue(value[n])'
    BY DEF SettledFollows
  <2>1. /\ trackers[n].tracked
        /\ \A u \in Strands : \A i \in 1..Len(running[u]) :
             running[u][i].meta = n => running[u][i].val = value[n]
        /\ OnItsWay(n) \/ trackers[n].target = parseMetaValue(value[n])
    BY <2>0 DEF MetaInv, SettledFollows
  <2>2. trackers'[n].tracked
    BY <2>1, <1>5
  <2>3. \A u \in Strands : \A i \in 1..Len(running'[u]) :
          running'[u][i].meta = n => running'[u][i].val = value'[n]
    <3> TAKE u \in Strands
    <3> TAKE i \in 1..Len(running'[u])
    <3>1. PICK j \in 1..Len(running[u]) : running[u][j] = running'[u][i]
      BY <1>2
    <3>2. running[u][j].meta = n => running[u][j].val = value[n]
      BY <2>1, Zenon
    <3> QED
      BY <2>0, <3>1, <3>2
  <2>4. CASE n = m
    <3>1. v = value[n] /\ trackers'[n].target = target
      BY <2>0, <2>1, <2>4, <1>4, <1>5
    <3>2. trackers'[n].target = parseMetaValue(value[n])'
      BY <2>0, <3>1 DEF target, parseMetaValue
    <3> QED
      BY <2>2, <2>3, <3>2
  <2>5. CASE n # m
    <3>1. CASE trackers[n].target = parseMetaValue(value[n])
      <4>1. trackers'[n].target = parseMetaValue(value[n])'
        BY <2>0, <2>5, <3>1, <1>5 DEF parseMetaValue
      <4> QED
        BY <2>2, <2>3, <4>1
    <3>2. CASE OnItsWay(n)
      <4>1. PICK u \in Strands : \E j \in 1..Len(running[u]) : running[u][j].meta = n
        BY <3>2 DEF OnItsWay
      <4>2. PICK j \in 1..Len(running[u]) : running[u][j].meta = n
        BY <4>1
      <4>3. u # s \/ j # 1
        BY <4>2, <2>5, <1>2 DEF m
      <4>4. \E i \in 1..Len(running'[u]) : running[u][j] = running'[u][i]
        BY <4>3, <1>2
      <4>5. OnItsWay(n)'
        BY <4>2, <4>4 DEF OnItsWay
      <4> QED
        BY <2>2, <2>3, <4>5
    <3> QED
      BY <2>1, <3>1, <3>2
  <2> QED
    BY <2>4, <2>5
<1> QED
  BY <1>5, <1>6, <1>7 DEF MetaInv

-----------------------------------------------------------------------------
(* Writers                                                                 *)

\* A queue with e behind it.
LEMMA OneMore ==
  ASSUME NEW M, NEW q \in Seq(M), NEW e \in M
  PROVE  LET p == Append(q, e)
         IN  /\ p \in Seq(M)
             /\ \A i \in 1..Len(p) : (i \in 1..Len(q) /\ p[i] = q[i]) \/ p[i] = e
             /\ \A i \in 1..Len(q) : i \in 1..Len(p) /\ p[i] = q[i]
             /\ \E i \in 1..Len(p) : p[i] = e
<1> DEFINE p == Append(q, e)
<1>1. /\ p \in Seq(M) /\ Len(q) \in Nat /\ Len(p) = Len(q) + 1
      /\ \A i \in 1..Len(q) : p[i] = q[i]
      /\ p[Len(q) + 1] = e
  OBVIOUS
<1> HIDE DEF p
<1>2. Len(q) + 1 \in 1..Len(p)
  BY <1>1
<1>3. \A i \in 1..Len(p) : i \in 1..Len(q) \/ i = Len(q) + 1
  BY <1>1
<1>4. \A i \in 1..Len(q) : i \in 1..Len(p)
  BY <1>1
<1> QED
  BY <1>1, <1>2, <1>3, <1>4 DEF p

\* A meta-pair with a callback on it has a tracker: the callback is no tracker's
\* target callback, since a target is no meta-pair.
LEMMA WatchedTracked ==
  ASSUME MetaInv, NEW m \in Metas, Watched(m)
  PROVE  trackers[m].tracked
<1>1. PICK c \in callbacks : c.key = m
  BY DEF Watched
<1>2. PICK n \in Metas : c.handle \in {trackers[n].metaCb, trackers[n].targetCb}
  BY DEF MetaInv, CallbacksOwned
<1>3. c.handle # kInvalid /\ trackers[n] \in Tracker
  BY DEF MetaInv, CallbackHandles, TypeOK, kInvalid
<1>4. NoTracker.metaCb = kInvalid /\ NoTracker.targetCb = kInvalid
  BY DEF NoTracker
<1>5. trackers[n].tracked
  BY <1>2, <1>3, <1>4 DEF MetaInv, UntrackedBare
<1>6. CASE c.handle = trackers[n].metaCb
  BY <1>1, <1>5, <1>6 DEF MetaInv, CallbacksOwned
<1>7. CASE c.handle = trackers[n].targetCb
  <2>1. c.key = trackers[n].target /\ trackers[n].target \in Targets
    BY <1>3, <1>7 DEF MetaInv, CallbacksOwned, CallbackHandles
  <2> QED
    BY <1>1, <2>1, MetaAssumption
<1> QED
  BY <1>2, <1>6, <1>7

LEMMA WriteMetaKeeps ==
  ASSUME MetaInv, NEW s \in Strands, NEW m \in Metas, NEW v \in Value, WriteMeta(s, m, v)
  PROVE  MetaInv'
<1> DEFINE M == [meta : Metas, val : Value]
           e == [meta |-> m, val |-> v]
           q == running[s]
<1>1. /\ writes' = writes + 1 /\ writes < MaxWrites /\ value' = [value EXCEPT ![m] = v]
      /\ running' = [running EXCEPT ![s] = IF Watched(m) THEN Append(@, e) ELSE @]
      /\ settled' = [settled EXCEPT ![m] = Watched(m) /\ ~OnItsWay(m)]
      /\ UNCHANGED <<registry, application>> /\ calls' = calls
  BY DEF WriteMeta
<1>2. e \in M /\ e.meta = m /\ e.val = v
  OBVIOUS
<1>3. q \in Seq(M) /\ running \in [Strands -> Seq(M)]
  BY DEF MetaInv, TypeOK
<1> HIDE DEF M, e
<1>4. /\ Append(q, e) \in Seq(M)
      /\ \A i \in 1..Len(Append(q, e)) :
           (i \in 1..Len(q) /\ Append(q, e)[i] = q[i]) \/ Append(q, e)[i] = e
      /\ \A i \in 1..Len(q) : i \in 1..Len(Append(q, e)) /\ Append(q, e)[i] = q[i]
      /\ \E i \in 1..Len(Append(q, e)) : Append(q, e)[i] = e
  BY <1>2, <1>3, OneMore
<1>5. /\ running' \in [Strands -> Seq(M)]
      /\ \A u \in Strands : u # s => running'[u] = running[u]
      /\ Watched(m) => running'[s] = Append(q, e)
      /\ ~Watched(m) => running'[s] = running[s]
  BY <1>1, <1>3, <1>4
<1>6. \A u \in Strands : \A i \in 1..Len(running'[u]) :
        \/ i \in 1..Len(running[u]) /\ running'[u][i] = running[u][i]
        \/ running'[u][i] = e
  BY <1>4, <1>5, Zenon
<1>7. \A u \in Strands : \A i \in 1..Len(running[u]) :
        i \in 1..Len(running'[u]) /\ running'[u][i] = running[u][i]
  BY <1>4, <1>5, Zenon
<1>8. Watched(m) => \E i \in 1..Len(running'[s]) : running'[s][i] = e
  BY <1>4, <1>5, Zenon
<1>9. /\ CallbackHandles' /\ CallbacksOwned' /\ UntrackedBare'
      /\ SubscriptionHandles' /\ HeldOnce' /\ SubscriptionsOwned'
  BY <1>1, SameRegistry
<1>10. TypeOK'
  <2>1. writes' \in 0..MaxWrites
    BY <1>1, MetaAssumption DEF MetaInv, TypeOK
  <2>2. value' \in [Metas -> Value \cup {Absent}]
    BY <1>1 DEF MetaInv, TypeOK
  <2>3. settled' \in [Metas -> BOOLEAN]
    BY <1>1 DEF MetaInv, TypeOK
  <2> QED
    BY <1>1, <1>5, <2>1, <2>2, <2>3 DEF MetaInv, TypeOK, registry, application, M
<1>11. SettledFollows'
  <2>1. trackers' = trackers
    BY <1>1 DEF registry
  <2> SUFFICES ASSUME NEW n \in Metas, settled'[n]
               PROVE  /\ trackers'[n].tracked
                      /\ \A u \in Strands : \A i \in 1..Len(running'[u]) :
                           running'[u][i].meta = n => running'[u][i].val = value'[n]
                      /\ OnItsWay(n)' \/ trackers'[n].target = parseMetaValue(value[n])'
    BY DEF SettledFollows
  <2>2. CASE n = m
    <3>1. Watched(m) /\ ~OnItsWay(m) /\ value'[m] = v
      BY <1>1, <2>2 DEF MetaInv, TypeOK
    <3>2. trackers'[n].tracked
      BY <2>1, <2>2, <3>1, WatchedTracked
    <3>3. \A u \in Strands : \A i \in 1..Len(running'[u]) :
            running'[u][i].meta = n => running'[u][i].val = value'[n]
      <4>1. \A u \in Strands : \A i \in 1..Len(running[u]) : running[u][i].meta # m
        BY <3>1, Zenon DEF OnItsWay
      <4> QED
        BY <1>2, <1>6, <2>2, <3>1, <4>1, Zenon
    <3>4. OnItsWay(n)'
      BY <1>2, <1>8, <2>2, <3>1, Zenon DEF OnItsWay
    <3> QED
      BY <3>2, <3>3, <3>4
  <2>3. CASE n # m
    <3>1. settled[n] /\ value'[n] = value[n]
      BY <1>1, <2>3 DEF MetaInv, TypeOK
    <3>2. /\ trackers[n].tracked
          /\ \A u \in Strands : \A i \in 1..Len(running[u]) :
               running[u][i].meta = n => running[u][i].val = value[n]
          /\ OnItsWay(n) \/ trackers[n].target = parseMetaValue(value[n])
      BY <3>1 DEF MetaInv, SettledFollows
    <3>3. \A u \in Strands : \A i \in 1..Len(running'[u]) :
            running'[u][i].meta = n => running'[u][i].val = value'[n]
      <4> TAKE u \in Strands
      <4> TAKE i \in 1..Len(running'[u])
      <4>1. running[u][i].meta = n /\ i \in 1..Len(running[u]) => running[u][i].val = value[n]
        BY <3>2, Zenon
      <4>2. \/ i \in 1..Len(running[u]) /\ running'[u][i] = running[u][i]
            \/ running'[u][i] = e
        BY <1>6, Zenon
      <4> QED
        BY <1>2, <2>3, <3>1, <4>1, <4>2
    <3>4. ASSUME OnItsWay(n) PROVE OnItsWay(n)'
      <4>1. PICK u \in Strands : \E i \in 1..Len(running[u]) : running[u][i].meta = n
        BY <3>4, Zenon DEF OnItsWay
      <4>2. PICK i \in 1..Len(running[u]) : running[u][i].meta = n
        BY <4>1
      <4>3. i \in 1..Len(running'[u]) /\ running'[u][i].meta = n
        BY <1>7, <4>2
      <4> QED
        BY <4>3, Zenon DEF OnItsWay
    <3>5. parseMetaValue(value[n])' = parseMetaValue(value[n])
      BY <3>1 DEF parseMetaValue
    <3> QED
      BY <2>1, <3>2, <3>3, <3>4, <3>5
  <2> QED
    BY <2>2, <2>3
<1> QED
  BY <1>9, <1>10, <1>11 DEF MetaInv

LEMMA RemoveMetaKeeps ==
  ASSUME MetaInv, NEW m \in Metas, RemoveMeta(m)
  PROVE  MetaInv'
<1>1. /\ writes' = writes + 1 /\ writes < MaxWrites /\ value' = [value EXCEPT ![m] = Absent]
      /\ settled' = [settled EXCEPT ![m] = FALSE] /\ running' = running
      /\ UNCHANGED <<registry, application>> /\ calls' = calls
  BY DEF RemoveMeta
<1>2. /\ CallbackHandles' /\ CallbacksOwned' /\ UntrackedBare'
      /\ SubscriptionHandles' /\ HeldOnce' /\ SubscriptionsOwned'
  BY <1>1, SameRegistry
<1>3. TypeOK'
  <2>1. writes' \in 0..MaxWrites
    BY <1>1, MetaAssumption DEF MetaInv, TypeOK
  <2>2. value' \in [Metas -> Value \cup {Absent}] /\ settled' \in [Metas -> BOOLEAN]
    BY <1>1 DEF MetaInv, TypeOK
  <2> QED
    BY <1>1, <2>1, <2>2 DEF MetaInv, TypeOK, registry, application
<1>4. SettledFollows'
  <2>1. trackers' = trackers
    BY <1>1 DEF registry
  <2>2. \A n \in Metas : settled'[n] => n # m /\ settled[n] /\ value'[n] = value[n]
    BY <1>1 DEF MetaInv, TypeOK
  <2> QED
    BY <1>1, <2>1, <2>2 DEF MetaInv, SettledFollows, OnItsWay, parseMetaValue
<1> QED
  BY <1>2, <1>3, <1>4 DEF MetaInv

-----------------------------------------------------------------------------
(* The application                                                         *)

\* A tracker follows as before if only the application's subscriptions change.
LEMMA SameFollowing ==
  ASSUME MetaInv, UNCHANGED <<value, running, trackers, settled>>
  PROVE  SettledFollows'
<1>1. value' = value /\ running' = running /\ trackers' = trackers /\ settled' = settled
  OBVIOUS
<1>2. SettledFollows
  BY DEF MetaInv
<1> QED
  BY <1>1, <1>2 DEF SettledFollows, OnItsWay, parseMetaValue

LEMMA UserSubscribeKeeps ==
  ASSUME MetaInv, NEW k \in UserKeys, UserSubscribe(k)
  PROVE  MetaInv'
<1> DEFINE sub == NewSubscription(subscriptions, k)
           h == next_subscription_handle + 1
           r == [handle |-> h, key |-> k]
<1>1. next_subscription_handle \in Nat /\ next_callback \in Nat /\ Cardinality({}) = 0
  BY FS_EmptySet DEF MetaInv, TypeOK
<1>2. /\ callbacks' = callbacks /\ next_callback' = next_callback
      /\ subscriptions' = subscriptions \cup sub
      /\ next_subscription_handle' = next_subscription_handle + Cardinality(sub)
      /\ userSubs' = userSubs \cup {x.handle : x \in sub}
      /\ calls' = calls + 1 /\ calls < MaxCalls
      /\ value' = value /\ running' = running /\ trackers' = trackers /\ revoked' = revoked
      /\ settled' = settled /\ writes' = writes
  BY <1>1 DEF UserSubscribe, Register, Call
<1>3. \/ sub = {} /\ Cardinality(sub) = 0
      \/ sub = {r} /\ Cardinality(sub) = 1
  BY MadeSubscription
<1>4. r \in [handle : Nat, key : Keys] /\ r.handle = h /\ r.key = k
  BY <1>1, MetaAssumption DEF Keys
<1> HIDE DEF sub, r
<1>5. \/ /\ subscriptions' = subscriptions /\ userSubs' = userSubs
         /\ next_subscription_handle' = next_subscription_handle
      \/ /\ subscriptions' = subscriptions \cup {r} /\ userSubs' = userSubs \cup {h}
         /\ next_subscription_handle' = h
  BY <1>1, <1>2, <1>3, <1>4
<1>6. /\ CallbackHandles' /\ CallbacksOwned' /\ UntrackedBare' /\ SettledFollows'
  BY <1>2, SameCallbacks, SameFollowing
<1>7. TypeOK'
  <2>1. calls' \in 0..MaxCalls
    BY <1>2, MetaAssumption DEF MetaInv, TypeOK
  <2>2. /\ subscriptions' \subseteq [handle : Nat, key : Keys]
        /\ userSubs' \subseteq Nat /\ next_subscription_handle' \in Nat
    BY <1>1, <1>4, <1>5 DEF MetaInv, TypeOK
  <2> QED
    BY <1>1, <1>2, <2>1, <2>2 DEF MetaInv, TypeOK
<1>8. SubscriptionHandles' /\ HeldOnce' /\ SubscriptionsOwned'
  <2>1. CASE /\ subscriptions' = subscriptions /\ userSubs' = userSubs
             /\ next_subscription_handle' = next_subscription_handle
    <3>1. UNCHANGED <<registry, application>>
      BY <1>2, <2>1 DEF registry, application
    <3> QED
      BY <3>1, SameRegistry
  <2>2. CASE /\ subscriptions' = subscriptions \cup {r} /\ userSubs' = userSubs \cup {h}
             /\ next_subscription_handle' = h
    <3>1. SubscriptionHandles'
      <4>1. /\ \A q \in subscriptions : q.handle \in 1..next_subscription_handle
            /\ \A q, p \in subscriptions : q.handle = p.handle => q = p
            /\ userSubs \subseteq 1..next_subscription_handle
            /\ revoked \subseteq 1..next_subscription_handle
            /\ \A m \in Metas : LET t == trackers[m] IN
                 /\ t.metaSub <= next_subscription_handle
                 /\ t.targetSub <= next_subscription_handle
                 /\ t.metaSub = t.targetSub => t.metaSub = kInvalid
        BY DEF MetaInv, SubscriptionHandles
      <4>2. \A q, p \in subscriptions' : q.handle = p.handle => q = p
        BY <1>1, <1>4, <2>2, <4>1
      <4>3. /\ \A q \in subscriptions' : q.handle \in 1..h
            /\ userSubs' \subseteq 1..h /\ revoked \subseteq 1..h
        BY <1>1, <1>4, <2>2, <4>1
      <4>4. \A m \in Metas : trackers[m].metaSub <= h /\ trackers[m].targetSub <= h
        BY <1>1, <4>1 DEF MetaInv, TypeOK, Tracker
      <4> QED
        BY <1>2, <2>2, <4>1, <4>2, <4>3, <4>4 DEF SubscriptionHandles, kInvalid
    <3>2. \A m \in Metas : h \notin HeldSubs(trackers[m])
      BY <1>1 DEF MetaInv, SubscriptionHandles, HeldSubs
    <3>3. HeldOnce'
      BY <1>2, <2>2, <3>2 DEF MetaInv, HeldOnce, HeldSubs, kInvalid
    <3>4. SubscriptionsOwned'
      <4>1. \A q \in subscriptions' :
              \/ q.handle \in userSubs'
              \/ \E m \in Metas : \/ q.handle = trackers[m].metaSub /\ q.key = m
                                  \/ q.handle = trackers[m].targetSub /\ q.key = trackers[m].target
        BY <1>4, <2>2 DEF MetaInv, SubscriptionsOwned
      <4>2. \A x \in userSubs' : \E q \in subscriptions' : q.handle = x
        BY <1>4, <2>2 DEF MetaInv, SubscriptionsOwned
      <4>3. \A m \in Metas : trackers[m].targetSub \notin revoked \cup {kInvalid} =>
              \E q \in subscriptions' :
                q.handle = trackers[m].targetSub /\ q.key = trackers[m].target
        BY <2>2 DEF MetaInv, SubscriptionsOwned
      <4> QED
        BY <1>2, <4>1, <4>2, <4>3 DEF SubscriptionsOwned, kInvalid
    <3> QED
      BY <3>1, <3>3, <3>4
  <2> QED
    BY <1>5, <2>1, <2>2
<1> QED
  BY <1>6, <1>7, <1>8 DEF MetaInv

\* The application takes a record whoever made it; the tracker that did is noted.
LEMMA UserCancelKeeps ==
  ASSUME MetaInv, NEW k \in UserKeys, UserCancel(k)
  PROVE  MetaInv'
<1>1. PICK r \in subscriptions :
        /\ Register(Without(subscriptions, r.handle), {}, callbacks, {})
        /\ userSubs' = userSubs \ {r.handle}
        /\ revoked' = revoked \cup ({r.handle} \ userSubs)
  BY DEF UserCancel
<1>2. next_subscription_handle \in Nat /\ next_callback \in Nat /\ Cardinality({}) = 0
  BY FS_EmptySet DEF MetaInv, TypeOK
<1>3. /\ callbacks' = callbacks /\ next_callback' = next_callback
      /\ subscriptions' = {q \in subscriptions : q.handle # r.handle}
      /\ next_subscription_handle' = next_subscription_handle
      /\ calls' = calls + 1 /\ calls < MaxCalls
      /\ value' = value /\ running' = running /\ trackers' = trackers
      /\ settled' = settled /\ writes' = writes
  BY <1>1, <1>2 DEF UserCancel, Register, Call, Without
<1>4. /\ CallbackHandles' /\ CallbacksOwned' /\ UntrackedBare' /\ SettledFollows'
  BY <1>3, SameCallbacks, SameFollowing
<1>5. r.handle \in 1..next_subscription_handle
  BY DEF MetaInv, SubscriptionHandles
<1>6. TypeOK'
  <2>1. calls' \in 0..MaxCalls
    BY <1>3, MetaAssumption DEF MetaInv, TypeOK
  <2>2. /\ subscriptions' \subseteq [handle : Nat, key : Keys]
        /\ userSubs' \subseteq Nat /\ revoked' \subseteq Nat
    BY <1>1, <1>3, <1>5 DEF MetaInv, TypeOK
  <2> QED
    BY <1>3, <2>1, <2>2 DEF MetaInv, TypeOK
<1>7. SubscriptionHandles'
  BY <1>1, <1>3, <1>5 DEF MetaInv, SubscriptionHandles, kInvalid
<1>8. HeldOnce'
  BY <1>1, <1>3 DEF MetaInv, HeldOnce, HeldSubs, kInvalid
<1>9. SubscriptionsOwned'
  <2>1. \A q \in subscriptions' :
          \/ q.handle \in userSubs'
          \/ \E m \in Metas : \/ q.handle = trackers[m].metaSub /\ q.key = m
                              \/ q.handle = trackers[m].targetSub /\ q.key = trackers[m].target
    BY <1>1, <1>3 DEF MetaInv, SubscriptionsOwned
  <2>2. \A x \in userSubs' : \E q \in subscriptions' : q.handle = x
    BY <1>1, <1>3 DEF MetaInv, SubscriptionsOwned
  <2>3. ASSUME NEW m \in Metas, trackers[m].targetSub \notin revoked' \cup {kInvalid}
        PROVE  \E q \in subscriptions' :
                 q.handle = trackers[m].targetSub /\ q.key = trackers[m].target
    <3>1. PICK q \in subscriptions :
            q.handle = trackers[m].targetSub /\ q.key = trackers[m].target
      BY <1>1, <2>3 DEF MetaInv, SubscriptionsOwned
    <3>2. trackers[m].targetSub \in HeldSubs(trackers[m])
      BY <2>3 DEF HeldSubs
    <3>3. trackers[m].targetSub \notin userSubs
      BY <3>2 DEF MetaInv, HeldOnce
    <3>4. q.handle # r.handle
      BY <1>1, <2>3, <3>1, <3>3
    <3> QED
      BY <1>3, <3>1, <3>4
  <2> QED
    BY <1>3, <2>1, <2>2, <2>3 DEF SubscriptionsOwned, kInvalid
<1> QED
  BY <1>4, <1>6, <1>7, <1>8, <1>9 DEF MetaInv

-----------------------------------------------------------------------------
(* The theorems                                                            *)

LEMMA MetaInvInit == Init => MetaInv
<1> SUFFICES ASSUME Init PROVE MetaInv
  OBVIOUS
<1>1. NoTracker \in Tracker /\ NoTracker.tracked = FALSE
  BY DEF NoTracker, Tracker, kInvalid
<1>2. /\ NoTracker.metaCb = kInvalid /\ NoTracker.targetCb = kInvalid
      /\ NoTracker.metaSub = kInvalid /\ NoTracker.targetSub = kInvalid
  BY DEF NoTracker
<1>3. \A m \in Metas : trackers[m] = NoTracker
  BY DEF Init
<1>4. TypeOK
  <2>1. trackers \in [Metas -> Tracker] /\ running \in [Strands -> Seq([meta : Metas, val : Value])]
    BY <1>1 DEF Init
  <2> QED
    BY <2>1, MetaAssumption DEF Init, TypeOK, kInvalid
<1>5. UntrackedBare
  BY <1>3 DEF UntrackedBare
<1> HIDE DEF NoTracker
<1>6. CallbackHandles /\ CallbacksOwned
  BY <1>1, <1>2, <1>3 DEF Init, CallbackHandles, CallbacksOwned, kInvalid
<1>7. SubscriptionHandles /\ HeldOnce /\ SubscriptionsOwned
  BY <1>1, <1>2, <1>3 DEF Init, SubscriptionHandles, HeldOnce, HeldSubs, SubscriptionsOwned, kInvalid
<1>8. SettledFollows
  BY DEF Init, SettledFollows
<1> QED
  BY <1>4, <1>5, <1>6, <1>7, <1>8 DEF MetaInv

LEMMA MetaInvStep == MetaInv /\ [Next]_vars => MetaInv'
<1> SUFFICES ASSUME MetaInv, [Next]_vars PROVE MetaInv'
  OBVIOUS
<1>1. ASSUME NEW m \in Metas, NEW f \in Fns \cup {NoFn}, RegisterTracker(m, f) PROVE MetaInv'
  BY <1>1, RegisterTrackerKeeps
<1>2. ASSUME NEW m \in Metas, NEW f \in Fns \cup {NoFn}, ReplaceFunction(m, f) PROVE MetaInv'
  BY <1>2, ReplaceFunctionKeeps
<1>3. ASSUME NEW m \in Metas, CancelTracker(m) PROVE MetaInv'
  BY <1>3, CancelTrackerKeeps
<1>4. ASSUME NEW m \in Metas, RemoveMeta(m) PROVE MetaInv'
  BY <1>4, RemoveMetaKeeps
<1>5. ASSUME NEW s \in Strands, NEW m \in Metas, NEW v \in Value, WriteMeta(s, m, v) PROVE MetaInv'
  BY <1>5, WriteMetaKeeps
<1>6. ASSUME NEW s \in Strands, MetaPairChanged(s) PROVE MetaInv'
  BY <1>6, MetaPairChangedKeeps
<1>7. ASSUME NEW k \in UserKeys, UserSubscribe(k) PROVE MetaInv'
  BY <1>7, UserSubscribeKeeps
<1>8. ASSUME NEW k \in UserKeys, UserCancel(k) PROVE MetaInv'
  BY <1>8, UserCancelKeeps
<1>9. CASE UNCHANGED vars
  <2>1. UNCHANGED <<registry, application, value, running, settled, writes, calls, trackers>>
    BY <1>9 DEF vars, registry
  <2>2. TypeOK'
    BY <2>1 DEF MetaInv, TypeOK, registry, application
  <2> QED
    BY <2>1, <2>2, SameRegistry, SameFollowing DEF MetaInv
<1> QED
  BY <1>1, <1>2, <1>3, <1>4, <1>5, <1>6, <1>7, <1>8, <1>9 DEF Next

\* Callbacks and subscriptions are given up by who made them, neither too early
\* nor too late, whatever the order in which strands run the changes of
\* meta-pairs (registerMetaCallback, cancelMetaCallback, onMetaPairChanged, and
\* the application's own registerSubscription and cancelSubscription).
THEOREM TrackerSafety == Spec => [](TypeOK /\ RegistrationsOwned)
<1>1. MetaInv => TypeOK /\ RegistrationsOwned
  BY DEF MetaInv, RegistrationsOwned
<1> QED
  BY <1>1, MetaInvInit, MetaInvStep, PTL DEF Spec

\* Once the change is run, a tracker points where its meta-pair does, if the
\* meta-pair was not written while an earlier change of it was still to be run.
THEOREM FollowingSafety == Spec => []FollowsMetaPair
<1>1. MetaInv => FollowsMetaPair
  BY DEF MetaInv, SettledFollows, FollowsMetaPair
<1> QED
  BY <1>1, MetaInvInit, MetaInvStep, PTL DEF Spec
=============================================================================
