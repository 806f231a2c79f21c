------------------------- MODULE PublishPathProofs --------------------------
(***************************************************************************)
(* Theorems about PublishPath and the PairSpace in it, for any keys, peers *)
(* and threads and for any number of operations.                           *)
(***************************************************************************)
EXTENDS PublishPath, TLAPS

-----------------------------------------------------------------------------
(* The pair space                                                          *)

\* What the operations keep between them.  AbsentIsBare is what makes a new
\* entry's list the wildcard subscribers and nothing else.
PSInv == /\ PSTypeOK
         /\ NoDuplicateSubscriber
         /\ CallbackIndexAgrees
         /\ AbsentIsBare
         /\ WildcardCovers

\* A peer's place in the list of k is all that the subscriber properties read.
LEMMA ListFacts ==
  ASSUME PSInv, NEW k \in PairKeys
  PROVE  /\ ListOf(k) \in [Peers -> Nat]
         /\ \A p \in Peers : ListOf(k)[p] <= 1
         /\ \A p \in Peers : subscribers[k][p] <= ListOf(k)[p]
         /\ \A p \in Peers : u_subscribers[p] > 0 /\ <<p, k>> \notin narrowed
                               => ListOf(k)[p] > 0
         /\ Placed(k) \in Values \cup {Invalid} /\ Placed(k) # Absent
<1>1. /\ subscribers[k] \in [Peers -> Nat] /\ u_subscribers \in [Peers -> Nat]
      /\ pairs[k] \in Values \cup {Invalid, Absent}
  BY DEF PSInv, PSTypeOK
<1>2. CASE pairs[k] = Absent
  <2>1. ListOf(k) = u_subscribers /\ Placed(k) = Invalid
    BY <1>2 DEF ListOf, Placed
  <2>2. \A p \in Peers : subscribers[k][p] = 0
    BY <1>1, <1>2 DEF PSInv, AbsentIsBare, Subscribed
  <2> QED
    BY <1>1, <2>1, <2>2, ValuesAssumption DEF PSInv, NoDuplicateSubscriber
<1>3. CASE pairs[k] # Absent
  <2>1. ListOf(k) = subscribers[k] /\ Placed(k) = pairs[k]
    BY <1>3 DEF ListOf, Placed
  <2> QED
    BY <1>1, <1>3, <2>1 DEF PSInv, NoDuplicateSubscriber, WildcardCovers
<1> QED
  BY <1>2, <1>3

LEMMA WithPeerFacts ==
  ASSUME NEW list \in [Peers -> Nat], NEW p \in Peers
  PROVE  /\ WithPeer(list, p) \in [Peers -> Nat]
         /\ WithPeer(list, p)[p] > 0
         /\ list[p] <= 1 => WithPeer(list, p)[p] <= 1
         /\ \A q \in Peers : q # p => WithPeer(list, p)[q] = list[q]
         /\ \A q \in Peers : list[q] <= WithPeer(list, p)[q]
  BY DEF WithPeer

\* The subscriber properties as one fact about a key: every action below shows
\* this of the keys it touches.
ListOK(k) ==
  /\ \A p \in Peers : subscribers[k][p] <= 1
  /\ pairs[k] = Absent => \A p \in Peers : subscribers[k][p] = 0
  /\ pairs[k] # Absent =>
       \A p \in Peers : u_subscribers[p] > 0 /\ <<p, k>> \notin narrowed
                          => subscribers[k][p] > 0

LEMMA ListOKs ==
  ASSUME PSTypeOK
  PROVE  NoDuplicateSubscriber /\ AbsentIsBare /\ WildcardCovers
         <=> /\ \A p \in Peers : u_subscribers[p] <= 1
             /\ \A k \in PairKeys : ListOK(k)
             /\ \A k \in PairKeys : pairs[k] = Absent => callbacks[k] = {}
<1>1. \A k \in PairKeys, p \in Peers : subscribers[k][p] \in Nat
  BY DEF PSTypeOK
<1> QED
  BY <1>1 DEF NoDuplicateSubscriber, AbsentIsBare, WildcardCovers, ListOK, Subscribed

LEMMA PSTypeStep == PSInv /\ [PSNext]_psvars => PSTypeOK'
<1> SUFFICES ASSUME PSInv, [PSNext]_psvars PROVE PSTypeOK'
  OBVIOUS
<1> USE HandlesAssumption
<1>0. PSTypeOK
  BY DEF PSInv
<1>1. ASSUME NEW k \in PairKeys, NEW v \in Values, AddPair(k, v) PROVE PSTypeOK'
  BY <1>0, <1>1, ListFacts DEF AddPair, PSTypeOK
<1>2. ASSUME NEW k \in PairKeys, RemovePair(k) PROVE PSTypeOK'
  BY <1>0, <1>2 DEF RemovePair, PSTypeOK
<1>3. ASSUME NEW k \in PairKeys, AddCallback(k) PROVE PSTypeOK'
  <2>1. next_callback_handle + 1 \in 1..MaxHandles
    BY <1>0, <1>3 DEF AddCallback, PSTypeOK
  <2>2. /\ pairs' \in [PairKeys -> Values \cup {Invalid, Absent}]
        /\ subscribers' \in [PairKeys -> [Peers -> Nat]]
    BY <1>0, <1>3, ListFacts DEF AddCallback, PSTypeOK
  <2>3. /\ callbacks' \in [PairKeys -> SUBSET (1..MaxHandles)]
        /\ callback_owners' \subseteq (1..MaxHandles) \X PairKeys
    BY <1>0, <1>3, <2>1 DEF AddCallback, PSTypeOK
  <2> QED
    BY <1>0, <1>3, <2>1, <2>2, <2>3 DEF AddCallback, PSTypeOK
<1>4. ASSUME NEW k \in PairKeys, NEW p \in Peers, AddSubscription(k, p) PROVE PSTypeOK'
  <2>1. ListOf(k) \in [Peers -> Nat] /\ Placed(k) \in Values \cup {Invalid}
    BY ListFacts
  <2>2. WithPeer(ListOf(k), p) \in [Peers -> Nat]
    BY <2>1, WithPeerFacts
  <2> QED
    BY <1>0, <1>4, <2>1, <2>2 DEF AddSubscription, PSTypeOK
<1>5. ASSUME NEW k \in PairKeys, NEW p \in Peers, RemoveSubscription(k, p)
      PROVE  PSTypeOK'
  BY <1>0, <1>5 DEF RemoveSubscription, PSTypeOK
<1>6. CASE AddCallbackToAll
  <2>1. next_callback_handle + 1 \in 1..MaxHandles
    BY <1>0, <1>6 DEF AddCallbackToAll, PSTypeOK
  <2> QED
    BY <1>0, <1>6, <2>1 DEF AddCallbackToAll, PSTypeOK
<1>7. ASSUME NEW h \in 1..MaxHandles, RemoveCallback(h) PROVE PSTypeOK'
  BY <1>0, <1>7 DEF RemoveCallback, PSTypeOK
<1>8. ASSUME NEW p \in Peers, AddSubscriptionToAll(p) PROVE PSTypeOK'
  <2>1. \A k \in PairKeys : WithPeer(subscribers[k], p) \in [Peers -> Nat]
    BY <1>0, WithPeerFacts DEF PSTypeOK
  <2> QED
    BY <1>0, <1>8, <2>1 DEF AddSubscriptionToAll, PSTypeOK
<1>9. ASSUME NEW p \in Peers, RemoveSubscriptionToAll(p) PROVE PSTypeOK'
  BY <1>0, <1>9 DEF RemoveSubscriptionToAll, PSTypeOK
<1>10. CASE UNCHANGED psvars
  BY <1>0, <1>10 DEF psvars, PSTypeOK
<1> QED
  BY <1>1, <1>2, <1>3, <1>4, <1>5, <1>6, <1>7, <1>8, <1>9, <1>10 DEF PSNext

\* Each operation leaves the subscriber lists of all entries sound.
LEMMA ListStep ==
  PSInv /\ [PSNext]_psvars =>
    /\ \A p \in Peers : u_subscribers'[p] <= 1
    /\ \A k \in PairKeys : ListOK(k)'
<1> SUFFICES ASSUME PSInv, [PSNext]_psvars
             PROVE  /\ \A p \in Peers : u_subscribers'[p] <= 1
                    /\ \A k \in PairKeys : ListOK(k)'
  OBVIOUS
<1>0. /\ PSTypeOK
      /\ \A p \in Peers : u_subscribers[p] <= 1 /\ u_subscribers[p] \in Nat
      /\ \A k \in PairKeys : ListOK(k)
      /\ \A k \in PairKeys, p \in Peers : subscribers[k][p] \in Nat
  BY ListOKs DEF PSInv, PSTypeOK
<1> DEFINE Goal == /\ \A p \in Peers : u_subscribers'[p] <= 1
                   /\ \A k \in PairKeys : ListOK(k)'
\* Filling in an entry for k, and nothing else.
<1>1. ASSUME NEW k \in PairKeys, NEW v, v # Absent,
             pairs' = [pairs EXCEPT ![k] = v],
             subscribers' = [subscribers EXCEPT ![k] = ListOf(k)],
             UNCHANGED <<u_subscribers, narrowed>>
      PROVE  Goal
  <2>1. ASSUME NEW j \in PairKeys PROVE ListOK(j)'
    <3>1. CASE j = k
      BY <1>0, <1>1, <3>1, ListFacts DEF ListOK, PSTypeOK
    <3>2. CASE j # k
      BY <1>0, <1>1, <3>2 DEF ListOK, PSTypeOK
    <3> QED
      BY <3>1, <3>2
  <2> QED
    BY <1>0, <1>1, <2>1
<1>2. ASSUME NEW k \in PairKeys, NEW v \in Values, AddPair(k, v) PROVE Goal
  BY <1>1, <1>2, ValuesAssumption DEF AddPair
<1>3. ASSUME NEW k \in PairKeys, RemovePair(k) PROVE Goal
  <2>1. ASSUME NEW j \in PairKeys PROVE ListOK(j)'
    <3>1. CASE j = k
      <4>1. CASE Subscribed(k) = {} /\ callbacks[k] = {}
        <5>1. pairs'[k] = Absent /\ \A p \in Peers : subscribers'[k][p] = 0
          BY <1>0, <1>3, <4>1 DEF RemovePair, PSTypeOK, Subscribed
        <5> QED
          BY <3>1, <5>1 DEF ListOK
      <4>2. CASE ~(Subscribed(k) = {} /\ callbacks[k] = {})
        BY <1>0, <1>3, <3>1, <4>2, ValuesAssumption DEF RemovePair, PSTypeOK, ListOK
      <4> QED
        BY <4>1, <4>2
    <3>2. CASE j # k
      <4>1. /\ pairs'[j] = pairs[j] /\ subscribers'[j] = subscribers[j]
            /\ u_subscribers' = u_subscribers
            /\ \A p \in Peers : <<p, j>> \notin narrowed' => <<p, j>> \notin narrowed
        BY <1>0, <1>3, <3>2 DEF RemovePair, PSTypeOK
      <4> QED
        BY <1>0, <4>1 DEF ListOK
    <3> QED
      BY <3>1, <3>2
  <2> QED
    BY <1>0, <1>3, <2>1 DEF RemovePair
<1>4. ASSUME NEW k \in PairKeys, AddCallback(k) PROVE Goal
  <2>1. Placed(k) # Absent
    BY ListFacts
  <2> QED
    BY <1>1, <1>4, <2>1 DEF AddCallback
<1>5. ASSUME NEW k \in PairKeys, NEW p \in Peers, AddSubscription(k, p) PROVE Goal
  <2>1. /\ ListOf(k) \in [Peers -> Nat] /\ Placed(k) # Absent
        /\ \A q \in Peers : ListOf(k)[q] <= 1
        /\ \A q \in Peers : u_subscribers[q] > 0 /\ <<q, k>> \notin narrowed
                              => ListOf(k)[q] > 0
    BY ListFacts
  <2> DEFINE l == WithPeer(ListOf(k), p)
  <2>2. /\ l[p] > 0 /\ l[p] <= 1
        /\ \A q \in Peers : q # p => l[q] = ListOf(k)[q]
    BY <2>1, WithPeerFacts
  <2>3. /\ pairs'[k] # Absent /\ subscribers'[k] = l
        /\ UNCHANGED u_subscribers
        /\ \A q \in Peers, j \in PairKeys :
             <<q, j>> # <<p, k>> /\ <<q, j>> \notin narrowed' => <<q, j>> \notin narrowed
        /\ \A j \in PairKeys : j # k => /\ subscribers'[j] = subscribers[j]
                                        /\ pairs'[j] = pairs[j]
    BY <1>0, <1>5, <2>1 DEF AddSubscription, PSTypeOK
  <2> HIDE DEF l
  <2>4. ASSUME NEW j \in PairKeys PROVE ListOK(j)'
    <3>1. CASE j = k
      BY <2>1, <2>2, <2>3, <3>1 DEF ListOK
    <3>2. CASE j # k
      BY <1>0, <2>3, <3>2 DEF ListOK
    <3> QED
      BY <3>1, <3>2
  <2> QED
    BY <1>0, <2>3, <2>4
<1>6. ASSUME NEW k \in PairKeys, NEW p \in Peers, RemoveSubscription(k, p) PROVE Goal
  <2>1. /\ \A j \in PairKeys, q \in Peers :
             subscribers'[j][q] = IF j = k /\ q = p THEN 0 ELSE subscribers[j][q]
        /\ UNCHANGED <<pairs, u_subscribers>>
        /\ narrowed \subseteq narrowed'
        /\ u_subscribers[p] > 0 => <<p, k>> \in narrowed'
    BY <1>0, <1>6 DEF RemoveSubscription, PSTypeOK
  <2> QED
    BY <1>0, <2>1 DEF ListOK
<1>7. CASE AddCallbackToAll
  BY <1>0, <1>7 DEF AddCallbackToAll, ListOK
<1>8. ASSUME NEW h \in 1..MaxHandles, RemoveCallback(h) PROVE Goal
  BY <1>0, <1>8 DEF RemoveCallback, ListOK
<1>9. ASSUME NEW p \in Peers, AddSubscriptionToAll(p) PROVE Goal
  <2>1. \A k \in PairKeys : /\ subscribers[k] \in [Peers -> Nat]
                            /\ subscribers[k][p] <= 1
    BY <1>0 DEF PSTypeOK, ListOK
  <2>2. \A k \in PairKeys : pairs[k] # Absent =>
          /\ subscribers'[k][p] > 0 /\ subscribers'[k][p] <= 1
          /\ \A q \in Peers : q # p => subscribers'[k][q] = subscribers[k][q]
    BY <1>9, <2>1, WithPeerFacts DEF AddSubscriptionToAll
  <2>3. /\ UNCHANGED pairs
        /\ \A k \in PairKeys : pairs[k] = Absent => subscribers'[k] = subscribers[k]
        /\ \A q \in Peers : u_subscribers'[q] = IF q = p THEN 1 ELSE u_subscribers[q]
        /\ \A q \in Peers, k \in PairKeys :
             q # p /\ <<q, k>> \notin narrowed' => <<q, k>> \notin narrowed
    BY <1>0, <1>9 DEF AddSubscriptionToAll, PSTypeOK
  <2> QED
    BY <1>0, <2>2, <2>3 DEF ListOK
<1>10. ASSUME NEW p \in Peers, RemoveSubscriptionToAll(p) PROVE Goal
  <2>1. /\ UNCHANGED <<pairs, narrowed>>
        /\ \A k \in PairKeys, q \in Peers :
             subscribers'[k][q] = IF q = p THEN 0 ELSE subscribers[k][q]
        /\ \A q \in Peers : u_subscribers'[q] = IF q = p THEN 0 ELSE u_subscribers[q]
    BY <1>0, <1>10 DEF RemoveSubscriptionToAll, PSTypeOK
  <2> QED
    BY <1>0, <2>1 DEF ListOK
<1>11. CASE UNCHANGED psvars
  BY <1>0, <1>11 DEF psvars, ListOK
<1> QED
  BY <1>2, <1>3, <1>4, <1>5, <1>6, <1>7, <1>8, <1>9, <1>10, <1>11 DEF PSNext

\* Each operation leaves the callback index and the entries in agreement.
LEMMA CallbackStep ==
  PSInv /\ [PSNext]_psvars =>
    /\ CallbackIndexAgrees'
    /\ \A k \in PairKeys : pairs'[k] = Absent => callbacks'[k] = {}
<1> SUFFICES ASSUME PSInv, [PSNext]_psvars
             PROVE  /\ CallbackIndexAgrees'
                    /\ \A k \in PairKeys : pairs'[k] = Absent => callbacks'[k] = {}
  OBVIOUS
<1> USE HandlesAssumption
<1>0. /\ PSTypeOK /\ CallbackIndexAgrees
      /\ \A k \in PairKeys : pairs[k] = Absent => callbacks[k] = {}
  BY DEF PSInv, AbsentIsBare
<1> DEFINE Goal == /\ CallbackIndexAgrees'
                   /\ \A k \in PairKeys : pairs'[k] = Absent => callbacks'[k] = {}
\* Operations that leave the callbacks alone, and erase only bare entries.
<1>1. ASSUME UNCHANGED <<callbacks, callback_owners, universal_callbacks,
                         next_callback_handle>>,
             \A k \in PairKeys : pairs'[k] = Absent => pairs[k] = Absent \/ callbacks[k] = {}
      PROVE  Goal
  BY <1>0, <1>1 DEF CallbackIndexAgrees
<1>2. ASSUME NEW k \in PairKeys, NEW v \in Values, AddPair(k, v) PROVE Goal
  BY <1>0, <1>1, <1>2, ValuesAssumption DEF AddPair, PSTypeOK
<1>3. ASSUME NEW k \in PairKeys, RemovePair(k) PROVE Goal
  BY <1>0, <1>1, <1>3, ValuesAssumption DEF RemovePair, PSTypeOK
<1>4. ASSUME NEW k \in PairKeys, AddCallback(k) PROVE Goal
  <2> DEFINE h == next_callback_handle + 1
  <2>1. /\ h \in 1..MaxHandles /\ next_callback_handle \in Nat
        /\ next_callback_handle' = h
        /\ callback_owners' = callback_owners \cup {<<h, k>>}
        /\ UNCHANGED universal_callbacks
    BY <1>0, <1>4 DEF AddCallback, PSTypeOK
  <2>2. \A j \in PairKeys : callbacks'[j] = IF j = k THEN callbacks[k] \cup {h}
                                                    ELSE callbacks[j]
    BY <1>0, <1>4 DEF AddCallback, PSTypeOK
  <2>3. \A o \in callback_owners : o \in (1..MaxHandles) \X PairKeys
                                   /\ o[1] \in Nat /\ o[1] < h
    BY <1>0, <2>1 DEF CallbackIndexAgrees, PSTypeOK
  <2>4. \A u \in universal_callbacks : u \in Nat /\ u < h
    BY <1>0, <2>1 DEF CallbackIndexAgrees, PSTypeOK
  <2> HIDE DEF h
  <2>5. \A g \in 1..MaxHandles, j \in PairKeys :
          g \in callbacks'[j] <=> <<g, j>> \in callback_owners'
    <3> SUFFICES ASSUME NEW g \in 1..MaxHandles, NEW j \in PairKeys
                 PROVE  g \in callbacks'[j] <=> <<g, j>> \in callback_owners'
      OBVIOUS
    <3>1. g \in callbacks[j] <=> <<g, j>> \in callback_owners
      BY <1>0 DEF CallbackIndexAgrees
    <3>2. g \in callbacks'[j] <=> g \in callbacks[j] \/ (g = h /\ j = k)
      BY <2>2
    <3>3. <<g, j>> \in callback_owners' <=> <<g, j>> \in callback_owners \/ (g = h /\ j = k)
      BY <2>1
    <3> QED
      BY <3>1, <3>2, <3>3
  <2>6. \A o, q \in callback_owners' : o[1] = q[1] => o = q
    BY <1>0, <2>1, <2>3 DEF CallbackIndexAgrees
  <2>7. \A o \in callback_owners' : o[1] <= h /\ o[1] \notin universal_callbacks
    BY <1>0, <2>1, <2>3, <2>4 DEF CallbackIndexAgrees
  <2>8. CallbackIndexAgrees'
    BY <2>1, <2>4, <2>5, <2>6, <2>7 DEF CallbackIndexAgrees
  <2>9. Placed(k) # Absent
    BY ListFacts
  <2>10. \A j \in PairKeys : pairs'[j] = Absent => callbacks'[j] = {}
    BY <1>0, <1>4, <2>2, <2>9 DEF AddCallback, PSTypeOK
  <2> QED
    BY <2>8, <2>10
<1>5. ASSUME NEW k \in PairKeys, NEW p \in Peers, AddSubscription(k, p) PROVE Goal
  <2>1. Placed(k) # Absent
    BY ListFacts
  <2> QED
    BY <1>0, <1>1, <1>5, <2>1 DEF AddSubscription, PSTypeOK
<1>6. ASSUME NEW k \in PairKeys, NEW p \in Peers, RemoveSubscription(k, p) PROVE Goal
  BY <1>1, <1>6 DEF RemoveSubscription
<1>7. CASE AddCallbackToAll
  <2> DEFINE h == next_callback_handle + 1
  <2>1. /\ h \in 1..MaxHandles /\ next_callback_handle \in Nat
        /\ next_callback_handle' = h
        /\ universal_callbacks' = universal_callbacks \cup {h}
        /\ UNCHANGED <<pairs, callbacks, callback_owners>>
    BY <1>0, <1>7 DEF AddCallbackToAll, PSTypeOK
  <2>2. \A o \in callback_owners : o[1] \in Nat /\ o[1] < h
    BY <1>0, <2>1 DEF CallbackIndexAgrees, PSTypeOK
  <2>3. \A u \in universal_callbacks : u \in Nat /\ u < h
    BY <1>0, <2>1 DEF CallbackIndexAgrees, PSTypeOK
  <2> HIDE DEF h
  <2> QED
    BY <1>0, <2>1, <2>2, <2>3 DEF CallbackIndexAgrees
<1>8. ASSUME NEW h \in 1..MaxHandles, RemoveCallback(h) PROVE Goal
  <2>1. CASE \A k \in PairKeys : <<h, k>> \notin callback_owners
    <3>1. /\ UNCHANGED <<pairs, callbacks, callback_owners, next_callback_handle>>
          /\ universal_callbacks' \subseteq universal_callbacks
      BY <1>8, <2>1 DEF RemoveCallback
    <3> QED
      BY <1>0, <3>1 DEF CallbackIndexAgrees
  <2>2. ASSUME NEW k \in PairKeys, <<h, k>> \in callback_owners,
               callbacks' = [callbacks EXCEPT ![k] = @ \ {h}],
               callback_owners' = callback_owners \ {<<h, k>>},
               UNCHANGED universal_callbacks
        PROVE  Goal
    <3>1. UNCHANGED <<pairs, next_callback_handle>>
      BY <1>8 DEF RemoveCallback
    <3>2. \A j \in PairKeys : callbacks'[j] = IF j = k THEN callbacks[k] \ {h}
                                                      ELSE callbacks[j]
      BY <1>0, <2>2 DEF PSTypeOK
    <3>4. \A g \in 1..MaxHandles, j \in PairKeys :
            g \in callbacks'[j] <=> <<g, j>> \in callback_owners'
      <4> SUFFICES ASSUME NEW g \in 1..MaxHandles, NEW j \in PairKeys
                   PROVE  g \in callbacks'[j] <=> <<g, j>> \in callback_owners'
        OBVIOUS
      <4>1. g \in callbacks[j] <=> <<g, j>> \in callback_owners
        BY <1>0 DEF CallbackIndexAgrees
      <4>2. g \in callbacks'[j] <=> g \in callbacks[j] /\ ~(g = h /\ j = k)
        BY <3>2
      <4>3. <<g, j>> \in callback_owners' <=> <<g, j>> \in callback_owners /\ ~(g = h /\ j = k)
        BY <2>2
      <4> QED
        BY <4>1, <4>2, <4>3
    <3> QED
      BY <1>0, <2>2, <3>1, <3>2, <3>4 DEF CallbackIndexAgrees
  <2> QED
    BY <1>8, <2>1, <2>2 DEF RemoveCallback
<1>9. ASSUME NEW p \in Peers, AddSubscriptionToAll(p) PROVE Goal
  BY <1>1, <1>9 DEF AddSubscriptionToAll
<1>10. ASSUME NEW p \in Peers, RemoveSubscriptionToAll(p) PROVE Goal
  BY <1>1, <1>10 DEF RemoveSubscriptionToAll
<1>11. CASE UNCHANGED psvars
  BY <1>1, <1>11 DEF psvars
<1> QED
  BY <1>2, <1>3, <1>4, <1>5, <1>6, <1>7, <1>8, <1>9, <1>10, <1>11 DEF PSNext

LEMMA ListOKsNext ==
  ASSUME PSTypeOK', \A p \in Peers : u_subscribers'[p] <= 1,
         \A k \in PairKeys : ListOK(k)',
         \A k \in PairKeys : pairs'[k] = Absent => callbacks'[k] = {}
  PROVE  NoDuplicateSubscriber' /\ AbsentIsBare' /\ WildcardCovers'
<1>1. \A k \in PairKeys, p \in Peers : subscribers'[k][p] \in Nat
  BY DEF PSTypeOK
<1> QED
  BY <1>1 DEF NoDuplicateSubscriber, AbsentIsBare, WildcardCovers, ListOK, Subscribed

LEMMA PSInvStep == PSInv /\ [PSNext]_psvars => PSInv'
  BY PSTypeStep, ListStep, CallbackStep, ListOKsNext DEF PSInv

LEMMA PSInvInit == PSInit => PSInv
<1> SUFFICES ASSUME PSInit PROVE PSInv
  OBVIOUS
<1>1. PSTypeOK
  BY HandlesAssumption DEF PSInit, PSTypeOK, NoOne
<1>2. NoDuplicateSubscriber /\ AbsentIsBare /\ WildcardCovers
  BY DEF PSInit, NoOne, NoDuplicateSubscriber, AbsentIsBare, WildcardCovers, Subscribed
<1>3. CallbackIndexAgrees
  BY DEF PSInit, CallbackIndexAgrees
<1> QED
  BY <1>1, <1>2, <1>3 DEF PSInv

\* The pair space keeps its lists, its placeholders and its callback index
\* sound, in any order of its operations.
THEOREM PairSpaceSafety ==
  PSSpec => [](PSTypeOK /\ IndexesAgree)
<1> QED
  BY PSInvInit, PSInvStep, PTL DEF PSSpec, PSInv, IndexesAgree

LEMMA RegistrationStep ==
  ASSUME PSInv, [PSNext]_psvars, pairs' # pairs, NEW k \in PairKeys
  PROVE  /\ callbacks[k] \subseteq callbacks'[k]
         /\ \A p \in Peers : subscribers[k][p] <= subscribers'[k][p]
<1> DEFINE Goal == /\ callbacks[k] \subseteq callbacks'[k]
                   /\ \A p \in Peers : subscribers[k][p] <= subscribers'[k][p]
<1>0. /\ PSTypeOK
      /\ \A j \in PairKeys : ListOf(j) \in [Peers -> Nat]
      /\ \A j \in PairKeys, p \in Peers : subscribers[j][p] \in Nat
      /\ \A j \in PairKeys, p \in Peers : subscribers[j][p] <= ListOf(j)[p]
  BY ListFacts DEF PSInv, PSTypeOK
<1>1. ASSUME NEW j \in PairKeys, NEW v \in Values, AddPair(j, v) PROVE Goal
  BY <1>0, <1>1 DEF AddPair, PSTypeOK
<1>2. ASSUME NEW j \in PairKeys, RemovePair(j) PROVE Goal
  BY <1>0, <1>2 DEF RemovePair
<1>3. ASSUME NEW j \in PairKeys, AddCallback(j) PROVE Goal
  BY <1>0, <1>3 DEF AddCallback, PSTypeOK
<1>4. ASSUME NEW j \in PairKeys, NEW q \in Peers, AddSubscription(j, q) PROVE Goal
  <2>1. \A p \in Peers : ListOf(j)[p] <= WithPeer(ListOf(j), q)[p]
                         /\ WithPeer(ListOf(j), q)[p] \in Nat
    BY <1>0, WithPeerFacts
  <2>2. subscribers'[k] = IF k = j THEN WithPeer(ListOf(j), q) ELSE subscribers[k]
    BY <1>0, <1>4 DEF AddSubscription, PSTypeOK
  <2>3. callbacks' = callbacks
    BY <1>4 DEF AddSubscription
  <2> QED
    BY <1>0, <2>1, <2>2, <2>3
<1> QED
  BY <1>1, <1>2, <1>3, <1>4
     DEF PSNext, psvars, RemoveSubscription, AddCallbackToAll, RemoveCallback,
         AddSubscriptionToAll, RemoveSubscriptionToAll

\* Publishing or deleting a value never loses a subscriber or a callback.
THEOREM RegistrationSafety == PSSpec => RegistrationsSurvive
<1>1. PSInv /\ [PSNext]_psvars =>
        [pairs' # pairs =>
           \A k \in PairKeys : /\ callbacks[k] \subseteq callbacks'[k]
                               /\ \A p \in Peers : subscribers[k][p] <= subscribers'[k][p]]_psvars
  BY RegistrationStep
<1> QED
  BY <1>1, PSInvInit, PSInvStep, PTL DEF PSSpec, RegistrationsSurvive

-----------------------------------------------------------------------------
(* What a peer will hold once it has read a queue                          *)

\* The last frame about k in q, or else the copy held, is c.
LastWord(q, held, k, c) ==
  \/ \E i \in 1..Len(q) :
       /\ q[i] = [key |-> k, val |-> c]
       /\ \A j \in i+1..Len(q) : q[j].key # k
  \/ (\A i \in 1..Len(q) : q[i].key # k) /\ held = c

LEMMA AppendSame ==
  ASSUME NEW q \in Seq(Message), NEW k \in PairKeys, NEW held,
         NEW c \in Values \cup {Invalid}
  PROVE  LastWord(Append(q, [key |-> k, val |-> c]), held, k, c)
<1> DEFINE m == [key |-> k, val |-> c]
           r == Append(q, m)
<1>1. m \in Message
  BY DEF Message
<1> HIDE DEF m
<1>2. Len(r) \in Nat /\ Len(r) = Len(q) + 1 /\ r[Len(r)] = m
  BY <1>1
<1> HIDE DEF r
<1>3. \A j \in Len(r) + 1..Len(r) : FALSE
  BY <1>2
<1>4. Len(r) \in 1..Len(r)
  BY <1>2
<1>5. \E i \in 1..Len(r) : r[i] = m /\ \A j \in i+1..Len(r) : r[j].key # k
  BY <1>2, <1>3, <1>4
<1> QED
  BY <1>5 DEF LastWord, r, m

LEMMA AppendOther ==
  ASSUME NEW q \in Seq(Message), NEW m \in Message, NEW k \in PairKeys, NEW held, NEW c,
         m.key # k
  PROVE  LastWord(Append(q, m), held, k, c) <=> LastWord(q, held, k, c)
<1> DEFINE r == Append(q, m)
<1>1. /\ Len(q) \in Nat /\ Len(r) = Len(q) + 1 /\ r[Len(q) + 1] = m
      /\ \A i \in 1..Len(q) : r[i] = q[i]
  OBVIOUS
<1> HIDE DEF r
<1>2. ASSUME LastWord(q, held, k, c) PROVE LastWord(r, held, k, c)
  BY <1>1, <1>2 DEF LastWord
<1>3. ASSUME LastWord(r, held, k, c) PROVE LastWord(q, held, k, c)
  <2>1. CASE \E i \in 1..Len(r) : /\ r[i] = [key |-> k, val |-> c]
                                  /\ \A j \in i+1..Len(r) : r[j].key # k
    <3>1. PICK i \in 1..Len(r) : /\ r[i] = [key |-> k, val |-> c]
                                 /\ \A j \in i+1..Len(r) : r[j].key # k
      BY <2>1
    <3>2. r[i].key = k
      BY <3>1
    <3>3. i \in 1..Len(q)
      BY <1>1, <3>2
    <3> QED
      BY <1>1, <3>1, <3>3 DEF LastWord
  <2>2. CASE (\A i \in 1..Len(r) : r[i].key # k) /\ held = c
    BY <1>1, <2>2 DEF LastWord
  <2> QED
    BY <1>3, <2>1, <2>2 DEF LastWord
<1> QED
  BY <1>2, <1>3 DEF r

LEMMA ReadOne ==
  ASSUME NEW q \in Seq(Message), q # <<>>, NEW k \in PairKeys, NEW held, NEW c,
         LastWord(q, held, k, c)
  PROVE  LastWord(Tail(q), IF Head(q).key = k THEN Head(q).val ELSE held, k, c)
<1> DEFINE r == Tail(q)
<1>1. /\ Len(q) \in Nat /\ Len(q) > 0 /\ Len(r) = Len(q) - 1 /\ Head(q) = q[1]
      /\ \A i \in 1..Len(r) : r[i] = q[i + 1]
  OBVIOUS
<1> HIDE DEF r
<1>2. CASE (\A i \in 1..Len(q) : q[i].key # k) /\ held = c
  BY <1>1, <1>2 DEF LastWord, r
<1>3. ASSUME NEW i \in 1..Len(q), q[i] = [key |-> k, val |-> c],
             \A j \in i+1..Len(q) : q[j].key # k
      PROVE  LastWord(r, IF Head(q).key = k THEN Head(q).val ELSE held, k, c)
  <2>1. CASE i = 1
    <3>1. Head(q).key = k /\ Head(q).val = c
      BY <1>1, <1>3, <2>1
    <3>2. \A j \in 1..Len(r) : r[j].key # k
      BY <1>1, <1>3, <2>1
    <3> QED
      BY <3>1, <3>2 DEF LastWord
  <2>2. CASE i # 1
    <3>1. i - 1 \in 1..Len(r) /\ r[i - 1] = q[i]
      BY <1>1, <2>2
    <3>2. \A j \in (i - 1)+1..Len(r) : r[j].key # k
      BY <1>1, <1>3, <2>2
    <3> QED
      BY <1>3, <3>1, <3>2 DEF LastWord
  <2> QED
    BY <2>1, <2>2
<1> QED
  BY <1>2, <1>3 DEF LastWord, r

-----------------------------------------------------------------------------
(* Types                                                                   *)

\* A step of the path is a step of the pair space, or leaves it alone.
LEMMA PathStepsPairSpace ==
  ASSUME ops \in 0..MaxOps, [Next]_vars
  PROVE  [PSNext]_psvars
<1>1. ops < MaxOps => Now \in Values
  BY OpsAssumption DEF Now
<1> USE KeysAssumption
<1>2. ASSUME NEW t \in Publishers, NEW k \in OwnKeys, SetPair(t, k) PROVE PSNext
  BY <1>1, <1>2 DEF SetPair, Tick, PSNext
<1>3. ASSUME NEW k \in OwnKeys, RemoveOwnPair(k) PROVE PSNext
  BY <1>3 DEF RemoveOwnPair, PSNext
<1>4. ASSUME Local PROVE [PSNext]_psvars
  BY <1>2, <1>3, <1>4
     DEF Local, NotifyLocal, RegisterCallback, RegisterCallbackToAll, CancelCallback,
         RunCallbacks, PSNext, psvars
<1>5. ASSUME NEW p \in Peers, NEW k \in OwnKeys,
             HandleIncomingPair(p, k) \/ HandleSubscribe(p, k)
               \/ HandleUnsubscribe(p, k) \/ HandleRemovePair(p, k)
      PROVE  PSNext
  BY <1>1, <1>5 DEF HandleIncomingPair, HandleSubscribe, HandleUnsubscribe,
                    HandleRemovePair, Reading, Tick, PSNext
<1>6. ASSUME NEW p \in Peers, NEW k \in ForeignKeys,
             HandlePairUpdate(p, k) \/ HandlePairRemoved(p, k)
      PROVE  PSNext
  BY <1>1, <1>6 DEF HandlePairUpdate, HandlePairRemoved, Reading, Tick, PSNext, ForeignKeys
<1>7. ASSUME NEW p \in Peers,
             HandleSubscribeToAll(p) \/ HandleUnsubscribeFromAll(p)
               \/ SendNext(p) \/ Deliver(p)
      PROVE  [PSNext]_psvars
  BY <1>7 DEF HandleSubscribeToAll, HandleUnsubscribeFromAll, SendNext, Deliver, PSNext
<1>8. ASSUME NEW p \in Peers, Session(p) \/ Deliver(p) PROVE [PSNext]_psvars
  BY <1>5, <1>6, <1>7, <1>8 DEF Session
<1>9. ASSUME UNCHANGED vars PROVE UNCHANGED psvars
  BY <1>9 DEF vars
<1> QED
  BY <1>4, <1>8, <1>9 DEF Next

\* The path's own variables.
PathTypeOK ==
  /\ todo \in [Peers -> SUBSET Send]
  /\ chan \in [Peers -> Seq(Message)]
  /\ copy \in [Peers -> [PairKeys -> Values \cup {Invalid}]]
  /\ note \in [Publishers -> Note \cup {Silent}]
  /\ strand \in Seq(Note)
  /\ ran \in Seq(Note)
  /\ ops \in 0..MaxOps
  /\ raced \in [PairKeys -> BOOLEAN]
  /\ lapsed \subseteq Peers \X PairKeys

LEMMA TypeParts == TypeOK <=> PSTypeOK /\ PathTypeOK
  BY DEF TypeOK, PathTypeOK

LEMMA QueueAllType ==
  ASSUME PathTypeOK, NEW k \in PairKeys, NEW v \in Values \cup {Invalid}, QueueAll(k, v)
  PROVE  chan' \in [Peers -> Seq(Message)]
<1>1. [key |-> k, val |-> v] \in Message
  BY DEF Message
<1>2. \A p \in Peers : Append(chan[p], [key |-> k, val |-> v]) \in Seq(Message)
  BY <1>1 DEF PathTypeOK
<1> QED
  BY <1>2 DEF QueueAll, PathTypeOK

LEMMA CollectType ==
  ASSUME PathTypeOK, NEW p \in Peers, NEW k \in PairKeys, NEW v \in Values \cup {Invalid},
         Collect(p, k, v)
  PROVE  todo' \in [Peers -> SUBSET Send]
<1>1. \A q \in Peers : [to |-> q, key |-> k, val |-> v] \in Send
  BY DEF Send
<1>2. {[to |-> q, key |-> k, val |-> v] : q \in Audience(k)} \subseteq Send
  BY <1>1 DEF Audience
<1> QED
  BY <1>2 DEF Collect, PathTypeOK

LEMMA WroteType ==
  ASSUME PathTypeOK, NEW k \in PairKeys, Wrote(k)
  PROVE  raced' \in [PairKeys -> BOOLEAN] /\ lapsed' \subseteq Peers \X PairKeys
<1>1. Unsent(k) \in BOOLEAN
  BY DEF Unsent
<1> QED
  BY <1>1 DEF Wrote, PathTypeOK

LEMMA PathTypeStep ==
  ASSUME PSInv, PathTypeOK, [Next]_vars
  PROVE  PathTypeOK'
<1> USE KeysAssumption
<1>1. ops < MaxOps => Now \in Values \cup {Invalid} /\ Now \in 1..MaxOps /\ Now \in Nat
  BY OpsAssumption DEF Now, PathTypeOK
<1>2. ASSUME NEW t \in Publishers, NEW k \in OwnKeys, SetPair(t, k) PROVE PathTypeOK'
  <2>1. ops < MaxOps /\ ops' = Now
    BY <1>2 DEF SetPair, Tick
  <2>2. chan' \in [Peers -> Seq(Message)]
    BY <1>1, <1>2, <2>1, QueueAllType DEF SetPair
  <2>3. universal_callbacks \cup callbacks[k] \subseteq 1..MaxHandles
    BY DEF PSInv, PSTypeOK
  <2>4. [by |-> t, val |-> Now, callbacks |-> universal_callbacks \cup callbacks[k]] \in Note
    BY <1>1, <2>1, <2>3 DEF Note
  <2>5. note' \in [Publishers -> Note \cup {Silent}]
    BY <1>2, <2>4 DEF SetPair, PathTypeOK
  <2>6. raced' \in [PairKeys -> BOOLEAN] /\ lapsed' \subseteq Peers \X PairKeys
    BY <1>2, WroteType DEF SetPair
  <2> QED
    BY <1>1, <1>2, <2>1, <2>2, <2>5, <2>6 DEF SetPair, PathTypeOK
<1>3. ASSUME NEW t \in Publishers, NotifyLocal(t) PROVE PathTypeOK'
  <2>1. note[t] \in Note
    BY <1>3 DEF NotifyLocal, PathTypeOK
  <2>2. strand' \in Seq(Note)
    BY <1>3, <2>1 DEF NotifyLocal, PathTypeOK
  <2>3. note' \in [Publishers -> Note \cup {Silent}]
    BY <1>3 DEF NotifyLocal, PathTypeOK
  <2> QED
    BY <1>3, <2>2, <2>3 DEF NotifyLocal, PathTypeOK
<1>4. ASSUME RunCallbacks PROVE PathTypeOK'
  <2>1. strand \in Seq(Note) /\ ran \in Seq(Note) /\ strand # <<>>
    BY <1>4 DEF RunCallbacks, PathTypeOK
  <2>2. Head(strand) \in Note /\ Tail(strand) \in Seq(Note)
    BY <2>1
  <2>3. ran' \in Seq(Note) /\ strand' \in Seq(Note)
    BY <1>4, <2>1, <2>2 DEF RunCallbacks
  <2> QED
    BY <1>4, <2>3 DEF RunCallbacks, PathTypeOK
<1>5. ASSUME NEW k \in OwnKeys, RemoveOwnPair(k) PROVE PathTypeOK'
  <2>1. ops < MaxOps /\ ops' = Now
    BY <1>5 DEF RemoveOwnPair, Tick
  <2>2. chan' \in [Peers -> Seq(Message)]
    BY <1>5, QueueAllType DEF RemoveOwnPair
  <2>3. raced' \in [PairKeys -> BOOLEAN] /\ lapsed' \subseteq Peers \X PairKeys
    BY <1>5, WroteType DEF RemoveOwnPair
  <2> QED
    BY <1>1, <1>5, <2>1, <2>2, <2>3 DEF RemoveOwnPair, PathTypeOK
<1>6. ASSUME NEW p \in Peers, NEW k \in PairKeys,
             HandleIncomingPair(p, k) \/ HandlePairUpdate(p, k)
      PROVE  PathTypeOK'
  <2>1. ops < MaxOps /\ ops' = Now
    BY <1>6 DEF HandleIncomingPair, HandlePairUpdate, Reading, Tick
  <2>2. todo' \in [Peers -> SUBSET Send]
    BY <1>1, <1>6, <2>1, CollectType DEF HandleIncomingPair, HandlePairUpdate
  <2>3. raced' \in [PairKeys -> BOOLEAN] /\ lapsed' \subseteq Peers \X PairKeys
    BY <1>6, WroteType DEF HandleIncomingPair, HandlePairUpdate
  <2> QED
    BY <1>1, <1>6, <2>1, <2>2, <2>3 DEF HandleIncomingPair, HandlePairUpdate, PathTypeOK
<1>7. ASSUME NEW p \in Peers, NEW k \in OwnKeys, HandleRemovePair(p, k) PROVE PathTypeOK'
  <2>1. ops < MaxOps /\ ops' = Now
    BY <1>7 DEF HandleRemovePair, Reading, Tick
  <2>2. todo' \in [Peers -> SUBSET Send]
    BY <1>7, CollectType DEF HandleRemovePair
  <2>3. raced' \in [PairKeys -> BOOLEAN] /\ lapsed' \subseteq Peers \X PairKeys
    BY <1>7, WroteType DEF HandleRemovePair
  <2> QED
    BY <1>1, <1>7, <2>1, <2>2, <2>3 DEF HandleRemovePair, PathTypeOK
<1>8. ASSUME NEW p \in Peers, NEW told \in SUBSET PairKeys,
             \A j \in told : pairs[j] \in Values
      PROVE  [todo EXCEPT ![p] = {[to |-> p, key |-> j, val |-> pairs[j]] : j \in told}]
               \in [Peers -> SUBSET Send]
  <2>1. {[to |-> p, key |-> j, val |-> pairs[j]] : j \in told} \subseteq Send
    BY <1>8 DEF Send
  <2> QED
    BY <2>1 DEF PathTypeOK
<1>9. ASSUME NEW p \in Peers, NEW k \in OwnKeys, HandleSubscribe(p, k) PROVE PathTypeOK'
  <2> DEFINE told == IF pairs[k] \in Values THEN {k} ELSE {}
  <2>1. told \in SUBSET PairKeys /\ \A j \in told : pairs[j] \in Values
    OBVIOUS
  <2>2. todo' = [todo EXCEPT ![p] = {[to |-> p, key |-> j, val |-> pairs[j]] : j \in told}]
    BY <1>9 DEF HandleSubscribe
  <2> HIDE DEF told
  <2>3. todo' \in [Peers -> SUBSET Send]
    BY <1>8, <2>1, <2>2
  <2>4. ops' = Now /\ ops < MaxOps /\ lapsed' \subseteq lapsed
    BY <1>9 DEF HandleSubscribe, Refreshed, Reading, Tick
  <2> QED
    BY <1>1, <1>9, <2>3, <2>4 DEF HandleSubscribe, PathTypeOK
<1>10. ASSUME NEW p \in Peers, HandleSubscribeToAll(p) PROVE PathTypeOK'
  <2> DEFINE told == {j \in OwnKeys : pairs[j] \in Values}
  <2>1. told \in SUBSET PairKeys /\ \A j \in told : pairs[j] \in Values
    OBVIOUS
  <2>2. todo' = [todo EXCEPT ![p] = {[to |-> p, key |-> j, val |-> pairs[j]] : j \in told}]
    BY <1>10 DEF HandleSubscribeToAll
  <2> HIDE DEF told
  <2>3. todo' \in [Peers -> SUBSET Send]
    BY <1>8, <2>1, <2>2
  <2>4. ops' = Now /\ ops < MaxOps /\ lapsed' \subseteq lapsed
    BY <1>10 DEF HandleSubscribeToAll, Refreshed, Reading, Tick
  <2> QED
    BY <1>1, <1>10, <2>3, <2>4 DEF HandleSubscribeToAll, PathTypeOK
<1>11. ASSUME NEW p \in Peers, NEW k \in OwnKeys, HandleUnsubscribe(p, k) PROVE PathTypeOK'
  BY <1>1, <1>11 DEF HandleUnsubscribe, Reading, Tick, PathTypeOK
<1>12. ASSUME NEW p \in Peers, HandleUnsubscribeFromAll(p) PROVE PathTypeOK'
  BY <1>1, <1>12 DEF HandleUnsubscribeFromAll, Reading, Tick, PathTypeOK
<1>13. ASSUME NEW p \in Peers, NEW k \in PairKeys, HandlePairRemoved(p, k) PROVE PathTypeOK'
  BY <1>1, <1>13 DEF HandlePairRemoved, Reading, Tick, PathTypeOK
<1>14. ASSUME NEW p \in Peers, SendNext(p) PROVE PathTypeOK'
  <2>1. PICK m \in todo[p] :
          /\ chan' = [chan EXCEPT ![m.to] = Append(@, [key |-> m.key, val |-> m.val])]
          /\ todo' = [todo EXCEPT ![p] = @ \ {m}]
    BY <1>14 DEF SendNext
  <2>2. m \in Send /\ todo \in [Peers -> SUBSET Send]
    BY DEF PathTypeOK
  <2>3. m.to \in Peers /\ [key |-> m.key, val |-> m.val] \in Message
    BY <2>2 DEF Send, Message
  <2>4. Append(chan[m.to], [key |-> m.key, val |-> m.val]) \in Seq(Message)
    BY <2>3 DEF PathTypeOK
  <2>5. chan' \in [Peers -> Seq(Message)]
    BY <2>1, <2>3, <2>4 DEF PathTypeOK
  <2>6. todo' \in [Peers -> SUBSET Send]
    BY <2>1, <2>2
  <2> QED
    BY <1>14, <2>5, <2>6 DEF SendNext, PathTypeOK
<1>15. ASSUME NEW p \in Peers, Deliver(p) PROVE PathTypeOK'
  <2>1. chan[p] \in Seq(Message) /\ chan[p] # <<>>
    BY <1>15 DEF Deliver, PathTypeOK
  <2>2. Head(chan[p]) \in Message /\ Tail(chan[p]) \in Seq(Message)
    BY <2>1
  <2>3. Head(chan[p]).key \in PairKeys /\ Head(chan[p]).val \in Values \cup {Invalid}
    BY <2>2 DEF Message
  <2>4. chan' \in [Peers -> Seq(Message)]
    BY <1>15, <2>2 DEF Deliver, PathTypeOK
  <2>5. copy' \in [Peers -> [PairKeys -> Values \cup {Invalid}]]
    BY <1>15, <2>3 DEF Deliver, PathTypeOK
  <2> QED
    BY <1>15, <2>4, <2>5 DEF Deliver, PathTypeOK
<1>16. ASSUME NEW h, NEW k, RegisterCallback(k) \/ RegisterCallbackToAll \/ CancelCallback(h)
       PROVE  PathTypeOK'
  BY <1>16 DEF RegisterCallback, RegisterCallbackToAll, CancelCallback, pathvars, PathTypeOK
<1>17. ASSUME UNCHANGED vars PROVE PathTypeOK'
  BY <1>17 DEF vars, pathvars, PathTypeOK
<1>18. ASSUME Local PROVE PathTypeOK'
  BY <1>2, <1>3, <1>4, <1>5, <1>16, <1>18 DEF Local
<1>19. ASSUME NEW p \in Peers, Session(p) PROVE PathTypeOK'
  BY <1>6, <1>7, <1>9, <1>10, <1>11, <1>12, <1>13, <1>14, <1>19 DEF Session, ForeignKeys
<1> QED
  BY <1>15, <1>17, <1>18, <1>19 DEF Next

-----------------------------------------------------------------------------
(* Who holds what                                                          *)

\* A wildcard subscriber missing from an entry's list has cancelled that key.
CancelledIsLapsed ==
  \A p \in Peers, k \in OwnKeys :
    u_subscribers[p] > 0 /\ pairs[k] # Absent /\ p \notin Subscribed(k)
      => <<p, k>> \in lapsed

\* What the properties say of one peer and one of our pairs.
PairOK(p, k) ==
  /\ p \in Subscribed(k) /\ AllSent(p, k) /\ ~raced[k] /\ <<p, k>> \notin lapsed
       => LastWord(chan[p], copy[p][k], k, Current(k))
  /\ ~raced[k] => \A m \in todo[p] : m.key = k => m.val = Current(k)
  /\ p \notin Subscribed(k) /\ <<p, k>> \notin lapsed
       => AllSent(p, k) /\ LastWord(chan[p], copy[p][k], k, Invalid)
  /\ u_subscribers[p] > 0 /\ pairs[k] # Absent /\ p \notin Subscribed(k)
       => <<p, k>> \in lapsed

LEMMA PairOKs ==
  (CurrentUnlessRaced /\ NothingStaleUnsent /\ NothingUnasked /\ CancelledIsLapsed)
    <=> \A p \in Peers, k \in OwnKeys : PairOK(p, k)
<1>1. \A p \in Peers, k \in OwnKeys : \A c : Settled(p, k, c) <=> LastWord(chan[p], copy[p][k], k, c)
  BY DEF Settled, LastWord
<1> QED
  BY <1>1 DEF CurrentUnlessRaced, NothingStaleUnsent, NothingUnasked, CancelledIsLapsed, PairOK

\* A step that changes nothing about p and k keeps what holds of them, also if
\* a session collects the current value.
LEMMA Nearly ==
  ASSUME NEW p \in Peers, NEW k \in OwnKeys, PairOK(p, k),
         subscribers'[k][p] = subscribers[k][p], pairs'[k] = pairs[k],
         u_subscribers'[p] = u_subscribers[p], raced'[k] = raced[k],
         <<p, k>> \in lapsed' <=> <<p, k>> \in lapsed,
         AllSent(p, k)' <=> AllSent(p, k),
         \A m \in todo'[p] : m.key = k => m \in todo[p] \/ m.val = Current(k),
         \A c : LastWord(chan[p], copy[p][k], k, c) => LastWord(chan'[p], copy'[p][k], k, c)
  PROVE  PairOK(p, k)'
<1>1. (p \in Subscribed(k))' <=> p \in Subscribed(k)
  BY DEF Subscribed
<1>2. Current(k)' = Current(k)
  BY DEF Current
<1> QED
  BY <1>1, <1>2 DEF PairOK

LEMMA Unaffected ==
  ASSUME NEW p \in Peers, NEW k \in OwnKeys, PairOK(p, k),
         subscribers'[k][p] = subscribers[k][p], pairs'[k] = pairs[k],
         u_subscribers'[p] = u_subscribers[p], raced'[k] = raced[k],
         <<p, k>> \in lapsed' <=> <<p, k>> \in lapsed,
         \A q \in Peers : \A m : m.key = k => (m \in todo'[q] <=> m \in todo[q]),
         \A c : LastWord(chan[p], copy[p][k], k, c) => LastWord(chan'[p], copy'[p][k], k, c)
  PROVE  PairOK(p, k)'
<1>1. AllSent(p, k)' <=> AllSent(p, k)
  BY DEF AllSent
<1> QED
  BY <1>1, Nearly

\* The pair space's part of a write: w is published, or the pair is deleted.
Writes(j, w) == (w \in Values /\ AddPair(j, w)) \/ (w = Invalid /\ RemovePair(j))

LEMMA WriteFacts ==
  ASSUME PSInv, NEW j \in PairKeys, NEW w \in Values \cup {Invalid}, Writes(j, w)
  PROVE  /\ \A p \in Peers : (p \in Subscribed(j))' <=> p \in Audience(j)
         /\ Current(j)' = w
         /\ \A p \in Peers : p \notin Audience(j) => p \notin Subscribed(j)
         /\ \A p \in Peers : u_subscribers[p] > 0 /\ p \notin Audience(j) => pairs[j] # Absent
         /\ \A k \in PairKeys : k # j => pairs'[k] = pairs[k] /\ subscribers'[k] = subscribers[k]
         /\ u_subscribers' = u_subscribers
<1>1. /\ ListOf(j) \in [Peers -> Nat]
      /\ \A p \in Peers : subscribers[j][p] <= ListOf(j)[p] /\ subscribers[j][p] \in Nat
      /\ pairs \in [PairKeys -> Values \cup {Invalid, Absent}]
      /\ subscribers \in [PairKeys -> [Peers -> Nat]]
  BY ListFacts DEF PSInv, PSTypeOK
<1>2. \A p \in Peers : p \in Audience(j) <=> ListOf(j)[p] > 0
  BY DEF Audience
<1>3. /\ \A p \in Peers : p \notin Audience(j) => p \notin Subscribed(j)
      /\ \A p \in Peers : u_subscribers[p] > 0 /\ p \notin Audience(j) => pairs[j] # Absent
  BY <1>1, <1>2 DEF Subscribed, ListOf
<1>4. CASE w \in Values /\ AddPair(j, w)
  <2>1. pairs'[j] = w /\ subscribers'[j] = ListOf(j)
    BY <1>1, <1>4 DEF AddPair
  <2> QED
    BY <1>1, <1>2, <1>3, <1>4, <2>1 DEF AddPair, Subscribed, Current
<1>5. CASE w = Invalid /\ RemovePair(j)
  <2>1. pairs'[j] \in {Absent, Invalid} /\ subscribers' = subscribers /\ ListOf(j) = subscribers[j]
    BY <1>1, <1>5 DEF RemovePair, ListOf
  <2> QED
    BY <1>1, <1>2, <1>3, <1>5, <2>1, ValuesAssumption DEF RemovePair, Subscribed, Current
<1> QED
  BY <1>4, <1>5 DEF Writes

\* raced and lapsed after a write, without the Boolean function.
LEMMA WroteFacts ==
  ASSUME PathTypeOK, NEW j \in PairKeys, Wrote(j)
  PROVE  /\ raced'[j] <=> Unsent(j)
         /\ \A k \in PairKeys : k # j => raced'[k] = raced[k]
         /\ \A p \in Peers, k \in PairKeys :
              <<p, k>> \in lapsed' <=> <<p, k>> \in lapsed /\ ~(k = j /\ p \in Audience(j))
<1>1. raced \in [PairKeys -> BOOLEAN] /\ raced' = [raced EXCEPT ![j] = Unsent(j)]
  BY DEF PathTypeOK, Wrote
<1>2. raced'[j] = Unsent(j) /\ \A k \in PairKeys : k # j => raced'[k] = raced[k]
  BY <1>1
<1>3. lapsed' = lapsed \ (Audience(j) \X {j})
  BY DEF Wrote
<1> QED
  BY <1>2, <1>3

\* A write whose frames are queued in the critical section.
LEMMA QueuedWrite ==
  ASSUME PSInv, PathTypeOK, NEW j \in OwnKeys, NEW w \in Values \cup {Invalid},
         Writes(j, w), QueueAll(j, w), Wrote(j), todo' = todo, copy' = copy,
         NEW p \in Peers, NEW k \in OwnKeys, PairOK(p, k)
  PROVE  PairOK(p, k)'
<1> USE KeysAssumption
<1>1. chan[p] \in Seq(Message) /\ todo \in [Peers -> SUBSET Send]
  BY DEF PathTypeOK
<1>2. [key |-> j, val |-> w] \in Message /\ [key |-> j, val |-> w].key = j
  BY DEF Message
<1>3. chan'[p] = IF p \in Audience(j) THEN Append(chan[p], [key |-> j, val |-> w]) ELSE chan[p]
  BY DEF QueueAll
<1>4. CASE k # j
  <2>1. \A c : LastWord(chan[p], copy[p][k], k, c) => LastWord(chan'[p], copy'[p][k], k, c)
    BY <1>1, <1>2, <1>3, <1>4, AppendOther
  <2>2. subscribers'[k][p] = subscribers[k][p] /\ pairs'[k] = pairs[k]
        /\ u_subscribers'[p] = u_subscribers[p]
    BY <1>4, WriteFacts
  <2>3. raced'[k] = raced[k] /\ (<<p, k>> \in lapsed' <=> <<p, k>> \in lapsed)
    BY <1>4, WroteFacts
  <2> QED
    BY <2>1, <2>2, <2>3, Unaffected
<1>5. CASE k = j
  <2>1. /\ (p \in Subscribed(k))' <=> p \in Audience(k)
        /\ Current(k)' = w
        /\ p \notin Audience(k) => p \notin Subscribed(k)
        /\ u_subscribers[p] > 0 /\ p \notin Audience(k) => pairs[k] # Absent
        /\ u_subscribers' = u_subscribers
    BY <1>5, WriteFacts
  <2>2. /\ raced'[k] <=> Unsent(k)
        /\ <<p, k>> \in lapsed' <=> <<p, k>> \in lapsed /\ p \notin Audience(k)
    BY <1>5, WroteFacts
  <2>3. AllSent(p, k)' <=> AllSent(p, k)
    BY DEF AllSent
  <2>4. p \in Audience(k) => LastWord(chan'[p], copy'[p][k], k, w)
    BY <1>1, <1>3, <1>5, AppendSame
  <2>5. p \notin Audience(k) => chan'[p] = chan[p]
    BY <1>3, <1>5
  <2>6. ~raced'[k] => \A m \in todo'[p] : m.key # k
    BY <2>2 DEF Unsent
  <2> QED
    BY <2>1, <2>2, <2>3, <2>4, <2>5, <2>6 DEF PairOK
<1> QED
  BY <1>4, <1>5

\* A write whose frames a session collects, to send them later.
LEMMA CollectedWrite ==
  ASSUME PSInv, PathTypeOK, NEW j \in PairKeys, NEW w \in Values \cup {Invalid},
         NEW q \in Peers, todo[q] = {},
         Writes(j, w), Collect(q, j, w), Wrote(j), chan' = chan, copy' = copy,
         NEW p \in Peers, NEW k \in OwnKeys, PairOK(p, k)
  PROVE  PairOK(p, k)'
<1> USE KeysAssumption
<1>1. todo \in [Peers -> SUBSET Send]
  BY DEF PathTypeOK
<1>2. /\ todo'[q] = {[to |-> r, key |-> j, val |-> w] : r \in Audience(j)}
      /\ \A r \in Peers : r # q => todo'[r] = todo[r]
  BY <1>1 DEF Collect
<1>3. \A m \in todo'[q] : m.key = j /\ m.val = w /\ m.to \in Audience(j)
  BY <1>2
<1>4. CASE k # j
  <2>1. \A r \in Peers : \A m : m.key = k => (m \in todo'[r] <=> m \in todo[r])
    BY <1>2, <1>3, <1>4
  <2>2. subscribers'[k][p] = subscribers[k][p] /\ pairs'[k] = pairs[k]
        /\ u_subscribers'[p] = u_subscribers[p]
    BY <1>4, WriteFacts
  <2>3. raced'[k] = raced[k] /\ (<<p, k>> \in lapsed' <=> <<p, k>> \in lapsed)
    BY <1>4, WroteFacts
  <2> QED
    BY <2>1, <2>2, <2>3, Unaffected
<1>5. CASE k = j
  <2>1. /\ (p \in Subscribed(k))' <=> p \in Audience(k)
        /\ Current(k)' = w
        /\ p \notin Audience(k) => p \notin Subscribed(k)
        /\ u_subscribers[p] > 0 /\ p \notin Audience(k) => pairs[k] # Absent
        /\ u_subscribers' = u_subscribers
    BY <1>5, WriteFacts
  <2>2. /\ raced'[k] <=> Unsent(k)
        /\ <<p, k>> \in lapsed' <=> <<p, k>> \in lapsed /\ p \notin Audience(k)
    BY <1>5, WroteFacts
  <2>3. p \in Audience(k) => ~AllSent(p, k)'
    <3>1. SUFFICES ASSUME p \in Audience(k) PROVE \E m \in todo'[q] : m.to = p /\ m.key = k
      BY DEF AllSent
    <3>2. [to |-> p, key |-> j, val |-> w] \in todo'[q]
      BY <1>2, <1>5, <3>1
    <3> QED
      BY <1>5, <3>2
  <2>4. p \notin Audience(k) /\ AllSent(p, k) => AllSent(p, k)'
    BY <1>2, <1>3, <1>5 DEF AllSent
  <2>5. ~raced'[k] => \A m \in todo'[p] : m.key = k => m.val = w
    BY <1>2, <1>3, <2>2 DEF Unsent
  <2> QED
    BY <2>1, <2>2, <2>3, <2>4, <2>5 DEF PairOK
<1> QED
  BY <1>4, <1>5

\* An entry is made for k: it gets the wildcard subscribers, who know nothing
\* of the pair yet, as there is nothing to know.
LEMMA EntryMade ==
  ASSUME PSInv, NEW p \in Peers, NEW k \in OwnKeys, PairOK(p, k),
         pairs'[k] = Placed(k), subscribers'[k][p] = ListOf(k)[p],
         u_subscribers'[p] = u_subscribers[p], raced'[k] = raced[k],
         <<p, k>> \in lapsed' <=> <<p, k>> \in lapsed,
         AllSent(p, k)' <=> AllSent(p, k), todo'[p] = todo[p],
         chan' = chan, copy' = copy
  PROVE  PairOK(p, k)'
<1> USE KeysAssumption
<1>1. CASE pairs[k] # Absent
  BY <1>1, Nearly DEF Placed, ListOf
<1>2. CASE pairs[k] = Absent
  <2>1. Current(k) = Invalid /\ Current(k)' = Invalid
    BY <1>2, ValuesAssumption DEF Current, Placed
  <2>2. p \notin Subscribed(k)
    BY <1>2 DEF PSInv, AbsentIsBare
  <2>3. (p \in Subscribed(k))' <=> u_subscribers[p] > 0
    BY <1>2 DEF Subscribed, ListOf
  <2> QED
    BY <2>1, <2>2, <2>3 DEF PairOK
<1> QED
  BY <1>1, <1>2

LEMMA RegisterCallbackStep ==
  ASSUME PSInv, PathTypeOK, NEW j \in PairKeys, RegisterCallback(j),
         NEW p \in Peers, NEW k \in OwnKeys, PairOK(p, k)
  PROVE  PairOK(p, k)'
<1> USE KeysAssumption
<1>1. /\ pairs \in [PairKeys -> Values \cup {Invalid, Absent}]
      /\ subscribers \in [PairKeys -> [Peers -> Nat]]
  BY DEF PSInv, PSTypeOK
<1>2. UNCHANGED pathvars /\ u_subscribers' = u_subscribers
  BY DEF RegisterCallback, AddCallback
<1>3. AllSent(p, k)' <=> AllSent(p, k)
  BY <1>2 DEF AllSent, pathvars
<1>4. CASE k = j
  <2>1. pairs'[k] = Placed(k) /\ subscribers'[k] = ListOf(k)
    BY <1>1, <1>4 DEF RegisterCallback, AddCallback
  <2> QED
    BY <1>2, <1>3, <2>1, EntryMade DEF pathvars
<1>5. CASE k # j
  <2>1. pairs'[k] = pairs[k] /\ subscribers'[k] = subscribers[k]
    BY <1>1, <1>5 DEF RegisterCallback, AddCallback
  <2> QED
    BY <1>2, <1>3, <2>1, Nearly DEF pathvars
<1> QED
  BY <1>4, <1>5

LEMMA SubscribeStep ==
  ASSUME PSInv, PathTypeOK, NEW q \in Peers, NEW j \in OwnKeys, HandleSubscribe(q, j),
         NEW p \in Peers, NEW k \in OwnKeys, PairOK(p, k)
  PROVE  PairOK(p, k)'
<1> USE KeysAssumption
<1> DEFINE told == IF pairs[j] \in Values THEN {j} ELSE {}
<1>1. /\ pairs \in [PairKeys -> Values \cup {Invalid, Absent}]
      /\ subscribers \in [PairKeys -> [Peers -> Nat]]
      /\ todo \in [Peers -> SUBSET Send]
      /\ ListOf(j) \in [Peers -> Nat]
      /\ subscribers[j][p] <= ListOf(j)[p]
      /\ lapsed \subseteq Peers \X PairKeys
  BY ListFacts DEF PSInv, PSTypeOK, PathTypeOK
<1>2. /\ pairs'[j] = Placed(j)
      /\ subscribers'[j] = WithPeer(ListOf(j), q)
      /\ \A i \in PairKeys : i # j => pairs'[i] = pairs[i] /\ subscribers'[i] = subscribers[i]
      /\ u_subscribers' = u_subscribers
  BY <1>1 DEF HandleSubscribe, AddSubscription
<1>3. /\ todo[q] = {} /\ UNCHANGED <<chan, copy, raced>>
      /\ todo' = [todo EXCEPT ![q] = {[to |-> q, key |-> i, val |-> pairs[i]] : i \in told}]
      /\ lapsed' = lapsed \ ({q} \X {i \in told : subscribers'[i][q] > 0})
  BY DEF HandleSubscribe, Reading, Refreshed
<1>4. /\ \A r \in Peers : r # q => todo'[r] = todo[r]
      /\ todo'[q] = {[to |-> q, key |-> i, val |-> pairs[i]] : i \in told}
  BY <1>1, <1>3
<1>5. \A m \in todo'[q] : m.to = q /\ m.key = j /\ m.val = pairs[j] /\ pairs[j] \in Values
  BY <1>4
<1>6. CASE k # j
  <2>1. \A r \in Peers : \A m : m.key = k => (m \in todo'[r] <=> m \in todo[r])
    BY <1>3, <1>4, <1>5, <1>6
  <2>2. <<p, k>> \in lapsed' <=> <<p, k>> \in lapsed
    BY <1>3, <1>6
  <2> QED
    BY <1>2, <1>3, <1>6, <2>1, <2>2, Unaffected
<1>7. CASE k = j /\ p # q
  <2>1. AllSent(p, k)' <=> AllSent(p, k)
    BY <1>3, <1>4, <1>5, <1>7 DEF AllSent
  <2>2. <<p, k>> \in lapsed' <=> <<p, k>> \in lapsed
    BY <1>3, <1>7
  <2>3. subscribers'[k][p] = ListOf(k)[p]
    BY <1>1, <1>2, <1>7, WithPeerFacts
  <2> QED
    BY <1>2, <1>3, <1>4, <1>7, <2>1, <2>2, <2>3, EntryMade
<1>8. CASE k = j /\ p = q
  <2>1. subscribers'[k][p] > 0 /\ (p \in Subscribed(k))'
    BY <1>1, <1>2, <1>8, WithPeerFacts DEF Subscribed
  <2>2. CASE pairs[j] \in Values
    <3>1. Current(k)' = pairs[j]
      BY <1>2, <1>8, <2>2, ValuesAssumption DEF Current, Placed
    <3>2. [to |-> q, key |-> j, val |-> pairs[j]] \in todo'[q]
      BY <1>4, <2>2
    <3>3. ~AllSent(p, k)'
      BY <1>8, <3>2 DEF AllSent
    <3> QED
      BY <1>5, <1>8, <2>1, <3>1, <3>3 DEF PairOK
  <2>3. CASE pairs[j] \notin Values
    <3>1. todo'[q] = {} /\ lapsed' = lapsed
      BY <1>3, <1>4, <2>3
    <3>2. AllSent(p, k)' <=> AllSent(p, k)
      BY <1>3, <1>4, <3>1 DEF AllSent
    <3>3. Current(k) = Invalid /\ Current(k)' = Invalid
      BY <1>2, <1>8, <2>3, ValuesAssumption DEF Current, Placed
    <3> QED
      BY <1>3, <1>8, <2>1, <3>1, <3>2, <3>3 DEF PairOK
  <2> QED
    BY <2>2, <2>3
<1> QED
  BY <1>6, <1>7, <1>8

LEMMA SubscribeToAllStep ==
  ASSUME PSInv, PathTypeOK, NEW q \in Peers, HandleSubscribeToAll(q),
         NEW p \in Peers, NEW k \in OwnKeys, PairOK(p, k)
  PROVE  PairOK(p, k)'
<1> USE KeysAssumption
<1> DEFINE told == {i \in OwnKeys : pairs[i] \in Values}
<1>1. /\ pairs \in [PairKeys -> Values \cup {Invalid, Absent}]
      /\ subscribers \in [PairKeys -> [Peers -> Nat]]
      /\ u_subscribers \in [Peers -> Nat]
      /\ todo \in [Peers -> SUBSET Send]
      /\ lapsed \subseteq Peers \X PairKeys
  BY DEF PSInv, PSTypeOK, PathTypeOK
<1>2. /\ todo[q] = {} /\ UNCHANGED <<chan, copy, raced>>
      /\ todo' = [todo EXCEPT ![q] = {[to |-> q, key |-> i, val |-> pairs[i]] : i \in told}]
      /\ lapsed' = lapsed \ ({q} \X {i \in told : subscribers'[i][q] > 0})
  BY DEF HandleSubscribeToAll, Reading, Refreshed
<1>3. /\ \A r \in Peers : r # q => todo'[r] = todo[r]
      /\ todo'[q] = {[to |-> q, key |-> i, val |-> pairs[i]] : i \in told}
  BY <1>1, <1>2
<1>4. \A m \in todo'[q] : m.to = q /\ m.key \in told /\ m.val = pairs[m.key]
  BY <1>3
<1>5. /\ pairs' = pairs
      /\ p # q => subscribers'[k][p] = subscribers[k][p] /\ u_subscribers'[p] = u_subscribers[p]
      /\ subscribers[k][q] > 0 => subscribers'[k][q] > 0
      /\ pairs[k] # Absent /\ ~(subscribers'[k][q] > 0)
           => u_subscribers[q] > 0 /\ ~(subscribers[k][q] > 0)
  <2>1. CASE u_subscribers[q] > 0 /\ UNCHANGED psvars
    BY <1>1, <2>1 DEF psvars
  <2>2. CASE AddSubscriptionToAll(q)
    <3>1. /\ WithPeer(subscribers[k], q)[q] > 0
          /\ p # q => WithPeer(subscribers[k], q)[p] = subscribers[k][p]
      BY <1>1, WithPeerFacts
    <3>2. /\ subscribers'[k] = IF pairs[k] = Absent THEN subscribers[k]
                                                   ELSE WithPeer(subscribers[k], q)
          /\ pairs' = pairs /\ u_subscribers' = [u_subscribers EXCEPT ![q] = @ + 1]
      BY <2>2 DEF AddSubscriptionToAll
    <3> QED
      BY <1>1, <3>1, <3>2
  <2> QED
    BY <2>1, <2>2 DEF HandleSubscribeToAll
<1>6. Current(k)' = Current(k)
  BY <1>5 DEF Current
<1> HIDE DEF told
<1>7. CASE p # q
  <2>1. AllSent(p, k)' <=> AllSent(p, k)
    BY <1>2, <1>3, <1>4, <1>7 DEF AllSent
  <2>2. <<p, k>> \in lapsed' <=> <<p, k>> \in lapsed
    BY <1>2, <1>7
  <2> QED
    BY <1>2, <1>3, <1>5, <1>7, <2>1, <2>2, Nearly
<1>8. CASE p = q /\ k \in told
  <2>1. pairs[k] \in Values /\ pairs[k] # Absent /\ Current(k) = pairs[k]
    BY <1>8, ValuesAssumption DEF told, Current
  <2>2. [to |-> q, key |-> k, val |-> pairs[k]] \in todo'[q]
    BY <1>3, <1>8
  <2>3. ~AllSent(p, k)'
    BY <1>8, <2>2 DEF AllSent
  <2>4. \A m \in todo'[p] : m.key = k => m.val = Current(k)
    BY <1>4, <1>8, <2>1
  <2>5. (p \notin Subscribed(k))' => <<p, k>> \in lapsed'
    <3> SUFFICES ASSUME ~(subscribers'[k][q] > 0) PROVE <<p, k>> \in lapsed'
      BY <1>8 DEF Subscribed
    <3>1. <<p, k>> \in lapsed
      BY <1>5, <1>8, <2>1 DEF PairOK, Subscribed
    <3> QED
      BY <1>2, <3>1
  <2> QED
    BY <1>6, <2>3, <2>4, <2>5 DEF PairOK
<1>9. CASE p = q /\ k \notin told
  <2>1. Current(k) = Invalid
    BY <1>9 DEF Current, told
  <2>2. <<p, k>> \in lapsed' <=> <<p, k>> \in lapsed
    BY <1>2, <1>9
  <2>3. \A m \in todo'[q] : m.key # k
    BY <1>4, <1>9
  <2>4. AllSent(p, k)' <=> AllSent(p, k)
    BY <1>2, <1>3, <2>3 DEF AllSent
  <2>5. /\ (p \notin Subscribed(k))' => p \notin Subscribed(k)
        /\ pairs[k] # Absent /\ (p \notin Subscribed(k))'
             => u_subscribers[p] > 0 /\ p \notin Subscribed(k)
    BY <1>5, <1>9 DEF Subscribed
  <2> QED
    BY <1>2, <1>5, <1>6, <1>9, <2>1, <2>2, <2>3, <2>4, <2>5 DEF PairOK
<1> QED
  BY <1>7, <1>8, <1>9

LEMMA UnsubscribeStep ==
  ASSUME PSInv, PathTypeOK, NEW q \in Peers,
         HandleUnsubscribeFromAll(q) \/ \E j \in OwnKeys : HandleUnsubscribe(q, j),
         NEW p \in Peers, NEW k \in OwnKeys, PairOK(p, k)
  PROVE  PairOK(p, k)'
<1> USE KeysAssumption
<1>1. /\ subscribers \in [PairKeys -> [Peers -> Nat]]
      /\ u_subscribers \in [Peers -> Nat]
  BY DEF PSInv, PSTypeOK
<1>2. UNCHANGED <<pairs, todo, chan, copy, raced>>
  BY DEF HandleUnsubscribeFromAll, HandleUnsubscribe, RemoveSubscription,
         RemoveSubscriptionToAll
<1>3. AllSent(p, k)' <=> AllSent(p, k)
  BY <1>2 DEF AllSent
<1> DEFINE
      Same == /\ subscribers'[k][p] = subscribers[k][p]
              /\ u_subscribers'[p] = u_subscribers[p]
              /\ <<p, k>> \in lapsed' <=> <<p, k>> \in lapsed
      Gone == /\ subscribers'[k][p] = 0
              /\ u_subscribers'[p] = u_subscribers[p] \/ u_subscribers'[p] = 0
              /\ <<p, k>> \in lapsed' <=> <<p, k>> \in lapsed \/ p \in Subscribed(k)
<1>4. Same \/ Gone
  <2>1. CASE HandleUnsubscribeFromAll(q)
    <3>1. /\ subscribers'[k] = [subscribers[k] EXCEPT ![q] = 0]
          /\ u_subscribers' = [u_subscribers EXCEPT ![q] = 0]
          /\ lapsed' = lapsed \cup {<<q, i>> : i \in {j \in PairKeys : q \in Subscribed(j)}}
      BY <2>1 DEF HandleUnsubscribeFromAll, RemoveSubscriptionToAll
    <3>2. <<p, k>> \in lapsed' <=> <<p, k>> \in lapsed \/ (p = q /\ q \in Subscribed(k))
      BY <3>1
    <3> QED
      BY <1>1, <3>1, <3>2
  <2>2. ASSUME NEW j \in OwnKeys, HandleUnsubscribe(q, j)
        PROVE  Same \/ Gone
    <3>1. /\ subscribers' = [subscribers EXCEPT ![j][q] = 0]
          /\ u_subscribers' = u_subscribers
          /\ lapsed' = IF q \in Subscribed(j) THEN lapsed \cup {<<q, j>>} ELSE lapsed
      BY <2>2 DEF HandleUnsubscribe, RemoveSubscription
    <3>2. CASE p = q /\ k = j
      BY <1>1, <3>1, <3>2
    <3>3. CASE ~(p = q /\ k = j)
      <4>1. subscribers'[k][p] = subscribers[k][p]
        BY <1>1, <3>1, <3>3
      <4> QED
        BY <3>1, <3>3, <4>1
    <3> QED
      BY <3>2, <3>3
  <2> QED
    BY <2>1, <2>2
<1>5. CASE Same
  BY <1>2, <1>3, <1>5, Nearly
<1>6. CASE Gone
  <2>1. (p \notin Subscribed(k))'
    BY <1>6 DEF Subscribed
  <2>2. Current(k)' = Current(k)
    BY <1>2 DEF Current
  <2> QED
    BY <1>2, <1>3, <1>6, <2>1, <2>2 DEF PairOK
<1> QED
  BY <1>4, <1>5, <1>6

LEMMA SendStep ==
  ASSUME PSInv, PathTypeOK, NEW q \in Peers, SendNext(q),
         NEW p \in Peers, NEW k \in OwnKeys, PairOK(p, k), PairOK(q, k)
  PROVE  PairOK(p, k)'
<1> USE KeysAssumption
<1>1. PICK m \in todo[q] :
        /\ chan' = [chan EXCEPT ![m.to] = Append(@, [key |-> m.key, val |-> m.val])]
        /\ todo' = [todo EXCEPT ![q] = @ \ {m}]
  BY DEF SendNext
<1>2. /\ m \in Send /\ todo \in [Peers -> SUBSET Send] /\ chan \in [Peers -> Seq(Message)]
      /\ UNCHANGED psvars /\ UNCHANGED <<copy, raced, lapsed>>
  BY DEF PathTypeOK, SendNext
<1>3. /\ m.to \in Peers /\ m.key \in PairKeys /\ m.val \in Values \cup {Invalid}
      /\ [key |-> m.key, val |-> m.val] \in Message
      /\ [key |-> m.key, val |-> m.val].key = m.key
  BY <1>2 DEF Send, Message
<1>4. /\ todo'[q] = todo[q] \ {m}
      /\ \A r \in Peers : r # q => todo'[r] = todo[r]
      /\ chan'[p] = IF p = m.to THEN Append(chan[p], [key |-> m.key, val |-> m.val]) ELSE chan[p]
      /\ chan[p] \in Seq(Message)
  BY <1>1, <1>2, <1>3
<1>5. todo'[p] \subseteq todo[p]
  BY <1>4
<1>6. CASE m.to = p /\ m.key = k
  <2>1. ~AllSent(p, k)
    BY <1>6 DEF AllSent
  <2>2. ~raced[k] => m.val = Current(k)
    BY <1>6 DEF PairOK
  <2>3. LastWord(chan'[p], copy'[p][k], k, m.val)
    BY <1>3, <1>4, <1>6, AppendSame
  <2>4. Current(k)' = Current(k) /\ ((p \in Subscribed(k))' <=> p \in Subscribed(k))
    BY <1>2 DEF Current, Subscribed, psvars
  <2> QED
    BY <1>2, <1>5, <2>1, <2>2, <2>3, <2>4 DEF PairOK, psvars
<1>7. CASE ~(m.to = p /\ m.key = k)
  <2>1. AllSent(p, k)' <=> AllSent(p, k)
    BY <1>4, <1>7 DEF AllSent
  <2>2. ASSUME NEW c, LastWord(chan[p], copy[p][k], k, c)
        PROVE  LastWord(chan'[p], copy'[p][k], k, c)
    <3>1. CASE p = m.to
      BY <1>2, <1>3, <1>4, <1>7, <2>2, <3>1, AppendOther
    <3>2. CASE p # m.to
      BY <1>2, <1>4, <2>2, <3>2
    <3> QED
      BY <3>1, <3>2
  <2> QED
    BY <1>2, <1>5, <2>1, <2>2, Nearly DEF psvars
<1> QED
  BY <1>6, <1>7

LEMMA DeliverStep ==
  ASSUME PSInv, PathTypeOK, NEW q \in Peers, Deliver(q),
         NEW p \in Peers, NEW k \in OwnKeys, PairOK(p, k)
  PROVE  PairOK(p, k)'
<1> USE KeysAssumption
<1>1. /\ UNCHANGED psvars /\ UNCHANGED <<todo, raced, lapsed>>
      /\ chan[q] \in Seq(Message) /\ chan[q] # <<>>
      /\ chan' = [chan EXCEPT ![q] = Tail(chan[q])]
      /\ copy' = [copy EXCEPT ![q][Head(chan[q]).key] = Head(chan[q]).val]
      /\ copy \in [Peers -> [PairKeys -> Values \cup {Invalid}]]
      /\ chan \in [Peers -> Seq(Message)]
  BY DEF Deliver, PathTypeOK
<1>2. AllSent(p, k)' <=> AllSent(p, k)
  BY <1>1 DEF AllSent
<1>3. ASSUME NEW c, LastWord(chan[p], copy[p][k], k, c)
      PROVE  LastWord(chan'[p], copy'[p][k], k, c)
  <2>1. CASE p # q
    BY <1>1, <1>3, <2>1
  <2>2. CASE p = q
    <3>1. chan'[p] = Tail(chan[p])
      BY <1>1, <2>2
    <3>2. copy'[p][k] = IF Head(chan[p]).key = k THEN Head(chan[p]).val ELSE copy[p][k]
      BY <1>1, <2>2
    <3>3. LastWord(Tail(chan[p]),
                   IF Head(chan[p]).key = k THEN Head(chan[p]).val ELSE copy[p][k], k, c)
      BY <1>1, <1>3, <2>2, ReadOne
    <3> QED
      BY <3>1, <3>2, <3>3
  <2> QED
    BY <2>1, <2>2
<1> QED
  BY <1>1, <1>2, <1>3, Nearly DEF psvars

\* The properties, with the pair space's and the types they rest on.
PathInv == PSInv /\ PathTypeOK /\ \A p \in Peers, k \in OwnKeys : PairOK(p, k)

LEMMA PathInvInit == Init => PathInv
<1> SUFFICES ASSUME Init PROVE PathInv
  OBVIOUS
<1>1. PSInv
  BY PSInvInit DEF Init
<1>2. PathTypeOK
  BY OpsAssumption DEF Init, PathTypeOK
<1>3. ASSUME NEW p \in Peers, NEW k \in OwnKeys PROVE PairOK(p, k)
  <2>1. chan[p] = <<>> /\ copy[p][k] = Invalid
    BY KeysAssumption DEF Init
  <2>2. LastWord(chan[p], copy[p][k], k, Invalid)
    BY <2>1 DEF LastWord
  <2>3. todo[p] = {} /\ pairs[k] = Absent /\ AllSent(p, k)
    BY KeysAssumption DEF Init, PSInit, AllSent
  <2>4. p \notin Subscribed(k)
    BY KeysAssumption DEF Init, PSInit, Subscribed, NoOne
  <2> QED
    BY <2>2, <2>3, <2>4 DEF PairOK
<1> QED
  BY <1>1, <1>2, <1>3 DEF PathInv

LEMMA PathInvStep == PathInv /\ [Next]_vars => PathInv'
<1> SUFFICES ASSUME PathInv, [Next]_vars PROVE PathInv'
  OBVIOUS
<1> USE KeysAssumption
<1>1. PSInv /\ PathTypeOK /\ ops \in 0..MaxOps
  BY DEF PathInv, PathTypeOK
<1>2. PSInv'
  BY <1>1, PathStepsPairSpace, PSInvStep
<1>3. PathTypeOK'
  BY <1>1, PathTypeStep
<1>4. ASSUME NEW p \in Peers, NEW k \in OwnKeys PROVE PairOK(p, k)'
  <2>1. PairOK(p, k) /\ \A q \in Peers : PairOK(q, k)
    BY DEF PathInv
  <2>2. ops < MaxOps => Now \in Values
    BY <1>1, OpsAssumption DEF Now
  <2>3. ASSUME UNCHANGED <<psvars, todo, chan, copy, raced, lapsed>> PROVE PairOK(p, k)'
    BY <2>1, <2>3 DEF PairOK, psvars, AllSent, Subscribed, Current
  <2>4. ASSUME NEW t \in Publishers, NEW j \in OwnKeys, SetPair(t, j) PROVE PairOK(p, k)'
    BY <1>1, <2>1, <2>2, <2>4, QueuedWrite DEF SetPair, Tick, Writes
  <2>5. ASSUME NEW j \in OwnKeys, RemoveOwnPair(j) PROVE PairOK(p, k)'
    BY <1>1, <2>1, <2>5, QueuedWrite DEF RemoveOwnPair, Writes
  <2>6. ASSUME NEW j \in PairKeys, RegisterCallback(j) PROVE PairOK(p, k)'
    BY <1>1, <2>1, <2>6, RegisterCallbackStep
  <2>7. ASSUME NEW h, RegisterCallbackToAll \/ CancelCallback(h) PROVE PairOK(p, k)'
    <3>1. UNCHANGED <<pairs, subscribers, u_subscribers, todo, chan, copy, raced, lapsed>>
      BY <2>7 DEF RegisterCallbackToAll, CancelCallback, AddCallbackToAll, RemoveCallback, pathvars
    <3> QED
      BY <2>1, <3>1 DEF PairOK, AllSent, Subscribed, Current
  <2>8. ASSUME NEW t, NotifyLocal(t) \/ RunCallbacks PROVE PairOK(p, k)'
    BY <2>3, <2>8 DEF NotifyLocal, RunCallbacks
  <2>9. ASSUME NEW q \in Peers, NEW j \in PairKeys,
               HandleIncomingPair(q, j) \/ HandlePairUpdate(q, j)
        PROVE  PairOK(p, k)'
    <3>1. Now \in Values /\ Writes(j, Now) /\ todo[q] = {} /\ Collect(q, j, Now) /\ Wrote(j)
          /\ chan' = chan /\ copy' = copy
      BY <2>2, <2>9 DEF HandleIncomingPair, HandlePairUpdate, Reading, Tick, Writes
    <3> QED
      BY <1>1, <2>1, <3>1, CollectedWrite
  <2>10. ASSUME NEW q \in Peers, NEW j \in OwnKeys, HandleRemovePair(q, j) PROVE PairOK(p, k)'
    <3>1. Writes(j, Invalid) /\ todo[q] = {} /\ Collect(q, j, Invalid) /\ Wrote(j)
          /\ chan' = chan /\ copy' = copy
      BY <2>10 DEF HandleRemovePair, Reading, Writes
    <3> QED
      BY <1>1, <2>1, <3>1, CollectedWrite
  <2>11. ASSUME NEW q \in Peers, NEW j \in ForeignKeys, HandlePairRemoved(q, j)
         PROVE  PairOK(p, k)'
    <3>1. /\ pairs'[k] = pairs[k]
          /\ UNCHANGED <<subscribers, u_subscribers, todo, chan, copy, raced, lapsed>>
      BY <1>1, <2>11 DEF HandlePairRemoved, RemovePair, ForeignKeys, PSInv, PSTypeOK
    <3> QED
      BY <2>1, <3>1 DEF PairOK, AllSent, Subscribed, Current
  <2>12. ASSUME NEW q \in Peers, Session(q) PROVE PairOK(p, k)'
    BY <1>1, <2>1, <2>9, <2>10, <2>11, <2>12, SubscribeStep, SubscribeToAllStep,
       UnsubscribeStep, SendStep DEF Session, ForeignKeys
  <2>13. ASSUME NEW q \in Peers, Deliver(q) PROVE PairOK(p, k)'
    BY <1>1, <2>1, <2>13, DeliverStep
  <2>14. ASSUME Local PROVE PairOK(p, k)'
    BY <2>4, <2>5, <2>6, <2>7, <2>8, <2>14 DEF Local
  <2>15. ASSUME UNCHANGED vars PROVE PairOK(p, k)'
    BY <2>3, <2>15 DEF vars, pathvars
  <2> QED
    BY <2>12, <2>13, <2>14, <2>15 DEF Next
<1> QED
  BY <1>2, <1>3, <1>4 DEF PathInv

LEMMA PathInvProperties ==
  PathInv => TypeOK /\ CurrentUnlessRaced /\ NothingStaleUnsent /\ NothingUnasked
  BY PairOKs, TypeParts DEF PathInv, PSInv

\* The state is well formed however many operations there are.
THEOREM PathTypeCorrect == Spec => []TypeOK
<1> QED
  BY PathInvInit, PathInvStep, PathInvProperties, PTL DEF Spec

\* However handlers, local threads and deliveries interleave, the last frame
\* that a subscriber is sent is about the current value, unless two writes of
\* the pair overlapped or the subscriber had lapsed.
THEOREM SubscribersCurrent == Spec => []CurrentUnlessRaced
<1> QED
  BY PathInvInit, PathInvStep, PathInvProperties, PTL DEF Spec

\* What sessions have still to send is current while no writes overlap, and a
\* component is sent nothing about a pair it has not subscribed to.
THEOREM DueSafety == Spec => []OnlyWhatIsDue
<1> QED
  BY PathInvInit, PathInvStep, PathInvProperties, PTL DEF Spec, OnlyWhatIsDue

\* The handlers, the local threads and the deliveries do to the pair space what
\* its operations do and nothing else, so what is proved of it alone holds here.
THEOREM PathIsPairSpace == Spec => PSSpec
<1>1. Init => PSInit
  BY DEF Init
<1>2. PathInv /\ [Next]_vars => [PSNext]_psvars
  BY PathInvProperties, PathStepsPairSpace DEF TypeOK
<1> QED
  BY <1>1, <1>2, PathInvInit, PathInvStep, PTL DEF Spec, PSSpec

\* The indexes agree, and no value published or deleted loses a registration,
\* under concurrent handlers and publishers too.
THEOREM PathKeepsRegistrations == Spec => []IndexesAgree /\ RegistrationsSurvive
<1> QED
  BY PathIsPairSpace, PairSpaceSafety, RegistrationSafety, PTL

-----------------------------------------------------------------------------
(* The order of callbacks                                                  *)

\* Notifications of one thread, in the order of their publishes.
Ordered(q, r) == \A i \in 1..Len(q), j \in 1..Len(r) : q[i].by = r[j].by => q[i].val < r[j].val
Rising(q) == \A i, j \in 1..Len(q) : i < j /\ q[i].by = q[j].by => q[i].val < q[j].val

\* Everything of t in q is older than v.
Before(q, t, v) == \A i \in 1..Len(q) : q[i].by = t => q[i].val < v

\* What has run, what is on the strand and what a thread has yet to post follow
\* each other, thread by thread, and none is from the future.
OrderInv ==
  /\ Rising(ran) /\ Rising(strand) /\ Ordered(ran, strand)
  /\ \A t \in Publishers :
       /\ Before(ran, t, ops + 1) /\ Before(strand, t, ops + 1)
       /\ note[t] # Silent =>
            /\ note[t].by = t /\ note[t].val < ops + 1
            /\ Before(ran, t, note[t].val) /\ Before(strand, t, note[t].val)

\* A notification younger than all of its thread's may be put at the end.
LEMMA PutLast ==
  ASSUME NEW q \in Seq(Note), NEW r \in Seq(Note), NEW n \in Note,
         Before(q, n.by, n.val), Before(r, n.by, n.val)
  PROVE  /\ Rising(q) => Rising(Append(q, n))
         /\ Ordered(r, q) => Ordered(r, Append(q, n))
         /\ \A t, v : Before(q, t, v) /\ (n.by = t => n.val < v) => Before(Append(q, n), t, v)
<1> DEFINE s == Append(q, n)
<1>1. /\ Len(q) \in Nat /\ Len(s) = Len(q) + 1 /\ s[Len(q) + 1] = n
      /\ \A i \in 1..Len(q) : s[i] = q[i]
  OBVIOUS
<1> HIDE DEF s
<1>2. \A i \in 1..Len(s) : i \in 1..Len(q) \/ s[i] = n
  BY <1>1
<1>3. ASSUME Rising(q) PROVE Rising(s)
  <2> SUFFICES ASSUME NEW i \in 1..Len(s), NEW j \in 1..Len(s), i < j, s[i].by = s[j].by
               PROVE  s[i].val < s[j].val
    BY DEF Rising
  <2>1. i \in 1..Len(q) /\ s[i] = q[i]
    BY <1>1
  <2>2. CASE j \in 1..Len(q)
    BY <1>1, <1>3, <2>1, <2>2 DEF Rising
  <2>3. CASE s[j] = n
    BY <2>1, <2>3 DEF Before
  <2> QED
    BY <1>2, <2>2, <2>3
<1>4. ASSUME Ordered(r, q) PROVE Ordered(r, s)
  BY <1>1, <1>2, <1>4 DEF Ordered, Before
<1>5. ASSUME NEW t, NEW v, Before(q, t, v), n.by = t => n.val < v PROVE Before(s, t, v)
  BY <1>1, <1>2, <1>5 DEF Before
<1> QED
  BY <1>3, <1>4, <1>5 DEF s

\* The first of the strand runs.
LEMMA RunFirst ==
  ASSUME NEW q \in Seq(Note), NEW r \in Seq(Note), q # <<>>,
         Rising(r), Rising(q), Ordered(r, q)
  PROVE  /\ Rising(Append(r, Head(q))) /\ Rising(Tail(q))
         /\ Ordered(Append(r, Head(q)), Tail(q))
         /\ \A t, v : Before(r, t, v) /\ Before(q, t, v)
                       => Before(Append(r, Head(q)), t, v) /\ Before(Tail(q), t, v)
<1> DEFINE n == Head(q)
           s == Append(r, n)
           u == Tail(q)
<1>1. /\ Len(q) \in Nat /\ Len(q) > 0 /\ Len(u) = Len(q) - 1 /\ n = q[1]
      /\ \A i \in 1..Len(u) : u[i] = q[i + 1] /\ i + 1 \in 1..Len(q)
  OBVIOUS
<1>2. /\ Len(r) \in Nat /\ Len(s) = Len(r) + 1 /\ s[Len(r) + 1] = n
      /\ \A i \in 1..Len(r) : s[i] = r[i]
  OBVIOUS
<1> HIDE DEF n, s, u
<1>3. \A i \in 1..Len(s) : i \in 1..Len(r) \/ (i = Len(r) + 1 /\ s[i] = n)
  BY <1>2
<1>4. \A i \in 1..Len(r) : r[i].by = n.by => r[i].val < n.val
  BY <1>1 DEF Ordered
<1>5. Rising(s)
  <2> SUFFICES ASSUME NEW i \in 1..Len(s), NEW j \in 1..Len(s), i < j, s[i].by = s[j].by
               PROVE  s[i].val < s[j].val
    BY DEF Rising
  <2>1. i \in 1..Len(r) /\ s[i] = r[i]
    BY <1>2
  <2>2. CASE j \in 1..Len(r)
    BY <1>2, <2>1, <2>2 DEF Rising
  <2>3. CASE s[j] = n
    BY <1>4, <2>1, <2>3
  <2> QED
    BY <1>3, <2>2, <2>3
<1>6. Rising(u)
  <2> SUFFICES ASSUME NEW i \in 1..Len(u), NEW j \in 1..Len(u), i < j, u[i].by = u[j].by
               PROVE  u[i].val < u[j].val
    BY DEF Rising
  <2>1. i + 1 < j + 1 /\ u[i] = q[i + 1] /\ u[j] = q[j + 1]
    BY <1>1
  <2> QED
    BY <1>1, <2>1 DEF Rising
<1>7. Ordered(s, u)
  <2> SUFFICES ASSUME NEW i \in 1..Len(s), NEW j \in 1..Len(u), s[i].by = u[j].by
               PROVE  s[i].val < u[j].val
    BY DEF Ordered
  <2>1. u[j] = q[j + 1] /\ j + 1 \in 1..Len(q) /\ 1 \in 1..Len(q) /\ 1 < j + 1
    BY <1>1
  <2>2. CASE i \in 1..Len(r)
    BY <1>2, <2>1, <2>2 DEF Ordered
  <2>3. CASE s[i] = n
    BY <1>1, <2>1, <2>3 DEF Rising
  <2> QED
    BY <1>3, <2>2, <2>3
<1>8. ASSUME NEW t, NEW v, Before(r, t, v), Before(q, t, v)
      PROVE  Before(s, t, v) /\ Before(u, t, v)
  <2>1. 1 \in 1..Len(q)
    BY <1>1
  <2>2. Before(s, t, v)
    BY <1>1, <1>2, <1>3, <1>8, <2>1 DEF Before
  <2>3. Before(u, t, v)
    BY <1>1, <1>8 DEF Before
  <2> QED
    BY <2>2, <2>3
<1> QED
  BY <1>5, <1>6, <1>7, <1>8 DEF n, s, u

\* A later bound bounds as well.
LEMMA BeforeLater ==
  ASSUME NEW q \in Seq(Note), NEW t, NEW v \in Int, NEW w \in Int, v <= w, Before(q, t, v)
  PROVE  Before(q, t, w)
<1>1. \A i \in 1..Len(q) : q[i] \in Note
  OBVIOUS
<1>2. \A i \in 1..Len(q) : q[i].val \in Nat
  BY <1>1 DEF Note
<1> QED
  BY <1>2 DEF Before

LEMMA OrderStep ==
  ASSUME PathTypeOK, OrderInv, [Next]_vars
  PROVE  OrderInv'
<1>0. /\ ran \in Seq(Note) /\ strand \in Seq(Note)
      /\ note \in [Publishers -> Note \cup {Silent}]
      /\ ops \in Nat /\ ops + 1 \in Int /\ ops + 2 \in Int
  BY DEF PathTypeOK
<1>1. ASSUME UNCHANGED <<ran, strand, note>>, ops' = ops \/ ops' = ops + 1 PROVE OrderInv'
  <2>1. ASSUME NEW t \in Publishers
        PROVE  /\ Before(ran', t, ops' + 1) /\ Before(strand', t, ops' + 1)
               /\ note'[t] # Silent =>
                    /\ note'[t].by = t /\ note'[t].val < ops' + 1
                    /\ Before(ran', t, note'[t].val) /\ Before(strand', t, note'[t].val)
    <3>1. Before(ran, t, ops + 2) /\ Before(strand, t, ops + 2)
      BY <1>0, BeforeLater DEF OrderInv
    <3>2. note[t] # Silent => note[t].val \in Nat
      BY <1>0 DEF Note
    <3> QED
      BY <1>0, <1>1, <3>1, <3>2 DEF OrderInv
  <2> QED
    BY <1>1, <2>1 DEF OrderInv
<1>2. ASSUME NEW t \in Publishers, NEW k \in OwnKeys, SetPair(t, k) PROVE OrderInv'
  <2>1. /\ ran' = ran /\ strand' = strand /\ ops' = ops + 1
        /\ note' = [note EXCEPT ![t] =
             [by |-> t, val |-> ops + 1, callbacks |-> universal_callbacks \cup callbacks[k]]]
    BY <1>2 DEF SetPair, Tick, Now
  <2>2. ASSUME NEW u \in Publishers
        PROVE  /\ Before(ran', u, ops' + 1) /\ Before(strand', u, ops' + 1)
               /\ note'[u] # Silent =>
                    /\ note'[u].by = u /\ note'[u].val < ops' + 1
                    /\ Before(ran', u, note'[u].val) /\ Before(strand', u, note'[u].val)
    <3>1. Before(ran, u, ops + 2) /\ Before(strand, u, ops + 2)
      BY <1>0, BeforeLater DEF OrderInv
    <3>2. CASE u = t
      <4>1. note'[u].by = u /\ note'[u].val = ops + 1
        BY <1>0, <2>1, <3>2
      <4> QED
        BY <1>0, <2>1, <3>1, <4>1 DEF OrderInv
    <3>3. CASE u # t
      <4>1. note'[u] = note[u] /\ (note[u] # Silent => note[u].val \in Nat)
        BY <1>0, <2>1, <3>3 DEF Note
      <4> QED
        BY <1>0, <2>1, <3>1, <4>1 DEF OrderInv
    <3> QED
      BY <3>2, <3>3
  <2> QED
    BY <2>1, <2>2 DEF OrderInv
<1>3. ASSUME NEW t \in Publishers, NotifyLocal(t) PROVE OrderInv'
  <2>1. /\ ran' = ran /\ ops' = ops /\ note[t] # Silent
        /\ strand' = IF note[t].callbacks = {} THEN strand ELSE Append(strand, note[t])
        /\ note' = [note EXCEPT ![t] = Silent]
    BY <1>3 DEF NotifyLocal
  <2>2. note[t] \in Note /\ note[t].by = t /\ note[t].val < ops + 1
        /\ Before(ran, t, note[t].val) /\ Before(strand, t, note[t].val)
    BY <1>0, <2>1 DEF OrderInv
  <2>3. Rising(strand') /\ Ordered(ran', strand')
    BY <1>0, <2>1, <2>2, PutLast DEF OrderInv
  <2>4. ASSUME NEW u, NEW v, Before(strand, u, v), t = u => note[t].val < v
        PROVE  Before(strand', u, v)
    BY <1>0, <2>1, <2>2, <2>4, PutLast
  <2>5. ASSUME NEW u \in Publishers
        PROVE  /\ Before(ran', u, ops' + 1) /\ Before(strand', u, ops' + 1)
               /\ note'[u] # Silent =>
                    /\ note'[u].by = u /\ note'[u].val < ops' + 1
                    /\ Before(ran', u, note'[u].val) /\ Before(strand', u, note'[u].val)
    <3>1. Before(strand', u, ops + 1)
      BY <2>2, <2>4 DEF OrderInv
    <3>2. note'[u] # Silent => u # t /\ note'[u] = note[u]
      BY <1>0, <2>1
    <3> QED
      BY <2>1, <2>4, <3>1, <3>2 DEF OrderInv
  <2> QED
    BY <2>1, <2>3, <2>5 DEF OrderInv
<1>4. ASSUME RunCallbacks PROVE OrderInv'
  <2>1. /\ strand # <<>> /\ ran' = Append(ran, Head(strand)) /\ strand' = Tail(strand)
        /\ UNCHANGED <<note, ops>>
    BY <1>4 DEF RunCallbacks
  <2>2. /\ Rising(ran') /\ Rising(strand') /\ Ordered(ran', strand')
        /\ \A t, v : Before(ran, t, v) /\ Before(strand, t, v)
                      => Before(ran', t, v) /\ Before(strand', t, v)
    BY <1>0, <2>1, RunFirst DEF OrderInv
  <2> QED
    BY <2>1, <2>2 DEF OrderInv
<1>5. ASSUME NEW p \in Peers, Session(p) \/ Deliver(p) PROVE OrderInv'
  <2>1. UNCHANGED <<ran, strand, note>>
    BY <1>5 DEF Session, Deliver, HandleIncomingPair, HandleSubscribe, HandleUnsubscribe,
                HandleRemovePair, HandlePairUpdate, HandlePairRemoved,
                HandleSubscribeToAll, HandleUnsubscribeFromAll, SendNext
  <2>2. ops' = ops \/ ops' = ops + 1
    BY <1>5 DEF Session, Deliver, HandleIncomingPair, HandleSubscribe, HandleUnsubscribe,
                HandleRemovePair, HandlePairUpdate, HandlePairRemoved, Reading, Tick, Now,
                HandleSubscribeToAll, HandleUnsubscribeFromAll, SendNext
  <2> QED
    BY <1>1, <2>1, <2>2
<1>6. ASSUME NEW k, NEW h,
             RemoveOwnPair(k) \/ RegisterCallback(k) \/ RegisterCallbackToAll \/ CancelCallback(h)
      PROVE  OrderInv'
  BY <1>1, <1>6 DEF RemoveOwnPair, RegisterCallback, RegisterCallbackToAll, CancelCallback,
                    pathvars, Tick, Now
<1>7. ASSUME UNCHANGED vars PROVE OrderInv'
  BY <1>1, <1>7 DEF vars, pathvars
<1>8. ASSUME Local PROVE OrderInv'
  BY <1>2, <1>3, <1>4, <1>6, <1>8 DEF Local
<1> QED
  BY <1>5, <1>7, <1>8 DEF Next

\* The callbacks for the publishes of one thread run in the order in which it
\* published, whatever the others publish meanwhile.
THEOREM CallbackOrder == Spec => []ThreadInPublishOrder
<1>1. Init => OrderInv
  BY DEF Init, OrderInv, Rising, Ordered, Before
<1>2. PathInv /\ OrderInv /\ [Next]_vars => OrderInv'
  BY OrderStep DEF PathInv
<1>3. OrderInv => ThreadInPublishOrder
  BY DEF OrderInv, Rising, ThreadInPublishOrder
<1> QED
  BY <1>1, <1>2, <1>3, PathInvInit, PathInvStep, PTL DEF Spec

=============================================================================
