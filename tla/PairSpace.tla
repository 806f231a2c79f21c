----------------------------- MODULE PairSpace ------------------------------
(***************************************************************************)
(* The blackboard of one component: PairSpace of src/src/PairSpace.cpp.    *)
(*                                                                         *)
(* Every pair the component knows of has an entry: its value, the peers it *)
(* is forwarded to and the callbacks that run when it changes.  Wildcard   *)
(* subscribers are kept apart, to be handed to entries made later.         *)
(*                                                                         *)
(* Callers hold PairSpace::mutex for the whole of an operation, so each    *)
(* operation is one action.  The actions constrain the pair space's own    *)
(* variables only: PublishPath extends this module and conjoins them with  *)
(* what its handlers do in the same critical section.                      *)
(***************************************************************************)
EXTENDS Integers

CONSTANTS PairKeys,    \* (owner, key) pairs
          Values,      \* published values
          Invalid,     \* the value of a placeholder: Pair::Type::Invalid
          Absent,      \* no entry in pairs_
          Peers,       \* the components that may subscribe
          MaxHandles   \* bound: callbacks registered in a behaviour

ASSUME ValuesAssumption ==
  Invalid \notin Values /\ Absent \notin Values /\ Invalid # Absent
ASSUME HandlesAssumption == MaxHandles \in Nat

VARIABLES
  pairs,                \* pairs_: the value of each key's entry, or Absent
  subscribers,          \* PairEntry::subscribers, how often each peer is in it
  u_subscribers,        \* u_subscribers_, the wildcard subscribers
  callbacks,            \* PairEntry::callbacks, the handles in it
  callback_owners,      \* callback_owners_, as pairs <<handle, key>>
  universal_callbacks,  \* universal_callbacks_, the handles in it
  next_callback_handle, \* next_callback_handle_
  narrowed              \* history: <<peer, key>> a wildcard subscriber cancelled

psvars == <<pairs, subscribers, u_subscribers, callbacks, callback_owners,
            universal_callbacks, next_callback_handle, narrowed>>

\* An empty subscriber list.
NoOne == [p \in Peers |-> 0]

PSInit ==
  /\ pairs = [k \in PairKeys |-> Absent]
  /\ subscribers = [k \in PairKeys |-> NoOne]
  /\ u_subscribers = NoOne
  /\ callbacks = [k \in PairKeys |-> {}]
  /\ callback_owners = {}
  /\ universal_callbacks = {}
  /\ next_callback_handle = 0
  /\ narrowed = {}

-----------------------------------------------------------------------------

\* Mutant: a new entry starts without subscribers.
ListOfEntry(k) == subscribers[k]

\* The subscriber list of k's entry, once addPair() has made sure there is
\* one: a new entry starts with the wildcard subscribers.
ListOf(k) == IF pairs[k] = Absent THEN u_subscribers ELSE subscribers[k]

\* The value of k's entry, once there is one: a new one is a placeholder.
Placed(k) == IF pairs[k] = Absent THEN Invalid ELSE pairs[k]

\* The peers an update of k goes to.
Subscribed(k) == {p \in Peers : subscribers[k][p] > 0}

\* Mutant: an update puts a new entry in place of the old one.
AddPairAnew(k, v) ==
  /\ pairs' = [pairs EXCEPT ![k] = v]
  /\ subscribers' = [subscribers EXCEPT ![k] = u_subscribers]
  /\ UNCHANGED <<u_subscribers, callbacks, callback_owners,
                 universal_callbacks, next_callback_handle, narrowed>>

AddPair(k, v) ==
  /\ pairs' = [pairs EXCEPT ![k] = v]
  /\ subscribers' = [subscribers EXCEPT ![k] = ListOf(k)]
  /\ UNCHANGED <<u_subscribers, callbacks, callback_owners,
                 universal_callbacks, next_callback_handle, narrowed>>

\* With anyone still registered the entry stays behind as a placeholder.
RemovePair(k) ==
  LET bare == Subscribed(k) = {} /\ callbacks[k] = {}
  IN  /\ pairs[k] # Absent
      /\ pairs' = [pairs EXCEPT ![k] = IF bare THEN Absent ELSE Invalid]
      /\ narrowed' = IF bare THEN narrowed \ (Peers \X {k}) ELSE narrowed
      /\ UNCHANGED <<subscribers, u_subscribers, callbacks, callback_owners,
                     universal_callbacks, next_callback_handle>>

AddCallback(k) ==
  LET handle == next_callback_handle + 1
  IN  /\ handle <= MaxHandles
      /\ next_callback_handle' = handle
      /\ callback_owners' = callback_owners \cup {<<handle, k>>}
      /\ pairs' = [pairs EXCEPT ![k] = Placed(k)]
      /\ subscribers' = [subscribers EXCEPT ![k] = ListOf(k)]
      /\ callbacks' = [callbacks EXCEPT ![k] = @ \cup {handle}]
      /\ UNCHANGED <<u_subscribers, universal_callbacks, narrowed>>

AddCallbackToAll ==
  LET handle == next_callback_handle + 1
  IN  /\ handle <= MaxHandles
      /\ next_callback_handle' = handle
      /\ universal_callbacks' = universal_callbacks \cup {handle}
      /\ UNCHANGED <<pairs, subscribers, u_subscribers, callbacks,
                     callback_owners, narrowed>>

\* A handle without an owner is universal, or unknown and only warned about.
RemoveCallback(handle) ==
  /\ \/ \E k \in PairKeys :
          /\ <<handle, k>> \in callback_owners
          /\ callbacks' = [callbacks EXCEPT ![k] = @ \ {handle}]
          /\ callback_owners' = callback_owners \ {<<handle, k>>}
          /\ UNCHANGED universal_callbacks
     \/ /\ \A k \in PairKeys : <<handle, k>> \notin callback_owners
        /\ universal_callbacks' = universal_callbacks \ {handle}
        /\ UNCHANGED <<callbacks, callback_owners>>
  /\ UNCHANGED <<pairs, subscribers, u_subscribers, next_callback_handle, narrowed>>

\* The list with the peer pushed, unless it is in it already.
WithPeer(list, p) == IF list[p] > 0 THEN list ELSE [list EXCEPT ![p] = @ + 1]

AddSubscription(k, p) ==
  /\ pairs' = [pairs EXCEPT ![k] = Placed(k)]
  /\ subscribers' = [subscribers EXCEPT ![k] = WithPeer(ListOf(k), p)]
  /\ narrowed' = narrowed \ {<<p, k>>}
  /\ UNCHANGED <<u_subscribers, callbacks, callback_owners,
                 universal_callbacks, next_callback_handle>>

RemoveSubscription(k, p) ==
  /\ pairs[k] # Absent
  /\ subscribers' = [subscribers EXCEPT ![k][p] = 0]
  /\ narrowed' = IF u_subscribers[p] > 0 THEN narrowed \cup {<<p, k>>} ELSE narrowed
  /\ UNCHANGED <<pairs, u_subscribers, callbacks, callback_owners,
                 universal_callbacks, next_callback_handle>>

AddSubscriptionToAll(p) ==
  /\ u_subscribers[p] = 0
  /\ u_subscribers' = [u_subscribers EXCEPT ![p] = @ + 1]
  /\ subscribers' = [k \in PairKeys |->
       IF pairs[k] = Absent THEN subscribers[k] ELSE WithPeer(subscribers[k], p)]
  /\ narrowed' = narrowed \ ({p} \X PairKeys)
  /\ UNCHANGED <<pairs, callbacks, callback_owners, universal_callbacks,
                 next_callback_handle>>

RemoveSubscriptionToAll(p) ==
  /\ u_subscribers' = [u_subscribers EXCEPT ![p] = 0]
  /\ subscribers' = [k \in PairKeys |-> [subscribers[k] EXCEPT ![p] = 0]]
  /\ UNCHANGED <<pairs, callbacks, callback_owners, universal_callbacks,
                 next_callback_handle, narrowed>>

PSNext ==
  \/ \E k \in PairKeys :
       \/ \E v \in Values : AddPair(k, v)
       \/ RemovePair(k)
       \/ AddCallback(k)
       \/ \E p \in Peers : AddSubscription(k, p) \/ RemoveSubscription(k, p)
  \/ AddCallbackToAll
  \/ \E handle \in 1..MaxHandles : RemoveCallback(handle)
  \/ \E p \in Peers : AddSubscriptionToAll(p) \/ RemoveSubscriptionToAll(p)

PSSpec == PSInit /\ [][PSNext]_psvars

-----------------------------------------------------------------------------
(* Properties                                                              *)

PSTypeOK ==
  /\ pairs \in [PairKeys -> Values \cup {Invalid, Absent}]
  /\ subscribers \in [PairKeys -> [Peers -> Nat]]
  /\ u_subscribers \in [Peers -> Nat]
  /\ callbacks \in [PairKeys -> SUBSET (1..MaxHandles)]
  /\ callback_owners \subseteq (1..MaxHandles) \X PairKeys
  /\ universal_callbacks \subseteq 1..MaxHandles
  /\ next_callback_handle \in 0..MaxHandles
  /\ narrowed \subseteq Peers \X PairKeys

\* A peer is in a list at most once, whichever of the four ways of getting
\* into it were taken: in twice, every update would be sent to it twice.
NoDuplicateSubscriber ==
  \A p \in Peers : u_subscribers[p] <= 1 /\ \A k \in PairKeys : subscribers[k][p] <= 1

\* callback_owners_ names exactly the entries that hold each handle, and no
\* handle is in two places: removeCallback() always finds what it must erase,
\* and never cancels another's callback.
CallbackIndexAgrees ==
  /\ \A h \in 1..MaxHandles, k \in PairKeys :
       h \in callbacks[k] <=> <<h, k>> \in callback_owners
  /\ \A o, q \in callback_owners : o[1] = q[1] => o = q
  /\ \A o \in callback_owners :
       o[1] <= next_callback_handle /\ o[1] \notin universal_callbacks
  /\ \A h \in universal_callbacks : h <= next_callback_handle

\* An erased entry takes nobody's registration with it.
AbsentIsBare ==
  \A k \in PairKeys : pairs[k] = Absent => Subscribed(k) = {} /\ callbacks[k] = {}

\* A wildcard subscriber is in the list of every entry, however and whenever
\* the entry was made, except where it cancelled that key itself.
WildcardCovers ==
  \A p \in Peers, k \in PairKeys :
    u_subscribers[p] > 0 /\ pairs[k] # Absent /\ <<p, k>> \notin narrowed
      => subscribers[k][p] > 0

\* The four indexes of the pair space describe one set of registrations, after
\* every sequence of operations.
IndexesAgree == NoDuplicateSubscriber /\ CallbackIndexAgrees /\ AbsentIsBare /\ WildcardCovers

\* Publishing, updating or deleting a value loses no registration: "they belong
\* to this component, not to whoever sent the new value" (PairSpace.h).
RegistrationsSurvive ==
  [][pairs' # pairs =>
       \A k \in PairKeys : /\ callbacks[k] \subseteq callbacks'[k]
                           /\ \A p \in Peers : subscribers[k][p] <= subscribers'[k][p]]_psvars

=============================================================================
