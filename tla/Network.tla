------------------------------ MODULE Network -------------------------------
(***************************************************************************)
(* Several components and the frames between them: what PublishPath shows  *)
(* of one owner and its subscribers, put together.  Every component owns a *)
(* pair, keeps a pair space of its own, subscribes at the others and       *)
(* handles what they send (src/src/client.cpp, src/src/server.cpp).        *)
(*                                                                         *)
(* A handler is one step here, and connections are FIFO: PublishPath and   *)
(* FrameChannel are about what happens inside.  A component may leave and  *)
(* another may join under its id, as MasterHub allows; the newcomer knows  *)
(* the others at once, they hear of it one by one.  When a component has   *)
(* left its connections are broken and what is in them is lost: frames of  *)
(* it that are still read are read before Leave.  A pair is named by its   *)
(* owner; each publish has a number, which is its value.                   *)
(***************************************************************************)
EXTENDS Integers, Sequences

CONSTANTS Components,  \* owner ids
          kAnyOwner,   \* any owner
          Offers,      \* what the application of each component may subscribe to
          Writes,      \* whose pairs it may write and delete
          MaxOps       \* bound: publishes, deletions, subscriptions made and departures

ASSUME OwnersAssumption == kAnyOwner \notin Components
ASSUME OpsAssumption == MaxOps \in Nat

VARIABLES
  up,             \* the components that are there
  sessions,       \* each Client::sessions_, less those whose component has left
  pairs,          \* each pair space: the value of each owner's pair
  subscribers,    \* each pair space: PairEntry::subscribers
  u_subscribers,  \* each pair space: u_subscribers_
  records,        \* each Client::subscriptions_, as <<owner, key>>
  wire,           \* the frames from each component to each other
  ops,            \* operations so far
  forwarded,      \* history: owners whose pair a subscriber has sent on
  lapsed,         \* history: <<c, d>> where c may miss what became of d's pair
  cut,            \* history: <<c, d>> where d's list may lack c though d was asked
  replaced        \* history: ids that another component has now

space == <<pairs, subscribers, u_subscribers>>
net   == <<up, sessions, space, records, wire, ops, forwarded, lapsed, cut, replaced>>

\* The value of a placeholder, Pair::Type::Invalid, and no entry at all.
Invalid == 0
Absent  == -1

\* kWildcardKey, and the key of every pair.
kWildcardKey == "*"
Key == "key"

\* What can be asked for, as owner and key.
Record == (Components \cup {kAnyOwner}) \X {Key, kWildcardKey}

ASSUME OffersAssumption ==
  Offers \in [Components -> SUBSET Record] /\ Writes \in [Components -> SUBSET Components]

Frame ==
  [type : {"Pair", "RemovePair"}, val : Nat] \cup
  [type : {"PairUpdate", "PairRemoved"}, owner : Components, val : Nat] \cup
  [type : {"Subscription"}, key : {Key, kWildcardKey}, registering : BOOLEAN]

Nothing == [d \in Components |-> Absent]

\* A record covers d's pair, as d's server sees it.
Covers(r, d) == r[1] \in {kAnyOwner, d}

\* sendSubscriptionsFor: the frames for the records that cover d.
Replay(held, d) ==
  LET Ask(key) == IF \E r \in held : Covers(r, d) /\ r[2] = key
                  THEN <<[type |-> "Subscription", key |-> key, registering |-> TRUE]>>
                  ELSE <<>>
  IN  Ask(Key) \o Ask(kWildcardKey)

\* Every component has just connected to the others, with these subscriptions.
NetInit(held) ==
  /\ up = Components
  /\ sessions = [c \in Components |-> Components \ {c}]
  /\ pairs = [c \in Components |-> Nothing]
  /\ subscribers = [c \in Components |-> [d \in Components |-> {}]]
  /\ u_subscribers = [c \in Components |-> {}]
  /\ records = held
  /\ wire = [c \in Components |-> [d \in Components |->
                IF c = d THEN <<>> ELSE Replay(held[c], d)]]
  /\ ops = 0
  /\ forwarded = {} /\ lapsed = {} /\ cut = {} /\ replaced = {}

-----------------------------------------------------------------------------
(* Sending                                                                 *)

\* The frames of c with m sent to those of the set that c has a session with.
Sent(c, to, m) ==
  [wire EXCEPT ![c] = [d \in Components |-> IF d \in to \cap sessions[c]
                                            THEN Append(wire[c][d], m) ELSE wire[c][d]]]

\* The same, by a handler that has just read a frame from src.
Answered(src, c, to, m) == [Sent(c, to, m) EXCEPT ![src][c] = Tail(@)]

Update(o, v) == [type |-> "PairUpdate", owner |-> o, val |-> v]
Removal(o)   == [type |-> "PairRemoved", owner |-> o, val |-> Invalid]

-----------------------------------------------------------------------------
(* The pair space of c                                                     *)

\* The subscriber list of o's entry, once there is one.
ListOf(c, o) == IF pairs[c][o] = Absent THEN u_subscribers[c] ELSE subscribers[c][o]

AddPair(c, o, v) ==
  /\ pairs' = [pairs EXCEPT ![c][o] = v]
  /\ subscribers' = [subscribers EXCEPT ![c][o] = ListOf(c, o)]
  /\ UNCHANGED u_subscribers

\* An entry with callbacks stays too, but nobody here has registered one: callbacks
\* are in PairSpace and PublishPath.
RemovePair(c, o) ==
  /\ pairs' = [pairs EXCEPT ![c][o] =
       IF @ = Absent \/ subscribers[c][o] = {} THEN Absent ELSE Invalid]
  /\ UNCHANGED <<subscribers, u_subscribers>>

\* What a reader of c sees of o's pair.
Seen(c, o) == IF pairs[c][o] = Absent THEN Invalid ELSE pairs[c][o]

\* History: everyone in the list whom o has a session with hears of its pair.
Told(o, list) == lapsed' = lapsed \ ((list \cap sessions[o]) \X {o})

-----------------------------------------------------------------------------
(* Calls of the application                                                *)

Tick == ops < MaxOps /\ ops' = ops + 1

\* Client::setPair
SetPair(c) ==
  /\ Tick /\ c \in up
  /\ AddPair(c, c, ops + 1)
  /\ wire' = Sent(c, ListOf(c, c), Update(c, ops + 1))
  /\ Told(c, ListOf(c, c))
  /\ UNCHANGED <<up, sessions, records, forwarded, cut, replaced>>

\* Client::removePair, of a pair that is there
RemoveOwnPair(c) ==
  /\ Tick /\ c \in up /\ pairs[c][c] # Absent
  /\ RemovePair(c, c)
  /\ wire' = Sent(c, subscribers[c][c], Removal(c))
  /\ Told(c, subscribers[c][c])
  /\ UNCHANGED <<up, sessions, records, forwarded, cut, replaced>>

\* Client::setRemotePair and Client::removeRemotePair, with a session
SetRemotePair(c, d) ==
  /\ Tick /\ c \in up /\ d \in sessions[c]
  /\ wire' = Sent(c, {d}, [type |-> "Pair", val |-> ops + 1])
  /\ UNCHANGED <<up, sessions, space, records, forwarded, lapsed, cut, replaced>>

RemoveRemotePair(c, d) ==
  /\ Tick /\ c \in up /\ d \in sessions[c]
  /\ wire' = Sent(c, {d}, [type |-> "RemovePair", val |-> Invalid])
  /\ UNCHANGED <<up, sessions, space, records, forwarded, lapsed, cut, replaced>>

\* A subscription of c covers d's pair.
Covered(c, d) == \E r \in records[c] : Covers(r, d)

\* sendSubscription, to one component or to all
SendSubscription(c, r, on) ==
  wire' = Sent(c, {d \in Components : Covers(r, d)},
               [type |-> "Subscription", key |-> r[2], registering |-> on])

\* History: registering r puts c into d's list again, whatever was cancelled.  A
\* wildcard does not if d has one of c, or of an earlier component with its id.
Restores(c, r, d) ==
  /\ Covers(r, d)
  /\ r[2] = Key \/ (c \notin replaced /\ \A q \in records[c] : q[2] = Key \/ ~Covers(q, d))

\* History: cancelling r takes c off d's list while another covers d, or while
\* the wildcard of an earlier component may.
Cuts(c, r, d) ==
  Covers(r, d) /\ (Covered(c, d)' \/ (c \in replaced /\ r[2] = Key))

RegisterSubscription(c, r) ==
  /\ Tick /\ c \in up /\ r \notin records[c]
  /\ records' = [records EXCEPT ![c] = @ \cup {r}]
  /\ SendSubscription(c, r, TRUE)
  /\ cut' = {x \in cut : ~(x[1] = c /\ Restores(c, r, x[2]))}
  /\ UNCHANGED <<up, sessions, space, forwarded, lapsed, replaced>>

CancelSubscription(c, r) ==
  /\ c \in up /\ r \in records[c]
  /\ records' = [records EXCEPT ![c] = @ \ {r}]
  /\ SendSubscription(c, r, FALSE)
  /\ cut' = cut \cup {<<c, d>> : d \in {e \in sessions[c] : Cuts(c, r, e)}}
  /\ UNCHANGED <<up, sessions, space, forwarded, lapsed, replaced, ops>>

-----------------------------------------------------------------------------
(* ServerSession: c handles a frame from src                               *)

Reads(src, c, type) == wire[src][c] # <<>> /\ Head(wire[src][c]).type = type

\* handleIncomingPair: the pair is ours.
HandleIncomingPair(src, c) ==
  /\ Reads(src, c, "Pair")
  /\ LET v == Head(wire[src][c]).val
     IN  /\ AddPair(c, c, v)
         /\ wire' = Answered(src, c, ListOf(c, c), Update(c, v))
  /\ Told(c, ListOf(c, c))
  /\ UNCHANGED <<up, sessions, records, forwarded, cut, replaced, ops>>

\* Mutant: an update goes back to where it came from, too.
HandlePairUpdateBack(src, c) ==
  /\ Reads(src, c, "PairUpdate")
  /\ LET m == Head(wire[src][c])
     IN  /\ AddPair(c, m.owner, m.val)
         /\ wire' = Answered(src, c, {src}, m)
  /\ UNCHANGED <<up, sessions, records, forwarded, lapsed, cut, replaced, ops>>

\* handlePairUpdate: applyAndNotify, which sends it on to the entry's subscribers.
HandlePairUpdate(src, c) ==
  /\ Reads(src, c, "PairUpdate")
  /\ LET m == Head(wire[src][c])
     IN  /\ AddPair(c, m.owner, m.val)
         /\ wire' = Answered(src, c, ListOf(c, m.owner), m)
         /\ forwarded' = IF ListOf(c, m.owner) \cap sessions[c] = {}
                         THEN forwarded ELSE forwarded \cup {m.owner}
  /\ UNCHANGED <<up, sessions, records, lapsed, cut, replaced, ops>>

\* handleRemovePair
HandleRemovePair(src, c) ==
  /\ Reads(src, c, "RemovePair")
  /\ RemovePair(c, c)
  /\ wire' = Answered(src, c, subscribers[c][c], Removal(c))
  /\ Told(c, subscribers[c][c])
  /\ UNCHANGED <<up, sessions, records, forwarded, cut, replaced, ops>>

\* handlePairRemoved, which sends nothing on
HandlePairRemoved(src, c) ==
  /\ Reads(src, c, "PairRemoved")
  /\ RemovePair(c, Head(wire[src][c]).owner)
  /\ wire' = Answered(src, c, {}, <<>>)
  /\ UNCHANGED <<up, sessions, records, forwarded, lapsed, cut, replaced, ops>>

\* Mutant: a new subscriber waits for the next write.
IntroduceNothing(src, c) == wire' = Answered(src, c, {}, <<>>) /\ UNCHANGED lapsed

\* A subscription is answered with the value of our pair, if it has one, also if
\* the subscriber is not on its list: then it does not hear of the next value.
Introduce(src, c) ==
  LET told == IF pairs[c][c] > Invalid THEN {src} ELSE {}
  IN  /\ wire' = Answered(src, c, told, Update(c, pairs[c][c]))
      /\ Told(c, told \cap subscribers[c][c]')

Asked(src, c, key, on) ==
  /\ Reads(src, c, "Subscription")
  /\ Head(wire[src][c]).key = key /\ Head(wire[src][c]).registering = on
  /\ UNCHANGED <<up, sessions, records, forwarded, cut, replaced, ops>>

\* handleSubscription, registering
HandleSubscribe(src, c) ==
  /\ Asked(src, c, Key, TRUE)
  /\ pairs' = [pairs EXCEPT ![c][c] = Seen(c, c)]
  /\ subscribers' = [subscribers EXCEPT ![c][c] = ListOf(c, c) \cup {src}]
  /\ Introduce(src, c)
  /\ UNCHANGED u_subscribers

HandleSubscribeToAll(src, c) ==
  /\ Asked(src, c, kWildcardKey, TRUE)
  /\ u_subscribers' = [u_subscribers EXCEPT ![c] = @ \cup {src}]
  /\ subscribers' = [subscribers EXCEPT ![c] = [o \in Components |->
       IF pairs[c][o] = Absent \/ src \in u_subscribers[c] THEN @[o] ELSE @[o] \cup {src}]]
  /\ Introduce(src, c)
  /\ UNCHANGED pairs

\* handleSubscription, cancelling
HandleUnsubscribe(src, c) ==
  /\ Asked(src, c, Key, FALSE)
  /\ subscribers' = [subscribers EXCEPT ![c][c] = @ \ {src}]
  /\ wire' = Answered(src, c, {}, <<>>)
  /\ lapsed' = lapsed \cup {<<src, c>>}
  /\ UNCHANGED <<pairs, u_subscribers>>

HandleUnsubscribeFromAll(src, c) ==
  /\ Asked(src, c, kWildcardKey, FALSE)
  /\ u_subscribers' = [u_subscribers EXCEPT ![c] = @ \ {src}]
  /\ subscribers' = [subscribers EXCEPT ![c] = [o \in Components |-> @[o] \ {src}]]
  /\ wire' = Answered(src, c, {}, <<>>)
  /\ lapsed' = lapsed \cup {<<src, c>>}
  /\ UNCHANGED pairs

Handle(src, c) ==
  \/ HandleIncomingPair(src, c) \/ HandlePairUpdate(src, c)
  \/ HandleRemovePair(src, c) \/ HandlePairRemoved(src, c)
  \/ HandleSubscribe(src, c) \/ HandleSubscribeToAll(src, c)
  \/ HandleUnsubscribe(src, c) \/ HandleUnsubscribeFromAll(src, c)

-----------------------------------------------------------------------------
(* Components that leave, and others that take their ids                   *)

\* c ends.  The others drop their sessions; their pair spaces keep what they hold
\* of c, its subscriptions included: a wildcard too that a pair was taken out of.
Leave(c) ==
  /\ Tick /\ c \in up
  /\ up' = up \ {c}
  /\ sessions' = [d \in Components |-> IF d = c THEN {} ELSE sessions[d] \ {c}]
  /\ wire' = [b \in Components |-> [d \in Components |->
                IF c \in {b, d} THEN <<>> ELSE wire[b][d]]]
  /\ pairs' = [pairs EXCEPT ![c] = Nothing]
  /\ subscribers' = [subscribers EXCEPT ![c] = [d \in Components |-> {}]]
  /\ u_subscribers' = [u_subscribers EXCEPT ![c] = {}]
  /\ records' = [records EXCEPT ![c] = {}]
  /\ lapsed' = lapsed \cup ({c} \X Components) \cup (Components \X {c})
  /\ cut' = {x \in cut : c \notin {x[1], x[2]}} \cup
             {<<c, d>> : d \in {e \in Components \ {c} : c \in u_subscribers[e] \ ListOf(e, e)}}
  /\ UNCHANGED <<forwarded, replaced>>

\* A component joins under c's id, and its welcome names the others.  It has no
\* subscriptions yet.
Join(c) ==
  /\ c \notin up
  /\ up' = up \cup {c}
  /\ sessions' = [sessions EXCEPT ![c] = up]
  /\ replaced' = replaced \cup {c}
  /\ UNCHANGED <<space, records, wire, forwarded, lapsed, cut, ops>>

\* Mutant: the subscriptions are not sent to those who join later.
AnnounceSilently(d, c) ==
  /\ d \in up /\ c \in up \ (sessions[d] \cup {d})
  /\ sessions' = [sessions EXCEPT ![d] = @ \cup {c}]
  /\ UNCHANGED <<up, space, records, wire, forwarded, lapsed, cut, replaced, ops>>

\* d hears of c, connects to it and sends it the subscriptions that cover it.
Announce(d, c) ==
  /\ d \in up /\ c \in up \ (sessions[d] \cup {d})
  /\ sessions' = [sessions EXCEPT ![d] = @ \cup {c}]
  /\ wire' = [wire EXCEPT ![d][c] = Replay(records[d], c)]
  /\ UNCHANGED <<up, space, records, forwarded, lapsed, cut, replaced, ops>>

-----------------------------------------------------------------------------

\* What the application of c does.
Application(c) ==
  \/ c \in Writes[c] /\ (SetPair(c) \/ RemoveOwnPair(c))
  \/ \E d \in Writes[c] \ {c} : SetRemotePair(c, d) \/ RemoveRemotePair(c, d)
  \/ \E r \in Offers[c] : RegisterSubscription(c, r) \/ CancelSubscription(c, r)

NetNext ==
  \/ \E c \in Components : Application(c) \/ Leave(c) \/ Join(c)
  \/ \E src, c \in Components : Handle(src, c) \/ Announce(src, c)

NetSpec == NetInit([c \in Components |-> {}]) /\ [][NetNext]_net

-----------------------------------------------------------------------------
(* Properties                                                              *)

NetTypeOK ==
  /\ up \subseteq Components
  /\ sessions \in [Components -> SUBSET Components]
  /\ pairs \in [Components -> [Components -> Nat \cup {Absent}]]
  /\ subscribers \in [Components -> [Components -> SUBSET Components]]
  /\ u_subscribers \in [Components -> SUBSET Components]
  /\ records \in [Components -> SUBSET Record]
  /\ wire \in [Components -> [Components -> Seq(Frame)]]
  /\ ops \in 0..MaxOps
  /\ forwarded \subseteq Components
  /\ lapsed \subseteq Components \X Components
  /\ cut \subseteq Components \X Components
  /\ replaced \subseteq Components

\* A frame about o's pair is on its way to c.
OnItsWay(c, o) ==
  \E d \in Components : \E i \in 1..Len(wire[d][c]) :
    wire[d][c][i].type \in {"PairUpdate", "PairRemoved"} /\ wire[d][c][i].owner = o

\* Nobody is told about its own pair: what a component published or was asked to
\* hold is never overwritten by what others heard of it.
NoEcho == \A c \in Components : ~OnItsWay(c, c)

\* What NoEcho needs: the components can be put in an order R in which each comes
\* after those whose pairs it may ask for.  The members of Top may ask for any.
Orders(R, Top) ==
  /\ \A x, y, z \in Components : <<x, y>> \in R /\ <<y, z>> \in R => <<x, z>> \in R
  /\ \A x \in Components : <<x, x>> \notin R
  /\ \A c \in Components : \A d \in Components \ {c} :
       c \in Top \/ (\E r \in Offers[c] : Covers(r, d)) => <<c, d>> \in R

Acyclic(Top) == \E R \in SUBSET (Components \X Components) : Orders(R, Top)

\* A subscriber to whom nothing is on its way sees what the owner of a pair sees,
\* after any publishing, deleting, restarting and subscribing, unless somebody
\* else sent the pair on, or it was away for what became of it.
CurrentUnlessForwarded ==
  \A c, d \in up :
    /\ c # d /\ c \in subscribers[d][d] /\ ~OnItsWay(c, d)
    /\ d \notin forwarded /\ <<c, d>> \notin lapsed
    => Seen(c, d) = Seen(d, d)

\* c is connected to d, and nothing that it has asked of d, or taken back, is unread.
Settled(c, d) ==
  d \in sessions[c] /\ \A i \in 1..Len(wire[c][d]) : wire[c][d][i].type # "Subscription"

\* An owner sends its pair to a component exactly when one of its subscriptions
\* covers the pair, after restarts of either too, except that cancelling one of
\* two that cover it ends both (cut), and that a component gets what an earlier
\* one asked for under its id (replaced).  The two meet where a wildcard of the
\* earlier one is still there but for the pair: one of the later adds nothing.
ListedIsAsked ==
  \A c, d \in up : Settled(c, d) /\ <<c, d>> \notin cut /\ pairs[d][d] # Absent =>
    IF Covered(c, d) THEN c \in subscribers[d][d]
                     ELSE c \in subscribers[d][d] => c \in replaced

\* The traffic about a finite number of changes ends.
Quiet == <>[](\A c, d \in Components : wire[c][d] = <<>>)

\* "It gets the current value without waiting for the next write": a component
\* that is subscribed and to whom nothing is on its way has a value of the pair
\* if the owner has.
LateSubscriberServed ==
  \A c, d \in up :
    Settled(c, d) /\ Covered(c, d) /\ c \in subscribers[d][d] /\ ~OnItsWay(c, d)
      => (Seen(d, d) > Invalid => Seen(c, d) > Invalid)

\* "A subscriber never forwards a pair it received": whoever sends an update owns
\* the pair.
OnlyOwnersSend ==
  \A c, d \in Components : \A i \in 1..Len(wire[c][d]) :
    wire[c][d][i].type = "PairUpdate" => wire[c][d][i].owner = c
=============================================================================
