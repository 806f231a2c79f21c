----------------------------- MODULE MasterHub ------------------------------
(***************************************************************************)
(* The master and what the components know of each other: MasterHub of     *)
(* src/src/master_hub.cpp, MasterLink of src/src/server.cpp and the list   *)
(* of components that Client of src/src/client.cpp keeps.                  *)
(*                                                                         *)
(* The master runs on one thread, so a session's coroutine runs from one   *)
(* read to the next without interruption: registering a component and      *)
(* removing it are one action each.  The components are separate           *)
(* processes.  A component here is one connection to the master: a process *)
(* that restarts is another component, with the same Seed if it gets the   *)
(* same port.                                                              *)
(*                                                                         *)
(* The connections to the master are reliable and FIFO; they carry control *)
(* frames only, which FrameChannel never drops.  They may break at any     *)
(* time, because the component ends or because the connection does; a      *)
(* component that has lost the master carries on without it.               *)
(***************************************************************************)
EXTENDS Integers, Sequences

CONSTANTS Components,  \* the connections made to the master
          Ids,         \* bound: the owner ids that can be given out
          Seed,        \* the id a component's port draws from the generator
          Desired,     \* the ids that may be asked for, kAnyOwner among them
          kAnyOwner

ASSUME IdsAssumption ==
  /\ Ids \subseteq Nat
  /\ kAnyOwner \notin Ids
  /\ Seed \in [Components -> Ids]
  /\ Desired \subseteq Ids \cup {kAnyOwner}

VARIABLES
  sessions,  \* sessions_ of the master, as pairs <<owner id, component>>
  session,   \* where each MasterHubSession::run is
  owner,     \* MasterHubSession::owner_
  process,   \* what each component is doing
  wish,      \* the id it asked for
  owner_id,  \* Client::owner_id_
  known,     \* Client::components_ and sessions_, as pairs <<owner id, component>>
  inbox      \* the frames on their way from the master

vars == <<sessions, session, owner, process, wish, owner_id, known, inbox>>

Welcome(i, all) == [type |-> "Welcome", id |-> i, all |-> all]
Added(i, c)     == [type |-> "Add", id |-> i, who |-> c]
Removed(i)      == [type |-> "Remove", id |-> i]

Init ==
  /\ sessions = {}
  /\ session = [c \in Components |-> "none"]
  /\ owner = [c \in Components |-> kAnyOwner]
  /\ process = [c \in Components |-> "new"]
  /\ wish = [c \in Components |-> kAnyOwner]
  /\ owner_id = [c \in Components |-> kAnyOwner]
  /\ known = [c \in Components |-> {}]
  /\ inbox = [c \in Components |-> <<>>]

-----------------------------------------------------------------------------
(* The master                                                              *)

Contains(map, i) == \E c \in Components : <<i, c>> \in map

\* std::map: emplace() keeps what is there, insert_or_assign() replaces it.
Without(map, i)    == {e \in map : e[1] # i}
Emplace(map, i, c) == IF Contains(map, i) THEN map ELSE map \cup {<<i, c>>}
Assign(map, i, c)  == Without(map, i) \cup {<<i, c>>}

\* makeOwnerId: the first free id from the seed on.
FreeFrom(seed, i) ==
  /\ i >= seed
  /\ ~Contains(sessions, i)
  /\ \A j \in Ids : j \in seed..(i - 1) => Contains(sessions, j)

\* Mutant: a wish is granted although the id is taken.
AssignedTaken(c, i) ==
  IF wish[c] # kAnyOwner THEN i = wish[c] ELSE FreeFrom(Seed[c], i)

\* The id registerComponent settles on: the wish if it can be had.
Assigned(c, i) ==
  IF wish[c] # kAnyOwner /\ ~Contains(sessions, wish[c])
  THEN i = wish[c]
  ELSE FreeFrom(Seed[c], i)

\* The connection is broken: what is sent down it is lost.
Disconnected(c) == process[c] \in {"orphan", "gone"}

Sent(q, c, m) == IF Disconnected(c) THEN q ELSE Append(q, m)

\* Mutant: the component an update is about is told of it, too.
SendToEveryone(map, i, m, q) ==
  [c \in Components |->
     IF \E j \in Ids : <<j, c>> \in map THEN Sent(q[c], c, m) ELSE q[c]]

\* sendToAll: every registered session but the one the update is about.
SendToAll(map, i, m, q) ==
  [c \in Components |->
     IF \E j \in Ids : j # i /\ <<j, c>> \in map THEN Sent(q[c], c, m) ELSE q[c]]

\* MasterHubSession::run up to its second read: the component is registered,
\* told who else is there, and announced to them.
Register(c) ==
  \E i \in Ids :
    LET map     == Emplace(sessions, i, c)
        replied == [inbox EXCEPT ![c] = Sent(@, c, Welcome(i, sessions))]
    IN  /\ session[c] = "hello"
        /\ Assigned(c, i)
        /\ sessions' = map
        /\ owner' = [owner EXCEPT ![c] = i]
        /\ session' = [session EXCEPT ![c] = "registered"]
        /\ inbox' = SendToAll(map, i, Added(i, c), replied)
        /\ UNCHANGED <<process, wish, owner_id, known>>

\* Mutant: nobody is told.
UnregisterSilently(c) ==
  /\ session[c] = "registered"
  /\ Disconnected(c)
  /\ sessions' = Without(sessions, owner[c])
  /\ session' = [session EXCEPT ![c] = "ended"]
  /\ UNCHANGED <<owner, process, wish, owner_id, known, inbox>>

\* run() leaves its second read when the connection breaks, and ends.
Unregister(c) ==
  LET i   == owner[c]
      map == Without(sessions, i)
  IN  /\ session[c] = "registered"
      /\ Disconnected(c)
      /\ sessions' = map
      /\ inbox' = SendToAll(map, i, Removed(i), inbox)
      /\ session' = [session EXCEPT ![c] = "ended"]
      /\ UNCHANGED <<owner, process, wish, owner_id, known>>

\* The same before the component had introduced itself: there is nothing to undo.
Forget(c) ==
  /\ session[c] = "hello"
  /\ Disconnected(c)
  /\ session' = [session EXCEPT ![c] = "ended"]
  /\ UNCHANGED <<sessions, owner, process, wish, owner_id, known, inbox>>

-----------------------------------------------------------------------------
(* The components                                                          *)

\* MasterLink's constructor, and the request of registerWithMaster.
Join(c, i) ==
  /\ process[c] = "new"
  /\ process' = [process EXCEPT ![c] = "joining"]
  /\ wish' = [wish EXCEPT ![c] = i]
  /\ session' = [session EXCEPT ![c] = "hello"]
  /\ UNCHANGED <<sessions, owner, owner_id, known, inbox>>

\* The reply of registerWithMaster, and Client::onWelcome.
ReadWelcome(c) ==
  /\ process[c] = "joining"
  /\ inbox[c] # <<>>
  /\ owner_id' = [owner_id EXCEPT ![c] = Head(inbox[c]).id]
  /\ known' = [known EXCEPT ![c] = Head(inbox[c]).all]
  /\ process' = [process EXCEPT ![c] = "up"]
  /\ inbox' = [inbox EXCEPT ![c] = Tail(@)]
  /\ UNCHANGED <<sessions, session, owner, wish>>

\* Mutant: removeSession closes the session and leaves components_ alone.
AppliedAdds(map, m) == IF m.type = "Add" THEN Assign(map, m.id, m.who) ELSE map

\* What onComponentUpdate makes of an update: addSession or removeSession.
Applied(map, m) == IF m.type = "Add" THEN Assign(map, m.id, m.who) ELSE Without(map, m.id)

\* One frame of MasterLink::run.
ReadUpdate(c) ==
  /\ process[c] = "up"
  /\ inbox[c] # <<>>
  /\ known' = [known EXCEPT ![c] = Applied(@, Head(inbox[c]))]
  /\ inbox' = [inbox EXCEPT ![c] = Tail(@)]
  /\ UNCHANGED <<sessions, session, owner, process, wish, owner_id>>

\* The component exits or crashes.
End(c) ==
  /\ process[c] \in {"joining", "up", "orphan"}
  /\ process' = [process EXCEPT ![c] = "gone"]
  /\ inbox' = [inbox EXCEPT ![c] = <<>>]
  /\ UNCHANGED <<sessions, session, owner, wish, owner_id, known>>

\* The connection breaks and MasterLink::run ends: the component keeps its id
\* and what it knows, and is told nothing more.
LoseMaster(c) ==
  /\ process[c] = "up"
  /\ process' = [process EXCEPT ![c] = "orphan"]
  /\ inbox' = [inbox EXCEPT ![c] = <<>>]
  /\ UNCHANGED <<sessions, session, owner, wish, owner_id, known>>

-----------------------------------------------------------------------------

Master(c) == Register(c) \/ Unregister(c) \/ Forget(c)
Reads(c)  == ReadWelcome(c) \/ ReadUpdate(c)

Next ==
  \E c \in Components :
    \/ Master(c) \/ Reads(c) \/ End(c) \/ LoseMaster(c)
    \/ \E i \in Desired : Join(c, i)

Spec == Init /\ [][Next]_vars

\* The master serves its sessions and notices broken ones; components read.
Fairness == \A c \in Components : WF_vars(Master(c)) /\ WF_vars(Reads(c))

FairSpec == Spec /\ Fairness

-----------------------------------------------------------------------------
(* Properties                                                              *)

Map     == SUBSET (Ids \X Components)
Message == [type : {"Welcome"}, id : Ids, all : Map]
             \cup [type : {"Add"}, id : Ids, who : Components]
             \cup [type : {"Remove"}, id : Ids]

TypeOK ==
  /\ sessions \in Map
  /\ session \in [Components -> {"none", "hello", "registered", "ended"}]
  /\ owner \in [Components -> Ids \cup {kAnyOwner}]
  /\ process \in [Components -> {"new", "joining", "up", "orphan", "gone"}]
  /\ wish \in [Components -> Ids \cup {kAnyOwner}]
  /\ owner_id \in [Components -> Ids \cup {kAnyOwner}]
  /\ known \in [Components -> Map]
  /\ inbox \in [Components -> Seq(Message)]

\* The master's map names each registered session under the id it was given,
\* whatever was forced, taken or freed: removing one never removes another.
MapExact ==
  /\ \A c \in Components, i \in Ids :
       <<i, c>> \in sessions <=> session[c] = "registered" /\ owner[c] = i
  /\ \A c, d \in Components :
       session[c] = "registered" /\ session[d] = "registered" /\ owner[c] = owner[d] => c = d

\* Two components that are there go by one id only when one of them has lost the
\* master, which takes a broken connection for the end of its component.
IdsUnique ==
  \A c, d \in Components :
    process[c] = "up" /\ process[d] \in {"up", "orphan"} /\ owner_id[c] = owner_id[d]
      => c = d \/ (process[d] = "orphan" /\ session[d] = "ended")

\* Ids name components, at the master and among the components.
SessionsAgree == MapExact /\ IdsUnique

\* What a frame makes of what a component knows.
Told(map, m) == IF m.type = "Welcome" THEN m.all ELSE Applied(map, m)

\* What a component that knows map will know when it has read the first n frames
\* of q.
Views(map, q) ==
  LET view[n \in 0..Len(q)] == IF n = 0 THEN map ELSE Told(view[n - 1], q[n])
  IN  view

Ahead(c) == Views(known[c], inbox[c])

\* Once a component has read what is on its way it knows exactly the others
\* that are registered: no order of joins, crashes and id reuse confuses it.
ViewsSettle ==
  \A c \in Components :
    session[c] = "registered" /\ process[c] \in {"joining", "up"}
      => Ahead(c)[Len(inbox[c])] = Without(sessions, owner[c])

\* A component never hears of itself: "the master never lists us to ourselves"
\* (Client::components), also when its id was another's before.
NeverListsSelf ==
  \A c \in Components : process[c] \in {"up", "orphan"} =>
    /\ ~Contains(known[c], owner_id[c])
    /\ \A n \in 1..Len(inbox[c]) : inbox[c][n].id # owner_id[c]

\* addSession never finds a session under the id it adds.  Replacing one would
\* drop it without closing it: its coroutine would go on trying to connect.
NothingReplaced ==
  \A c \in Components : \A n \in 1..Len(inbox[c]) :
    process[c] = "up" /\ inbox[c][n].type = "Add"
      => ~Contains(Ahead(c)[n - 1], inbox[c][n].id)

\* The announcements make sense to whoever reads them, in the order in which
\* they were sent: none is about the reader, none adds what is there already.
AnnouncementsFit == NeverListsSelf /\ NothingReplaced

\* The others that are registered and still there.
Alive(c) ==
  {<<owner[d], d>> : d \in {e \in Components \ {c} :
                              session[e] = "registered" /\ ~Disconnected(e)}}

\* A component that keeps its link learns of every other, and forgets the ones
\* that ended, once no one joins or ends for long enough.
ViewsConverge ==
  \A c \in Components : (process[c] = "up") ~> (process[c] # "up" \/ known[c] = Alive(c))

=============================================================================
