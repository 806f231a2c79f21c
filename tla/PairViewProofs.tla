--------------------------- MODULE PairViewProofs ---------------------------
(***************************************************************************)
(* Theorems about Network and the window in it, for any components,        *)
(* subscriptions and writers and any number of operations.                 *)
(***************************************************************************)
EXTENDS PairView, SequenceTheorems, TLAPS

-----------------------------------------------------------------------------
(* Steps of the network                                                    *)

\* A call of c's application, whatever it may ask for.
Call(c) ==
  \/ SetPair(c) \/ RemoveOwnPair(c)
  \/ \E d \in Components : SetRemotePair(c, d) \/ RemoveRemotePair(c, d)
  \/ \E r \in Record : RegisterSubscription(c, r) \/ CancelSubscription(c, r)

NetStep ==
  \/ \E c \in Components : Call(c) \/ Leave(c) \/ Join(c)
  \/ \E src, c \in Components : Handle(src, c) \/ Announce(src, c)

\* The applications' calls are among them ...
LEMMA NetNextSteps == [NetNext]_net => [NetStep]_net
<1>1. ASSUME NEW c \in Components, Application(c) PROVE Call(c)
  BY <1>1, OffersAssumption DEF Application, Call
<1> QED
  BY <1>1 DEF NetNext, NetStep

\* ... and so are those of the window, made by its own component.
LEMMA WindowCalls ==
  ASSUME TypeOK, Window
  PROVE  Call(gui) \/ UNCHANGED net
<1> USE ViewAssumption
<1>1. Everything \in Record /\ \A o \in Components : PerPair(o) \in Record
  BY DEF Everything, PerPair, Record
<1>2. ASSUME NEW o \in Components, Post(o) PROVE Call(gui)
  BY <1>2 DEF Post, Call
<1>3. ASSUME ConfirmDelete PROVE Call(gui) \/ UNCHANGED net
  <2>1. selection \in Components
    BY <1>3 DEF ConfirmDelete, Asking, Selected, snapshotPairs
  <2> QED
    BY <1>3, <2>1 DEF ConfirmDelete, Call
<1>4. ASSUME ToggleEverything PROVE Call(gui)
  BY <1>1, <1>4 DEF ToggleEverything, Call
<1>5. ASSUME SubscribeToSelected PROVE Call(gui)
  BY <1>1, <1>5 DEF SubscribeToSelected, Call
<1>6. ASSUME NEW o \in Components, UntogglePair(o) PROVE Call(gui)
  BY <1>1, <1>6 DEF UntogglePair, Call
<1>7. ASSUME NEW o \in Components,
             PressDelete \/ CancelDelete \/ PopupCloses \/ Select(o) \/ JumpToTarget(o)
      PROVE  UNCHANGED net
  BY <1>7 DEF PressDelete, CancelDelete, PopupCloses, Select, JumpToTarget
<1> QED
  BY <1>2, <1>3, <1>4, <1>5, <1>6, <1>7 DEF Window

LEMMA WindowSteps ==
  ASSUME TypeOK, [Next]_vars
  PROVE  [NetStep]_net
<1>1. ASSUME NEW c \in Components, Application(c) PROVE Call(c)
  BY <1>1, OffersAssumption DEF Application, Call
<1>2. Others \/ Handlers => NetStep
  BY <1>1 DEF Others, Handlers, NetStep
<1>3. Call(gui) => NetStep
  BY ViewAssumption DEF NetStep
<1> QED
  BY <1>2, <1>3, WindowCalls DEF Next, vars

-----------------------------------------------------------------------------
(* Queues                                                                  *)

\* q2 is q without its first frame, and q2 is q with one more.
Shifted(q, q2) ==
  /\ Len(q) \in Nat \ {0} /\ Len(q2) = Len(q) - 1
  /\ \A i \in 1..Len(q2) : q2[i] = q[i + 1]

Extended(q, q2, f) ==
  /\ Len(q) \in Nat /\ Len(q2) = Len(q) + 1 /\ q2[Len(q) + 1] = f
  /\ \A i \in 1..Len(q) : q2[i] = q[i]

LEMMA TailShifts ==
  ASSUME NEW S, NEW q \in Seq(S), q # <<>>
  PROVE  Tail(q) \in Seq(S) /\ Shifted(q, Tail(q)) /\ Head(q) = q[1] /\ Head(q) \in S
BY DEF Shifted

LEMMA AppendExtends ==
  ASSUME NEW S, NEW q \in Seq(S), NEW f \in S
  PROVE  Append(q, f) \in Seq(S) /\ Extended(q, Append(q, f), f)
BY DEF Extended

LEMMA FrameFacts ==
  ASSUME NEW f \in Frame
  PROVE  /\ f.type \in {"Pair", "RemovePair", "PairUpdate", "PairRemoved", "Subscription"}
         /\ f.type # "Subscription" => f.val \in Nat
         /\ f.type \in {"PairUpdate", "PairRemoved"} => f.owner \in Components
         /\ f.type = "Subscription" => f.key \in {Key, kWildcardKey} /\ f.registering \in BOOLEAN
BY DEF Frame

LEMMA FramesMade ==
  /\ \A o \in Components, v \in Nat :
       /\ Update(o, v) \in Frame /\ Removal(o) \in Frame
       /\ [type |-> "Pair", val |-> v] \in Frame /\ [type |-> "RemovePair", val |-> v] \in Frame
  /\ \A key \in {Key, kWildcardKey}, on \in BOOLEAN :
       [type |-> "Subscription", key |-> key, registering |-> on] \in Frame
BY DEF Frame, Update, Removal, Invalid

\* What sending and answering do to each connection.
LEMMA SentWires ==
  ASSUME NetTypeOK, NEW c \in Components, NEW to, NEW m, m \in Frame \/ to \cap sessions[c] = {}
  PROVE  /\ Sent(c, to, m) \in [Components -> [Components -> Seq(Frame)]]
         /\ \A x, y \in Components :
              Sent(c, to, m)[x][y] = IF x = c /\ y \in to \cap sessions[c]
                                     THEN Append(wire[x][y], m) ELSE wire[x][y]
<1>1. wire \in [Components -> [Components -> Seq(Frame)]]
  BY DEF NetTypeOK
<1> DEFINE row == [d \in Components |-> IF d \in to \cap sessions[c]
                                        THEN Append(wire[c][d], m) ELSE wire[c][d]]
<1>2. row \in [Components -> Seq(Frame)]
  <2>1. ASSUME NEW d \in Components PROVE row[d] \in Seq(Frame)
    BY <1>1
  <2> QED
    BY <2>1
<1>3. Sent(c, to, m) = [wire EXCEPT ![c] = row]
  BY DEF Sent
<1> HIDE DEF row
<1>4. Sent(c, to, m) \in [Components -> [Components -> Seq(Frame)]]
  BY <1>1, <1>2, <1>3
<1>5. \A x, y \in Components :
        Sent(c, to, m)[x][y] = IF x = c THEN row[y] ELSE wire[x][y]
  BY <1>1, <1>3
<1> QED
  BY <1>4, <1>5 DEF row

LEMMA AnsweredWires ==
  ASSUME NetTypeOK, NEW src \in Components, NEW c \in Components, src # c, NEW to, NEW m,
         m \in Frame \/ to \cap sessions[c] = {}, wire[src][c] # <<>>
  PROVE  /\ Answered(src, c, to, m) \in [Components -> [Components -> Seq(Frame)]]
         /\ Answered(src, c, to, m)[src][c] = Tail(wire[src][c])
         /\ \A x, y \in Components : x # src \/ y # c =>
              Answered(src, c, to, m)[x][y] = IF x = c /\ y \in to \cap sessions[c]
                                              THEN Append(wire[x][y], m) ELSE wire[x][y]
<1> DEFINE S == Sent(c, to, m)
<1>1. S \in [Components -> [Components -> Seq(Frame)]] /\ S[src][c] = wire[src][c]
  BY SentWires
<1>2. Answered(src, c, to, m) = [S EXCEPT ![src][c] = Tail(@)]
  BY DEF Answered
<1>3. wire[src][c] \in Seq(Frame)
  BY DEF NetTypeOK
<1>4. Tail(wire[src][c]) \in Seq(Frame)
  BY <1>3, TailShifts
<1>5. \A x, y \in Components :
        S[x][y] = IF x = c /\ y \in to \cap sessions[c]
                  THEN Append(wire[x][y], m) ELSE wire[x][y]
  BY SentWires
<1> HIDE DEF S
<1>6. Answered(src, c, to, m) \in [Components -> [Components -> Seq(Frame)]]
  BY <1>1, <1>2, <1>4
<1>7. Answered(src, c, to, m)[src][c] = Tail(wire[src][c])
  BY <1>1, <1>2
<1>8. \A x, y \in Components : x # src \/ y # c => Answered(src, c, to, m)[x][y] = S[x][y]
  BY <1>1, <1>2
<1> QED
  BY <1>5, <1>6, <1>7, <1>8

-----------------------------------------------------------------------------
(* Types and connections                                                   *)

\* Sessions and frames are between different components that are there; who has
\* left keeps nothing, and who has not yet connected is on none of the lists.  An
\* entry that is not there has no list.
SessionsUp == \A c \in Components : sessions[c] \subseteq up \ {c}
DownBare ==
  \A c \in Components \ up :
    /\ sessions[c] = {} /\ records[c] = {} /\ u_subscribers[c] = {}
    /\ \A o \in Components : subscribers[c][o] = {} /\ pairs[c][o] = Absent
Unconnected == \A c, d \in Components : d \notin sessions[c] => wire[c][d] = <<>>
NotAsked ==
  \A c \in up, d \in Components : d \notin sessions[c] =>
    c \notin u_subscribers[d] /\ \A o \in Components : c \notin subscribers[d][o]
AbsentBare == \A d \in Components : pairs[d][d] = Absent => subscribers[d][d] = {}

Links == NetTypeOK /\ SessionsUp /\ DownBare /\ Unconnected /\ NotAsked /\ AbsentBare

\* Whoever reads is there, and so is who has sent.
LEMMA ReadersUp ==
  ASSUME Links, NEW src \in Components, NEW c \in Components, wire[src][c] # <<>>
  PROVE  src # c /\ src \in up /\ c \in up /\ c \in sessions[src]
BY DEF Links, SessionsUp, DownBare, Unconnected

LEMMA HeadFacts ==
  ASSUME NetTypeOK, NEW src \in Components, NEW c \in Components, wire[src][c] # <<>>
  PROVE  /\ wire[src][c] \in Seq(Frame) /\ Head(wire[src][c]) \in Frame
         /\ Head(wire[src][c]) = wire[src][c][1]
         /\ Shifted(wire[src][c], Tail(wire[src][c]))
<1>1. wire[src][c] \in Seq(Frame)
  BY DEF NetTypeOK
<1> QED
  BY <1>1, TailShifts

\* The pair space of c after a pair of o is set or removed.
SpaceTypes(ps, ss, us) ==
  /\ ps \in [Components -> [Components -> Nat \cup {Absent}]]
  /\ ss \in [Components -> [Components -> SUBSET Components]]
  /\ us \in [Components -> SUBSET Components]

Elsewhere(c) ==
  \A y \in Components : y # c =>
    pairs'[y] = pairs[y] /\ subscribers'[y] = subscribers[y] /\ u_subscribers'[y] = u_subscribers[y]

LEMMA Added ==
  ASSUME NetTypeOK, NEW c \in Components, NEW o \in Components, NEW v \in Nat, AddPair(c, o, v)
  PROVE  /\ SpaceTypes(pairs', subscribers', u_subscribers') /\ Elsewhere(c)
         /\ u_subscribers'[c] = u_subscribers[c]
         /\ pairs'[c][o] = v /\ subscribers'[c][o] = ListOf(c, o)
         /\ \A e \in Components : e # o =>
              pairs'[c][e] = pairs[c][e] /\ subscribers'[c][e] = subscribers[c][e]
<1>1. ListOf(c, o) \in SUBSET Components
  BY DEF NetTypeOK, ListOf
<1> QED
  BY <1>1 DEF NetTypeOK, AddPair, SpaceTypes, Elsewhere

LEMMA Removed ==
  ASSUME NetTypeOK, NEW c \in Components, NEW o \in Components, RemovePair(c, o)
  PROVE  /\ SpaceTypes(pairs', subscribers', u_subscribers') /\ Elsewhere(c)
         /\ u_subscribers' = u_subscribers /\ subscribers' = subscribers
         /\ pairs'[c][o] = IF pairs[c][o] = Absent \/ subscribers[c][o] = {}
                           THEN Absent ELSE Invalid
         /\ \A e \in Components : e # o => pairs'[c][e] = pairs[c][e]
BY DEF NetTypeOK, RemovePair, SpaceTypes, Elsewhere, Invalid

LEMMA Listed ==
  ASSUME NetTypeOK, NEW src \in Components, NEW c \in Components, HandleSubscribe(src, c)
  PROVE  /\ SpaceTypes(pairs', subscribers', u_subscribers') /\ Elsewhere(c)
         /\ u_subscribers' = u_subscribers
         /\ pairs'[c][c] = Seen(c, c) /\ subscribers'[c][c] = ListOf(c, c) \cup {src}
         /\ \A e \in Components : e # c =>
              pairs'[c][e] = pairs[c][e] /\ subscribers'[c][e] = subscribers[c][e]
<1>1. ListOf(c, c) \in SUBSET Components /\ Seen(c, c) \in Nat \cup {Absent}
  BY DEF NetTypeOK, ListOf, Seen, Invalid
<1> QED
  BY <1>1 DEF NetTypeOK, HandleSubscribe, SpaceTypes, Elsewhere

LEMMA ListedEverywhere ==
  ASSUME NetTypeOK, NEW src \in Components, NEW c \in Components, HandleSubscribeToAll(src, c)
  PROVE  /\ SpaceTypes(pairs', subscribers', u_subscribers') /\ Elsewhere(c)
         /\ pairs' = pairs /\ u_subscribers'[c] = u_subscribers[c] \cup {src}
         /\ \A e \in Components :
              subscribers'[c][e] = IF pairs[c][e] = Absent \/ src \in u_subscribers[c]
                                   THEN subscribers[c][e] ELSE subscribers[c][e] \cup {src}
<1> DEFINE row == [o \in Components |->
                     IF pairs[c][o] = Absent \/ src \in u_subscribers[c]
                     THEN subscribers[c][o] ELSE subscribers[c][o] \cup {src}]
<1>1. subscribers' = [subscribers EXCEPT ![c] = row]
  BY DEF HandleSubscribeToAll
<1>2. row \in [Components -> SUBSET Components]
  BY DEF NetTypeOK
<1>3. \A e \in Components : row[e] = IF pairs[c][e] = Absent \/ src \in u_subscribers[c]
                                     THEN subscribers[c][e] ELSE subscribers[c][e] \cup {src}
  OBVIOUS
<1> HIDE DEF row
<1> QED
  BY <1>1, <1>2, <1>3 DEF NetTypeOK, HandleSubscribeToAll, SpaceTypes, Elsewhere

LEMMA Unlisted ==
  ASSUME NetTypeOK, NEW src \in Components, NEW c \in Components, HandleUnsubscribe(src, c)
  PROVE  /\ SpaceTypes(pairs', subscribers', u_subscribers') /\ Elsewhere(c)
         /\ pairs' = pairs /\ u_subscribers' = u_subscribers
         /\ subscribers'[c][c] = subscribers[c][c] \ {src}
         /\ \A e \in Components : e # c => subscribers'[c][e] = subscribers[c][e]
BY DEF NetTypeOK, HandleUnsubscribe, SpaceTypes, Elsewhere

LEMMA UnlistedEverywhere ==
  ASSUME NetTypeOK, NEW src \in Components, NEW c \in Components, HandleUnsubscribeFromAll(src, c)
  PROVE  /\ SpaceTypes(pairs', subscribers', u_subscribers') /\ Elsewhere(c)
         /\ pairs' = pairs /\ u_subscribers'[c] = u_subscribers[c] \ {src}
         /\ \A e \in Components : subscribers'[c][e] = subscribers[c][e] \ {src}
<1> DEFINE row == [o \in Components |-> subscribers[c][o] \ {src}]
<1>1. subscribers' = [subscribers EXCEPT ![c] = row]
  BY DEF HandleUnsubscribeFromAll
<1>2. row \in [Components -> SUBSET Components]
  BY DEF NetTypeOK
<1>3. \A e \in Components : row[e] = subscribers[c][e] \ {src}
  OBVIOUS
<1> HIDE DEF row
<1> QED
  BY <1>1, <1>2, <1>3 DEF NetTypeOK, HandleUnsubscribeFromAll, SpaceTypes, Elsewhere

\* A frame about a pair, and q2 is q or has one of these more.
News == {m \in Frame : m.type \in {"PairUpdate", "PairRemoved"}}
Grown(q, q2) == q2 = q \/ \E m \in News : Extended(q, q2, m)

LEMMA NewsMade ==
  \A o \in Components, v \in Nat : Update(o, v) \in News /\ Removal(o) \in News
BY FramesMade DEF News, Update, Removal

\* What every handler does besides changing the pair space of c.
Answers(src, c) ==
  /\ SpaceTypes(pairs', subscribers', u_subscribers') /\ Elsewhere(c)
  /\ UNCHANGED <<up, sessions, records, cut, replaced, ops>>
  /\ wire' \in [Components -> [Components -> Seq(Frame)]]
  /\ wire'[src][c] = Tail(wire[src][c]) /\ Shifted(wire[src][c], wire'[src][c])
  /\ \A x, y \in Components : x # src \/ y # c => Grown(wire[x][y], wire'[x][y])
  /\ \A x, y \in Components : (x # src \/ y # c) /\ (x # c \/ y \notin sessions[c]) =>
       wire'[x][y] = wire[x][y]
  /\ forwarded' \subseteq Components /\ lapsed' \subseteq Components \X Components

LEMMA AnswerWires ==
  ASSUME Links, NEW src \in Components, NEW c \in Components, wire[src][c] # <<>>,
         NEW to, NEW m, m \in News \/ to \cap sessions[c] = {}, wire' = Answered(src, c, to, m)
  PROVE  /\ wire' \in [Components -> [Components -> Seq(Frame)]]
         /\ wire'[src][c] = Tail(wire[src][c]) /\ Shifted(wire[src][c], wire'[src][c])
         /\ \A x, y \in Components : x # src \/ y # c => Grown(wire[x][y], wire'[x][y])
         /\ \A x, y \in Components : (x # src \/ y # c) /\ (x # c \/ y \notin sessions[c]) =>
              wire'[x][y] = wire[x][y]
<1>1. NetTypeOK /\ src # c
  BY ReadersUp DEF Links
<1>2. m \in Frame \/ to \cap sessions[c] = {}
  BY DEF News
<1>3. /\ wire' \in [Components -> [Components -> Seq(Frame)]]
      /\ wire'[src][c] = Tail(wire[src][c])
      /\ \A x, y \in Components : x # src \/ y # c =>
           wire'[x][y] = IF x = c /\ y \in to \cap sessions[c]
                         THEN Append(wire[x][y], m) ELSE wire[x][y]
  BY <1>1, <1>2, AnsweredWires
<1>4. Shifted(wire[src][c], wire'[src][c])
  BY <1>1, <1>3, HeadFacts
<1>5. ASSUME NEW x \in Components, NEW y \in Components, x # src \/ y # c
      PROVE  Grown(wire[x][y], wire'[x][y])
  <2>1. CASE x = c /\ y \in to \cap sessions[c]
    <3>1. m \in News /\ m \in Frame /\ wire[x][y] \in Seq(Frame)
      BY <1>1, <2>1 DEF NetTypeOK, News
    <3>2. Extended(wire[x][y], wire'[x][y], m)
      BY <1>3, <1>5, <2>1, <3>1, AppendExtends
    <3> QED
      BY <3>1, <3>2 DEF Grown
  <2>2. CASE ~(x = c /\ y \in to \cap sessions[c])
    BY <1>3, <1>5, <2>2 DEF Grown
  <2> QED
    BY <2>1, <2>2
<1>6. \A x, y \in Components : (x # src \/ y # c) /\ (x # c \/ y \notin sessions[c]) =>
        wire'[x][y] = wire[x][y]
  BY <1>3
<1> QED
  BY <1>3, <1>4, <1>5, <1>6

LEMMA ToldTypes ==
  ASSUME NetTypeOK, NEW o, NEW list, Told(o, list)
  PROVE  lapsed' \subseteq Components \X Components
BY DEF NetTypeOK, Told

LEMMA HandlersAnswer ==
  ASSUME Links, NEW src \in Components, NEW c \in Components, Handle(src, c)
  PROVE  Answers(src, c) /\ wire[src][c] # <<>> /\ Head(wire[src][c]) \in Frame
<1>1. NetTypeOK
  BY DEF Links
<1>2. wire[src][c] # <<>>
  BY DEF Handle, HandleIncomingPair, HandlePairUpdate, HandleRemovePair, HandlePairRemoved,
         HandleSubscribe, HandleSubscribeToAll, HandleUnsubscribe, HandleUnsubscribeFromAll,
         Asked, Reads
<1> DEFINE f == Head(wire[src][c])
<1>3. f \in Frame
  BY <1>1, <1>2, HeadFacts
<1> HIDE DEF f
<1>4. UNCHANGED <<up, sessions, records, cut, replaced, ops>>
  BY DEF Handle, HandleIncomingPair, HandlePairUpdate, HandleRemovePair, HandlePairRemoved,
         HandleSubscribe, HandleSubscribeToAll, HandleUnsubscribe, HandleUnsubscribeFromAll,
         Asked
<1> DEFINE Rest == /\ SpaceTypes(pairs', subscribers', u_subscribers') /\ Elsewhere(c)
                   /\ forwarded' \subseteq Components
                   /\ lapsed' \subseteq Components \X Components
                   /\ \E to, m : /\ m \in News \/ to \cap sessions[c] = {}
                                 /\ wire' = Answered(src, c, to, m)
<1>5. ASSUME HandleIncomingPair(src, c) PROVE Rest
  <2>1. f.val \in Nat
    BY <1>3, <1>5, FrameFacts DEF HandleIncomingPair, Reads, f
  <2>2. AddPair(c, c, f.val) /\ wire' = Answered(src, c, ListOf(c, c), Update(c, f.val))
    BY <1>5 DEF HandleIncomingPair, f
  <2>3. SpaceTypes(pairs', subscribers', u_subscribers') /\ Elsewhere(c)
    BY <1>1, <2>1, <2>2, Added
  <2>4. Told(c, ListOf(c, c)) /\ forwarded' = forwarded
    BY <1>5 DEF HandleIncomingPair
  <2>5. forwarded' \subseteq Components /\ lapsed' \subseteq Components \X Components
    BY <1>1, <2>4, ToldTypes DEF NetTypeOK
  <2> QED
    BY <2>1, <2>2, <2>3, <2>5, NewsMade
<1>6. ASSUME HandlePairUpdate(src, c) PROVE Rest
  <2>1. f.val \in Nat /\ f.owner \in Components /\ f \in News
    BY <1>3, <1>6, FrameFacts DEF HandlePairUpdate, Reads, f, News
  <2>2. /\ AddPair(c, f.owner, f.val) /\ wire' = Answered(src, c, ListOf(c, f.owner), f)
        /\ forwarded' \subseteq forwarded \cup {f.owner} /\ lapsed' = lapsed
    BY <1>6 DEF HandlePairUpdate, f
  <2>3. SpaceTypes(pairs', subscribers', u_subscribers') /\ Elsewhere(c)
    BY <1>1, <2>1, <2>2, Added
  <2> QED
    BY <1>1, <2>1, <2>2, <2>3 DEF NetTypeOK
<1>7. ASSUME HandleRemovePair(src, c) PROVE Rest
  <2>1. /\ RemovePair(c, c) /\ wire' = Answered(src, c, subscribers[c][c], Removal(c))
        /\ Told(c, subscribers[c][c]) /\ forwarded' = forwarded
    BY <1>7 DEF HandleRemovePair
  <2>2. SpaceTypes(pairs', subscribers', u_subscribers') /\ Elsewhere(c)
    BY <1>1, <2>1, Removed
  <2>3. forwarded' \subseteq Components /\ lapsed' \subseteq Components \X Components
    BY <1>1, <2>1, ToldTypes DEF NetTypeOK
  <2> QED
    BY <2>1, <2>2, <2>3, NewsMade
<1>8. ASSUME HandlePairRemoved(src, c) PROVE Rest
  <2>1. f.owner \in Components
    BY <1>3, <1>8, FrameFacts DEF HandlePairRemoved, Reads, f
  <2>2. RemovePair(c, f.owner) /\ wire' = Answered(src, c, {}, <<>>)
        /\ forwarded' = forwarded /\ lapsed' = lapsed
    BY <1>8 DEF HandlePairRemoved, f
  <2>3. SpaceTypes(pairs', subscribers', u_subscribers') /\ Elsewhere(c)
    BY <1>1, <2>1, <2>2, Removed
  <2> QED
    BY <1>1, <2>2, <2>3 DEF NetTypeOK
<1>9. ASSUME Introduce(src, c), forwarded' = forwarded,
             SpaceTypes(pairs', subscribers', u_subscribers'), Elsewhere(c)
      PROVE  Rest
  <2> DEFINE told == IF pairs[c][c] > Invalid THEN {src} ELSE {}
  <2>1. /\ wire' = Answered(src, c, told, Update(c, pairs[c][c]))
        /\ Told(c, told \cap subscribers'[c][c])
    BY <1>9 DEF Introduce
  <2>2. told \cap sessions[c] = {} \/ pairs[c][c] \in Nat
    BY <1>1 DEF NetTypeOK, Absent, Invalid
  <2> HIDE DEF told
  <2>3. told \cap sessions[c] = {} \/ Update(c, pairs[c][c]) \in News
    BY <2>2, NewsMade
  <2>4. forwarded' \subseteq Components /\ lapsed' \subseteq Components \X Components
    BY <1>1, <1>9, <2>1, ToldTypes DEF NetTypeOK
  <2> QED
    BY <1>9, <2>1, <2>3, <2>4
<1>10. ASSUME HandleSubscribe(src, c) PROVE Rest
  BY <1>1, <1>9, <1>10, Listed DEF HandleSubscribe, Asked
<1>11. ASSUME HandleSubscribeToAll(src, c) PROVE Rest
  BY <1>1, <1>9, <1>11, ListedEverywhere DEF HandleSubscribeToAll, Asked
<1>12. ASSUME HandleUnsubscribe(src, c) PROVE Rest
  <2>1. SpaceTypes(pairs', subscribers', u_subscribers') /\ Elsewhere(c)
    BY <1>1, <1>12, Unlisted
  <2> QED
    BY <1>1, <1>12, <2>1 DEF NetTypeOK, HandleUnsubscribe, Asked
<1>13. ASSUME HandleUnsubscribeFromAll(src, c) PROVE Rest
  <2>1. SpaceTypes(pairs', subscribers', u_subscribers') /\ Elsewhere(c)
    BY <1>1, <1>13, UnlistedEverywhere
  <2> QED
    BY <1>1, <1>13, <2>1 DEF NetTypeOK, HandleUnsubscribeFromAll, Asked
<1>14. Rest
  <2> HIDE DEF Rest
  <2> QED
    BY <1>5, <1>6, <1>7, <1>8, <1>10, <1>11, <1>12, <1>13 DEF Handle
<1>15. PICK to, m : /\ m \in News \/ to \cap sessions[c] = {}
                    /\ wire' = Answered(src, c, to, m)
  BY <1>14
<1>16. /\ wire' \in [Components -> [Components -> Seq(Frame)]]
       /\ wire'[src][c] = Tail(wire[src][c]) /\ Shifted(wire[src][c], wire'[src][c])
       /\ \A x, y \in Components : x # src \/ y # c => Grown(wire[x][y], wire'[x][y])
       /\ \A x, y \in Components : (x # src \/ y # c) /\ (x # c \/ y \notin sessions[c]) =>
            wire'[x][y] = wire[x][y]
  BY <1>2, <1>15, AnswerWires
<1> QED
  BY <1>2, <1>3, <1>4, <1>14, <1>16 DEF Answers, f

\* Nobody gets on a list of c's pair space but the members of X, and those that
\* are subscribed to everything.
ListsFrom(c, X) ==
  /\ u_subscribers'[c] \subseteq u_subscribers[c] \cup X
  /\ \A o \in Components :
       subscribers'[c][o] \subseteq subscribers[c][o] \cup u_subscribers[c] \cup X
  /\ pairs'[c][c] = Absent => subscribers'[c][c] = {}

LEMMA AddedLists ==
  ASSUME Links, NEW c \in Components, NEW o \in Components, NEW v \in Nat, AddPair(c, o, v)
  PROVE  ListsFrom(c, {})
<1>1. NetTypeOK /\ (pairs[c][c] = Absent => subscribers[c][c] = {})
  BY DEF Links, AbsentBare
<1>2. /\ u_subscribers'[c] = u_subscribers[c]
      /\ pairs'[c][o] = v /\ subscribers'[c][o] = ListOf(c, o)
      /\ \A e \in Components : e # o =>
           pairs'[c][e] = pairs[c][e] /\ subscribers'[c][e] = subscribers[c][e]
  BY <1>1, Added
<1>3. ListOf(c, o) \subseteq subscribers[c][o] \cup u_subscribers[c]
  BY DEF ListOf
<1>4. \A e \in Components : subscribers'[c][e] \subseteq subscribers[c][e] \cup u_subscribers[c]
  BY <1>2, <1>3
<1>5. pairs'[c][c] = Absent => subscribers'[c][c] = {}
  BY <1>1, <1>2 DEF Absent
<1> QED
  BY <1>2, <1>4, <1>5 DEF ListsFrom

LEMMA RemovedLists ==
  ASSUME Links, NEW c \in Components, NEW o \in Components, RemovePair(c, o)
  PROVE  ListsFrom(c, {})
<1>1. NetTypeOK /\ (pairs[c][c] = Absent => subscribers[c][c] = {})
  BY DEF Links, AbsentBare
<1>2. /\ u_subscribers' = u_subscribers /\ subscribers' = subscribers
      /\ pairs'[c][o] = IF pairs[c][o] = Absent \/ subscribers[c][o] = {}
                        THEN Absent ELSE Invalid
      /\ \A e \in Components : e # o => pairs'[c][e] = pairs[c][e]
  BY <1>1, Removed
<1> QED
  BY <1>1, <1>2 DEF ListsFrom, Absent, Invalid

LEMMA HandlersList ==
  ASSUME Links, NEW src \in Components, NEW c \in Components, Handle(src, c)
  PROVE  ListsFrom(c, IF Head(wire[src][c]).type = "Subscription" THEN {src} ELSE {})
<1> DEFINE f == Head(wire[src][c])
           X == IF f.type = "Subscription" THEN {src} ELSE {}
<1>0. NetTypeOK /\ f \in Frame /\ (pairs[c][c] = Absent => subscribers[c][c] = {})
  BY HandlersAnswer DEF Links, AbsentBare
<1>1. ASSUME ListsFrom(c, {}) PROVE ListsFrom(c, X)
  BY <1>1 DEF ListsFrom
<1> HIDE DEF f
<1>2. ASSUME HandleIncomingPair(src, c) PROVE ListsFrom(c, {})
  <2>1. f.val \in Nat /\ AddPair(c, c, f.val)
    BY <1>0, <1>2, FrameFacts DEF HandleIncomingPair, Reads, f
  <2> QED
    BY <2>1, AddedLists
<1>3. ASSUME HandlePairUpdate(src, c) PROVE ListsFrom(c, {})
  <2>1. f.val \in Nat /\ f.owner \in Components /\ AddPair(c, f.owner, f.val)
    BY <1>0, <1>3, FrameFacts DEF HandlePairUpdate, Reads, f
  <2> QED
    BY <2>1, AddedLists
<1>4. ASSUME HandleRemovePair(src, c) PROVE ListsFrom(c, {})
  BY <1>4, RemovedLists DEF HandleRemovePair
<1>5. ASSUME HandlePairRemoved(src, c) PROVE ListsFrom(c, {})
  <2>1. f.owner \in Components /\ RemovePair(c, f.owner)
    BY <1>0, <1>5, FrameFacts DEF HandlePairRemoved, Reads, f
  <2> QED
    BY <2>1, RemovedLists
<1>6. ASSUME HandleSubscribe(src, c) PROVE ListsFrom(c, {src})
  <2>1. /\ u_subscribers' = u_subscribers
        /\ pairs'[c][c] = Seen(c, c) /\ subscribers'[c][c] = ListOf(c, c) \cup {src}
        /\ \A e \in Components : e # c =>
             pairs'[c][e] = pairs[c][e] /\ subscribers'[c][e] = subscribers[c][e]
    BY <1>0, <1>6, Listed
  <2>2. ListOf(c, c) \subseteq subscribers[c][c] \cup u_subscribers[c] /\ Seen(c, c) # Absent
    BY DEF ListOf, Seen, Invalid, Absent
  <2> QED
    BY <2>1, <2>2 DEF ListsFrom
<1>7. ASSUME HandleSubscribeToAll(src, c) PROVE ListsFrom(c, {src})
  <2>1. /\ pairs' = pairs /\ u_subscribers'[c] = u_subscribers[c] \cup {src}
        /\ \A e \in Components :
             subscribers'[c][e] = IF pairs[c][e] = Absent \/ src \in u_subscribers[c]
                                  THEN subscribers[c][e] ELSE subscribers[c][e] \cup {src}
    BY <1>0, <1>7, ListedEverywhere
  <2> QED
    BY <1>0, <2>1 DEF ListsFrom
<1>8. ASSUME HandleUnsubscribe(src, c) PROVE ListsFrom(c, {})
  BY <1>0, <1>8, Unlisted DEF ListsFrom
<1>9. ASSUME HandleUnsubscribeFromAll(src, c) PROVE ListsFrom(c, {})
  BY <1>0, <1>9, UnlistedEverywhere DEF ListsFrom
<1>10. HandleSubscribe(src, c) \/ HandleSubscribeToAll(src, c) => X = {src}
  BY DEF HandleSubscribe, HandleSubscribeToAll, Asked, Reads, f
<1> HIDE DEF X
<1>11. ListsFrom(c, X)
  BY <1>1, <1>2, <1>3, <1>4, <1>5, <1>6, <1>7, <1>8, <1>9, <1>10 DEF Handle
<1> QED
  BY <1>11 DEF X, f

\* The steps of the components keep the links: a handler's, ...
LEMMA HandlersLink ==
  ASSUME Links, NEW src \in Components, NEW c \in Components, Handle(src, c)
  PROVE  Links'
<1>1. Answers(src, c) /\ wire[src][c] # <<>>
  BY HandlersAnswer
<1>2. src # c /\ src \in up /\ c \in up /\ c \in sessions[src]
  BY <1>1, ReadersUp
<1>3. ListsFrom(c, {src})
  BY HandlersList DEF ListsFrom
<1>4. NetTypeOK'
  BY <1>1 DEF Links, NetTypeOK, Answers, SpaceTypes
<1>5. UNCHANGED <<up, sessions, records>> /\ Elsewhere(c)
  BY <1>1 DEF Answers
<1>6. SessionsUp'
  BY <1>5 DEF Links, SessionsUp
<1>7. DownBare'
  <2> SUFFICES ASSUME NEW x \in Components \ up
               PROVE  /\ sessions'[x] = {} /\ records'[x] = {} /\ u_subscribers'[x] = {}
                      /\ \A o \in Components : subscribers'[x][o] = {} /\ pairs'[x][o] = Absent
    BY <1>5 DEF DownBare
  <2>1. x # c
    BY <1>2
  <2> QED
    BY <1>5, <2>1 DEF Links, DownBare, Elsewhere
<1>8. Unconnected'
  <2> SUFFICES ASSUME NEW x \in Components, NEW y \in Components, y \notin sessions[x]
               PROVE  wire'[x][y] = <<>>
    BY <1>5 DEF Unconnected
  <2>1. x # src \/ y # c
    BY <1>2
  <2>2. wire'[x][y] = wire[x][y]
    BY <1>1, <2>1 DEF Answers
  <2> QED
    BY <2>2 DEF Links, Unconnected
<1>9. NotAsked'
  <2> SUFFICES ASSUME NEW x \in up, NEW y \in Components, y \notin sessions[x]
               PROVE  x \notin u_subscribers'[y] /\ \A o \in Components : x \notin subscribers'[y][o]
    BY <1>5 DEF NotAsked
  <2>1. x \notin u_subscribers[y] /\ \A o \in Components : x \notin subscribers[y][o]
    BY DEF Links, NotAsked
  <2>2. CASE y # c
    BY <1>5, <2>1, <2>2 DEF Elsewhere
  <2>3. CASE y = c
    BY <1>2, <1>3, <2>1, <2>3 DEF ListsFrom
  <2> QED
    BY <2>2, <2>3
<1>10. AbsentBare'
  BY <1>3, <1>5 DEF Links, AbsentBare, ListsFrom, Elsewhere
<1> QED
  BY <1>4, <1>6, <1>7, <1>8, <1>9, <1>10 DEF Links

\* What every call of c's application does.
Calls(c) ==
  /\ c \in up /\ UNCHANGED <<up, sessions, forwarded, replaced>>
  /\ SpaceTypes(pairs', subscribers', u_subscribers') /\ Elsewhere(c) /\ ListsFrom(c, {})
  /\ wire' \in [Components -> [Components -> Seq(Frame)]]
  /\ \A x, y \in Components : x # c \/ y \notin sessions[c] => wire'[x][y] = wire[x][y]
  /\ records' \in [Components -> SUBSET Record] /\ \A x \in Components \ {c} : records'[x] = records[x]
  /\ ops' \in 0..MaxOps
  /\ lapsed' \subseteq Components \X Components /\ cut' \subseteq Components \X Components

LEMMA SpaceUnchanged ==
  ASSUME Links, UNCHANGED space, NEW c \in Components
  PROVE  SpaceTypes(pairs', subscribers', u_subscribers') /\ Elsewhere(c) /\ ListsFrom(c, {})
BY DEF Links, NetTypeOK, AbsentBare, space, SpaceTypes, Elsewhere, ListsFrom

LEMMA CallFacts ==
  ASSUME Links, NEW c \in Components, Call(c)
  PROVE  Calls(c)
<1>1. NetTypeOK
  BY DEF Links
<1> DEFINE SpaceOK == SpaceTypes(pairs', subscribers', u_subscribers') /\ Elsewhere(c)
                        /\ ListsFrom(c, {})
           WireOK == /\ wire' \in [Components -> [Components -> Seq(Frame)]]
                     /\ \A x, y \in Components : x # c \/ y \notin sessions[c] =>
                          wire'[x][y] = wire[x][y]
<1>2. ASSUME NEW to, NEW m \in Frame, wire' = Sent(c, to, m) PROVE WireOK
  BY <1>1, <1>2, SentWires
<1>3. ASSUME Tick PROVE ops' \in 0..MaxOps /\ ops + 1 \in Nat
  BY <1>1, <1>3, OpsAssumption DEF NetTypeOK, Tick
<1> HIDE DEF SpaceOK, WireOK
<1>4. ASSUME SetPair(c) PROVE Calls(c)
  <2>1. /\ Tick /\ c \in up /\ AddPair(c, c, ops + 1) /\ Told(c, ListOf(c, c))
        /\ wire' = Sent(c, ListOf(c, c), Update(c, ops + 1))
        /\ UNCHANGED <<up, sessions, records, forwarded, cut, replaced>>
    BY <1>4 DEF SetPair
  <2>2. SpaceOK
    BY <1>1, <1>3, <2>1, Added, AddedLists DEF SpaceOK
  <2>3. WireOK
    BY <1>2, <1>3, <2>1, FramesMade
  <2>4. lapsed' \subseteq Components \X Components
    BY <1>1, <2>1, ToldTypes
  <2> QED
    BY <1>1, <1>3, <2>1, <2>2, <2>3, <2>4 DEF Calls, SpaceOK, WireOK, NetTypeOK
<1>5. ASSUME RemoveOwnPair(c) PROVE Calls(c)
  <2>1. /\ Tick /\ c \in up /\ RemovePair(c, c) /\ Told(c, subscribers[c][c])
        /\ wire' = Sent(c, subscribers[c][c], Removal(c))
        /\ UNCHANGED <<up, sessions, records, forwarded, cut, replaced>>
    BY <1>5 DEF RemoveOwnPair
  <2>2. SpaceOK
    BY <1>1, <2>1, Removed, RemovedLists DEF SpaceOK
  <2>3. WireOK
    BY <1>2, <2>1, FramesMade
  <2>4. lapsed' \subseteq Components \X Components
    BY <1>1, <2>1, ToldTypes
  <2> QED
    BY <1>1, <1>3, <2>1, <2>2, <2>3, <2>4 DEF Calls, SpaceOK, WireOK, NetTypeOK
<1>6. ASSUME NEW d \in Components, SetRemotePair(c, d) \/ RemoveRemotePair(c, d) PROVE Calls(c)
  <2>1. /\ Tick /\ c \in up
        /\ UNCHANGED <<up, sessions, space, records, forwarded, lapsed, cut, replaced>>
    BY <1>6 DEF SetRemotePair, RemoveRemotePair
  <2>2. SpaceOK
    BY <2>1, SpaceUnchanged DEF SpaceOK
  <2>3. WireOK
    <3>1. PICK v \in Nat : \/ wire' = Sent(c, {d}, [type |-> "Pair", val |-> v])
                           \/ wire' = Sent(c, {d}, [type |-> "RemovePair", val |-> v])
      BY <1>3, <1>6, <2>1 DEF SetRemotePair, RemoveRemotePair, Invalid
    <3> QED
      BY <1>2, <3>1, FramesMade
  <2> QED
    BY <1>1, <1>3, <2>1, <2>2, <2>3 DEF Calls, SpaceOK, WireOK, NetTypeOK
<1>7. ASSUME NEW r \in Record, RegisterSubscription(c, r) \/ CancelSubscription(c, r)
      PROVE  Calls(c)
  <2>1. c \in up /\ UNCHANGED <<up, sessions, space, forwarded, lapsed, replaced>>
        /\ ops' \in 0..MaxOps
    BY <1>1, <1>3, <1>7 DEF RegisterSubscription, CancelSubscription, NetTypeOK
  <2>2. SpaceOK
    BY <2>1, SpaceUnchanged DEF SpaceOK
  <2>3. WireOK
    <3>1. r[2] \in {Key, kWildcardKey}
      BY DEF Record
    <3>2. PICK on \in BOOLEAN : SendSubscription(c, r, on)
      BY <1>7 DEF RegisterSubscription, CancelSubscription
    <3> QED
      BY <1>2, <3>1, <3>2, FramesMade DEF SendSubscription
  <2>4. records' \in [Components -> SUBSET Record] /\ \A x \in Components \ {c} : records'[x] = records[x]
    <3>1. records \in [Components -> SUBSET Record]
      BY <1>1 DEF NetTypeOK
    <3>2. PICK R \in SUBSET Record : records' = [records EXCEPT ![c] = R]
      <4>1. records[c] \cup {r} \in SUBSET Record /\ records[c] \ {r} \in SUBSET Record
        BY <3>1
      <4>2. \/ records' = [records EXCEPT ![c] = records[c] \cup {r}]
            \/ records' = [records EXCEPT ![c] = records[c] \ {r}]
        BY <1>7 DEF RegisterSubscription, CancelSubscription
      <4> QED
        BY <4>1, <4>2
    <3> QED
      BY <3>1, <3>2
  <2>5. cut' \subseteq Components \X Components
    <3>1. cut \subseteq Components \X Components /\ sessions[c] \subseteq Components
      BY <1>1 DEF NetTypeOK
    <3>2. ASSUME RegisterSubscription(c, r) PROVE cut' \subseteq cut
      BY <3>2 DEF RegisterSubscription
    <3>3. ASSUME CancelSubscription(c, r) PROVE cut' \subseteq Components \X Components
      <4> DEFINE D == {e \in sessions[c] : Cuts(c, r, e)}
      <4>1. cut' = cut \cup {<<c, d>> : d \in D} /\ D \subseteq Components
        BY <3>1, <3>3 DEF CancelSubscription
      <4> HIDE DEF D
      <4> QED
        BY <3>1, <4>1
    <3> QED
      BY <1>7, <3>1, <3>2, <3>3
  <2> QED
    BY <1>1, <2>1, <2>2, <2>3, <2>4, <2>5 DEF Calls, SpaceOK, WireOK, NetTypeOK
<1> QED
  BY <1>4, <1>5, <1>6, <1>7 DEF Call

\* ... an application's call, ...
LEMMA CallsLink ==
  ASSUME Links, NEW c \in Components, Call(c)
  PROVE  Links'
<1>1. Calls(c)
  BY CallFacts
<1>2. NetTypeOK'
  BY <1>1 DEF Links, NetTypeOK, Calls, SpaceTypes
<1>3. /\ c \in up /\ UNCHANGED <<up, sessions>> /\ Elsewhere(c) /\ ListsFrom(c, {})
      /\ \A x \in Components \ {c} : records'[x] = records[x]
  BY <1>1 DEF Calls
<1>4. SessionsUp'
  BY <1>3 DEF Links, SessionsUp
<1>5. DownBare'
  <2> SUFFICES ASSUME NEW x \in Components \ up
               PROVE  /\ sessions'[x] = {} /\ records'[x] = {} /\ u_subscribers'[x] = {}
                      /\ \A o \in Components : subscribers'[x][o] = {} /\ pairs'[x][o] = Absent
    BY <1>3 DEF DownBare
  <2>1. x # c
    BY <1>3
  <2> QED
    BY <1>3, <2>1 DEF Links, DownBare, Elsewhere
<1>6. Unconnected'
  BY <1>1, <1>3 DEF Links, Unconnected, Calls
<1>7. NotAsked'
  <2> SUFFICES ASSUME NEW x \in up, NEW y \in Components, y \notin sessions[x]
               PROVE  x \notin u_subscribers'[y] /\ \A o \in Components : x \notin subscribers'[y][o]
    BY <1>3 DEF NotAsked
  <2>1. x \notin u_subscribers[y] /\ \A o \in Components : x \notin subscribers[y][o]
    BY DEF Links, NotAsked
  <2>2. CASE y # c
    BY <1>3, <2>1, <2>2 DEF Elsewhere
  <2>3. CASE y = c
    BY <1>3, <2>1, <2>3 DEF ListsFrom
  <2> QED
    BY <2>2, <2>3
<1>8. AbsentBare'
  BY <1>3 DEF Links, AbsentBare, ListsFrom, Elsewhere
<1> QED
  BY <1>2, <1>4, <1>5, <1>6, <1>7, <1>8 DEF Links

\* What a component asks for when it connects.
LEMMA Concatenated ==
  ASSUME NEW S, NEW s \in Seq(S), NEW t \in Seq(S)
  PROVE  /\ s \o t \in Seq(S) /\ Len(s \o t) = Len(s) + Len(t)
         /\ \A i \in 1..Len(s) + Len(t) :
              (s \o t)[i] = IF i <= Len(s) THEN s[i] ELSE t[i - Len(s)]
OBVIOUS

\* At most one of each key of a set.
On(key) == [type |-> "Subscription", key |-> key, registering |-> TRUE]
AsksFor(q, keys) ==
  /\ q \in Seq(Frame)
  /\ \A i \in 1..Len(q) : q[i] = On(Key) \/ q[i] = On(kWildcardKey)
  /\ \A i \in 1..Len(q) : q[i].key \in keys
  /\ Key \in keys => \E i \in 1..Len(q) : q[i] = On(Key)
  /\ kWildcardKey \in keys => \E i \in 1..Len(q) : q[i] = On(kWildcardKey)
  /\ \A i, j \in 1..Len(q) : q[i] = On(kWildcardKey) /\ q[j] = On(kWildcardKey) => i = j

LEMMA OnKeys ==
  /\ On(Key) \in Frame /\ On(kWildcardKey) \in Frame /\ On(Key) # On(kWildcardKey)
  /\ On(Key).key = Key /\ On(kWildcardKey).key = kWildcardKey /\ Key # kWildcardKey
BY FramesMade DEF Key, kWildcardKey, On

LEMMA AskedOnce ==
  ASSUME NEW keys, NEW q \in Seq(Frame),
         \/ Len(q) = 0 /\ Key \notin keys /\ kWildcardKey \notin keys
         \/ Len(q) = 1 /\ q[1] = On(Key) /\ Key \in keys /\ kWildcardKey \notin keys
         \/ Len(q) = 1 /\ q[1] = On(kWildcardKey) /\ Key \notin keys /\ kWildcardKey \in keys
         \/ Len(q) = 2 /\ q[1] = On(Key) /\ q[2] = On(kWildcardKey)
            /\ Key \in keys /\ kWildcardKey \in keys
  PROVE  AsksFor(q, keys)
<1>1. 1..0 = {} /\ 1..1 = {1} /\ 1..2 = {1, 2}
  OBVIOUS
<1>2. CASE Len(q) = 0
  BY <1>1, <1>2 DEF AsksFor
<1>3. CASE Len(q) = 1
  BY <1>1, <1>3, OnKeys DEF AsksFor
<1>4. CASE Len(q) = 2
  BY <1>1, <1>4, OnKeys DEF AsksFor
<1> QED
  BY <1>2, <1>3, <1>4

Wants(held, d) == {r[2] : r \in {x \in held : Covers(x, d)}}

LEMMA ReplayFacts ==
  ASSUME NEW held, NEW d
  PROVE  AsksFor(Replay(held, d), Wants(held, d))
<1> DEFINE a == On(Key)
           b == On(kWildcardKey)
           K == Wants(held, d)
           q == Replay(held, d)
           s == IF Key \in K THEN <<a>> ELSE <<>>
           t == IF kWildcardKey \in K THEN <<b>> ELSE <<>>
<1>1. a \in Frame /\ b \in Frame
  BY OnKeys
<1>2. Key \in K <=> \E r \in held : Covers(r, d) /\ r[2] = Key
  BY DEF Wants
<1>3. kWildcardKey \in K <=> \E r \in held : Covers(r, d) /\ r[2] = kWildcardKey
  BY DEF Wants
<1>4. q = s \o t
  BY <1>2, <1>3 DEF Replay, On
<1> HIDE DEF a, b, K, q
<1>5. /\ s \in Seq(Frame) /\ Len(s) \in Nat
      /\ t \in Seq(Frame) /\ Len(t) \in Nat
  BY <1>1
<1>6. /\ Key \in K => Len(s) = 1 /\ s[1] = a
      /\ Key \notin K => Len(s) = 0
      /\ kWildcardKey \in K => Len(t) = 1 /\ t[1] = b
      /\ kWildcardKey \notin K => Len(t) = 0
  BY <1>1
<1> HIDE DEF s, t
<1>7. /\ q \in Seq(Frame) /\ Len(q) = Len(s) + Len(t)
      /\ \A i \in 1..Len(s) + Len(t) : q[i] = IF i <= Len(s) THEN s[i] ELSE t[i - Len(s)]
  BY <1>4, <1>5, Concatenated
<1>8. AsksFor(q, K)
  <2>1. CASE Key \in K /\ kWildcardKey \in K
    <3>0. Len(s) = 1 /\ s[1] = a /\ Len(t) = 1 /\ t[1] = b
      BY <1>6, <2>1
    <3>1. Len(q) = 2 /\ q[1] = a /\ q[2] = b
      <4>1. Len(q) = 2 /\ 1 \in 1..2 /\ 2 \in 1..2
        BY <1>7, <3>0
      <4>2. \A i \in 1..2 : q[i] = IF i <= 1 THEN s[i] ELSE t[i - 1]
        BY <1>7, <3>0
      <4>3. q[1] = s[1] /\ q[2] = t[1]
        BY <4>1, <4>2
      <4> QED
        BY <3>0, <4>1, <4>3
    <3> QED
      BY <1>7, <2>1, <3>1, AskedOnce DEF a, b
  <2>2. CASE Key \in K /\ kWildcardKey \notin K
    <3>1. Len(q) = 1 /\ q[1] = a
      BY <1>6, <1>7, <2>2
    <3> QED
      BY <1>7, <2>2, <3>1, AskedOnce DEF a
  <2>3. CASE Key \notin K /\ kWildcardKey \in K
    <3>1. Len(q) = 1 /\ q[1] = b
      BY <1>6, <1>7, <2>3
    <3> QED
      BY <1>7, <2>3, <3>1, AskedOnce DEF b
  <2>4. CASE Key \notin K /\ kWildcardKey \notin K
    <3>1. Len(q) = 0
      BY <1>6, <1>7, <2>4
    <3> QED
      BY <1>7, <2>4, <3>1, AskedOnce
  <2> QED
    BY <2>1, <2>2, <2>3, <2>4
<1> QED
  BY <1>8 DEF q, K

\* ... a departure, an arrival and the news of one.
LEMMA LeaveFacts ==
  ASSUME NetTypeOK, NEW c \in Components, Leave(c)
  PROVE  /\ c \in up /\ up' = up \ {c} /\ UNCHANGED <<forwarded, replaced>>
         /\ \A d \in Components : sessions'[d] = IF d = c THEN {} ELSE sessions[d] \ {c}
         /\ \A x, y \in Components : wire'[x][y] = IF c \in {x, y} THEN <<>> ELSE wire[x][y]
         /\ Elsewhere(c) /\ u_subscribers'[c] = {}
         /\ \A o \in Components : pairs'[c][o] = Absent /\ subscribers'[c][o] = {}
         /\ records'[c] = {} /\ \A x \in Components \ {c} : records'[x] = records[x]
         /\ lapsed' = lapsed \cup ({c} \X Components) \cup (Components \X {c})
         /\ \A x, y \in Components : <<x, y>> \in cut' <=>
              \/ x # c /\ y # c /\ <<x, y>> \in cut
              \/ x = c /\ y # c /\ c \in u_subscribers[y] /\ c \notin ListOf(y, y)
         /\ NetTypeOK'
<1>1. /\ Tick /\ c \in up /\ up' = up \ {c} /\ UNCHANGED <<forwarded, replaced>>
      /\ sessions' = [d \in Components |-> IF d = c THEN {} ELSE sessions[d] \ {c}]
      /\ pairs' = [pairs EXCEPT ![c] = Nothing]
      /\ subscribers' = [subscribers EXCEPT ![c] = [d \in Components |-> {}]]
      /\ u_subscribers' = [u_subscribers EXCEPT ![c] = {}]
      /\ records' = [records EXCEPT ![c] = {}]
      /\ lapsed' = lapsed \cup ({c} \X Components) \cup (Components \X {c})
  BY DEF Leave
<1>2. wire' = [b \in Components |-> [d \in Components |->
                 IF c \in {b, d} THEN <<>> ELSE wire[b][d]]]
  BY DEF Leave
<1>3. /\ wire' \in [Components -> [Components -> Seq(Frame)]]
      /\ \A x, y \in Components : wire'[x][y] = IF c \in {x, y} THEN <<>> ELSE wire[x][y]
  <2>1. ASSUME NEW x \in Components, NEW y \in Components
        PROVE  (IF c \in {x, y} THEN <<>> ELSE wire[x][y]) \in Seq(Frame)
    <3>1. wire[x][y] \in Seq(Frame) /\ <<>> \in Seq(Frame)
      BY DEF NetTypeOK
    <3> QED
      BY <3>1
  <2> QED
    BY <1>2, <2>1
<1>4. /\ Elsewhere(c) /\ u_subscribers'[c] = {}
      /\ \A o \in Components : pairs'[c][o] = Absent /\ subscribers'[c][o] = {}
      /\ SpaceTypes(pairs', subscribers', u_subscribers')
  BY <1>1 DEF NetTypeOK, Elsewhere, SpaceTypes, Nothing
<1>5. /\ records'[c] = {} /\ \A x \in Components \ {c} : records'[x] = records[x]
      /\ records' \in [Components -> SUBSET Record]
  BY <1>1 DEF NetTypeOK
<1>6. /\ \A x, y \in Components : <<x, y>> \in cut' <=>
           \/ x # c /\ y # c /\ <<x, y>> \in cut
           \/ x = c /\ y # c /\ c \in u_subscribers[y] /\ c \notin ListOf(y, y)
      /\ cut' \subseteq Components \X Components
  <2> DEFINE D == {e \in Components \ {c} : c \in u_subscribers[e] \ ListOf(e, e)}
  <2>1. cut' = {x \in cut : c \notin {x[1], x[2]}} \cup {<<c, d>> : d \in D}
    BY DEF Leave
  <2>2. /\ D \subseteq Components
        /\ \A y \in Components : y \in D <=> y # c /\ c \in u_subscribers[y] /\ c \notin ListOf(y, y)
    OBVIOUS
  <2> HIDE DEF D
  <2>3. cut \subseteq Components \X Components
    BY DEF NetTypeOK
  <2> QED
    BY <2>1, <2>2, <2>3
<1>7. ops' \in 0..MaxOps
  BY <1>1, OpsAssumption DEF NetTypeOK, Tick
<1>8. sessions' \in [Components -> SUBSET Components]
  BY <1>1 DEF NetTypeOK
<1>9. NetTypeOK'
  <2>1. /\ up' \subseteq Components /\ forwarded' \subseteq Components
        /\ replaced' \subseteq Components /\ lapsed' \subseteq Components \X Components
    BY <1>1 DEF NetTypeOK
  <2>2. wire' \in [Components -> [Components -> Seq(Frame)]]
    BY <1>3
  <2>3. cut' \subseteq Components \X Components
    BY <1>6
  <2>4. records' \in [Components -> SUBSET Record]
    BY <1>5
  <2> QED
    BY <1>4, <1>7, <1>8, <2>1, <2>2, <2>3, <2>4 DEF NetTypeOK, SpaceTypes
<1> QED
  BY <1>1, <1>3, <1>4, <1>5, <1>6, <1>9

LEMMA LeaveLinks ==
  ASSUME Links, NEW c \in Components, Leave(c)
  PROVE  Links'
<1>1. NetTypeOK
  BY DEF Links
<1>2. /\ c \in up /\ up' = up \ {c}
      /\ \A d \in Components : sessions'[d] = IF d = c THEN {} ELSE sessions[d] \ {c}
      /\ \A x, y \in Components : wire'[x][y] = IF c \in {x, y} THEN <<>> ELSE wire[x][y]
      /\ Elsewhere(c) /\ u_subscribers'[c] = {}
      /\ \A o \in Components : pairs'[c][o] = Absent /\ subscribers'[c][o] = {}
      /\ records'[c] = {} /\ \A x \in Components \ {c} : records'[x] = records[x]
      /\ NetTypeOK'
  BY <1>1, LeaveFacts
<1>3. SessionsUp'
  <2> SUFFICES ASSUME NEW x \in Components PROVE sessions'[x] \subseteq up' \ {x}
    BY DEF SessionsUp
  <2>1. sessions[x] \subseteq up \ {x}
    BY DEF Links, SessionsUp
  <2>2. sessions'[x] = IF x = c THEN {} ELSE sessions[x] \ {c}
    BY <1>2
  <2> QED
    BY <1>2, <2>1, <2>2
<1>4. DownBare'
  <2> SUFFICES ASSUME NEW x \in Components \ up'
               PROVE  /\ sessions'[x] = {} /\ records'[x] = {} /\ u_subscribers'[x] = {}
                      /\ \A o \in Components : subscribers'[x][o] = {} /\ pairs'[x][o] = Absent
    BY DEF DownBare
  <2>1. CASE x = c
    BY <1>2, <2>1
  <2>2. CASE x # c
    <3>1. x \in Components \ up
      BY <1>2, <2>2
    <3>2. /\ sessions[x] = {} /\ records[x] = {} /\ u_subscribers[x] = {}
          /\ \A o \in Components : subscribers[x][o] = {} /\ pairs[x][o] = Absent
      BY <3>1 DEF Links, DownBare
    <3>3. sessions'[x] = sessions[x] \ {c} /\ records'[x] = records[x]
      BY <1>2, <2>2
    <3> QED
      BY <1>2, <2>2, <3>2, <3>3 DEF Elsewhere
  <2> QED
    BY <2>1, <2>2
<1>5. Unconnected'
  <2> SUFFICES ASSUME NEW x \in Components, NEW y \in Components, y \notin sessions'[x]
               PROVE  wire'[x][y] = <<>>
    BY DEF Unconnected
  <2>1. wire'[x][y] = IF c \in {x, y} THEN <<>> ELSE wire[x][y]
    BY <1>2
  <2>2. sessions'[x] = IF x = c THEN {} ELSE sessions[x] \ {c}
    BY <1>2
  <2>3. y \notin sessions[x] => wire[x][y] = <<>>
    BY DEF Links, Unconnected
  <2> QED
    BY <2>1, <2>2, <2>3
<1>6. NotAsked'
  <2> SUFFICES ASSUME NEW x \in up', NEW y \in Components, y \notin sessions'[x]
               PROVE  x \notin u_subscribers'[y] /\ \A o \in Components : x \notin subscribers'[y][o]
    BY DEF NotAsked
  <2>1. CASE y = c
    BY <1>2, <2>1
  <2>2. CASE y # c
    <3>1. x \in up /\ x # c /\ y \notin sessions[x]
      BY <1>1, <1>2, <2>2 DEF NetTypeOK
    <3>2. x \notin u_subscribers[y] /\ \A o \in Components : x \notin subscribers[y][o]
      BY <3>1 DEF Links, NotAsked
    <3> QED
      BY <1>2, <2>2, <3>2 DEF Elsewhere
  <2> QED
    BY <2>1, <2>2
<1>7. AbsentBare'
  <2> SUFFICES ASSUME NEW d \in Components, pairs'[d][d] = Absent PROVE subscribers'[d][d] = {}
    BY DEF AbsentBare
  <2> QED
    BY <1>2 DEF Links, AbsentBare, Elsewhere
<1> QED
  BY <1>2, <1>3, <1>4, <1>5, <1>6, <1>7 DEF Links

LEMMA JoinLinks ==
  ASSUME Links, NEW c \in Components, Join(c)
  PROVE  Links'
<1>1. /\ c \notin up /\ up' = up \cup {c} /\ sessions' = [sessions EXCEPT ![c] = up]
      /\ replaced' = replaced \cup {c}
      /\ UNCHANGED <<space, records, wire, forwarded, lapsed, cut, ops>>
  BY DEF Join
<1>2. /\ NetTypeOK /\ SessionsUp /\ DownBare /\ Unconnected /\ NotAsked /\ AbsentBare
  BY DEF Links
<1>3. UNCHANGED <<pairs, subscribers, u_subscribers>>
  BY <1>1 DEF space
<1>4. NetTypeOK'
  BY <1>1, <1>2, <1>3 DEF NetTypeOK
<1>5. /\ sessions'[c] = up /\ \A x \in Components \ {c} : sessions'[x] = sessions[x]
      /\ up \subseteq Components
  BY <1>1, <1>2 DEF NetTypeOK
<1>6. SessionsUp'
  BY <1>1, <1>2, <1>5 DEF SessionsUp
<1>7. DownBare'
  BY <1>1, <1>2, <1>3, <1>5 DEF DownBare
<1>8. Unconnected'
  <2> SUFFICES ASSUME NEW x \in Components, NEW y \in Components, y \notin sessions'[x]
               PROVE  wire[x][y] = <<>>
    BY <1>1 DEF Unconnected
  <2>1. y \notin sessions[x]
    BY <1>1, <1>2, <1>5 DEF DownBare
  <2> QED
    BY <1>2, <2>1 DEF Unconnected
<1>9. NotAsked'
  <2> SUFFICES ASSUME NEW x \in up', NEW y \in Components, y \notin sessions'[x]
               PROVE  x \notin u_subscribers[y] /\ \A o \in Components : x \notin subscribers[y][o]
    BY <1>3 DEF NotAsked
  <2>1. CASE x = c
    <3>1. y \in Components \ up
      BY <1>5, <2>1
    <3> QED
      BY <1>2, <3>1 DEF DownBare
  <2>2. CASE x # c
    <3>1. x \in up /\ y \notin sessions[x]
      BY <1>1, <1>5, <2>2
    <3> QED
      BY <1>2, <3>1 DEF NotAsked
  <2> QED
    BY <2>1, <2>2
<1>10. AbsentBare'
  BY <1>2, <1>3 DEF AbsentBare
<1> QED
  BY <1>4, <1>6, <1>7, <1>8, <1>9, <1>10 DEF Links

LEMMA AnnounceFacts ==
  ASSUME NetTypeOK, NEW d \in Components, NEW c \in Components, Announce(d, c)
  PROVE  /\ d \in up /\ c \in up /\ c \notin sessions[d] /\ c # d
         /\ sessions'[d] = sessions[d] \cup {c}
         /\ \A x \in Components \ {d} : sessions'[x] = sessions[x]
         /\ AsksFor(wire'[d][c], Wants(records[d], c)) /\ wire'[d][c] \in Seq(Frame)
         /\ \A x, y \in Components : x # d \/ y # c => wire'[x][y] = wire[x][y]
         /\ UNCHANGED <<pairs, subscribers, u_subscribers>>
         /\ UNCHANGED <<up, records, forwarded, lapsed, cut, replaced, ops>>
         /\ NetTypeOK'
<1>1. /\ d \in up /\ c \in up /\ c \notin sessions[d] /\ c # d
      /\ sessions' = [sessions EXCEPT ![d] = @ \cup {c}]
      /\ wire' = [wire EXCEPT ![d][c] = Replay(records[d], c)]
      /\ UNCHANGED <<up, space, records, forwarded, lapsed, cut, replaced, ops>>
  BY DEF Announce
<1> DEFINE q == Replay(records[d], c)
<1>2. AsksFor(q, Wants(records[d], c))
  BY ReplayFacts
<1>3. q \in Seq(Frame)
  BY <1>2 DEF AsksFor
<1>4. wire' = [wire EXCEPT ![d][c] = q]
  BY <1>1
<1> HIDE DEF q
<1>5. /\ wire' \in [Components -> [Components -> Seq(Frame)]] /\ wire'[d][c] = q
      /\ \A x, y \in Components : x # d \/ y # c => wire'[x][y] = wire[x][y]
  BY <1>3, <1>4 DEF NetTypeOK
<1>6. UNCHANGED <<pairs, subscribers, u_subscribers>>
  BY <1>1 DEF space
<1>7. /\ sessions' \in [Components -> SUBSET Components]
      /\ sessions'[d] = sessions[d] \cup {c}
      /\ \A x \in Components \ {d} : sessions'[x] = sessions[x]
  BY <1>1 DEF NetTypeOK
<1>8. NetTypeOK'
  BY <1>1, <1>5, <1>6, <1>7 DEF NetTypeOK
<1> QED
  BY <1>1, <1>2, <1>3, <1>5, <1>6, <1>7, <1>8

LEMMA AnnounceLinks ==
  ASSUME Links, NEW d \in Components, NEW c \in Components, Announce(d, c)
  PROVE  Links'
<1>1. /\ NetTypeOK /\ SessionsUp /\ DownBare /\ Unconnected /\ NotAsked /\ AbsentBare
  BY DEF Links
<1>2. /\ d \in up /\ c \in up /\ c \notin sessions[d] /\ c # d
      /\ sessions'[d] = sessions[d] \cup {c}
      /\ \A x \in Components \ {d} : sessions'[x] = sessions[x]
      /\ \A x, y \in Components : x # d \/ y # c => wire'[x][y] = wire[x][y]
      /\ UNCHANGED <<pairs, subscribers, u_subscribers>>
      /\ UNCHANGED <<up, records>> /\ NetTypeOK'
  BY <1>1, AnnounceFacts
<1>3. SessionsUp'
  BY <1>1, <1>2 DEF SessionsUp
<1>4. DownBare'
  BY <1>1, <1>2 DEF DownBare
<1>5. Unconnected'
  BY <1>1, <1>2 DEF Unconnected
<1>6. NotAsked'
  <2> SUFFICES ASSUME NEW x \in up, NEW y \in Components, y \notin sessions'[x]
               PROVE  x \notin u_subscribers[y] /\ \A o \in Components : x \notin subscribers[y][o]
    BY <1>2 DEF NotAsked
  <2>1. y \notin sessions[x]
    BY <1>1, <1>2 DEF NetTypeOK
  <2> QED
    BY <1>1, <2>1 DEF NotAsked
<1>7. AbsentBare'
  BY <1>1, <1>2 DEF AbsentBare
<1> QED
  BY <1>2, <1>3, <1>4, <1>5, <1>6, <1>7 DEF Links

\* They hold at the start, whatever was subscribed to before connecting, ...
LEMMA InitFacts ==
  ASSUME NEW held \in [Components -> SUBSET Record], NetInit(held)
  PROVE  /\ up = Components /\ records = held
         /\ \A c \in Components : sessions[c] = Components \ {c} /\ u_subscribers[c] = {}
         /\ \A c, o \in Components : subscribers[c][o] = {} /\ pairs[c][o] = Absent
         /\ \A c \in Components : wire[c][c] = <<>>
         /\ \A c, d \in Components : c # d => AsksFor(wire[c][d], Wants(held[c], d))
         /\ forwarded = {} /\ lapsed = {} /\ cut = {} /\ replaced = {}
         /\ NetTypeOK
<1>1. /\ up = Components /\ sessions = [c \in Components |-> Components \ {c}]
      /\ pairs = [c \in Components |-> Nothing]
      /\ subscribers = [c \in Components |-> [d \in Components |-> {}]]
      /\ u_subscribers = [c \in Components |-> {}]
      /\ records = held /\ ops = 0
      /\ forwarded = {} /\ lapsed = {} /\ cut = {} /\ replaced = {}
  BY DEF NetInit
<1> DEFINE Q(c, d) == IF c = d THEN <<>> ELSE Replay(held[c], d)
<1>2. wire = [c \in Components |-> [d \in Components |-> Q(c, d)]]
  BY DEF NetInit
<1>3. ASSUME NEW c \in Components, NEW d \in Components
      PROVE  /\ Q(c, d) \in Seq(Frame) /\ (c = d => Q(c, d) = <<>>)
             /\ c # d => AsksFor(Q(c, d), Wants(held[c], d))
  <2>1. AsksFor(Replay(held[c], d), Wants(held[c], d))
    BY ReplayFacts
  <2>2. Replay(held[c], d) \in Seq(Frame) /\ <<>> \in Seq(Frame)
    BY <2>1 DEF AsksFor
  <2> QED
    BY <2>1, <2>2
<1> HIDE DEF Q
<1>4. /\ wire \in [Components -> [Components -> Seq(Frame)]]
      /\ \A c, d \in Components : wire[c][d] = Q(c, d)
  BY <1>2, <1>3
<1>5. /\ pairs \in [Components -> [Components -> Nat \cup {Absent}]]
      /\ \A c, o \in Components : pairs[c][o] = Absent
  BY <1>1 DEF Nothing
<1>6. /\ \A c \in Components : wire[c][c] = <<>>
      /\ \A c, d \in Components : c # d => AsksFor(wire[c][d], Wants(held[c], d))
  BY <1>3, <1>4
<1>7. NetTypeOK
  BY <1>1, <1>4, <1>5, OpsAssumption DEF NetTypeOK
<1>8. /\ \A c \in Components : sessions[c] = Components \ {c} /\ u_subscribers[c] = {}
      /\ \A c, o \in Components : subscribers[c][o] = {}
  BY <1>1
<1> QED
  BY <1>1, <1>5, <1>6, <1>7, <1>8

LEMMA InitLinks ==
  ASSUME NEW held \in [Components -> SUBSET Record], NetInit(held)
  PROVE  Links
<1>1. /\ up = Components /\ records = held
      /\ \A c \in Components : sessions[c] = Components \ {c} /\ u_subscribers[c] = {}
      /\ \A c, o \in Components : subscribers[c][o] = {} /\ pairs[c][o] = Absent
      /\ \A c \in Components : wire[c][c] = <<>>
      /\ NetTypeOK
  BY InitFacts
<1> QED
  BY <1>1 DEF Links, SessionsUp, DownBare, Unconnected, NotAsked, AbsentBare

\* ... and always.
LEMMA LinksStep ==
  ASSUME Links, [NetStep]_net
  PROVE  Links'
<1>1. CASE UNCHANGED net
  BY <1>1 DEF net, space, Links, NetTypeOK, SessionsUp, DownBare, Unconnected, NotAsked, AbsentBare
<1>2. CASE NetStep
  BY <1>2, CallsLink, LeaveLinks, JoinLinks, HandlersLink, AnnounceLinks DEF NetStep
<1> QED
  BY <1>1, <1>2

-----------------------------------------------------------------------------
(* What has been asked for and what is listed                              *)

Asks(f, key, on) == f.type = "Subscription" /\ f.key = key /\ f.registering = on
Registers(f) == Asks(f, Key, TRUE) \/ Asks(f, kWildcardKey, TRUE)
Cancels(f) == Asks(f, Key, FALSE) \/ Asks(f, kWildcardKey, FALSE)

LEMMA AsksOne ==
  ASSUME NEW f
  PROVE  /\ ~(Registers(f) /\ Cancels(f))
         /\ \A on \in BOOLEAN : ~(Asks(f, Key, on) /\ Asks(f, kWildcardKey, on))
BY DEF Asks, Registers, Cancels, Key, kWildcardKey

\* No frame of q from the i-th on cancels anything.
Uncancelled(q, i) == \A j \in i..Len(q) : ~Cancels(q[j])

\* With the frames of q before the i-th read, an owner with U as u_subscribers_
\* has c among them.
WildBefore(q, c, U, i) ==
  \/ c \in U /\ \A j \in 1..i - 1 : ~Asks(q[j], kWildcardKey, FALSE)
  \/ \E k \in 1..i - 1 : /\ Asks(q[k], kWildcardKey, TRUE)
                         /\ \A j \in k + 1..i - 1 : ~Asks(q[j], kWildcardKey, FALSE)
WildAfter(q, c, U) == WildBefore(q, c, U, Len(q) + 1)

\* With q read, c may be on a list that is L now; and it will be.  A wildcard adds
\* nothing if there is one already.
MayBeListed(q, c, L) ==
  \/ c \in L /\ Uncancelled(q, 1)
  \/ \E i \in 1..Len(q) : Registers(q[i]) /\ Uncancelled(q, i + 1)
Adds(q, c, U, i) ==
  \/ Asks(q[i], Key, TRUE)
  \/ Asks(q[i], kWildcardKey, TRUE) /\ ~WildBefore(q, c, U, i)
WillBeListed(q, c, U, L) ==
  \/ c \in L /\ Uncancelled(q, 1)
  \/ \E i \in 1..Len(q) : Adds(q, c, U, i) /\ Uncancelled(q, i + 1)

\* What is to come of c's frames, before and after a step.
Tracks(c, q, U, L, q2, U2, L2) ==
  /\ WildAfter(q2, c, U2) => WildAfter(q, c, U)
  /\ MayBeListed(q2, c, L2) => MayBeListed(q, c, L) \/ WildAfter(q, c, U)
  /\ WillBeListed(q, c, U, L) => WillBeListed(q2, c, U2, L2)

\* The list is as it was, or an empty one has become that of a new entry.
SameList(c, U, L, L2) == (c \in L2 <=> c \in L) \/ (c \notin L /\ (c \in L2 <=> c \in U))

\* What reading the frame f of c does.
Applies(f, c, U, L, U2, L2) ==
  /\ ~Registers(f) /\ ~Cancels(f) => (c \in U2 <=> c \in U) /\ SameList(c, U, L, L2)
  /\ Asks(f, Key, TRUE) => (c \in U2 <=> c \in U) /\ c \in L2
  /\ Asks(f, kWildcardKey, TRUE) => c \in U2 /\ (c \in L2 <=> c \in L \/ c \notin U)
  /\ Asks(f, Key, FALSE) => (c \in U2 <=> c \in U) /\ (c \in L2 => c \in U)
  /\ Asks(f, kWildcardKey, FALSE) => c \notin U2 /\ c \notin L2

LEMMA WildShifts ==
  ASSUME NEW q, NEW q2, Shifted(q, q2), NEW c, NEW U, NEW L, NEW U2, NEW L2,
         Applies(q[1], c, U, L, U2, L2), NEW i \in 1..Len(q2) + 1
  PROVE  WildBefore(q2, c, U2, i) => WildBefore(q, c, U, i + 1)
<1>1. /\ Len(q) \in Nat \ {0} /\ Len(q2) = Len(q) - 1
      /\ \A j \in 1..Len(q2) : q2[j] = q[j + 1]
  BY DEF Shifted
<1>2. /\ c \in U2 => c \in U \/ Asks(q[1], kWildcardKey, TRUE)
      /\ c \in U2 => ~Asks(q[1], kWildcardKey, FALSE)
  BY AsksOne DEF Applies, Registers, Cancels
<1>3. ASSUME NEW k \in 0..i - 1, \A j \in k + 1..i - 1 : ~Asks(q2[j], kWildcardKey, FALSE)
      PROVE  \A j \in k + 2..i : ~Asks(q[j], kWildcardKey, FALSE)
  <2> SUFFICES ASSUME NEW j \in k + 2..i PROVE ~Asks(q[j], kWildcardKey, FALSE)
    OBVIOUS
  <2>1. j - 1 \in k + 1..i - 1 /\ j - 1 \in 1..Len(q2) /\ (j - 1) + 1 = j
    BY <1>1
  <2>2. q2[j - 1] = q[j]
    BY <1>1, <2>1
  <2> QED
    BY <1>3, <2>1, <2>2
<1>4. CASE c \in U2 /\ \A j \in 1..i - 1 : ~Asks(q2[j], kWildcardKey, FALSE)
  <2>1. \A j \in 2..i : ~Asks(q[j], kWildcardKey, FALSE)
    <3>1. 0 \in 0..i - 1 /\ 0 + 1 = 1 /\ 0 + 2 = 2
      BY <1>1
    <3> QED
      BY <1>3, <1>4, <3>1
  <2>2. CASE c \in U
    <3>1. \A j \in 1..i : ~Asks(q[j], kWildcardKey, FALSE)
      <4>1. \A j \in 1..i : j = 1 \/ j \in 2..i
        OBVIOUS
      <4> QED
        BY <1>2, <1>4, <2>1, <4>1
    <3>2. (i + 1) - 1 = i
      BY <1>1
    <3> QED
      BY <2>2, <3>1, <3>2 DEF WildBefore
  <2>3. CASE Asks(q[1], kWildcardKey, TRUE)
    <3>1. (i + 1) - 1 = i /\ 1 \in 1..i /\ 1 + 1 = 2
      BY <1>1
    <3> QED
      BY <2>1, <2>3, <3>1 DEF WildBefore
  <2> QED
    BY <1>2, <1>4, <2>2, <2>3
<1>5. ASSUME NEW k \in 1..i - 1, Asks(q2[k], kWildcardKey, TRUE),
             \A j \in k + 1..i - 1 : ~Asks(q2[j], kWildcardKey, FALSE)
      PROVE  WildBefore(q, c, U, i + 1)
  <2>1. k \in 0..i - 1 /\ k \in 1..Len(q2) /\ (i + 1) - 1 = i /\ k + 1 \in 1..i
        /\ (k + 1) + 1 = k + 2
    BY <1>1
  <2>2. Asks(q[k + 1], kWildcardKey, TRUE) /\ \A j \in k + 2..i : ~Asks(q[j], kWildcardKey, FALSE)
    BY <1>1, <1>3, <1>5, <2>1
  <2> QED
    BY <2>1, <2>2 DEF WildBefore
<1> QED
  BY <1>4, <1>5 DEF WildBefore

LEMMA UncancelledShifts ==
  ASSUME NEW q, NEW q2, Shifted(q, q2), NEW i \in 1..Len(q2) + 1
  PROVE  /\ Uncancelled(q, i + 1) <=> Uncancelled(q2, i)
         /\ Uncancelled(q, 1) <=> ~Cancels(q[1]) /\ Uncancelled(q2, 1)
<1>1. /\ Len(q) \in Nat \ {0} /\ Len(q2) = Len(q) - 1
      /\ \A j \in 1..Len(q2) : q2[j] = q[j + 1]
  BY DEF Shifted
<1>2. ASSUME NEW k \in 1..Len(q2) + 1, Uncancelled(q, k + 1) PROVE Uncancelled(q2, k)
  <2> SUFFICES ASSUME NEW j \in k..Len(q2) PROVE ~Cancels(q2[j])
    BY DEF Uncancelled
  <2>1. j \in 1..Len(q2) /\ j + 1 \in k + 1..Len(q)
    BY <1>1
  <2> QED
    BY <1>1, <1>2, <2>1 DEF Uncancelled
<1>3. ASSUME NEW k \in 1..Len(q2) + 1, Uncancelled(q2, k) PROVE Uncancelled(q, k + 1)
  <2> SUFFICES ASSUME NEW j \in k + 1..Len(q) PROVE ~Cancels(q[j])
    BY DEF Uncancelled
  <2>1. j - 1 \in 1..Len(q2) /\ j - 1 \in k..Len(q2) /\ (j - 1) + 1 = j
    BY <1>1
  <2>2. q2[j - 1] = q[j]
    BY <1>1, <2>1
  <2> QED
    BY <1>3, <2>1, <2>2 DEF Uncancelled
<1>4. 1 \in 1..Len(q2) + 1 /\ 1 + 1 = 2
  BY <1>1
<1>5. Uncancelled(q, 1) <=> ~Cancels(q[1]) /\ Uncancelled(q, 2)
  <2>1. 1 \in 1..Len(q) /\ (\A j \in 1..Len(q) : j = 1 \/ j \in 2..Len(q))
        /\ (\A j \in 2..Len(q) : j \in 1..Len(q))
    BY <1>1
  <2> QED
    BY <2>1 DEF Uncancelled
<1>6. Uncancelled(q, 2) <=> Uncancelled(q2, 1)
  BY <1>2, <1>3, <1>4
<1> QED
  BY <1>2, <1>3, <1>5, <1>6

\* Reading a frame changes nothing of what is to come, ...
LEMMA ShiftTracks ==
  ASSUME NEW q, NEW q2, Shifted(q, q2), NEW c, NEW U, NEW L, NEW U2, NEW L2,
         Applies(q[1], c, U, L, U2, L2)
  PROVE  Tracks(c, q, U, L, q2, U2, L2)
<1>1. /\ Len(q) \in Nat \ {0} /\ Len(q2) = Len(q) - 1 /\ Len(q2) \in Nat
      /\ \A j \in 1..Len(q2) : q2[j] = q[j + 1]
  BY DEF Shifted
<1>2. 1 \in 1..Len(q2) + 1 /\ Len(q2) + 1 \in 1..Len(q2) + 1 /\ (Len(q2) + 1) + 1 = Len(q) + 1
      /\ 1 \in 1..Len(q) /\ 1 + 1 = 2
  BY <1>1
<1>3. /\ Uncancelled(q, 1) <=> ~Cancels(q[1]) /\ Uncancelled(q2, 1)
      /\ Uncancelled(q, 2) <=> Uncancelled(q2, 1)
  BY <1>2, UncancelledShifts
<1>4. WildAfter(q2, c, U2) => WildAfter(q, c, U)
  BY <1>2, WildShifts DEF WildAfter
<1>5. c \in U /\ Uncancelled(q2, 1) /\ ~Asks(q[1], kWildcardKey, FALSE) => WildAfter(q, c, U)
  <2>1. SUFFICES ASSUME c \in U, Uncancelled(q2, 1), ~Asks(q[1], kWildcardKey, FALSE)
                 PROVE  \A j \in 1..Len(q) : ~Asks(q[j], kWildcardKey, FALSE)
    <3>1. (Len(q) + 1) - 1 = Len(q)
      BY <1>1
    <3> QED
      BY <3>1 DEF WildAfter, WildBefore
  <2>2. Uncancelled(q, 2)
    BY <1>3, <2>1
  <2>3. \A j \in 1..Len(q) : j = 1 \/ j \in 2..Len(q)
    BY <1>1
  <2> QED
    BY <2>1, <2>2, <2>3 DEF Uncancelled, Cancels
<1>6. ASSUME MayBeListed(q2, c, L2) PROVE MayBeListed(q, c, L) \/ WildAfter(q, c, U)
  <2>1. CASE c \in L2 /\ Uncancelled(q2, 1)
    <3>1. CASE Registers(q[1])
      BY <1>2, <1>3, <2>1, <3>1 DEF MayBeListed
    <3>2. CASE ~Registers(q[1]) /\ ~Cancels(q[1])
      BY <1>3, <1>5, <2>1, <3>2 DEF MayBeListed, Applies, SameList, Cancels
    <3>3. CASE Cancels(q[1])
      BY <1>5, <2>1, <3>3, AsksOne DEF Applies, Cancels
    <3> QED
      BY <3>1, <3>2, <3>3
  <2>2. ASSUME NEW i \in 1..Len(q2), Registers(q2[i]), Uncancelled(q2, i + 1)
        PROVE  MayBeListed(q, c, L)
    <3>1. i + 1 \in 1..Len(q2) + 1 /\ i + 1 \in 1..Len(q)
      BY <1>1
    <3>2. Registers(q[i + 1]) /\ Uncancelled(q, (i + 1) + 1)
      BY <1>1, <2>2, <3>1, UncancelledShifts
    <3> QED
      BY <3>1, <3>2 DEF MayBeListed
  <2> QED
    BY <1>6, <2>1, <2>2 DEF MayBeListed
<1>7. ASSUME WillBeListed(q, c, U, L) PROVE WillBeListed(q2, c, U2, L2)
  <2>1. CASE c \in L /\ Uncancelled(q, 1)
    <3>1. ~Cancels(q[1]) /\ Uncancelled(q2, 1)
      BY <1>3, <2>1
    <3>2. c \in L2
      BY <2>1, <3>1 DEF Applies, SameList, Registers
    <3> QED
      BY <3>1, <3>2 DEF WillBeListed
  <2>2. ASSUME NEW i \in 1..Len(q), Adds(q, c, U, i), Uncancelled(q, i + 1)
        PROVE  WillBeListed(q2, c, U2, L2)
    <3>1. CASE i = 1
      <4>1. Uncancelled(q2, 1)
        BY <1>2, <1>3, <2>2, <3>1
      <4>2. Asks(q[1], Key, TRUE) \/ (Asks(q[1], kWildcardKey, TRUE) /\ c \notin U)
        <5>1. c \in U => WildBefore(q, c, U, 1)
          <6>1. \A j \in 1..1 - 1 : FALSE
            OBVIOUS
          <6> QED
            BY <6>1 DEF WildBefore
        <5> QED
          BY <2>2, <3>1, <5>1 DEF Adds
      <4> QED
        BY <4>1, <4>2 DEF WillBeListed, Applies
    <3>2. CASE i # 1
      <4>1. i - 1 \in 1..Len(q2) /\ (i - 1) + 1 = i /\ i - 1 \in 1..Len(q2) + 1 /\ i \in 1..Len(q2) + 1
        BY <1>1, <3>2
      <4>2. q2[i - 1] = q[i]
        BY <1>1, <4>1
      <4>3. WildBefore(q2, c, U2, i - 1) => WildBefore(q, c, U, i)
        BY <4>1, WildShifts
      <4>4. Uncancelled(q2, (i - 1) + 1)
        BY <2>2, <4>1, UncancelledShifts
      <4>5. Adds(q2, c, U2, i - 1)
        BY <2>2, <4>2, <4>3 DEF Adds
      <4> QED
        BY <4>1, <4>4, <4>5 DEF WillBeListed
    <3> QED
      BY <3>1, <3>2
  <2> QED
    BY <1>7, <2>1, <2>2 DEF WillBeListed
<1> QED
  BY <1>4, <1>6, <1>7 DEF Tracks

\* ... and what sending one does depends on the frame.
LEMMA Extends ==
  ASSUME NEW q, NEW q2, NEW f, Extended(q, q2, f), NEW c, NEW U, NEW L
  PROVE  /\ WildAfter(q2, c, U) =>
              \/ Asks(f, kWildcardKey, TRUE)
              \/ WildAfter(q, c, U) /\ ~Asks(f, kWildcardKey, FALSE)
         /\ MayBeListed(q2, c, L) => ~Cancels(f) /\ (Registers(f) \/ MayBeListed(q, c, L))
         /\ WillBeListed(q, c, U, L) /\ ~Cancels(f) => WillBeListed(q2, c, U, L)
         /\ Asks(f, Key, TRUE) => WillBeListed(q2, c, U, L)
         /\ Asks(f, kWildcardKey, TRUE) /\ ~WildAfter(q, c, U) => WillBeListed(q2, c, U, L)
<1> DEFINE n == Len(q)
<1>1. /\ n \in Nat /\ Len(q2) = n + 1 /\ q2[n + 1] = f
      /\ \A i \in 1..n : q2[i] = q[i]
  BY DEF Extended
<1>2. /\ \A j \in 1..n + 1 : j \in 1..n \/ j = n + 1
      /\ n + 1 \in 1..n + 1 /\ \A j \in 1..n : j \in 1..n + 1
      /\ (n + 1) - 1 = n /\ ((n + 1) + 1) - 1 = n + 1
  BY <1>1
<1> HIDE DEF n
<1>3. ASSUME NEW i \in 1..n + 1 PROVE WildBefore(q2, c, U, i) <=> WildBefore(q, c, U, i)
  <2>1. \A j \in 1..i - 1 : j \in 1..n
    BY <1>1
  <2>2. \A k \in 1..i - 1 : \A j \in k + 1..i - 1 : j \in 1..n
    BY <1>1
  <2>3. \A k \in 1..i - 1 : q2[k] = q[k]
    BY <1>1, <2>1
  <2>4. \A k \in 1..i - 1 : \A j \in k + 1..i - 1 : q2[j] = q[j]
    BY <1>1, <2>2
  <2> QED
    BY <2>3, <2>4 DEF WildBefore
<1>4. ASSUME NEW i \in 1..n + 1 PROVE Uncancelled(q2, i) <=> Uncancelled(q, i) /\ ~Cancels(f)
  <2>1. /\ \A j \in i..n + 1 : j \in i..n \/ j = n + 1
        /\ n + 1 \in i..n + 1 /\ \A j \in i..n : j \in i..n + 1 /\ j \in 1..n
    BY <1>1
  <2>2. Uncancelled(q2, i) => Uncancelled(q, i) /\ ~Cancels(f)
    BY <1>1, <2>1 DEF Uncancelled, n
  <2>3. Uncancelled(q, i) /\ ~Cancels(f) => Uncancelled(q2, i)
    BY <1>1, <2>1 DEF Uncancelled, n
  <2> QED
    BY <2>2, <2>3
<1>5. Uncancelled(q2, n + 2)
  BY <1>1 DEF Uncancelled
<1>6. 1 \in 1..n + 1 /\ (n + 1) + 1 = n + 2
      /\ \A i \in 1..n : i \in 1..n + 1 /\ i + 1 \in 1..n + 1
  BY <1>1
<1>7. WildAfter(q2, c, U) =>
        \/ Asks(f, kWildcardKey, TRUE)
        \/ WildAfter(q, c, U) /\ ~Asks(f, kWildcardKey, FALSE)
  <2> SUFFICES ASSUME WildBefore(q2, c, U, (n + 1) + 1), ~Asks(f, kWildcardKey, TRUE)
               PROVE  WildBefore(q, c, U, n + 1) /\ ~Asks(f, kWildcardKey, FALSE)
    BY <1>1 DEF WildAfter, n
  <2>1. CASE c \in U /\ \A j \in 1..n + 1 : ~Asks(q2[j], kWildcardKey, FALSE)
    BY <1>1, <1>2, <2>1 DEF WildBefore
  <2>2. ASSUME NEW k \in 1..n + 1, Asks(q2[k], kWildcardKey, TRUE),
               \A j \in k + 1..n + 1 : ~Asks(q2[j], kWildcardKey, FALSE)
        PROVE  WildBefore(q, c, U, n + 1) /\ ~Asks(f, kWildcardKey, FALSE)
    <3>1. k # n + 1 /\ k \in 1..n
      BY <1>1, <1>2, <2>2
    <3>2. n + 1 \in k + 1..n + 1 /\ \A j \in k + 1..n : j \in k + 1..n + 1 /\ j \in 1..n
      BY <1>1, <3>1
    <3>3. Asks(q[k], kWildcardKey, TRUE) /\ \A j \in k + 1..n : ~Asks(q[j], kWildcardKey, FALSE)
      BY <1>1, <2>2, <3>1, <3>2
    <3> QED
      BY <1>1, <1>2, <2>2, <3>1, <3>2, <3>3 DEF WildBefore
  <2> QED
    BY <1>2, <2>1, <2>2 DEF WildBefore
<1>8. MayBeListed(q2, c, L) => ~Cancels(f) /\ (Registers(f) \/ MayBeListed(q, c, L))
  <2> SUFFICES ASSUME MayBeListed(q2, c, L)
               PROVE  ~Cancels(f) /\ (Registers(f) \/ MayBeListed(q, c, L))
    OBVIOUS
  <2>1. CASE c \in L /\ Uncancelled(q2, 1)
    BY <1>4, <1>6, <2>1 DEF MayBeListed
  <2>2. ASSUME NEW i \in 1..n + 1, Registers(q2[i]), Uncancelled(q2, i + 1)
        PROVE  ~Cancels(f) /\ (Registers(f) \/ MayBeListed(q, c, L))
    <3>1. CASE i = n + 1
      BY <1>1, <2>2, <3>1, AsksOne
    <3>2. CASE i \in 1..n
      <4>1. Uncancelled(q, i + 1) /\ ~Cancels(f) /\ Registers(q[i])
        BY <1>1, <1>4, <1>6, <2>2, <3>2
      <4> QED
        BY <3>2, <4>1 DEF MayBeListed, n
    <3> QED
      BY <1>2, <3>1, <3>2
  <2> QED
    BY <1>1, <2>1, <2>2 DEF MayBeListed
<1>9. WillBeListed(q, c, U, L) /\ ~Cancels(f) => WillBeListed(q2, c, U, L)
  <2> SUFFICES ASSUME WillBeListed(q, c, U, L), ~Cancels(f) PROVE WillBeListed(q2, c, U, L)
    OBVIOUS
  <2>1. CASE c \in L /\ Uncancelled(q, 1)
    BY <1>4, <1>6, <2>1 DEF WillBeListed
  <2>2. ASSUME NEW i \in 1..n, Adds(q, c, U, i), Uncancelled(q, i + 1)
        PROVE  WillBeListed(q2, c, U, L)
    <3>1. Uncancelled(q2, i + 1) /\ i \in 1..n + 1 /\ q2[i] = q[i]
      BY <1>1, <1>4, <1>6, <2>2
    <3>2. Adds(q2, c, U, i)
      BY <1>3, <2>2, <3>1 DEF Adds
    <3> QED
      BY <1>1, <3>1, <3>2 DEF WillBeListed
  <2> QED
    BY <2>1, <2>2 DEF WillBeListed, n
<1>10. ASSUME Adds(q2, c, U, n + 1) PROVE WillBeListed(q2, c, U, L)
  BY <1>1, <1>2, <1>5, <1>6, <1>10 DEF WillBeListed
<1>11. Asks(f, Key, TRUE) => WillBeListed(q2, c, U, L)
  BY <1>1, <1>10 DEF Adds
<1>12. Asks(f, kWildcardKey, TRUE) /\ ~WildAfter(q, c, U) => WillBeListed(q2, c, U, L)
  BY <1>1, <1>2, <1>3, <1>10 DEF Adds, WildAfter, n
<1> QED
  BY <1>7, <1>8, <1>9, <1>11, <1>12

\* News are no subscriptions.
LEMMA NewsAskNothing == \A m \in News : ~Registers(m) /\ ~Cancels(m)
BY DEF News, Registers, Cancels, Asks

\* The queue is as it was, or has one frame more, which is no subscription.
Plain(q, q2) == q2 = q \/ \E f : Extended(q, q2, f) /\ ~Registers(f) /\ ~Cancels(f)

LEMMA GrowTracks ==
  ASSUME NEW q \in Seq(Frame), NEW q2, Plain(q, q2),
         NEW c, NEW U, NEW L, NEW U2, NEW L2, c \in U2 <=> c \in U, SameList(c, U, L, L2)
  PROVE  Tracks(c, q, U, L, q2, U2, L2)
<1>0. Tracks(c, q2, U, L2, q2, U2, L2)
  <2>1. \A i : WildBefore(q2, c, U2, i) <=> WildBefore(q2, c, U, i)
    BY DEF WildBefore
  <2>2. \A i : Adds(q2, c, U2, i) <=> Adds(q2, c, U, i)
    BY <2>1 DEF Adds
  <2> QED
    BY <2>1, <2>2 DEF Tracks, WildAfter, WillBeListed
<1>1. Tracks(c, q, U, L, q2, U, L)
  <2>1. CASE q2 = q
    BY <2>1 DEF Tracks
  <2>2. ASSUME NEW f, Extended(q, q2, f), ~Registers(f), ~Cancels(f)
        PROVE  Tracks(c, q, U, L, q2, U, L)
    BY <2>2, Extends DEF Tracks, Registers
  <2> QED
    BY <2>1, <2>2 DEF Plain
<1>2. Len(q2) \in Nat
  BY DEF Extended, Plain
<1>3. c \in U /\ Uncancelled(q2, 1) => WildAfter(q2, c, U)
  <2>1. (Len(q2) + 1) - 1 = Len(q2)
    BY <1>2
  <2> QED
    BY <2>1 DEF WildAfter, WildBefore, Uncancelled, Cancels
<1>4. MayBeListed(q2, c, L2) => MayBeListed(q2, c, L) \/ WildAfter(q2, c, U)
  BY <1>3 DEF MayBeListed, SameList
<1>5. WillBeListed(q2, c, U, L) => WillBeListed(q2, c, U, L2)
  BY DEF WillBeListed, SameList
<1> QED
  BY <1>0, <1>1, <1>4, <1>5 DEF Tracks

\* Nothing asked, and what is asked for on connecting.
LEMMA NothingAsked ==
  ASSUME NEW c, NEW U, NEW L
  PROVE  /\ WildAfter(<<>>, c, U) <=> c \in U
         /\ MayBeListed(<<>>, c, L) <=> c \in L
         /\ WillBeListed(<<>>, c, U, L) <=> c \in L
<1>1. Len(<<>>) = 0 /\ (0 + 1) - 1 = 0 /\ 1..0 = {}
  OBVIOUS
<1>2. Uncancelled(<<>>, 1)
  BY <1>1 DEF Uncancelled
<1> QED
  BY <1>1, <1>2 DEF WildAfter, WildBefore, MayBeListed, WillBeListed

LEMMA ReplayAsks ==
  ASSUME NEW keys, NEW q, AsksFor(q, keys), NEW c, NEW U, NEW L, c \notin U, c \notin L
  PROVE  /\ WildAfter(q, c, U) => kWildcardKey \in keys
         /\ MayBeListed(q, c, L) => Key \in keys \/ kWildcardKey \in keys
         /\ Key \in keys \/ kWildcardKey \in keys => WillBeListed(q, c, U, L)
<1>0. Len(q) \in Nat
  BY DEF AsksFor
<1>1. /\ Asks(On(Key), Key, TRUE) /\ Asks(On(kWildcardKey), kWildcardKey, TRUE)
      /\ ~Cancels(On(Key)) /\ ~Cancels(On(kWildcardKey)) /\ ~Asks(On(Key), kWildcardKey, TRUE)
  BY DEF Asks, On, Cancels, Key, kWildcardKey
<1>2. \A i \in 1..Len(q) : ~Cancels(q[i])
  BY <1>1 DEF AsksFor
<1>3. \A i \in 1..Len(q) : /\ q[i] = On(Key) => Key \in keys
                           /\ q[i] = On(kWildcardKey) => kWildcardKey \in keys
  BY OnKeys DEF AsksFor
<1>4. WildAfter(q, c, U) => kWildcardKey \in keys
  <2>1. (Len(q) + 1) - 1 = Len(q)
    BY <1>0
  <2>2. ASSUME NEW k \in 1..Len(q), Asks(q[k], kWildcardKey, TRUE) PROVE kWildcardKey \in keys
    BY <1>1, <1>3, <2>2 DEF AsksFor
  <2> QED
    BY <2>1, <2>2 DEF WildAfter, WildBefore
<1>5. MayBeListed(q, c, L) => Key \in keys \/ kWildcardKey \in keys
  BY <1>3 DEF MayBeListed, AsksFor
<1>6. \A i \in 1..Len(q) : Uncancelled(q, i + 1)
  <2>1. \A i \in 1..Len(q) : \A j \in i + 1..Len(q) : j \in 1..Len(q)
    BY <1>0
  <2> QED
    BY <1>2, <2>1 DEF Uncancelled
<1>7. ASSUME Key \in keys PROVE WillBeListed(q, c, U, L)
  <2>1. PICK i \in 1..Len(q) : q[i] = On(Key)
    BY <1>7 DEF AsksFor
  <2> QED
    BY <1>1, <1>6, <2>1 DEF WillBeListed, Adds
<1>8. ASSUME kWildcardKey \in keys PROVE WillBeListed(q, c, U, L)
  <2>1. PICK i \in 1..Len(q) : q[i] = On(kWildcardKey)
    BY <1>8 DEF AsksFor
  <2>2. ASSUME NEW k \in 1..i - 1 PROVE ~Asks(q[k], kWildcardKey, TRUE)
    <3>1. k \in 1..Len(q) /\ k # i
      BY <1>0
    <3>2. q[k] # On(kWildcardKey)
      BY <2>1, <3>1 DEF AsksFor
    <3>3. q[k] = On(Key)
      BY <3>1, <3>2 DEF AsksFor
    <3> QED
      BY <1>1, <3>3
  <2>3. ~WildBefore(q, c, U, i)
    BY <2>2 DEF WildBefore
  <2> QED
    BY <1>1, <1>6, <2>1, <2>3 DEF WillBeListed, Adds
<1> QED
  BY <1>4, <1>5, <1>7, <1>8

\* A wildcard of c covers d.
HoldsWild(c, d) == \E r \in records[c] : Covers(r, d) /\ r[2] = kWildcardKey

\* What d has of c's, and what is on its way to it, is what c holds.
WildIsHeld(c, d) ==
  c \in up /\ WildAfter(wire[c][d], c, u_subscribers[d]) => HoldsWild(c, d) \/ c \in replaced
ListedIsHeld(c, d) ==
  c \in up /\ MayBeListed(wire[c][d], c, ListOf(d, d)) => Covered(c, d) \/ c \in replaced
HeldIsListed(c, d) ==
  /\ <<c, d>> \notin cut
  /\ (d \in sessions[c] /\ Covered(c, d)) \/ WildAfter(wire[c][d], c, u_subscribers[d])
  => WillBeListed(wire[c][d], c, u_subscribers[d], ListOf(d, d))
AskedAt(c, d) == WildIsHeld(c, d) /\ ListedIsHeld(c, d) /\ HeldIsListed(c, d)

\* The inductive invariant of ListedIsAsked.
AskInv == \A c, d \in Components : AskedAt(c, d)

\* It is kept where nothing is asked.
LEMMA AskedFrame ==
  ASSUME NEW c \in Components, NEW d \in Components, AskedAt(c, d),
         Tracks(c, wire[c][d], u_subscribers[d], ListOf(d, d),
                   wire'[c][d], u_subscribers'[d], ListOf(d, d)'),
         records'[c] = records[c], c \in up' => c \in up \/ c \in replaced',
         d \in sessions'[c] => d \in sessions[c] \/ records[c] = {},
         <<c, d>> \in cut => <<c, d>> \in cut', c \in replaced => c \in replaced'
  PROVE  AskedAt(c, d)'
<1>1. /\ HoldsWild(c, d)' <=> HoldsWild(c, d)
      /\ Covered(c, d)' <=> Covered(c, d)
      /\ HoldsWild(c, d) => Covered(c, d)
      /\ records[c] = {} => ~Covered(c, d)
  BY DEF HoldsWild, Covered
<1>2. /\ c \in up => (WildAfter(wire[c][d], c, u_subscribers[d]) => HoldsWild(c, d) \/ c \in replaced)
      /\ c \in up => (MayBeListed(wire[c][d], c, ListOf(d, d)) => Covered(c, d) \/ c \in replaced)
      /\ <<c, d>> \notin cut =>
           ((d \in sessions[c] /\ Covered(c, d)) \/ WildAfter(wire[c][d], c, u_subscribers[d])
             => WillBeListed(wire[c][d], c, u_subscribers[d], ListOf(d, d)))
  BY DEF AskedAt, WildIsHeld, ListedIsHeld, HeldIsListed
<1>3. /\ WildAfter(wire[c][d], c, u_subscribers[d])' => WildAfter(wire[c][d], c, u_subscribers[d])
      /\ MayBeListed(wire[c][d], c, ListOf(d, d))' =>
           MayBeListed(wire[c][d], c, ListOf(d, d)) \/ WildAfter(wire[c][d], c, u_subscribers[d])
      /\ WillBeListed(wire[c][d], c, u_subscribers[d], ListOf(d, d)) =>
           WillBeListed(wire[c][d], c, u_subscribers[d], ListOf(d, d))'
  BY DEF Tracks
<1>4. WildIsHeld(c, d)'
  BY <1>1, <1>2, <1>3 DEF WildIsHeld
<1>5. ListedIsHeld(c, d)'
  BY <1>1, <1>2, <1>3 DEF ListedIsHeld
<1>6. HeldIsListed(c, d)'
  BY <1>1, <1>2, <1>3 DEF HeldIsListed
<1> QED
  BY <1>4, <1>5, <1>6 DEF AskedAt

\* The lists of c's own pair, where a pair is set or removed ...
SameLists(c) ==
  /\ u_subscribers'[c] = u_subscribers[c]
  /\ ListOf(c, c)' = ListOf(c, c) \/ (ListOf(c, c) = {} /\ ListOf(c, c)' = u_subscribers[c])

LEMMA AddedSame ==
  ASSUME NetTypeOK, NEW c \in Components, NEW o \in Components, NEW v \in Nat, AddPair(c, o, v)
  PROVE  SameLists(c)
<1>1. /\ u_subscribers'[c] = u_subscribers[c]
      /\ pairs'[c][o] = v /\ subscribers'[c][o] = ListOf(c, o)
      /\ \A e \in Components : e # o =>
           pairs'[c][e] = pairs[c][e] /\ subscribers'[c][e] = subscribers[c][e]
  BY Added
<1>2. v # Absent
  BY DEF Absent
<1> QED
  BY <1>1, <1>2 DEF SameLists, ListOf

LEMMA RemovedSame ==
  ASSUME NetTypeOK, NEW c \in Components, NEW o \in Components, RemovePair(c, o)
  PROVE  SameLists(c)
<1>1. /\ u_subscribers' = u_subscribers /\ subscribers' = subscribers
      /\ pairs'[c][o] = IF pairs[c][o] = Absent \/ subscribers[c][o] = {}
                        THEN Absent ELSE Invalid
      /\ \A e \in Components : e # o => pairs'[c][e] = pairs[c][e]
  BY Removed
<1>2. Invalid # Absent
  BY DEF Absent, Invalid
<1>3. CASE o # c
  BY <1>1, <1>3 DEF SameLists, ListOf
<1>4. CASE o = c
  <2>1. CASE pairs[c][c] = Absent
    BY <1>1, <1>4, <2>1 DEF SameLists, ListOf
  <2>2. CASE pairs[c][c] # Absent /\ subscribers[c][c] = {}
    BY <1>1, <1>4, <2>2 DEF SameLists, ListOf
  <2>3. CASE pairs[c][c] # Absent /\ subscribers[c][c] # {}
    BY <1>1, <1>2, <1>4, <2>3 DEF SameLists, ListOf
  <2> QED
    BY <2>1, <2>2, <2>3
<1> QED
  BY <1>3, <1>4

\* ... and where a frame of src is handled.
Effects(src, c) ==
  /\ Applies(Head(wire[src][c]), src, u_subscribers[c], ListOf(c, c),
                                      u_subscribers'[c], ListOf(c, c)')
  /\ \A x \in Components \ {src} :
       /\ x \in u_subscribers'[c] <=> x \in u_subscribers[c]
       /\ SameList(x, u_subscribers[c], ListOf(c, c), ListOf(c, c)')

LEMMA HandlersEffect ==
  ASSUME Links, NEW src \in Components, NEW c \in Components, Handle(src, c)
  PROVE  Effects(src, c)
<1> DEFINE f == Head(wire[src][c])
<1>0. NetTypeOK /\ f \in Frame
  BY HandlersAnswer DEF Links
<1>1. ASSUME SameLists(c), f.type # "Subscription" PROVE Effects(src, c)
  <2>1. ~Registers(f) /\ ~Cancels(f) /\ \A on \in BOOLEAN : ~Asks(f, Key, on) /\ ~Asks(f, kWildcardKey, on)
    BY <1>1 DEF Registers, Cancels, Asks
  <2> HIDE DEF f
  <2>2. \A x \in Components : /\ x \in u_subscribers'[c] <=> x \in u_subscribers[c]
                              /\ SameList(x, u_subscribers[c], ListOf(c, c), ListOf(c, c)')
    BY <1>1 DEF SameLists, SameList
  <2>3. Applies(f, src, u_subscribers[c], ListOf(c, c), u_subscribers'[c], ListOf(c, c)')
    BY <2>1, <2>2 DEF Applies
  <2> QED
    BY <2>2, <2>3 DEF Effects, f
<1> HIDE DEF f
<1>2. ASSUME HandleIncomingPair(src, c) PROVE Effects(src, c)
  <2>1. f.val \in Nat /\ AddPair(c, c, f.val) /\ f.type # "Subscription"
    BY <1>0, <1>2, FrameFacts DEF HandleIncomingPair, Reads, f
  <2> QED
    BY <1>0, <1>1, <2>1, AddedSame
<1>3. ASSUME HandlePairUpdate(src, c) PROVE Effects(src, c)
  <2>1. f.val \in Nat /\ f.owner \in Components /\ AddPair(c, f.owner, f.val) /\ f.type # "Subscription"
    BY <1>0, <1>3, FrameFacts DEF HandlePairUpdate, Reads, f
  <2> QED
    BY <1>0, <1>1, <2>1, AddedSame
<1>4. ASSUME HandleRemovePair(src, c) PROVE Effects(src, c)
  <2>1. RemovePair(c, c) /\ f.type # "Subscription"
    BY <1>4 DEF HandleRemovePair, Reads, f
  <2> QED
    BY <1>0, <1>1, <2>1, RemovedSame
<1>5. ASSUME HandlePairRemoved(src, c) PROVE Effects(src, c)
  <2>1. f.owner \in Components /\ RemovePair(c, f.owner) /\ f.type # "Subscription"
    BY <1>0, <1>5, FrameFacts DEF HandlePairRemoved, Reads, f
  <2> QED
    BY <1>0, <1>1, <2>1, RemovedSame
<1>6. ASSUME NEW key \in {Key, kWildcardKey}, NEW on \in BOOLEAN, Asked(src, c, key, on)
      PROVE  Asks(f, key, on)
  BY <1>6 DEF Asked, Reads, Asks, f
<1>7. /\ Asks(f, Key, TRUE) => /\ ~Asks(f, kWildcardKey, TRUE) /\ ~Asks(f, Key, FALSE)
                               /\ ~Asks(f, kWildcardKey, FALSE)
      /\ Asks(f, kWildcardKey, TRUE) => ~Asks(f, Key, FALSE) /\ ~Asks(f, kWildcardKey, FALSE)
                                        /\ ~Asks(f, Key, TRUE)
      /\ Asks(f, Key, FALSE) => /\ ~Asks(f, kWildcardKey, TRUE) /\ ~Asks(f, Key, TRUE)
                                /\ ~Asks(f, kWildcardKey, FALSE)
      /\ Asks(f, kWildcardKey, FALSE) => ~Asks(f, Key, FALSE) /\ ~Asks(f, kWildcardKey, TRUE)
                                         /\ ~Asks(f, Key, TRUE)
  BY DEF Asks, Key, kWildcardKey
<1>8. ASSUME HandleSubscribe(src, c) PROVE Effects(src, c)
  <2>1. /\ u_subscribers' = u_subscribers
        /\ pairs'[c][c] = Seen(c, c) /\ subscribers'[c][c] = ListOf(c, c) \cup {src}
    BY <1>0, <1>8, Listed
  <2>2. Seen(c, c) # Absent /\ Asks(f, Key, TRUE)
    <3>1. Seen(c, c) # Absent
      BY DEF Seen, Invalid, Absent
    <3>2. Asked(src, c, Key, TRUE)
      BY <1>8 DEF HandleSubscribe
    <3> QED
      BY <1>6, <3>1, <3>2
  <2>3. ListOf(c, c)' = ListOf(c, c) \cup {src}
    BY <2>1, <2>2 DEF ListOf
  <2>4. Applies(f, src, u_subscribers[c], ListOf(c, c), u_subscribers'[c], ListOf(c, c)')
    BY <1>7, <2>1, <2>2, <2>3 DEF Applies, Registers
  <2> QED
    BY <2>1, <2>3, <2>4 DEF Effects, SameList, f
<1>9. ASSUME HandleSubscribeToAll(src, c) PROVE Effects(src, c)
  <2>1. /\ pairs' = pairs /\ u_subscribers'[c] = u_subscribers[c] \cup {src}
        /\ subscribers'[c][c] = IF pairs[c][c] = Absent \/ src \in u_subscribers[c]
                                THEN subscribers[c][c] ELSE subscribers[c][c] \cup {src}
    BY <1>0, <1>9, ListedEverywhere
  <2>2. Asks(f, kWildcardKey, TRUE)
    BY <1>6, <1>9 DEF HandleSubscribeToAll
  <2>3. ListOf(c, c)' = IF src \in u_subscribers[c] THEN ListOf(c, c) ELSE ListOf(c, c) \cup {src}
    <3>1. CASE pairs[c][c] = Absent
      <4>1. ListOf(c, c) = u_subscribers[c] /\ ListOf(c, c)' = u_subscribers[c] \cup {src}
        BY <2>1, <3>1 DEF ListOf
      <4>2. src \in u_subscribers[c] => u_subscribers[c] \cup {src} = u_subscribers[c]
        OBVIOUS
      <4> QED
        BY <4>1, <4>2
    <3>2. CASE pairs[c][c] # Absent
      BY <2>1, <3>2 DEF ListOf
    <3> QED
      BY <3>1, <3>2
  <2>4. Applies(f, src, u_subscribers[c], ListOf(c, c), u_subscribers'[c], ListOf(c, c)')
    BY <1>7, <2>1, <2>2, <2>3 DEF Applies, Registers
  <2> QED
    BY <2>1, <2>3, <2>4 DEF Effects, SameList, f
<1>10. ASSUME HandleUnsubscribe(src, c) PROVE Effects(src, c)
  <2>1. /\ pairs' = pairs /\ u_subscribers' = u_subscribers
        /\ subscribers'[c][c] = subscribers[c][c] \ {src}
    BY <1>0, <1>10, Unlisted
  <2>2. Asks(f, Key, FALSE)
    BY <1>6, <1>10 DEF HandleUnsubscribe
  <2>3. \/ ListOf(c, c)' = ListOf(c, c) /\ ListOf(c, c) = u_subscribers[c]
        \/ ListOf(c, c)' = ListOf(c, c) \ {src}
    BY <2>1 DEF ListOf
  <2>4. Applies(f, src, u_subscribers[c], ListOf(c, c), u_subscribers'[c], ListOf(c, c)')
    BY <1>7, <2>1, <2>2, <2>3 DEF Applies, Cancels
  <2> QED
    BY <2>1, <2>3, <2>4 DEF Effects, SameList, f
<1>11. ASSUME HandleUnsubscribeFromAll(src, c) PROVE Effects(src, c)
  <2>1. /\ pairs' = pairs /\ u_subscribers'[c] = u_subscribers[c] \ {src}
        /\ subscribers'[c][c] = subscribers[c][c] \ {src}
    BY <1>0, <1>11, UnlistedEverywhere
  <2>2. Asks(f, kWildcardKey, FALSE)
    BY <1>6, <1>11 DEF HandleUnsubscribeFromAll
  <2>3. ListOf(c, c)' = ListOf(c, c) \ {src}
    BY <2>1 DEF ListOf
  <2>4. Applies(f, src, u_subscribers[c], ListOf(c, c), u_subscribers'[c], ListOf(c, c)')
    BY <1>7, <2>1, <2>2, <2>3 DEF Applies, Cancels
  <2> QED
    BY <2>1, <2>3, <2>4 DEF Effects, SameList, f
<1> QED
  BY <1>2, <1>3, <1>4, <1>5, <1>8, <1>9, <1>10, <1>11 DEF Handle

LEMMA GrownPlain == \A q, q2 : Grown(q, q2) => Plain(q, q2)
BY NewsAskNothing DEF Grown, Plain

LEMMA ListElsewhere ==
  ASSUME NEW c \in Components, Elsewhere(c), NEW d \in Components, d # c
  PROVE  ListOf(d, d)' = ListOf(d, d) /\ u_subscribers'[d] = u_subscribers[d]
BY DEF Elsewhere, ListOf

\* What x has asked of y, and y has read of it, across a step.
TracksAt(x, y) == Tracks(x, wire[x][y], u_subscribers[y], ListOf(y, y),
                            wire'[x][y], u_subscribers'[y], ListOf(y, y)')

LEMMA HandlersTrack ==
  ASSUME Links, NEW src \in Components, NEW c \in Components, Handle(src, c),
         NEW x \in Components, NEW y \in Components
  PROVE  TracksAt(x, y) /\ UNCHANGED <<up, sessions, records, cut, replaced>>
<1>1. Answers(src, c) /\ Effects(src, c) /\ NetTypeOK /\ wire[src][c] # <<>>
  BY HandlersAnswer, HandlersEffect DEF Links
<1>2. /\ UNCHANGED <<up, sessions, records, cut, replaced>> /\ Elsewhere(c)
      /\ Shifted(wire[src][c], wire'[src][c])
      /\ \A x1, y1 \in Components : x1 # src \/ y1 # c => Grown(wire[x1][y1], wire'[x1][y1])
  BY <1>1 DEF Answers
<1>3. Tracks(x, wire[x][y], u_subscribers[y], ListOf(y, y),
                wire'[x][y], u_subscribers'[y], ListOf(y, y)')
  <2>0. wire[x][y] \in Seq(Frame)
    BY <1>1 DEF NetTypeOK
  <2>1. CASE x = src /\ y = c
    <3>1. Applies(wire[src][c][1], src, u_subscribers[c], ListOf(c, c),
                                        u_subscribers'[c], ListOf(c, c)')
      BY <1>1, HeadFacts DEF Effects
    <3> QED
      BY <1>2, <2>1, <3>1, ShiftTracks
  <2>2. CASE x # src \/ y # c
    <3>1. Plain(wire[x][y], wire'[x][y])
      BY <1>2, <2>2, GrownPlain
    <3>2. /\ x \in u_subscribers'[y] <=> x \in u_subscribers[y]
          /\ SameList(x, u_subscribers[y], ListOf(y, y), ListOf(y, y)')
      <4>1. CASE y = c
        BY <1>1, <2>2, <4>1 DEF Effects
      <4>2. CASE y # c
        BY <1>2, <4>2, ListElsewhere DEF SameList
      <4> QED
        BY <4>1, <4>2
    <3> QED
      BY <2>0, <3>1, <3>2, GrowTracks
  <2> QED
    BY <2>1, <2>2
<1> QED
  BY <1>2, <1>3 DEF TracksAt

LEMMA HandlersAsk ==
  ASSUME Links, AskInv, NEW src \in Components, NEW c \in Components, Handle(src, c)
  PROVE  AskInv'
<1> SUFFICES ASSUME NEW x \in Components, NEW y \in Components PROVE AskedAt(x, y)'
  BY DEF AskInv
<1>1. TracksAt(x, y) /\ UNCHANGED <<up, sessions, records, cut, replaced>>
  BY HandlersTrack
<1>2. AskedAt(x, y)
  BY DEF AskInv
<1> QED
  BY <1>1, <1>2, AskedFrame DEF TracksAt

\* The calls that ask for nothing.
LEMMA PlainTracks ==
  ASSUME NetTypeOK, NEW c \in Components, Elsewhere(c), SameLists(c),
         NEW x \in Components, NEW y \in Components, Plain(wire[x][y], wire'[x][y])
  PROVE  TracksAt(x, y)
<1>1. Tracks(x, wire[x][y], u_subscribers[y], ListOf(y, y),
                wire'[x][y], u_subscribers'[y], ListOf(y, y)')
  <2>1. wire[x][y] \in Seq(Frame)
    BY DEF NetTypeOK
  <2>2. /\ x \in u_subscribers'[y] <=> x \in u_subscribers[y]
        /\ SameList(x, u_subscribers[y], ListOf(y, y), ListOf(y, y)')
    <3>1. CASE y = c
      BY <3>1 DEF SameLists, SameList
    <3>2. CASE y # c
      BY <3>2, ListElsewhere DEF SameList
    <3> QED
      BY <3>1, <3>2
  <2> QED
    BY <2>1, <2>2, GrowTracks
<1> QED
  BY <1>1 DEF TracksAt

LEMMA SentPlain ==
  ASSUME NetTypeOK, NEW c \in Components, NEW to, NEW m \in Frame, m.type # "Subscription",
         wire' = Sent(c, to, m), NEW x \in Components, NEW y \in Components
  PROVE  Plain(wire[x][y], wire'[x][y])
<1>1. wire'[x][y] = IF x = c /\ y \in to \cap sessions[c]
                    THEN Append(wire[x][y], m) ELSE wire[x][y]
  BY SentWires
<1>2. wire[x][y] \in Seq(Frame)
  BY DEF NetTypeOK
<1>3. Extended(wire[x][y], Append(wire[x][y], m), m)
  BY <1>2, AppendExtends
<1>4. ~Registers(m) /\ ~Cancels(m)
  BY DEF Registers, Cancels, Asks
<1> QED
  BY <1>1, <1>3, <1>4 DEF Plain

LEMMA WritesTrack ==
  ASSUME Links, NEW c \in Components,
         \/ SetPair(c) \/ RemoveOwnPair(c)
         \/ \E d \in Components : SetRemotePair(c, d) \/ RemoveRemotePair(c, d)
  PROVE  /\ \A x, y \in Components : TracksAt(x, y)
         /\ UNCHANGED <<up, sessions, records, cut, replaced>>
<1> DEFINE Goal == /\ \A x, y \in Components : TracksAt(x, y)
                   /\ UNCHANGED <<up, sessions, records, cut, replaced>>
<1>1. NetTypeOK /\ Elsewhere(c)
  BY CallFacts DEF Links, Calls, Call
<1>0. ASSUME SameLists(c), \A x, y \in Components : Plain(wire[x][y], wire'[x][y]),
             UNCHANGED <<up, sessions, records, cut, replaced>>
      PROVE  Goal
  BY <1>0, <1>1, PlainTracks
<1>2. ASSUME SetPair(c) PROVE Goal
  <2>1. /\ AddPair(c, c, ops + 1) /\ wire' = Sent(c, ListOf(c, c), Update(c, ops + 1))
        /\ UNCHANGED <<up, sessions, records, cut, replaced>> /\ ops + 1 \in Nat
    BY <1>1, <1>2 DEF SetPair, NetTypeOK
  <2>2. Update(c, ops + 1) \in Frame /\ Update(c, ops + 1).type # "Subscription"
    BY <2>1, FramesMade DEF Update
  <2> QED
    BY <1>0, <1>1, <2>1, <2>2, AddedSame, SentPlain
<1>3. ASSUME RemoveOwnPair(c) PROVE Goal
  <2>1. /\ RemovePair(c, c) /\ wire' = Sent(c, subscribers[c][c], Removal(c))
        /\ UNCHANGED <<up, sessions, records, cut, replaced>>
    BY <1>3 DEF RemoveOwnPair
  <2>2. Removal(c) \in Frame /\ Removal(c).type # "Subscription"
    BY FramesMade DEF Removal
  <2> QED
    BY <1>0, <1>1, <2>1, <2>2, RemovedSame, SentPlain
<1>4. ASSUME NEW d \in Components, SetRemotePair(c, d) \/ RemoveRemotePair(c, d) PROVE Goal
  <2>1. UNCHANGED <<up, sessions, space, records, cut, replaced>>
    BY <1>4 DEF SetRemotePair, RemoveRemotePair
  <2>2. SameLists(c)
    BY <2>1 DEF SameLists, ListOf, space
  <2>3. PICK m \in Frame : m.type # "Subscription" /\ wire' = Sent(c, {d}, m)
    <3>1. ops + 1 \in Nat /\ Invalid \in Nat
      BY <1>1 DEF NetTypeOK, Invalid
    <3>2. CASE SetRemotePair(c, d)
      <4>1. [type |-> "Pair", val |-> ops + 1] \in Frame
        BY <3>1, FramesMade
      <4>2. wire' = Sent(c, {d}, [type |-> "Pair", val |-> ops + 1])
        BY <3>2 DEF SetRemotePair
      <4> QED
        BY <4>1, <4>2
    <3>3. CASE RemoveRemotePair(c, d)
      <4>1. [type |-> "RemovePair", val |-> Invalid] \in Frame
        BY <3>1, FramesMade
      <4>2. wire' = Sent(c, {d}, [type |-> "RemovePair", val |-> Invalid])
        BY <3>3 DEF RemoveRemotePair
      <4> QED
        BY <4>1, <4>2
    <3> QED
      BY <1>4, <3>2, <3>3
  <2> QED
    BY <1>0, <1>1, <2>1, <2>2, <2>3, SentPlain
<1> QED
  BY <1>2, <1>3, <1>4

LEMMA WritesAsk ==
  ASSUME Links, AskInv, NEW c \in Components,
         \/ SetPair(c) \/ RemoveOwnPair(c)
         \/ \E d \in Components : SetRemotePair(c, d) \/ RemoveRemotePair(c, d)
  PROVE  AskInv'
<1> SUFFICES ASSUME NEW x \in Components, NEW y \in Components PROVE AskedAt(x, y)'
  BY DEF AskInv
<1>1. TracksAt(x, y) /\ UNCHANGED <<up, sessions, records, cut, replaced>>
  BY WritesTrack
<1>2. AskedAt(x, y)
  BY DEF AskInv
<1> QED
  BY <1>1, <1>2, AskedFrame DEF TracksAt

\* What asking for a record, or no longer, does to the wire from x to y.
AskingAt(c, r, on, x, y) ==
  /\ x = c /\ y \in sessions[c] /\ Covers(r, y) =>
       \E f : Extended(wire[c][y], wire'[c][y], f) /\ Asks(f, r[2], on)
  /\ ~(x = c /\ y \in sessions[c] /\ Covers(r, y)) => wire'[x][y] = wire[x][y]

\* The calls that ask: the frame goes to those whom the record covers.
LEMMA AskingWires ==
  ASSUME NetTypeOK, NEW c \in Components, NEW r \in Record, NEW on \in BOOLEAN,
         SendSubscription(c, r, on), NEW x \in Components, NEW y \in Components
  PROVE  AskingAt(c, r, on, x, y)
<1> DEFINE m == [type |-> "Subscription", key |-> r[2], registering |-> on]
           to == {d \in Components : Covers(r, d)}
<1>1. r[2] \in {Key, kWildcardKey}
  BY DEF Record
<1>2. m \in Frame /\ Asks(m, r[2], on)
  BY <1>1, FramesMade DEF Asks
<1>3. wire' = Sent(c, to, m)
  BY DEF SendSubscription
<1>4. y \in to <=> Covers(r, y)
  OBVIOUS
<1> HIDE DEF m, to
<1>5. wire'[x][y] = IF x = c /\ y \in to \cap sessions[c]
                    THEN Append(wire[x][y], m) ELSE wire[x][y]
  BY <1>2, <1>3, SentWires
<1>6. wire[x][y] \in Seq(Frame)
  BY DEF NetTypeOK
<1>7. Extended(wire[x][y], Append(wire[x][y], m), m)
  BY <1>2, <1>6, AppendExtends
<1> QED
  BY <1>2, <1>4, <1>5, <1>7 DEF AskingAt

\* Who has no connection has asked for nothing.
LEMMA NotConnected ==
  ASSUME Links, NEW c \in up, NEW d \in Components, d \notin sessions[c]
  PROVE  /\ wire[c][d] = <<>> /\ c \notin u_subscribers[d] /\ c \notin ListOf(d, d)
         /\ ~WildAfter(wire[c][d], c, u_subscribers[d])
         /\ ~MayBeListed(wire[c][d], c, ListOf(d, d))
<1>1. c \in Components
  BY DEF Links, NetTypeOK
<1>2. wire[c][d] = <<>> /\ c \notin u_subscribers[d] /\ c \notin subscribers[d][d]
  BY <1>1 DEF Links, Unconnected, NotAsked
<1> QED
  BY <1>2, NothingAsked DEF ListOf

LEMMA NobodyAsked ==
  ASSUME Links, NEW c \in up, NEW d \in Components, d \notin sessions[c],
         UNCHANGED <<space, sessions>>, wire'[c][d] = wire[c][d]
  PROVE  AskedAt(c, d)'
<1>1. /\ ~WildAfter(wire[c][d], c, u_subscribers[d])'
      /\ ~MayBeListed(wire[c][d], c, ListOf(d, d))' /\ d \notin sessions'[c]
  BY NotConnected DEF space, ListOf
<1> QED
  BY <1>1 DEF AskedAt, WildIsHeld, ListedIsHeld, HeldIsListed

\* A pair that the record does not cover is not concerned.
LEMMA UncoveredAsk ==
  ASSUME Links, NEW c \in Components, NEW d \in Components, AskedAt(c, d), NEW r \in Record,
         ~Covers(r, d), records'[c] = records[c] \cup {r} \/ records'[c] = records[c] \ {r},
         UNCHANGED <<space, sessions, up, replaced>>, wire'[c][d] = wire[c][d],
         <<c, d>> \in cut => <<c, d>> \in cut'
  PROVE  AskedAt(c, d)'
<1>1. (HoldsWild(c, d)' <=> HoldsWild(c, d)) /\ (Covered(c, d)' <=> Covered(c, d))
  BY DEF HoldsWild, Covered
<1>2. ListOf(d, d)' = ListOf(d, d) /\ UNCHANGED u_subscribers
  BY DEF space, ListOf
<1>3. WildIsHeld(c, d)'
  BY <1>1, <1>2 DEF AskedAt, WildIsHeld
<1>4. ListedIsHeld(c, d)'
  BY <1>1, <1>2 DEF AskedAt, ListedIsHeld
<1>5. HeldIsListed(c, d)'
  BY <1>1, <1>2 DEF AskedAt, HeldIsListed
<1> QED
  BY <1>3, <1>4, <1>5 DEF AskedAt

LEMMA RegisterAsk ==
  ASSUME Links, AskInv, NEW c \in Components, NEW r \in Record, RegisterSubscription(c, r)
  PROVE  AskInv'
<1>1. /\ c \in up /\ records' = [records EXCEPT ![c] = @ \cup {r}]
      /\ SendSubscription(c, r, TRUE)
      /\ cut' = {z \in cut : ~(z[1] = c /\ Restores(c, r, z[2]))}
      /\ UNCHANGED <<up, sessions, space, replaced>>
  BY DEF RegisterSubscription
<1>2. NetTypeOK
  BY DEF Links
<1>3. records'[c] = records[c] \cup {r} /\ \A x \in Components \ {c} : records'[x] = records[x]
  BY <1>1, <1>2 DEF NetTypeOK
<1>4. \A x, y \in Components : <<x, y>> \in cut' <=>
        <<x, y>> \in cut /\ ~(x = c /\ Restores(c, r, y))
  BY <1>1
<1>5. UNCHANGED u_subscribers /\ \A d \in Components : ListOf(d, d)' = ListOf(d, d)
  BY <1>1 DEF space, ListOf
<1> SUFFICES ASSUME NEW x \in Components, NEW y \in Components PROVE AskedAt(x, y)'
  BY DEF AskInv
<1>6. AskedAt(x, y)
  BY DEF AskInv
<1>11. SendSubscription(c, r, TRUE)
  BY <1>1
<1>12. /\ x = c /\ y \in sessions[c] /\ Covers(r, y) =>
            \E f : Extended(wire[c][y], wire'[c][y], f) /\ Asks(f, r[2], TRUE)
       /\ ~(x = c /\ y \in sessions[c] /\ Covers(r, y)) => wire'[x][y] = wire[x][y]
  <2>1. AskingAt(c, r, TRUE, x, y)
    BY <1>2, <1>11, AskingWires
  <2> QED
    BY <2>1 DEF AskingAt
<1>7. CASE x # c
  <2>1. wire'[x][y] = wire[x][y]
    BY <1>7, <1>12
  <2>2. Tracks(x, wire[x][y], u_subscribers[y], ListOf(y, y),
                  wire'[x][y], u_subscribers'[y], ListOf(y, y)')
    BY <1>5, <2>1 DEF Tracks
  <2> QED
    BY <1>1, <1>3, <1>4, <1>6, <1>7, <2>2, AskedFrame
<1>8. CASE x = c /\ ~Covers(r, y)
  <2>1. wire'[x][y] = wire[x][y]
    BY <1>8, <1>12
  <2>2. <<c, y>> \in cut => <<c, y>> \in cut'
    BY <1>4, <1>8 DEF Restores
  <2> QED
    BY <1>1, <1>3, <1>6, <1>8, <2>1, <2>2, UncoveredAsk
<1>9. CASE x = c /\ Covers(r, y) /\ y \notin sessions[c]
  <2>1. wire'[x][y] = wire[x][y]
    BY <1>9, <1>12
  <2> QED
    BY <1>1, <1>9, <2>1, NobodyAsked
<1>10. CASE x = c /\ Covers(r, y) /\ y \in sessions[c]
  <2>1. PICK f : Extended(wire[c][y], wire'[c][y], f) /\ Asks(f, r[2], TRUE)
    BY <1>10, <1>12
  <2> DEFINE q == wire[c][y]
             q2 == wire'[c][y]
             U == u_subscribers[y]
             L == ListOf(y, y)
  <2>2. /\ WildAfter(q2, c, U) =>
             \/ Asks(f, kWildcardKey, TRUE)
             \/ WildAfter(q, c, U) /\ ~Asks(f, kWildcardKey, FALSE)
        /\ WillBeListed(q, c, U, L) /\ ~Cancels(f) => WillBeListed(q2, c, U, L)
        /\ Asks(f, Key, TRUE) => WillBeListed(q2, c, U, L)
        /\ Asks(f, kWildcardKey, TRUE) /\ ~WildAfter(q, c, U) => WillBeListed(q2, c, U, L)
    BY <2>1, Extends
  <2>3. Covered(c, y)' /\ (r[2] = kWildcardKey => HoldsWild(c, y)')
        /\ (HoldsWild(c, y) => HoldsWild(c, y)')
    BY <1>3, <1>10 DEF Covered, HoldsWild
  <2>4. ~Cancels(f) /\ r[2] \in {Key, kWildcardKey}
    BY <2>1, AsksOne DEF Registers, Cancels, Asks, Record
  <2>5. WildIsHeld(c, y)'
    <3>1. WildAfter(q, c, U) => HoldsWild(c, y) \/ c \in replaced
      BY <1>1, <1>6, <1>10 DEF AskedAt, WildIsHeld
    <3>2. Asks(f, kWildcardKey, TRUE) => r[2] = kWildcardKey
      BY <2>1 DEF Asks
    <3> QED
      BY <1>1, <1>5, <2>2, <2>3, <3>1, <3>2 DEF WildIsHeld
  <2>6. ListedIsHeld(c, y)'
    BY <2>3 DEF ListedIsHeld
  <2>7. HeldIsListed(c, y)'
    <3>1. ASSUME <<c, y>> \notin cut' PROVE WillBeListed(q2, c, U, L)
      <4>1. CASE r[2] = Key
        BY <2>1, <2>2, <4>1
      <4>2. CASE r[2] = kWildcardKey /\ ~WildAfter(q, c, U)
        BY <2>1, <2>2, <4>2
      <4>3. CASE r[2] = kWildcardKey /\ WildAfter(q, c, U)
        <5>1. HoldsWild(c, y) \/ c \in replaced
          BY <1>1, <1>6, <1>10, <4>3 DEF AskedAt, WildIsHeld
        <5>2. ~Restores(c, r, y)
          BY <4>3, <5>1 DEF Restores, HoldsWild, Key, kWildcardKey
        <5>3. <<c, y>> \notin cut
          BY <1>4, <3>1, <5>2
        <5>4. WillBeListed(q, c, U, L)
          BY <1>6, <1>10, <4>3, <5>3 DEF AskedAt, HeldIsListed
        <5> QED
          BY <2>2, <2>4, <5>4
      <4> QED
        BY <2>4, <4>1, <4>2, <4>3
    <3> QED
      BY <1>5, <3>1 DEF HeldIsListed
  <2> QED
    BY <1>10, <2>5, <2>6, <2>7 DEF AskedAt
<1> QED
  BY <1>7, <1>8, <1>9, <1>10

LEMMA CancelAsk ==
  ASSUME Links, AskInv, NEW c \in Components, NEW r \in Record, CancelSubscription(c, r)
  PROVE  AskInv'
<1>1. /\ c \in up /\ records' = [records EXCEPT ![c] = @ \ {r}]
      /\ SendSubscription(c, r, FALSE)
      /\ UNCHANGED <<up, sessions, space, replaced>>
  BY DEF CancelSubscription
<1>2. NetTypeOK
  BY DEF Links
<1>3. records'[c] = records[c] \ {r} /\ \A x \in Components \ {c} : records'[x] = records[x]
  BY <1>1, <1>2 DEF NetTypeOK
<1>4. \A x, y \in Components : <<x, y>> \in cut' <=>
        <<x, y>> \in cut \/ (x = c /\ y \in sessions[c] /\ Cuts(c, r, y))
  <2> DEFINE D == {e \in sessions[c] : Cuts(c, r, e)}
  <2>1. cut' = cut \cup {<<c, d>> : d \in D}
    BY DEF CancelSubscription
  <2>2. \A y : y \in D <=> y \in sessions[c] /\ Cuts(c, r, y)
    OBVIOUS
  <2> HIDE DEF D
  <2> QED
    BY <2>1, <2>2
<1>5. UNCHANGED u_subscribers /\ \A d \in Components : ListOf(d, d)' = ListOf(d, d)
  BY <1>1 DEF space, ListOf
<1> SUFFICES ASSUME NEW x \in Components, NEW y \in Components PROVE AskedAt(x, y)'
  BY DEF AskInv
<1>6. AskedAt(x, y)
  BY DEF AskInv
<1>11. SendSubscription(c, r, FALSE)
  BY <1>1
<1>12. /\ x = c /\ y \in sessions[c] /\ Covers(r, y) =>
            \E f : Extended(wire[c][y], wire'[c][y], f) /\ Asks(f, r[2], FALSE)
       /\ ~(x = c /\ y \in sessions[c] /\ Covers(r, y)) => wire'[x][y] = wire[x][y]
  <2>1. AskingAt(c, r, FALSE, x, y)
    BY <1>2, <1>11, AskingWires
  <2> QED
    BY <2>1 DEF AskingAt
<1>7. CASE x # c
  <2>1. wire'[x][y] = wire[x][y]
    BY <1>7, <1>12
  <2>2. Tracks(x, wire[x][y], u_subscribers[y], ListOf(y, y),
                  wire'[x][y], u_subscribers'[y], ListOf(y, y)')
    BY <1>5, <2>1 DEF Tracks
  <2> QED
    BY <1>1, <1>3, <1>4, <1>6, <1>7, <2>2, AskedFrame
<1>8. CASE x = c /\ ~Covers(r, y)
  <2>1. wire'[x][y] = wire[x][y]
    BY <1>8, <1>12
  <2>2. <<c, y>> \in cut => <<c, y>> \in cut'
    BY <1>4, <1>8
  <2> QED
    BY <1>1, <1>3, <1>6, <1>8, <2>1, <2>2, UncoveredAsk
<1>9. CASE x = c /\ Covers(r, y) /\ y \notin sessions[c]
  <2>1. wire'[x][y] = wire[x][y]
    BY <1>9, <1>12
  <2> QED
    BY <1>1, <1>9, <2>1, NobodyAsked
<1>10. CASE x = c /\ Covers(r, y) /\ y \in sessions[c]
  <2>1. PICK f : Extended(wire[c][y], wire'[c][y], f) /\ Asks(f, r[2], FALSE)
    BY <1>10, <1>12
  <2> DEFINE q == wire[c][y]
             q2 == wire'[c][y]
             U == u_subscribers[y]
             L == ListOf(y, y)
  <2>2. /\ WildAfter(q2, c, U) =>
             \/ Asks(f, kWildcardKey, TRUE)
             \/ WildAfter(q, c, U) /\ ~Asks(f, kWildcardKey, FALSE)
        /\ MayBeListed(q2, c, L) => ~Cancels(f)
    BY <2>1, Extends
  <2>3. r[2] \in {Key, kWildcardKey} /\ Cancels(f) /\ ~Asks(f, kWildcardKey, TRUE)
    BY <2>1 DEF Cancels, Asks, Record
  <2>4. WildAfter(q2, c, U) => WildAfter(q, c, U) /\ r[2] = Key
    BY <2>1, <2>2, <2>3
  <2>5. r[2] = Key /\ HoldsWild(c, y) => HoldsWild(c, y)'
    BY <1>3 DEF HoldsWild, Key, kWildcardKey
  <2>6. WildAfter(q, c, U) => HoldsWild(c, y) \/ c \in replaced
    BY <1>1, <1>6, <1>10 DEF AskedAt, WildIsHeld
  <2>7. WildIsHeld(c, y)'
    BY <1>1, <1>5, <2>4, <2>5, <2>6 DEF WildIsHeld
  <2>8. ListedIsHeld(c, y)'
    BY <1>5, <2>2, <2>3 DEF ListedIsHeld
  <2>9. HeldIsListed(c, y)'
    <3>1. <<c, y>> \notin cut' => ~Covered(c, y)' /\ ~(c \in replaced /\ r[2] = Key)
      BY <1>4, <1>10 DEF Cuts
    <3>2. HoldsWild(c, y)' => Covered(c, y)'
      BY DEF HoldsWild, Covered
    <3> QED
      BY <1>5, <2>4, <2>5, <2>6, <3>1, <3>2 DEF HeldIsListed
  <2> QED
    BY <1>10, <2>7, <2>8, <2>9 DEF AskedAt
<1> QED
  BY <1>7, <1>8, <1>9, <1>10

LEMMA LeaveAsk ==
  ASSUME Links, AskInv, NEW c \in Components, Leave(c)
  PROVE  AskInv'
<1>1. NetTypeOK
  BY DEF Links
<1>2. /\ c \in up /\ up' = up \ {c} /\ UNCHANGED replaced
      /\ \A d \in Components : sessions'[d] = IF d = c THEN {} ELSE sessions[d] \ {c}
      /\ \A x, y \in Components : wire'[x][y] = IF c \in {x, y} THEN <<>> ELSE wire[x][y]
      /\ Elsewhere(c) /\ u_subscribers'[c] = {}
      /\ \A o \in Components : pairs'[c][o] = Absent /\ subscribers'[c][o] = {}
      /\ \A x \in Components \ {c} : records'[x] = records[x]
      /\ \A x, y \in Components : <<x, y>> \in cut' <=>
           \/ x # c /\ y # c /\ <<x, y>> \in cut
           \/ x = c /\ y # c /\ c \in u_subscribers[y] /\ c \notin ListOf(y, y)
  BY <1>1, LeaveFacts
<1> SUFFICES ASSUME NEW x \in Components, NEW y \in Components PROVE AskedAt(x, y)'
  BY DEF AskInv
<1>6. wire'[x][y] = IF c \in {x, y} THEN <<>> ELSE wire[x][y]
  BY <1>2
<1>7. sessions'[x] = IF x = c THEN {} ELSE sessions[x] \ {c}
  BY <1>2
<1>8. y # c => ListOf(y, y)' = ListOf(y, y) /\ u_subscribers'[y] = u_subscribers[y]
  <2>1. Elsewhere(c)
    BY <1>2
  <2> QED
    BY <2>1, ListElsewhere
<1>9. y = c => u_subscribers'[y] = {} /\ ListOf(y, y)' = {}
  <2>1. u_subscribers'[c] = {} /\ subscribers'[c][c] = {}
    BY <1>2
  <2> QED
    BY <2>1 DEF ListOf
<1>3. CASE y = c
  <2>1. wire'[x][y] = <<>> /\ u_subscribers'[y] = {} /\ ListOf(y, y)' = {} /\ y \notin sessions'[x]
    BY <1>3, <1>6, <1>7, <1>9
  <2>2. ~WildAfter(wire[x][y], x, u_subscribers[y])' /\ ~MayBeListed(wire[x][y], x, ListOf(y, y))'
    BY <2>1, NothingAsked
  <2> QED
    BY <2>1, <2>2 DEF AskedAt, WildIsHeld, ListedIsHeld, HeldIsListed
<1>4. CASE x = c /\ y # c
  <2>1. /\ wire'[x][y] = <<>> /\ x \notin up' /\ y \notin sessions'[x]
        /\ u_subscribers'[y] = u_subscribers[y] /\ ListOf(y, y)' = ListOf(y, y)
    <3>1. x \notin up'
      BY <1>2, <1>4
    <3> QED
      BY <1>4, <1>6, <1>7, <1>8, <3>1
  <2>2. /\ WildAfter(wire[x][y], x, u_subscribers[y])' => x \in u_subscribers[y]
        /\ x \in ListOf(y, y) => WillBeListed(wire[x][y], x, u_subscribers[y], ListOf(y, y))'
    BY <2>1, NothingAsked
  <2>3. <<x, y>> \notin cut' /\ x \in u_subscribers[y] => x \in ListOf(y, y)
    BY <1>2, <1>4
  <2> QED
    BY <2>1, <2>2, <2>3 DEF AskedAt, WildIsHeld, ListedIsHeld, HeldIsListed
<1>5. CASE x # c /\ y # c
  <2>1. /\ wire'[x][y] = wire[x][y] /\ sessions'[x] = sessions[x] \ {c}
        /\ records'[x] = records[x] /\ (<<x, y>> \in cut' <=> <<x, y>> \in cut)
        /\ u_subscribers'[y] = u_subscribers[y] /\ ListOf(y, y)' = ListOf(y, y)
    <3>1. wire'[x][y] = wire[x][y] /\ sessions'[x] = sessions[x] \ {c}
      BY <1>5, <1>6, <1>7
    <3>2. records'[x] = records[x] /\ (<<x, y>> \in cut' <=> <<x, y>> \in cut)
      BY <1>2, <1>5
    <3> QED
      BY <1>5, <1>8, <3>1, <3>2
  <2>2. Tracks(x, wire[x][y], u_subscribers[y], ListOf(y, y),
                  wire'[x][y], u_subscribers'[y], ListOf(y, y)')
    BY <2>1 DEF Tracks
  <2>3. AskedAt(x, y)
    BY DEF AskInv
  <2> QED
    BY <1>2, <2>1, <2>2, <2>3, AskedFrame
<1> QED
  BY <1>3, <1>4, <1>5

LEMMA JoinAsk ==
  ASSUME Links, AskInv, NEW c \in Components, Join(c)
  PROVE  AskInv'
<1>1. /\ c \notin up /\ up' = up \cup {c} /\ sessions' = [sessions EXCEPT ![c] = up]
      /\ replaced' = replaced \cup {c}
      /\ UNCHANGED <<space, records, wire, cut>>
  BY DEF Join
<1>2. records[c] = {}
  BY <1>1 DEF Links, DownBare
<1> SUFFICES ASSUME NEW x \in Components, NEW y \in Components PROVE AskedAt(x, y)'
  BY DEF AskInv
<1>3. Tracks(x, wire[x][y], u_subscribers[y], ListOf(y, y),
                wire'[x][y], u_subscribers'[y], ListOf(y, y)')
  BY <1>1 DEF Tracks, space, ListOf
<1>4. y \in sessions'[x] => y \in sessions[x] \/ records[x] = {}
  BY <1>1, <1>2 DEF Links, NetTypeOK
<1>5. AskedAt(x, y)
  BY DEF AskInv
<1> QED
  BY <1>1, <1>3, <1>4, <1>5, AskedFrame

LEMMA WantsCover ==
  ASSUME NEW held \in SUBSET Record, NEW d
  PROVE  /\ kWildcardKey \in Wants(held, d) <=> \E r \in held : Covers(r, d) /\ r[2] = kWildcardKey
         /\ Key \in Wants(held, d) \/ kWildcardKey \in Wants(held, d) <=>
              \E r \in held : Covers(r, d)
<1>1. \A key : key \in Wants(held, d) <=> \E r \in held : Covers(r, d) /\ r[2] = key
  BY DEF Wants
<1>2. \A r \in held : r[2] = Key \/ r[2] = kWildcardKey
  BY DEF Record
<1> QED
  BY <1>1, <1>2

LEMMA AnnounceAsk ==
  ASSUME Links, AskInv, NEW d \in Components, NEW c \in Components, Announce(d, c)
  PROVE  AskInv'
<1>1. NetTypeOK
  BY DEF Links
<1>2. /\ d \in up /\ c \in up /\ c \notin sessions[d] /\ c # d
      /\ sessions'[d] = sessions[d] \cup {c}
      /\ \A x \in Components \ {d} : sessions'[x] = sessions[x]
      /\ AsksFor(wire'[d][c], Wants(records[d], c))
      /\ \A x, y \in Components : x # d \/ y # c => wire'[x][y] = wire[x][y]
      /\ UNCHANGED <<pairs, subscribers, u_subscribers>>
      /\ UNCHANGED <<up, records, cut, replaced>>
  BY <1>1, AnnounceFacts
<1>3. \A y \in Components : ListOf(y, y)' = ListOf(y, y)
  BY <1>2 DEF ListOf
<1> SUFFICES ASSUME NEW x \in Components, NEW y \in Components PROVE AskedAt(x, y)'
  BY DEF AskInv
<1>4. CASE x = d /\ y = c
  <2>1. d \notin u_subscribers[c] /\ d \notin ListOf(c, c)
    BY <1>2, NotConnected
  <2> DEFINE K == Wants(records[d], c)
  <2>2. /\ WildAfter(wire'[d][c], d, u_subscribers[c]) => kWildcardKey \in K
        /\ MayBeListed(wire'[d][c], d, ListOf(c, c)) => Key \in K \/ kWildcardKey \in K
        /\ Key \in K \/ kWildcardKey \in K =>
             WillBeListed(wire'[d][c], d, u_subscribers[c], ListOf(c, c))
    BY <1>2, <2>1, ReplayAsks
  <2>3. /\ kWildcardKey \in K <=> HoldsWild(d, c)
        /\ Key \in K \/ kWildcardKey \in K <=> Covered(d, c)
    BY <1>1, WantsCover DEF HoldsWild, Covered, NetTypeOK
  <2>4. (HoldsWild(d, c)' <=> HoldsWild(d, c)) /\ (Covered(d, c)' <=> Covered(d, c))
    BY <1>2 DEF HoldsWild, Covered
  <2>5. WildIsHeld(d, c)'
    BY <1>2, <2>2, <2>3, <2>4 DEF WildIsHeld
  <2>6. ListedIsHeld(d, c)'
    BY <1>2, <1>3, <2>2, <2>3, <2>4 DEF ListedIsHeld
  <2>7. HeldIsListed(d, c)'
    BY <1>2, <1>3, <2>2, <2>3, <2>4 DEF HeldIsListed
  <2> QED
    BY <1>4, <2>5, <2>6, <2>7 DEF AskedAt
<1>5. CASE x # d \/ y # c
  <2>1. wire'[x][y] = wire[x][y]
    BY <1>2, <1>5
  <2>2. Tracks(x, wire[x][y], u_subscribers[y], ListOf(y, y),
                  wire'[x][y], u_subscribers'[y], ListOf(y, y)')
    BY <1>2, <1>3, <2>1 DEF Tracks
  <2>3. y \in sessions'[x] => y \in sessions[x]
    BY <1>2, <1>5
  <2>4. AskedAt(x, y)
    BY DEF AskInv
  <2> QED
    BY <1>2, <2>2, <2>3, <2>4, AskedFrame
<1> QED
  BY <1>4, <1>5

LEMMA InitAsk ==
  ASSUME NEW held \in [Components -> SUBSET Record], NetInit(held)
  PROVE  AskInv
<1>1. /\ up = Components /\ records = held
      /\ \A c \in Components : sessions[c] = Components \ {c} /\ u_subscribers[c] = {}
      /\ \A c, o \in Components : subscribers[c][o] = {} /\ pairs[c][o] = Absent
      /\ \A c \in Components : wire[c][c] = <<>>
      /\ \A c, d \in Components : c # d => AsksFor(wire[c][d], Wants(held[c], d))
  BY InitFacts
<1> SUFFICES ASSUME NEW c \in Components, NEW d \in Components PROVE AskedAt(c, d)
  BY DEF AskInv
<1>2. u_subscribers[d] = {} /\ ListOf(d, d) = {}
  BY <1>1 DEF ListOf
<1>3. CASE c = d
  <2>1. ~WildAfter(wire[c][d], c, u_subscribers[d]) /\ ~MayBeListed(wire[c][d], c, ListOf(d, d))
        /\ d \notin sessions[c]
    <3>1. wire[c][c] = <<>> /\ sessions[c] = Components \ {c}
      BY <1>1
    <3>2. wire[c][d] = <<>> /\ d \notin sessions[c]
      BY <1>3, <3>1
    <3>3. c \notin u_subscribers[d] /\ c \notin ListOf(d, d)
      BY <1>2
    <3> QED
      BY <3>2, <3>3, NothingAsked
  <2> QED
    BY <2>1 DEF AskedAt, WildIsHeld, ListedIsHeld, HeldIsListed
<1>4. CASE c # d
  <2> DEFINE K == Wants(records[c], d)
  <2>1. /\ WildAfter(wire[c][d], c, u_subscribers[d]) => kWildcardKey \in K
        /\ MayBeListed(wire[c][d], c, ListOf(d, d)) => Key \in K \/ kWildcardKey \in K
        /\ Key \in K \/ kWildcardKey \in K =>
             WillBeListed(wire[c][d], c, u_subscribers[d], ListOf(d, d))
    <3>1. AsksFor(wire[c][d], K) /\ c \notin u_subscribers[d] /\ c \notin ListOf(d, d)
      BY <1>1, <1>2, <1>4
    <3> QED
      BY <3>1, ReplayAsks
  <2>2. /\ kWildcardKey \in K <=> HoldsWild(c, d)
        /\ Key \in K \/ kWildcardKey \in K <=> Covered(c, d)
    BY <1>1, WantsCover DEF HoldsWild, Covered
  <2> QED
    BY <2>1, <2>2 DEF AskedAt, WildIsHeld, ListedIsHeld, HeldIsListed
<1> QED
  BY <1>3, <1>4

LEMMA AskStep ==
  ASSUME Links, AskInv, [NetStep]_net
  PROVE  AskInv'
<1>1. CASE UNCHANGED net
  <2>1. UNCHANGED <<up, sessions, pairs, subscribers, u_subscribers, records, wire, cut, replaced>>
    BY <1>1 DEF net, space
  <2> SUFFICES ASSUME NEW x \in Components, NEW y \in Components PROVE AskedAt(x, y)'
    BY DEF AskInv
  <2>2. AskedAt(x, y)
    BY DEF AskInv
  <2>3. Tracks(x, wire[x][y], u_subscribers[y], ListOf(y, y),
                  wire'[x][y], u_subscribers'[y], ListOf(y, y)')
    BY <2>1 DEF Tracks, ListOf
  <2> QED
    BY <2>1, <2>2, <2>3, AskedFrame
<1>2. ASSUME NEW c \in Components, Call(c) PROVE AskInv'
  BY <1>2, WritesAsk, RegisterAsk, CancelAsk DEF Call
<1> QED
  BY <1>1, <1>2, LeaveAsk, JoinAsk, HandlersAsk, AnnounceAsk DEF NetStep

\* With nothing asked or taken back unread, it is what ListedIsAsked says.
LEMMA SettledLists ==
  ASSUME Links, NEW c \in Components, NEW d \in Components, Settled(c, d)
  PROVE  /\ MayBeListed(wire[c][d], c, ListOf(d, d)) <=> c \in ListOf(d, d)
         /\ WillBeListed(wire[c][d], c, u_subscribers[d], ListOf(d, d)) <=> c \in ListOf(d, d)
<1> DEFINE q == wire[c][d]
<1>1. q \in Seq(Frame) /\ Len(q) \in Nat
  BY DEF Links, NetTypeOK
<1>2. \A i \in 1..Len(q) : q[i].type # "Subscription"
  BY DEF Settled
<1>3. \A i \in 1..Len(q) : ~Registers(q[i]) /\ ~Cancels(q[i])
  BY <1>2 DEF Registers, Cancels, Asks
<1> HIDE DEF q
<1>4. Uncancelled(q, 1)
  BY <1>3 DEF Uncancelled
<1>5. \A i \in 1..Len(q) : ~Adds(q, c, u_subscribers[d], i)
  BY <1>3 DEF Registers, Adds
<1> QED
  BY <1>3, <1>4, <1>5 DEF MayBeListed, WillBeListed, q

LEMMA AskInvLists == Links /\ AskInv => ListedIsAsked
<1> SUFFICES ASSUME Links, AskInv, NEW c \in up, NEW d \in up, Settled(c, d),
                    <<c, d>> \notin cut, pairs[d][d] # Absent
             PROVE  IF Covered(c, d) THEN c \in subscribers[d][d]
                                     ELSE c \in subscribers[d][d] => c \in replaced
  BY DEF ListedIsAsked
<1>1. c \in Components /\ d \in Components /\ d \in sessions[c] /\ ListOf(d, d) = subscribers[d][d]
  BY DEF Links, NetTypeOK, Settled, ListOf
<1>2. AskedAt(c, d)
  BY <1>1 DEF AskInv
<1> QED
  BY <1>1, <1>2, SettledLists DEF AskedAt, ListedIsHeld, HeldIsListed

-----------------------------------------------------------------------------
(* The window                                                              *)

\* The view's node stays; its records are its toggles, and no owner was asked to
\* leave it out while it has the wildcard.
Whole == everything => \A d \in Components : <<gui, d>> \notin cut
GuiKept == gui \in up /\ gui \notin replaced /\ TogglesHeld /\ Whole

\* The inductive invariant.
ViewInv == TypeOK /\ Links /\ AskInv /\ GuiKept

LEMMA InitView == Init => ViewInv
<1> SUFFICES ASSUME Init PROVE ViewInv
  OBVIOUS
<1> DEFINE held == [c \in Components |-> IF c = gui THEN {Everything} ELSE {}]
<1>1. NetInit(held) /\ selection = Nowhere /\ confirming = FALSE /\ subscriptions = {}
  BY DEF Init
<1>2. held \in [Components -> SUBSET Record] /\ held[gui] = {Everything}
  BY ViewAssumption DEF Everything, Record
<1> HIDE DEF held
<1>3. Links /\ AskInv
  BY <1>1, <1>2, InitLinks, InitAsk
<1>4. up = Components /\ records = held /\ cut = {} /\ replaced = {}
  BY <1>1, <1>2, InitFacts
<1>5. TypeOK
  BY <1>1, <1>3 DEF TypeOK, Links
<1>6. TogglesHeld
  BY <1>1, <1>2, <1>4 DEF TogglesHeld
<1>7. GuiKept
  BY <1>4, <1>6, ViewAssumption DEF GuiKept, Whole
<1> QED
  BY <1>3, <1>5, <1>7 DEF ViewInv

\* What the other components do.
Untouched ==
  /\ records'[gui] = records[gui] /\ (gui \in up => gui \in up')
  /\ gui \in replaced' => gui \in replaced
  /\ \A d \in Components : <<gui, d>> \in cut' => <<gui, d>> \in cut

LEMMA UntouchedKeeps ==
  ASSUME GuiKept, Untouched, subscriptions' = subscriptions
  PROVE  GuiKept'
<1>1. TogglesHeld'
  BY DEF GuiKept, Untouched, TogglesHeld
<1>2. Whole'
  BY DEF GuiKept, Untouched, Whole, everything
<1> QED
  BY <1>1, <1>2 DEF GuiKept, Untouched

LEMMA OthersUntouched ==
  ASSUME Links, gui \in up, NEW c \in Components \ {gui}, Call(c) \/ Leave(c) \/ Join(c)
  PROVE  Untouched
<1>0. NetTypeOK /\ gui \in Components
  BY ViewAssumption DEF Links
<1>1. ASSUME Leave(c) PROVE Untouched
  <2>1. /\ up' = up \ {c} /\ UNCHANGED replaced
        /\ \A x \in Components \ {c} : records'[x] = records[x]
        /\ \A x, y \in Components : <<x, y>> \in cut' <=>
             \/ x # c /\ y # c /\ <<x, y>> \in cut
             \/ x = c /\ y # c /\ c \in u_subscribers[y] /\ c \notin ListOf(y, y)
    BY <1>0, <1>1, LeaveFacts
  <2> QED
    BY <1>0, <2>1 DEF Untouched
<1>2. ASSUME Join(c) PROVE Untouched
  BY <1>0, <1>2 DEF Join, Untouched
<1>3. ASSUME Call(c) PROVE Untouched
  <2>1. /\ UNCHANGED <<up, replaced>> /\ records'[gui] = records[gui]
    BY <1>0, <1>3, CallFacts DEF Calls
  <2>2. \A d \in Components : <<gui, d>> \in cut' => <<gui, d>> \in cut
    <3>1. ASSUME NEW r \in Record, CancelSubscription(c, r)
          PROVE  \A d \in Components : <<gui, d>> \in cut' => <<gui, d>> \in cut
      <4> DEFINE D == {e \in sessions[c] : Cuts(c, r, e)}
      <4>1. cut' = cut \cup {<<c, d>> : d \in D}
        BY <3>1 DEF CancelSubscription
      <4> HIDE DEF D
      <4> QED
        BY <4>1
    <3>2. ASSUME NEW r \in Record, RegisterSubscription(c, r) PROVE cut' \subseteq cut
      BY <3>2 DEF RegisterSubscription
    <3> QED
      BY <1>3, <3>1, <3>2 DEF Call, SetPair, RemoveOwnPair, SetRemotePair, RemoveRemotePair
  <2> QED
    BY <2>1, <2>2 DEF Untouched
<1> QED
  BY <1>1, <1>2, <1>3

LEMMA HandlersUntouched ==
  ASSUME Links, NEW src \in Components, NEW c \in Components, Handle(src, c) \/ Announce(src, c)
  PROVE  Untouched
<1>1. ASSUME Handle(src, c) PROVE Untouched
  BY <1>1, HandlersAnswer DEF Answers, Untouched
<1>2. ASSUME Announce(src, c) PROVE Untouched
  BY <1>2 DEF Announce, Untouched
<1> QED
  BY <1>1, <1>2

LEMMA PerPairs ==
  /\ \A o \in Components : PerPair(o) # Everything /\ PerPair(o)[2] = Key /\ Key # kWildcardKey
  /\ \A o, e \in Components : PerPair(o) = PerPair(e) => o = e
  /\ \A d : Covers(Everything, d)
BY DEF PerPair, Everything, Key, kWildcardKey, Covers

\* Switching the checkbox on, the window had no wildcard: it is listed everywhere.
LEMMA WildcardRestores ==
  ASSUME TypeOK, GuiKept, ~everything
  PROVE  \A d \in Components : Restores(gui, Everything, d)
<1>1. \A q \in records[gui] : \E o \in subscriptions : q = PerPair(o)
  BY DEF GuiKept, TogglesHeld, everything
<1>2. subscriptions \subseteq Components
  BY DEF TypeOK
<1>3. \A q \in records[gui] : q[2] = Key
  BY <1>1, <1>2, PerPairs
<1> QED
  BY <1>3, PerPairs DEF Restores, GuiKept

LEMMA ViewStep ==
  ASSUME ViewInv, [Next]_vars
  PROVE  ViewInv'
<1>1. TypeOK /\ Links /\ AskInv /\ GuiKept /\ NetTypeOK /\ gui \in Components
  BY ViewAssumption DEF ViewInv, Links
<1>2. [NetStep]_net
  BY <1>1, WindowSteps
<1>3. Links' /\ AskInv'
  BY <1>1, <1>2, LinksStep, AskStep
<1>4. TypeOK'
  <2>1. NetTypeOK'
    BY <1>3 DEF Links
  <2>2. /\ selection' \in Components \cup {Nowhere} /\ confirming' \in BOOLEAN
        /\ subscriptions' \subseteq Components
    BY <1>1 DEF TypeOK, Next, vars, view, Window, PressDelete, ConfirmDelete, CancelDelete,
         PopupCloses, ToggleEverything, SubscribeToSelected, Select, JumpToTarget, Post,
         UntogglePair
  <2> QED
    BY <2>1, <2>2 DEF TypeOK
<1>5. GuiKept'
  <2>1. CASE UNCHANGED vars
    <3>1. Untouched /\ subscriptions' = subscriptions
      BY <2>1 DEF vars, net, view, Untouched
    <3> QED
      BY <1>1, <3>1, UntouchedKeeps
  <2>2. ASSUME UNCHANGED view, Others \/ Handlers PROVE GuiKept'
    <3>1. subscriptions' = subscriptions
      BY <2>2 DEF view
    <3>2. ASSUME NEW c \in Components, Application(c) PROVE Call(c)
      BY <3>2, OffersAssumption DEF Application, Call
    <3>3. Untouched
      BY <1>1, <2>2, <3>2, OthersUntouched, HandlersUntouched DEF Others, Handlers, GuiKept
    <3> QED
      BY <1>1, <3>1, <3>3, UntouchedKeeps
  <2>3. ASSUME NEW o \in Components,
               \/ PressDelete \/ CancelDelete \/ PopupCloses \/ Select(o) \/ JumpToTarget(o)
               \/ ConfirmDelete \/ Post(o)
        PROVE  GuiKept'
    <3>1. subscriptions' = subscriptions
      BY <2>3 DEF PressDelete, CancelDelete, PopupCloses, Select, JumpToTarget, ConfirmDelete,
                  Post, view
    <3>2. UNCHANGED <<records, up, replaced, cut>>
      BY <2>3 DEF PressDelete, CancelDelete, PopupCloses, Select, JumpToTarget, ConfirmDelete,
                  Post, net, SetPair, SetRemotePair, RemoveOwnPair, RemoveRemotePair
    <3> QED
      BY <1>1, <3>1, <3>2, UntouchedKeeps DEF Untouched
  <2>4. CASE ToggleEverything
    <3>1. subscriptions' = subscriptions
      BY <2>4 DEF ToggleEverything, view
    <3>2. CASE everything
      <4>1. /\ CancelSubscription(gui, Everything) /\ UNCHANGED <<up, replaced>>
            /\ records'[gui] = records[gui] \ {Everything}
        BY <1>1, <2>4, <3>2 DEF ToggleEverything, CancelSubscription, NetTypeOK
      <4>2. TogglesHeld'
        BY <1>1, <3>1, <4>1 DEF GuiKept, TogglesHeld
      <4>3. Whole'
        BY <4>1 DEF Whole, everything
      <4> QED
        BY <1>1, <4>1, <4>2, <4>3 DEF GuiKept
    <3>3. CASE ~everything
      <4>1. /\ RegisterSubscription(gui, Everything) /\ UNCHANGED <<up, replaced>>
            /\ records'[gui] = records[gui] \cup {Everything}
            /\ cut' = {x \in cut : ~(x[1] = gui /\ Restores(gui, Everything, x[2]))}
        BY <1>1, <2>4, <3>3 DEF ToggleEverything, RegisterSubscription, NetTypeOK
      <4>2. TogglesHeld'
        BY <1>1, <3>1, <4>1 DEF GuiKept, TogglesHeld
      <4>4. \A d \in Components : Restores(gui, Everything, d)
        BY <1>1, <3>3, WildcardRestores
      <4>5. Whole'
        BY <4>1, <4>4 DEF Whole
      <4> QED
        BY <1>1, <4>1, <4>2, <4>5 DEF GuiKept
    <3> QED
      BY <3>2, <3>3
  <2>5. CASE SubscribeToSelected
    <3>1. /\ selection \in Components \ subscriptions /\ ~everything
          /\ subscriptions' = subscriptions \cup {selection}
          /\ UNCHANGED <<up, replaced>>
          /\ records'[gui] = records[gui] \cup {PerPair(selection)}
      BY <1>1, <2>5 DEF SubscribeToSelected, RegisterSubscription, NetTypeOK
    <3>2. ~everything'
      BY <3>1, PerPairs DEF everything
    <3>3. TogglesHeld'
      BY <1>1, <3>1, PerPairs DEF GuiKept, TogglesHeld
    <3> QED
      BY <1>1, <3>1, <3>2, <3>3 DEF GuiKept, Whole
  <2>6. ASSUME NEW o \in Components, UntogglePair(o) PROVE GuiKept'
    <3>1. /\ o \in subscriptions /\ ~everything
          /\ subscriptions' = subscriptions \ {o}
          /\ UNCHANGED <<up, replaced>>
          /\ records'[gui] = records[gui] \ {PerPair(o)}
      BY <1>1, <2>6 DEF UntogglePair, CancelSubscription, NetTypeOK
    <3>2. ~everything'
      BY <3>1 DEF everything
    <3>3. TogglesHeld'
      <4>1. subscriptions \subseteq Components
        BY <1>1 DEF TypeOK
      <4> QED
        BY <1>1, <3>1, <4>1, PerPairs DEF GuiKept, TogglesHeld
    <3> QED
      BY <1>1, <3>1, <3>2, <3>3 DEF GuiKept, Whole
  <2> QED
    BY <1>1, <2>1, <2>2, <2>3, <2>4, <2>5, <2>6 DEF Next, Window
<1> QED
  BY <1>3, <1>4, <1>5 DEF ViewInv

LEMMA ViewInvariant == Spec => []ViewInv
BY InitView, ViewStep, PTL DEF Spec

\* What the window asked an owner to leave out, it leaves out: whatever of it is on
\* its way ends with a cancellation.
DroppedAt(d) ==
  <<gui, d>> \in cut => d \in sessions[gui] /\ ~MayBeListed(wire[gui][d], gui, ListOf(d, d))
Dropped == \A d \in Components : DroppedAt(d)

\* The wildcard is off then, and the owner has read that or will.
LEMMA NoWild ==
  ASSUME ViewInv, NEW d \in Components, <<gui, d>> \in cut
  PROVE  ~WildAfter(wire[gui][d], gui, u_subscribers[d])
<1>1. /\ gui \in Components /\ subscriptions \subseteq Components
      /\ gui \in up /\ gui \notin replaced /\ TogglesHeld /\ ~everything
  BY ViewAssumption DEF ViewInv, TypeOK, GuiKept, Whole
<1>2. \A r \in records[gui] : r[2] = Key
  <2>1. \A r \in records[gui] : \E o \in subscriptions : r = PerPair(o)
    BY <1>1 DEF TogglesHeld, everything
  <2> QED
    BY <1>1, <2>1, PerPairs
<1>3. ~HoldsWild(gui, d)
  BY <1>2 DEF HoldsWild, Key, kWildcardKey
<1>4. WildIsHeld(gui, d)
  BY <1>1 DEF ViewInv, AskInv, AskedAt
<1> QED
  BY <1>1, <1>3, <1>4 DEF WildIsHeld

LEMMA DroppedFrame ==
  ASSUME ViewInv, NEW d \in Components, DroppedAt(d), TracksAt(gui, d),
         <<gui, d>> \in cut' => <<gui, d>> \in cut, d \in sessions[gui] => d \in sessions'[gui]
  PROVE  DroppedAt(d)'
<1> SUFFICES ASSUME <<gui, d>> \in cut'
             PROVE  d \in sessions'[gui] /\ ~MayBeListed(wire[gui][d], gui, ListOf(d, d))'
  BY DEF DroppedAt
<1>1. d \in sessions[gui] /\ ~MayBeListed(wire[gui][d], gui, ListOf(d, d))
  BY DEF DroppedAt
<1>2. ~WildAfter(wire[gui][d], gui, u_subscribers[d])
  BY NoWild
<1>3. MayBeListed(wire[gui][d], gui, ListOf(d, d))' =>
        MayBeListed(wire[gui][d], gui, ListOf(d, d)) \/ WildAfter(wire[gui][d], gui, u_subscribers[d])
  BY DEF TracksAt, Tracks
<1> QED
  BY <1>1, <1>2, <1>3

LEMMA SameTracks ==
  ASSUME NEW x \in Components, NEW y \in Components, wire'[x][y] = wire[x][y],
         u_subscribers'[y] = u_subscribers[y], ListOf(y, y)' = ListOf(y, y)
  PROVE  TracksAt(x, y)
BY DEF TracksAt, Tracks

\* A call of the window that asks: what it restores is no longer cut, and what it
\* cancels ends in a cancellation.
LEMMA AskingDrops ==
  ASSUME ViewInv, Dropped, NEW r \in Record,
         \/ RegisterSubscription(gui, r) /\ \A d \in Components : Covers(r, d) => Restores(gui, r, d)
         \/ CancelSubscription(gui, r)
  PROVE  Dropped'
<1> SUFFICES ASSUME NEW d \in Components PROVE DroppedAt(d)'
  BY DEF Dropped
<1>1. gui \in Components /\ gui \in up /\ NetTypeOK /\ Links /\ DroppedAt(d)
  BY ViewAssumption DEF ViewInv, GuiKept, Links, Dropped
<1>2. UNCHANGED <<space, sessions>>
  BY DEF RegisterSubscription, CancelSubscription
<1>3. u_subscribers'[d] = u_subscribers[d] /\ ListOf(d, d)' = ListOf(d, d)
  BY <1>2 DEF space, ListOf
<1>4. PICK on \in BOOLEAN : /\ SendSubscription(gui, r, on)
                            /\ on => RegisterSubscription(gui, r)
                            /\ ~on => CancelSubscription(gui, r)
  <2>1. CASE RegisterSubscription(gui, r)
    <3>1. SendSubscription(gui, r, TRUE)
      BY <2>1 DEF RegisterSubscription
    <3> QED
      BY <2>1, <3>1
  <2>2. CASE CancelSubscription(gui, r)
    <3>1. SendSubscription(gui, r, FALSE)
      BY <2>2 DEF CancelSubscription
    <3> QED
      BY <2>2, <3>1
  <2> QED
    BY <2>1, <2>2
<1>5. AskingAt(gui, r, on, gui, d)
  BY <1>1, <1>4, AskingWires
<1>6. CASE ~Covers(r, d)
  <2>1. wire'[gui][d] = wire[gui][d]
    BY <1>5, <1>6 DEF AskingAt
  <2>2. TracksAt(gui, d)
    BY <1>1, <1>3, <2>1, SameTracks
  <2>3. <<gui, d>> \in cut' => <<gui, d>> \in cut
    <3>1. ASSUME RegisterSubscription(gui, r) PROVE cut' \subseteq cut
      BY <3>1 DEF RegisterSubscription
    <3>2. ASSUME CancelSubscription(gui, r), <<gui, d>> \in cut' PROVE <<gui, d>> \in cut
      <4>1. ~Cuts(gui, r, d)
        BY <1>6 DEF Cuts
      <4>2. cut' = cut \cup {<<gui, e>> : e \in {z \in sessions[gui] : Cuts(gui, r, z)}}
        BY <3>2 DEF CancelSubscription
      <4> QED
        BY <3>2, <4>1, <4>2
    <3> QED
      BY <1>4, <3>1, <3>2
  <2> QED
    BY <1>1, <1>2, <2>2, <2>3, DroppedFrame
<1>7. CASE Covers(r, d) /\ RegisterSubscription(gui, r) /\ Restores(gui, r, d)
  <2>1. cut' = {z \in cut : ~(z[1] = gui /\ Restores(gui, r, z[2]))}
    BY <1>7 DEF RegisterSubscription
  <2>2. <<gui, d>> \notin cut'
    BY <1>7, <2>1
  <2> QED
    BY <2>2 DEF DroppedAt
<1>8. CASE Covers(r, d) /\ CancelSubscription(gui, r)
  <2>0. r \in records[gui] /\ r[2] \in {Key, kWildcardKey}
    BY <1>8 DEF CancelSubscription, Record
  <2>1. SendSubscription(gui, r, FALSE)
    BY <1>8 DEF CancelSubscription
  <2>2. AskingAt(gui, r, FALSE, gui, d)
    BY <1>1, <2>1, AskingWires
  <2>3. CASE d \in sessions[gui]
    <3>1. PICK f : Extended(wire[gui][d], wire'[gui][d], f) /\ Asks(f, r[2], FALSE)
      BY <1>8, <2>2, <2>3 DEF AskingAt
    <3>2. Cancels(f)
      BY <2>0, <3>1 DEF Cancels
    <3>3. ~MayBeListed(wire'[gui][d], gui, ListOf(d, d))
      BY <3>1, <3>2, Extends
    <3>4. ~MayBeListed(wire[gui][d], gui, ListOf(d, d))'
      BY <1>3, <3>3
    <3> QED
      BY <1>2, <2>3, <3>4 DEF DroppedAt
  <2>4. CASE d \notin sessions[gui]
    <3>1. <<gui, d>> \notin cut
      BY <1>1, <2>4 DEF DroppedAt
    <3>2. cut' = cut \cup {<<gui, e>> : e \in {z \in sessions[gui] : Cuts(gui, r, z)}}
      BY <1>8 DEF CancelSubscription
    <3>3. <<gui, d>> \notin cut'
      BY <2>4, <3>1, <3>2
    <3> QED
      BY <3>3 DEF DroppedAt
  <2> QED
    BY <2>3, <2>4
<1> QED
  BY <1>6, <1>7, <1>8

\* Whatever the others do, the cancellation stays the last word.
LEMMA OthersDrop ==
  ASSUME ViewInv, Dropped, NEW c \in Components \ {gui}, Call(c) \/ Leave(c) \/ Join(c)
  PROVE  Dropped'
<1> SUFFICES ASSUME NEW d \in Components PROVE DroppedAt(d)'
  BY DEF Dropped
<1>1. /\ gui \in Components /\ gui \in up /\ NetTypeOK /\ Links /\ DroppedAt(d)
      /\ c \in Components
  BY ViewAssumption DEF ViewInv, GuiKept, Links, Dropped
<1>2. <<gui, d>> \in cut' => <<gui, d>> \in cut
  BY <1>1, OthersUntouched DEF Untouched
<1>3. ASSUME Leave(c) PROVE DroppedAt(d)'
  <2>1. /\ \A e \in Components : sessions'[e] = IF e = c THEN {} ELSE sessions[e] \ {c}
        /\ \A x, y \in Components : wire'[x][y] = IF c \in {x, y} THEN <<>> ELSE wire[x][y]
        /\ \A x, y \in Components : <<x, y>> \in cut' <=>
             \/ x # c /\ y # c /\ <<x, y>> \in cut
             \/ x = c /\ y # c /\ c \in u_subscribers[y] /\ c \notin ListOf(y, y)
        /\ Elsewhere(c)
    BY <1>1, <1>3, LeaveFacts
  <2>2. CASE d = c
    BY <1>1, <2>1, <2>2 DEF DroppedAt
  <2>3. CASE d # c
    <3>1. /\ wire'[gui][d] = wire[gui][d] /\ sessions'[gui] = sessions[gui] \ {c}
          /\ ListOf(d, d)' = ListOf(d, d) /\ u_subscribers'[d] = u_subscribers[d]
      BY <1>1, <2>1, <2>3, ListElsewhere
    <3>2. TracksAt(gui, d)
      BY <1>1, <3>1, SameTracks
    <3> QED
      BY <1>1, <1>2, <2>3, <3>1, <3>2, DroppedFrame
  <2> QED
    BY <2>2, <2>3
<1>4. ASSUME UNCHANGED space, wire'[gui][d] = wire[gui][d], sessions'[gui] = sessions[gui]
      PROVE  DroppedAt(d)'
  <2>1. TracksAt(gui, d)
    BY <1>1, <1>4, SameTracks DEF space, ListOf
  <2> QED
    BY <1>1, <1>2, <1>4, <2>1, DroppedFrame
<1>5. ASSUME Join(c) PROVE DroppedAt(d)'
  <2>1. sessions' = [sessions EXCEPT ![c] = up] /\ UNCHANGED <<space, wire>>
    BY <1>5 DEF Join
  <2>2. sessions'[gui] = sessions[gui]
    BY <1>1, <2>1 DEF NetTypeOK
  <2> QED
    BY <1>4, <2>1, <2>2
<1>6. ASSUME NEW r \in Record, RegisterSubscription(c, r) \/ CancelSubscription(c, r)
      PROVE  DroppedAt(d)'
  <2>1. UNCHANGED <<space, sessions>>
    BY <1>6 DEF RegisterSubscription, CancelSubscription
  <2>2. Call(c)
    BY <1>6 DEF Call
  <2>3. wire'[gui][d] = wire[gui][d]
    BY <1>1, <2>2, CallFacts DEF Calls
  <2> QED
    BY <1>4, <2>1, <2>3
<1>7. ASSUME \/ SetPair(c) \/ RemoveOwnPair(c)
             \/ \E e \in Components : SetRemotePair(c, e) \/ RemoveRemotePair(c, e)
      PROVE  DroppedAt(d)'
  <2>1. TracksAt(gui, d) /\ UNCHANGED sessions
    BY <1>1, <1>7, WritesTrack
  <2> QED
    BY <1>1, <1>2, <2>1, DroppedFrame
<1> QED
  BY <1>3, <1>5, <1>6, <1>7 DEF Call

LEMMA HandlersDrop ==
  ASSUME ViewInv, Dropped, NEW src \in Components, NEW c \in Components,
         Handle(src, c) \/ Announce(src, c)
  PROVE  Dropped'
<1> SUFFICES ASSUME NEW d \in Components PROVE DroppedAt(d)'
  BY DEF Dropped
<1>1. gui \in Components /\ NetTypeOK /\ Links /\ DroppedAt(d)
  BY ViewAssumption DEF ViewInv, Links, Dropped
<1>2. ASSUME Handle(src, c) PROVE DroppedAt(d)'
  <2>1. TracksAt(gui, d) /\ UNCHANGED <<sessions, cut>>
    BY <1>1, <1>2, HandlersTrack
  <2> QED
    BY <1>1, <2>1, DroppedFrame
<1>3. ASSUME Announce(src, c) PROVE DroppedAt(d)'
  <2>1. /\ c \notin sessions[src] /\ sessions'[src] = sessions[src] \cup {c}
        /\ \A x \in Components \ {src} : sessions'[x] = sessions[x]
        /\ \A x, y \in Components : x # src \/ y # c => wire'[x][y] = wire[x][y]
        /\ UNCHANGED <<pairs, subscribers, u_subscribers, cut>>
    BY <1>1, <1>3, AnnounceFacts
  <2>2. CASE gui = src /\ d = c
    BY <1>1, <2>1, <2>2 DEF DroppedAt
  <2>3. CASE gui # src \/ d # c
    <3>1. TracksAt(gui, d)
      BY <1>1, <2>1, <2>3, SameTracks DEF ListOf
    <3> QED
      BY <1>1, <2>1, <3>1, DroppedFrame
  <2> QED
    BY <2>2, <2>3
<1> QED
  BY <1>2, <1>3

LEMMA DroppedStep ==
  ASSUME ViewInv, Dropped, [Next]_vars
  PROVE  Dropped'
<1>1. TypeOK /\ Links /\ GuiKept /\ NetTypeOK /\ gui \in Components
  BY ViewAssumption DEF ViewInv, Links
<1>2. Everything \in Record /\ \A o \in Components : PerPair(o) \in Record
  BY DEF Everything, PerPair, Record
<1>3. ASSUME UNCHANGED net PROVE Dropped'
  <2> SUFFICES ASSUME NEW d \in Components PROVE DroppedAt(d)'
    BY DEF Dropped
  <2>1. TracksAt(gui, d)
    BY <1>1, <1>3, SameTracks DEF net, space, ListOf
  <2> QED
    BY <1>3, <2>1, DroppedFrame DEF net, Dropped
<1>4. CASE UNCHANGED vars
  BY <1>3, <1>4 DEF vars
<1>5. ASSUME Others \/ Handlers PROVE Dropped'
  <2>1. ASSUME NEW c \in Components, Application(c) PROVE Call(c)
    BY <2>1, OffersAssumption DEF Application, Call
  <2> QED
    BY <1>5, <2>1, OthersDrop, HandlersDrop DEF Others, Handlers
<1>6. ASSUME \/ SetPair(gui) \/ RemoveOwnPair(gui)
             \/ \E e \in Components : SetRemotePair(gui, e) \/ RemoveRemotePair(gui, e)
      PROVE  Dropped'
  <2> SUFFICES ASSUME NEW d \in Components PROVE DroppedAt(d)'
    BY DEF Dropped
  <2>1. TracksAt(gui, d) /\ UNCHANGED <<sessions, cut>>
    BY <1>1, <1>6, WritesTrack
  <2> QED
    BY <2>1, DroppedFrame DEF Dropped
<1>7. ASSUME NEW o \in Components, Post(o) PROVE Dropped'
  BY <1>6, <1>7 DEF Post
<1>8. ASSUME ConfirmDelete PROVE Dropped'
  <2>1. selection \in Components
    BY <1>8 DEF ConfirmDelete, Asking, Selected, snapshotPairs
  <2> QED
    BY <1>3, <1>6, <1>8, <2>1 DEF ConfirmDelete
<1>9. ASSUME NEW o \in Components,
             PressDelete \/ CancelDelete \/ PopupCloses \/ Select(o) \/ JumpToTarget(o)
      PROVE  Dropped'
  BY <1>3, <1>9 DEF PressDelete, CancelDelete, PopupCloses, Select, JumpToTarget
<1>10. CASE ToggleEverything
  <2>1. CASE everything
    BY <1>2, <1>10, <2>1, AskingDrops DEF ToggleEverything
  <2>2. CASE ~everything
    <3>1. RegisterSubscription(gui, Everything)
      BY <1>10, <2>2 DEF ToggleEverything
    <3>2. \A d \in Components : Restores(gui, Everything, d)
      BY <1>1, <2>2, WildcardRestores
    <3> QED
      BY <1>2, <3>1, <3>2, AskingDrops
  <2> QED
    BY <2>1, <2>2
<1>11. CASE SubscribeToSelected
  <2>1. selection \in Components /\ RegisterSubscription(gui, PerPair(selection))
    BY <1>11 DEF SubscribeToSelected
  <2>2. \A d : Covers(PerPair(selection), d) => Restores(gui, PerPair(selection), d)
    BY <2>1, PerPairs DEF Restores
  <2> QED
    BY <1>2, <2>1, <2>2, AskingDrops
<1>12. ASSUME NEW o \in Components, UntogglePair(o) PROVE Dropped'
  BY <1>2, <1>12, AskingDrops DEF UntogglePair
<1> QED
  BY <1>1, <1>4, <1>5, <1>7, <1>8, <1>9, <1>10, <1>11, <1>12 DEF Next, Window

LEMMA InitDropped == Init => Dropped
<1> SUFFICES ASSUME Init PROVE Dropped
  OBVIOUS
<1>1. cut = {}
  BY DEF Init, NetInit
<1> QED
  BY <1>1 DEF Dropped, DroppedAt

LEMMA DroppedInvariant == Spec => []Dropped
<1>1. Init => Dropped
  BY InitDropped
<1>2. ViewInv /\ Dropped /\ [Next]_vars => Dropped'
  BY DroppedStep
<1> QED
  BY <1>1, <1>2, ViewInvariant, PTL DEF Spec

\* The network and the window keep their types, in every state that is reached.
THEOREM WindowTypes == Spec => []TypeOK
<1>1. ViewInv => TypeOK
  BY DEF ViewInv
<1> QED
  BY <1>1, ViewInvariant, PTL

\* Once what a component asked of an owner has been read (ServerSession's
\* handleSubscription), it is on the owner's list exactly if it holds a
\* subscription that covers the pair, but for what cut and replaced name: with any
\* components, subscriptions and departures.
THEOREM WindowLists == Spec => []ListedIsAsked
<1>1. ViewInv => ListedIsAsked
  BY AskInvLists DEF ViewInv
<1> QED
  BY <1>1, ViewInvariant, PTL

\* The same of a network without a window, from no subscriptions (handleSubscription,
\* addSubscriptionToAll).
THEOREM NetworkLists == NetSpec => [](NetTypeOK /\ ListedIsAsked)
<1> DEFINE none == [c \in Components |-> {}]
<1>1. NetInit(none) => Links /\ AskInv
  <2>1. none \in [Components -> SUBSET Record]
    OBVIOUS
  <2> QED
    BY <2>1, InitLinks, InitAsk
<1>2. Links /\ AskInv /\ [NetNext]_net => (Links /\ AskInv)'
  BY NetNextSteps, LinksStep, AskStep
<1>3. Links /\ AskInv => NetTypeOK /\ ListedIsAsked
  BY AskInvLists DEF Links
<1> QED
  BY <1>1, <1>2, <1>3, PTL DEF NetSpec

\* The checkbox and the toggles of pair_view.cpp are the records of its client.
\* With the checkbox on, every owner that has read the subscription sends the view
\* its pair; with a toggle on, its owner does exactly unless the checkbox was
\* switched off over the toggle, and does not then.
THEOREM ControlsAgree == Spec => []WindowAgrees
<1>1. ASSUME ViewInv, Dropped PROVE WindowAgrees
  <2>1. /\ TogglesHeld /\ Whole /\ gui \in up /\ ListedIsAsked /\ NetTypeOK /\ Links
    BY <1>1, AskInvLists DEF ViewInv, GuiKept, Links
  <2>2. EverythingIsEverything
    <3> SUFFICES ASSUME NEW d \in up, everything, Settled(gui, d), pairs[d][d] # Absent
                 PROVE  gui \in subscribers[d][d]
      BY DEF EverythingIsEverything
    <3>1. Covered(gui, d) /\ d \in Components
      BY <2>1, PerPairs DEF Covered, everything, NetTypeOK
    <3>2. <<gui, d>> \notin cut
      BY <2>1, <3>1 DEF Whole
    <3> QED
      BY <2>1, <3>1, <3>2 DEF ListedIsAsked
  <2>3. TogglesServed
    <3> SUFFICES ASSUME NEW o \in subscriptions \cap up, Settled(gui, o), pairs[o][o] # Absent
                 PROVE  gui \in subscribers[o][o] <=> <<gui, o>> \notin cut
      BY DEF TogglesServed
    <3>1. o \in Components /\ gui \in Components /\ ListOf(o, o) = subscribers[o][o]
      BY <2>1, ViewAssumption DEF NetTypeOK, ListOf
    <3>2. CASE <<gui, o>> \notin cut
      <4>1. PerPair(o) \in records[gui]
        BY <2>1 DEF TogglesHeld
      <4>2. Covered(gui, o)
        BY <4>1 DEF Covered, Covers, PerPair
      <4> QED
        BY <2>1, <3>2, <4>2 DEF ListedIsAsked
    <3>3. CASE <<gui, o>> \in cut
      <4>1. ~MayBeListed(wire[gui][o], gui, ListOf(o, o))
        BY <1>1, <3>1, <3>3 DEF Dropped, DroppedAt
      <4> QED
        BY <2>1, <3>1, <3>3, <4>1, SettledLists
    <3> QED
      BY <3>2, <3>3
  <2> QED
    BY <2>1, <2>2, <2>3 DEF WindowAgrees
<1> QED
  BY <1>1, ViewInvariant, DroppedInvariant, PTL

-----------------------------------------------------------------------------
(* What a subscriber has of a pair                                         *)

\* A frame about o's pair, and what a reader sees of it afterwards.
About(f, o) == f.type \in {"PairUpdate", "PairRemoved"} /\ f.owner = o
Shows(f) == IF f.type = "PairRemoved" THEN Invalid ELSE f.val

\* Who reads all of q will see v, if its copy was as given; and q says nothing.
Carries(q, o, copy, v) ==
  /\ \A i \in 1..Len(q) :
       About(q[i], o) /\ (\A j \in i + 1..Len(q) : ~About(q[j], o)) => Shows(q[i]) = v
  /\ (\A i \in 1..Len(q) : ~About(q[i], o)) => copy = v
Untold(q, o, copy) == copy = Invalid /\ \A i \in 1..Len(q) : ~About(q[i], o)

\* Nothing about o is added to q, or read from it.
Steady(q, q2, o) ==
  \/ q2 = q
  \/ \E f : Extended(q, q2, f) /\ ~About(f, o)
  \/ Shifted(q, q2) /\ ~About(q[1], o)

LEMMA SteadyQuiet ==
  ASSUME NEW q, NEW q2, NEW o, Steady(q, q2, o)
  PROVE  (\A i \in 1..Len(q) : ~About(q[i], o)) <=> (\A i \in 1..Len(q2) : ~About(q2[i], o))
<1>1. ASSUME NEW f, Extended(q, q2, f), ~About(f, o)
      PROVE  (\A i \in 1..Len(q) : ~About(q[i], o)) <=> (\A i \in 1..Len(q2) : ~About(q2[i], o))
  <2>1. /\ Len(q) \in Nat /\ Len(q2) = Len(q) + 1 /\ q2[Len(q) + 1] = f
        /\ \A i \in 1..Len(q) : q2[i] = q[i]
    BY <1>1 DEF Extended
  <2>2. \A i \in 1..Len(q2) : i \in 1..Len(q) \/ i = Len(q) + 1
    BY <2>1
  <2>3. \A i \in 1..Len(q) : i \in 1..Len(q2)
    BY <2>1
  <2> QED
    BY <1>1, <2>1, <2>2, <2>3
<1>2. ASSUME Shifted(q, q2), ~About(q[1], o)
      PROVE  (\A i \in 1..Len(q) : ~About(q[i], o)) <=> (\A i \in 1..Len(q2) : ~About(q2[i], o))
  <2>1. /\ Len(q) \in Nat \ {0} /\ Len(q2) = Len(q) - 1
        /\ \A i \in 1..Len(q2) : q2[i] = q[i + 1]
    BY <1>2 DEF Shifted
  <2>2. \A i \in 1..Len(q2) : i + 1 \in 1..Len(q)
    BY <2>1
  <2>3. ASSUME NEW i \in 1..Len(q), \A j \in 1..Len(q2) : ~About(q2[j], o)
        PROVE  ~About(q[i], o)
    <3>1. CASE i = 1
      BY <1>2, <3>1
    <3>2. CASE i # 1
      <4>1. i - 1 \in 1..Len(q2) /\ (i - 1) + 1 = i
        BY <2>1, <3>2
      <4>2. q2[i - 1] = q[i]
        BY <2>1, <4>1
      <4> QED
        BY <2>3, <4>1, <4>2
    <3> QED
      BY <3>1, <3>2
  <2> QED
    BY <2>1, <2>2, <2>3
<1> QED
  BY <1>1, <1>2 DEF Steady

\* The last frame about o stays the last.
LEMMA ShiftedCarries ==
  ASSUME NEW q, NEW q2, NEW o, NEW copy, NEW v, Shifted(q, q2), Carries(q, o, copy, v)
  PROVE  /\ \A i \in 1..Len(q2) :
              About(q2[i], o) /\ (\A j \in i + 1..Len(q2) : ~About(q2[j], o)) => Shows(q2[i]) = v
         /\ About(q[1], o) /\ (\A i \in 1..Len(q2) : ~About(q2[i], o)) => Shows(q[1]) = v
<1>1. /\ Len(q) \in Nat \ {0} /\ Len(q2) = Len(q) - 1
      /\ \A i \in 1..Len(q2) : q2[i] = q[i + 1]
  BY DEF Shifted
<1>2. \A i \in 1..Len(q) :
        About(q[i], o) /\ (\A j \in i + 1..Len(q) : ~About(q[j], o)) => Shows(q[i]) = v
  BY DEF Carries
<1>3. ASSUME NEW k \in 0..Len(q2), \A j \in k + 1..Len(q2) : ~About(q2[j], o),
             NEW j \in (k + 1) + 1..Len(q)
      PROVE  ~About(q[j], o)
  <2>1. j - 1 \in k + 1..Len(q2) /\ j - 1 \in 1..Len(q2) /\ (j - 1) + 1 = j
    BY <1>1
  <2>2. q2[j - 1] = q[j]
    BY <1>1, <2>1
  <2> QED
    BY <1>3, <2>1, <2>2
<1>4. ASSUME NEW i \in 1..Len(q2), About(q2[i], o), \A j \in i + 1..Len(q2) : ~About(q2[j], o)
      PROVE  Shows(q2[i]) = v
  <2>1. i + 1 \in 1..Len(q) /\ i \in 0..Len(q2) /\ q2[i] = q[i + 1]
    BY <1>1
  <2>2. \A j \in (i + 1) + 1..Len(q) : ~About(q[j], o)
    BY <1>3, <1>4, <2>1
  <2> QED
    BY <1>2, <1>4, <2>1, <2>2
<1>5. ASSUME About(q[1], o), \A i \in 1..Len(q2) : ~About(q2[i], o) PROVE Shows(q[1]) = v
  <2>1. 1 \in 1..Len(q) /\ 0 \in 0..Len(q2) /\ 0 + 1 = 1
    BY <1>1
  <2>2. \A j \in 1 + 1..Len(q) : ~About(q[j], o)
    BY <1>3, <1>5, <2>1
  <2> QED
    BY <1>2, <1>5, <2>1, <2>2
<1> QED
  BY <1>4, <1>5

LEMMA SteadyCarries ==
  ASSUME NEW q, NEW q2, NEW o, NEW copy, NEW v, Steady(q, q2, o), Carries(q, o, copy, v)
  PROVE  Carries(q2, o, copy, v)
<1>1. (\A i \in 1..Len(q2) : ~About(q2[i], o)) => copy = v
  BY SteadyQuiet DEF Carries
<1>2. CASE q2 = q
  BY <1>2
<1>3. ASSUME NEW f, Extended(q, q2, f), ~About(f, o) PROVE Carries(q2, o, copy, v)
  <2>1. /\ Len(q) \in Nat /\ Len(q2) = Len(q) + 1 /\ q2[Len(q) + 1] = f
        /\ \A i \in 1..Len(q) : q2[i] = q[i]
    BY <1>3 DEF Extended
  <2>2. ASSUME NEW i \in 1..Len(q2), About(q2[i], o), \A j \in i + 1..Len(q2) : ~About(q2[j], o)
        PROVE  Shows(q2[i]) = v
    <3>1. i # Len(q) + 1
      BY <1>3, <2>1, <2>2
    <3>2. i \in 1..Len(q) /\ \A j \in i + 1..Len(q) : j \in i + 1..Len(q2) /\ j \in 1..Len(q)
      BY <2>1, <3>1
    <3>3. About(q[i], o) /\ \A j \in i + 1..Len(q) : ~About(q[j], o)
      BY <2>1, <2>2, <3>2
    <3> QED
      BY <2>1, <3>2, <3>3 DEF Carries
  <2> QED
    BY <1>1, <2>2 DEF Carries
<1>4. ASSUME Shifted(q, q2) PROVE Carries(q2, o, copy, v)
  <2>1. \A i \in 1..Len(q2) :
          About(q2[i], o) /\ (\A j \in i + 1..Len(q2) : ~About(q2[j], o)) => Shows(q2[i]) = v
    BY <1>4, ShiftedCarries
  <2> QED
    BY <1>1, <2>1 DEF Carries
<1> QED
  BY <1>2, <1>3, <1>4 DEF Steady

\* The owner tells of its value, and the subscriber reads it.
LEMMA ToldCarries ==
  ASSUME NEW q, NEW q2, NEW o, NEW copy, NEW m, Extended(q, q2, m), About(m, o)
  PROVE  Carries(q2, o, copy, Shows(m))
<1>1. /\ Len(q) \in Nat /\ Len(q2) = Len(q) + 1 /\ q2[Len(q) + 1] = m
  BY DEF Extended
<1>2. Len(q) + 1 \in 1..Len(q2)
  BY <1>1
<1>3. ASSUME NEW i \in 1..Len(q2), \A j \in i + 1..Len(q2) : ~About(q2[j], o)
      PROVE  q2[i] = m
  <2>1. Len(q) + 1 \notin i + 1..Len(q2)
    BY <1>1, <1>3
  <2>2. i = Len(q) + 1
    BY <1>1, <2>1
  <2> QED
    BY <1>1, <2>2
<1> QED
  BY <1>1, <1>2, <1>3 DEF Carries

LEMMA ReadCarries ==
  ASSUME NEW q, NEW q2, NEW o, NEW copy, NEW v, Shifted(q, q2), About(q[1], o),
         Carries(q, o, copy, v)
  PROVE  Carries(q2, o, Shows(q[1]), v)
<1>1. /\ \A i \in 1..Len(q2) :
           About(q2[i], o) /\ (\A j \in i + 1..Len(q2) : ~About(q2[j], o)) => Shows(q2[i]) = v
      /\ About(q[1], o) /\ (\A i \in 1..Len(q2) : ~About(q2[i], o)) => Shows(q[1]) = v
  BY ShiftedCarries
<1> QED
  BY <1>1 DEF Carries

LEMMA UntoldCarries ==
  ASSUME NEW q, NEW o, NEW copy, Untold(q, o, copy)
  PROVE  Carries(q, o, copy, Invalid)
BY DEF Untold, Carries

\* What x has of d's pair, and what is on its way from d, is d's value; and if d
\* does not list x it has told it nothing.
HasIt(x, d) ==
  /\ x \in sessions[d]
  /\ IF x \in subscribers[d][d] THEN Carries(wire[d][x], d, Seen(x, d), Seen(d, d))
                                ELSE Untold(wire[d][x], d, Seen(x, d))
CurrentAt(x, d) ==
  x \in up /\ d \in up /\ x # d /\ d \notin forwarded /\ <<x, d>> \notin lapsed => HasIt(x, d)
Current == \A x, d \in Components : CurrentAt(x, d)

\* What nobody has sent on comes from its owner.
StraightAt(x, y) ==
  \A i \in 1..Len(wire[x][y]) : \A o \in Components \ forwarded : About(wire[x][y][i], o) => x = o
Straight == \A x \in Components : \A y \in Components \ {x} : StraightAt(x, y)

\* Who is away misses what happens, and so does who is subscribed to everything
\* but for a pair.
Away == \A c \in Components \ up, d \in Components : <<c, d>> \in lapsed /\ <<d, c>> \in lapsed
WildMissed ==
  \A c, d \in Components : c \in u_subscribers[d] /\ c \notin ListOf(d, d) => <<c, d>> \in lapsed

\* The inductive invariant of CurrentUnlessForwarded.
CurrentInv == Current /\ Straight /\ Away /\ WildMissed

\* It is kept where nothing about the pair is sent, read or set.
LEMMA CurrentFrame ==
  ASSUME NEW x \in Components, NEW d \in Components, CurrentAt(x, d),
         x \in up' => x \in up, d \in up' => d \in up, d \in forwarded => d \in forwarded',
         <<x, d>> \in lapsed => <<x, d>> \in lapsed', x \in sessions[d] => x \in sessions'[d],
         Steady(wire[d][x], wire'[d][x], d), x # d => Seen(x, d)' = Seen(x, d),
         x \in subscribers[d][d] => x \in subscribers'[d][d] /\ Seen(d, d)' = Seen(d, d),
         x \notin subscribers[d][d] /\ x \in subscribers'[d][d] => Seen(d, d)' = Invalid
  PROVE  CurrentAt(x, d)'
<1> SUFFICES ASSUME x \in up', d \in up', x # d, d \notin forwarded', <<x, d>> \notin lapsed'
             PROVE  HasIt(x, d)'
  BY DEF CurrentAt
<1>1. HasIt(x, d)
  BY DEF CurrentAt
<1>2. x \in sessions'[d]
  BY <1>1 DEF HasIt
<1>3. CASE x \in subscribers[d][d]
  <2>1. Carries(wire[d][x], d, Seen(x, d), Seen(d, d))
    BY <1>1, <1>3 DEF HasIt
  <2>2. Carries(wire'[d][x], d, Seen(x, d), Seen(d, d))
    BY <2>1, SteadyCarries
  <2> QED
    BY <1>2, <1>3, <2>2 DEF HasIt
<1>4. CASE x \notin subscribers[d][d]
  <2>1. Untold(wire[d][x], d, Seen(x, d))
    BY <1>1, <1>4 DEF HasIt
  <2>2. (\A i \in 1..Len(wire[d][x]) : ~About(wire[d][x][i], d)) <=>
        (\A i \in 1..Len(wire'[d][x]) : ~About(wire'[d][x][i], d))
    BY SteadyQuiet
  <2>3. Untold(wire'[d][x], d, Seen(x, d))
    BY <2>1, <2>2 DEF Untold
  <2>4. CASE x \in subscribers'[d][d]
    <3>1. Carries(wire'[d][x], d, Seen(x, d), Invalid)
      BY <2>3, UntoldCarries
    <3> QED
      BY <1>2, <1>4, <2>4, <3>1 DEF HasIt
  <2>5. CASE x \notin subscribers'[d][d]
    BY <1>2, <2>3, <2>5 DEF HasIt
  <2> QED
    BY <2>4, <2>5
<1> QED
  BY <1>3, <1>4

\* What a step of c does to the frames, when it reads no news: it may send m.
Drained(q, q2) == q2 = q \/ (Shifted(q, q2) /\ q[1].type \notin {"PairUpdate", "PairRemoved"})
Tells(c, to, m) ==
  /\ \A x \in Components \ {c} :
       IF x \in to \cap sessions[c] THEN Extended(wire[c][x], wire'[c][x], m)
                                    ELSE wire'[c][x] = wire[c][x]
  /\ \A d \in Components \ {c}, x \in Components : Drained(wire[d][x], wire'[d][x])

LEMMA DrainedSteady == \A q, q2, o : Drained(q, q2) => Steady(q, q2, o)
BY DEF Drained, Steady, About

LEMMA SentTells ==
  ASSUME NetTypeOK, NEW c \in Components, NEW to, NEW m, m \in Frame \/ to \cap sessions[c] = {},
         wire' = Sent(c, to, m)
  PROVE  Tells(c, to, m)
<1>1. \A x, y \in Components : wire'[x][y] = IF x = c /\ y \in to \cap sessions[c]
                                             THEN Append(wire[x][y], m) ELSE wire[x][y]
  BY SentWires
<1>2. ASSUME NEW x \in Components \ {c}
      PROVE  IF x \in to \cap sessions[c] THEN Extended(wire[c][x], wire'[c][x], m)
                                          ELSE wire'[c][x] = wire[c][x]
  <2>1. wire[c][x] \in Seq(Frame)
    BY DEF NetTypeOK
  <2>2. x \in to \cap sessions[c] => Extended(wire[c][x], Append(wire[c][x], m), m)
    BY <2>1, AppendExtends
  <2> QED
    BY <1>1, <2>2
<1>3. \A d \in Components \ {c}, x \in Components : Drained(wire[d][x], wire'[d][x])
  BY <1>1 DEF Drained
<1> QED
  BY <1>2, <1>3 DEF Tells

LEMMA AnsweredTells ==
  ASSUME Links, NEW src \in Components, NEW c \in Components, wire[src][c] # <<>>,
         Head(wire[src][c]).type \notin {"PairUpdate", "PairRemoved"},
         NEW to, NEW m, m \in Frame \/ to \cap sessions[c] = {}, wire' = Answered(src, c, to, m)
  PROVE  Tells(c, to, m)
<1>0. NetTypeOK /\ src # c
  BY ReadersUp DEF Links
<1>1. /\ wire'[src][c] = Tail(wire[src][c])
      /\ \A x, y \in Components : x # src \/ y # c =>
           wire'[x][y] = IF x = c /\ y \in to \cap sessions[c]
                         THEN Append(wire[x][y], m) ELSE wire[x][y]
  BY <1>0, AnsweredWires
<1>2. ASSUME NEW x \in Components \ {c}
      PROVE  IF x \in to \cap sessions[c] THEN Extended(wire[c][x], wire'[c][x], m)
                                          ELSE wire'[c][x] = wire[c][x]
  <2>1. wire[c][x] \in Seq(Frame)
    BY <1>0 DEF NetTypeOK
  <2>2. x \in to \cap sessions[c] => Extended(wire[c][x], Append(wire[c][x], m), m)
    BY <2>1, AppendExtends
  <2>3. wire'[c][x] = IF x \in to \cap sessions[c] THEN Append(wire[c][x], m) ELSE wire[c][x]
    BY <1>1
  <2> QED
    BY <2>2, <2>3
<1>3. Drained(wire[src][c], wire'[src][c])
  BY <1>0, <1>1, HeadFacts DEF Drained
<1>4. ASSUME NEW d \in Components \ {c}, NEW x \in Components PROVE Drained(wire[d][x], wire'[d][x])
  <2>1. CASE d = src /\ x = c
    BY <1>3, <2>1
  <2>2. CASE d # src \/ x # c
    BY <1>1, <2>2 DEF Drained
  <2> QED
    BY <2>1, <2>2
<1> QED
  BY <1>2, <1>4 DEF Tells

\* A step of c that reads no news and leaves the copies of others' pairs alone.
OwnStep(c, to, m) ==
  /\ c \in up /\ UNCHANGED <<up, sessions, forwarded>> /\ Elsewhere(c)
  /\ \A e \in Components \ {c} : pairs'[c][e] = pairs[c][e]
  /\ Tells(c, to, m) /\ \A o \in Components : About(m, o) => o = c
  /\ \A x, d \in Components : d # c \/ x \notin sessions[c] =>
       (<<x, d>> \in lapsed => <<x, d>> \in lapsed')
\* x hears of what becomes of c's pair, or need not or cannot.
Learns(x, c, to, m) ==
  \/ <<x, c>> \in lapsed'
  \/ /\ x \in to \cap sessions[c] /\ x \in subscribers'[c][c]
     /\ About(m, c) /\ Shows(m) = Seen(c, c)'
  \/ x \notin sessions[c]
  \/ /\ <<x, c>> \notin lapsed /\ (x \in to => ~About(m, c))
     /\ x \in subscribers[c][c] => x \in subscribers'[c][c] /\ Seen(c, c)' = Seen(c, c)
     /\ x \notin subscribers[c][c] /\ x \in subscribers'[c][c] => Seen(c, c)' = Invalid

LEMMA OwnStepCurrent ==
  ASSUME Links, Current, NEW c \in Components, NEW to, NEW m, OwnStep(c, to, m),
         \A x \in Components \ {c} : Learns(x, c, to, m)
  PROVE  Current'
<1>0. /\ UNCHANGED <<up, sessions, forwarded>> /\ Elsewhere(c)
      /\ \A e \in Components \ {c} : pairs'[c][e] = pairs[c][e]
      /\ Tells(c, to, m)
      /\ \A x, d \in Components : d # c \/ x \notin sessions[c] =>
           (<<x, d>> \in lapsed => <<x, d>> \in lapsed')
  BY DEF OwnStep
<1> SUFFICES ASSUME NEW x \in Components, NEW d \in Components PROVE CurrentAt(x, d)'
  BY DEF Current
<1>1. CurrentAt(x, d)
  BY DEF Current
<1>2. x # d => Seen(x, d)' = Seen(x, d)
  <2>1. x # d => pairs'[x][d] = pairs[x][d]
    BY <1>0 DEF Elsewhere
  <2> QED
    BY <2>1 DEF Seen
<1>3. CASE d # c
  <2>1. subscribers'[d][d] = subscribers[d][d] /\ Seen(d, d)' = Seen(d, d)
    BY <1>0, <1>3 DEF Elsewhere, Seen
  <2>2. Steady(wire[d][x], wire'[d][x], d)
    BY <1>0, <1>3, DrainedSteady DEF Tells
  <2> QED
    BY <1>0, <1>1, <1>2, <1>3, <2>1, <2>2, CurrentFrame
<1>4. CASE d = c /\ x = c
  BY <1>4 DEF CurrentAt
<1>5. CASE d = c /\ x # c
  <2>0. Learns(x, c, to, m)
    BY <1>5
  <2>1. CASE <<x, c>> \in lapsed'
    BY <1>5, <2>1 DEF CurrentAt
  <2>2. CASE /\ x \in to \cap sessions[c] /\ x \in subscribers'[c][c]
             /\ About(m, c) /\ Shows(m) = Seen(c, c)'
    <3>1. Extended(wire[c][x], wire'[c][x], m)
      BY <1>0, <1>5, <2>2 DEF Tells
    <3>2. Carries(wire'[c][x], c, Seen(x, c)', Seen(c, c)')
      BY <2>2, <3>1, ToldCarries
    <3>3. x \in sessions'[c]
      BY <1>0, <2>2
    <3> QED
      BY <1>5, <2>2, <3>2, <3>3 DEF CurrentAt, HasIt
  <2>3. CASE x \notin sessions[c]
    <3>1. x \in up /\ c \in up /\ c \notin forwarded => <<x, c>> \in lapsed
      BY <1>1, <1>5, <2>3 DEF CurrentAt, HasIt
    <3>2. <<x, c>> \in lapsed => <<x, c>> \in lapsed'
      BY <1>0, <2>3
    <3> QED
      BY <1>0, <1>5, <3>1, <3>2 DEF CurrentAt
  <2>4. CASE /\ <<x, c>> \notin lapsed /\ (x \in to => ~About(m, c))
             /\ x \in subscribers[c][c] => x \in subscribers'[c][c] /\ Seen(c, c)' = Seen(c, c)
             /\ x \notin subscribers[c][c] /\ x \in subscribers'[c][c] => Seen(c, c)' = Invalid
    <3>1. Steady(wire[c][x], wire'[c][x], c)
      BY <1>0, <1>5, <2>4 DEF Tells, Steady
    <3> QED
      BY <1>0, <1>1, <1>2, <1>5, <2>4, <3>1, CurrentFrame
  <2> QED
    BY <2>0, <2>1, <2>2, <2>3, <2>4 DEF Learns
<1> QED
  BY <1>3, <1>4, <1>5

\* What nobody has sent on still comes from its owner.
LEMMA StraightFrame ==
  ASSUME NEW x \in Components, NEW y \in Components, StraightAt(x, y), forwarded \subseteq forwarded',
         \/ wire'[x][y] = wire[x][y] \/ Len(wire'[x][y]) = 0
         \/ Shifted(wire[x][y], wire'[x][y])
         \/ \E f : /\ Extended(wire[x][y], wire'[x][y], f)
                   /\ \A o \in Components \ forwarded' : About(f, o) => x = o
  PROVE  StraightAt(x, y)'
<1> SUFFICES ASSUME NEW i \in 1..Len(wire'[x][y]), NEW o \in Components \ forwarded',
                    About(wire'[x][y][i], o)
             PROVE  x = o
  BY DEF StraightAt
<1>1. ASSUME NEW j \in 1..Len(wire[x][y]), wire'[x][y][i] = wire[x][y][j] PROVE x = o
  BY <1>1 DEF StraightAt
<1>2. CASE wire'[x][y] = wire[x][y]
  BY <1>1, <1>2
<1>3. CASE Len(wire'[x][y]) = 0
  BY <1>3
<1>4. CASE Shifted(wire[x][y], wire'[x][y])
  <2>1. i + 1 \in 1..Len(wire[x][y]) /\ wire'[x][y][i] = wire[x][y][i + 1]
    BY <1>4 DEF Shifted
  <2> QED
    BY <1>1, <2>1
<1>5. ASSUME NEW f, Extended(wire[x][y], wire'[x][y], f),
             \A e \in Components \ forwarded' : About(f, e) => x = e
      PROVE  x = o
  <2>1. \/ i \in 1..Len(wire[x][y]) /\ wire'[x][y][i] = wire[x][y][i]
        \/ wire'[x][y][i] = f
    BY <1>5 DEF Extended
  <2> QED
    BY <1>1, <1>5, <2>1
<1> QED
  BY <1>2, <1>3, <1>4, <1>5

LEMMA OwnStepStraight ==
  ASSUME Links, Straight, NEW c \in Components, NEW to, NEW m, OwnStep(c, to, m)
  PROVE  Straight'
<1>1. Tells(c, to, m) /\ (\A o \in Components : About(m, o) => o = c) /\ forwarded' = forwarded
  BY DEF OwnStep
<1> SUFFICES ASSUME NEW x \in Components, NEW y \in Components \ {x} PROVE StraightAt(x, y)'
  BY DEF Straight
<1>2. StraightAt(x, y)
  BY DEF Straight
<1>3. CASE x = c
  <2>1. IF y \in to \cap sessions[c] THEN Extended(wire[c][y], wire'[c][y], m)
                                     ELSE wire'[c][y] = wire[c][y]
    BY <1>1, <1>3 DEF Tells
  <2> QED
    BY <1>1, <1>2, <1>3, <2>1, StraightFrame
<1>4. CASE x # c
  <2>1. Drained(wire[x][y], wire'[x][y])
    BY <1>1, <1>4 DEF Tells
  <2> QED
    BY <1>1, <1>2, <2>1, StraightFrame DEF Drained
<1> QED
  BY <1>3, <1>4

LEMMA OwnStepAway ==
  ASSUME Links, Away, NEW c \in Components, NEW to, NEW m, OwnStep(c, to, m)
  PROVE  Away'
<1>1. /\ c \in up /\ up' = up
      /\ \A x, d \in Components : d # c \/ x \notin sessions[c] =>
           (<<x, d>> \in lapsed => <<x, d>> \in lapsed')
  BY DEF OwnStep
<1> SUFFICES ASSUME NEW x \in Components \ up, NEW d \in Components
             PROVE  <<x, d>> \in lapsed' /\ <<d, x>> \in lapsed'
  BY <1>1 DEF Away
<1>2. <<x, d>> \in lapsed /\ <<d, x>> \in lapsed
  BY DEF Away
<1>3. x # c /\ x \notin sessions[c]
  BY <1>1 DEF Links, SessionsUp
<1> QED
  BY <1>1, <1>2, <1>3

\* Where the lists stay, and whoever hears is on them.
LEMMA WildMissedKept ==
  ASSUME WildMissed, NEW c \in Components, Elsewhere(c),
         \A x \in Components : x \in u_subscribers'[c] /\ x \notin ListOf(c, c)' =>
           <<x, c>> \in lapsed' \/ (x \in u_subscribers[c] /\ x \notin ListOf(c, c)
                                    /\ (<<x, c>> \in lapsed => <<x, c>> \in lapsed')),
         \A x, d \in Components : d # c => (<<x, d>> \in lapsed => <<x, d>> \in lapsed')
  PROVE  WildMissed'
<1> SUFFICES ASSUME NEW x \in Components, NEW d \in Components,
                    x \in u_subscribers'[d], x \notin ListOf(d, d)'
             PROVE  <<x, d>> \in lapsed'
  BY DEF WildMissed
<1>1. CASE d # c
  <2>1. ListOf(d, d)' = ListOf(d, d) /\ u_subscribers'[d] = u_subscribers[d]
    BY <1>1, ListElsewhere
  <2> QED
    BY <1>1, <2>1 DEF WildMissed
<1>2. CASE d = c
  BY <1>2 DEF WildMissed
<1> QED
  BY <1>1, <1>2

\* c sets or removes its pair.
LEMMA PublishCurrent ==
  ASSUME Links, CurrentInv, NEW c \in Components, c \in up,
         UNCHANGED <<up, sessions, forwarded>>, Elsewhere(c), SameLists(c),
         \A e \in Components \ {c} : pairs'[c][e] = pairs[c][e],
         subscribers[c][c] \subseteq subscribers'[c][c], Told(c, subscribers'[c][c]),
         NEW m, Tells(c, subscribers'[c][c], m), About(m, c), Shows(m) = Seen(c, c)'
  PROVE  CurrentInv'
<1> DEFINE L == subscribers'[c][c]
<1>1. \A x, d \in Components : <<x, d>> \in lapsed' <=>
        <<x, d>> \in lapsed /\ ~(d = c /\ x \in L /\ x \in sessions[c])
  BY DEF Told
<1>2. \A o \in Components : About(m, o) => o = c
  BY DEF About
<1>3. OwnStep(c, L, m)
  BY <1>1, <1>2 DEF OwnStep
<1>4. ASSUME NEW x \in Components \ {c} PROVE Learns(x, c, L, m)
  BY <1>1 DEF Learns
<1>5. Current'
  BY <1>3, <1>4, OwnStepCurrent DEF CurrentInv
<1>6. Straight' /\ Away'
  BY <1>3, OwnStepStraight, OwnStepAway DEF CurrentInv
<1>7. WildMissed'
  <2>1. ASSUME NEW x \in Components, x \in u_subscribers'[c], x \notin ListOf(c, c)'
        PROVE  /\ x \in u_subscribers[c] /\ x \notin ListOf(c, c)
               /\ <<x, c>> \in lapsed => <<x, c>> \in lapsed'
    <3>1. x \in u_subscribers[c] /\ x \notin ListOf(c, c)
      BY <2>1 DEF SameLists
    <3>2. x \notin L
      BY <2>1 DEF ListOf
    <3> QED
      BY <1>1, <3>1, <3>2
  <2> QED
    BY <1>1, <2>1, WildMissedKept DEF CurrentInv
<1> QED
  BY <1>5, <1>6, <1>7 DEF CurrentInv

LEMMA UpdateShows ==
  ASSUME NEW o, NEW v
  PROVE  /\ About(Update(o, v), o) /\ Shows(Update(o, v)) = v
         /\ About(Removal(o), o) /\ Shows(Removal(o)) = Invalid
BY DEF About, Shows, Update, Removal

LEMMA SetCurrent ==
  ASSUME Links, CurrentInv, NEW c \in Components, c \in up, NEW v \in Nat, AddPair(c, c, v),
         Tells(c, ListOf(c, c), Update(c, v)), Told(c, ListOf(c, c)),
         UNCHANGED <<up, sessions, forwarded>>
  PROVE  CurrentInv'
<1>1. NetTypeOK /\ (pairs[c][c] = Absent => subscribers[c][c] = {})
  BY DEF Links, AbsentBare
<1>2. /\ Elsewhere(c) /\ pairs'[c][c] = v /\ subscribers'[c][c] = ListOf(c, c)
      /\ \A e \in Components \ {c} : pairs'[c][e] = pairs[c][e]
  BY <1>1, Added
<1>3. SameLists(c)
  BY <1>1, AddedSame
<1>4. subscribers[c][c] \subseteq ListOf(c, c)
  BY <1>1 DEF ListOf
<1>5. Seen(c, c)' = v
  BY <1>2 DEF Seen, Absent, Invalid
<1> QED
  BY <1>2, <1>3, <1>4, <1>5, UpdateShows, PublishCurrent

LEMMA RemoveCurrent ==
  ASSUME Links, CurrentInv, NEW c \in Components, c \in up, RemovePair(c, c),
         Tells(c, subscribers[c][c], Removal(c)), Told(c, subscribers[c][c]),
         UNCHANGED <<up, sessions, forwarded>>
  PROVE  CurrentInv'
<1>1. NetTypeOK
  BY DEF Links
<1>2. /\ Elsewhere(c) /\ subscribers' = subscribers
      /\ pairs'[c][c] = IF pairs[c][c] = Absent \/ subscribers[c][c] = {} THEN Absent ELSE Invalid
      /\ \A e \in Components \ {c} : pairs'[c][e] = pairs[c][e]
  BY <1>1, Removed
<1>3. SameLists(c)
  BY <1>1, RemovedSame
<1>4. Seen(c, c)' = Invalid
  BY <1>2 DEF Seen
<1>5. subscribers[c][c] \subseteq subscribers'[c][c]
  BY <1>2
<1> QED
  BY <1>2, <1>3, <1>4, <1>5, UpdateShows, PublishCurrent

\* c says something that is no news.
LEMMA SilentCurrent ==
  ASSUME Links, CurrentInv, NEW c \in Components, c \in up,
         UNCHANGED <<up, sessions, space, forwarded, lapsed>>,
         NEW to, NEW m, Tells(c, to, m), \A o : ~About(m, o)
  PROVE  CurrentInv'
<1>0. UNCHANGED <<pairs, subscribers, u_subscribers>>
  BY DEF space
<1>1. OwnStep(c, to, m)
  BY <1>0 DEF OwnStep, Elsewhere
<1>2. ASSUME NEW x \in Components \ {c} PROVE Learns(x, c, to, m)
  BY <1>0 DEF Learns, Seen
<1>3. Current' /\ Straight' /\ Away'
  BY <1>1, <1>2, OwnStepCurrent, OwnStepStraight, OwnStepAway DEF CurrentInv
<1>4. WildMissed'
  BY <1>0 DEF CurrentInv, WildMissed, ListOf
<1> QED
  BY <1>3, <1>4 DEF CurrentInv

LEMMA CallsCurrent ==
  ASSUME Links, CurrentInv, NEW c \in Components, Call(c)
  PROVE  CurrentInv'
<1>0. NetTypeOK /\ ops + 1 \in Nat
  BY DEF Links, NetTypeOK
<1>1. ASSUME SetPair(c) PROVE CurrentInv'
  <2>1. /\ c \in up /\ AddPair(c, c, ops + 1) /\ Told(c, ListOf(c, c))
        /\ wire' = Sent(c, ListOf(c, c), Update(c, ops + 1))
        /\ UNCHANGED <<up, sessions, forwarded>>
    BY <1>1 DEF SetPair
  <2>2. Tells(c, ListOf(c, c), Update(c, ops + 1))
    BY <1>0, <2>1, FramesMade, SentTells
  <2> QED
    BY <1>0, <2>1, <2>2, SetCurrent
<1>2. ASSUME RemoveOwnPair(c) PROVE CurrentInv'
  <2>1. /\ c \in up /\ RemovePair(c, c) /\ Told(c, subscribers[c][c])
        /\ wire' = Sent(c, subscribers[c][c], Removal(c))
        /\ UNCHANGED <<up, sessions, forwarded>>
    BY <1>2 DEF RemoveOwnPair
  <2>2. Tells(c, subscribers[c][c], Removal(c))
    BY <1>0, <2>1, FramesMade, SentTells
  <2> QED
    BY <2>1, <2>2, RemoveCurrent
<1>3. ASSUME NEW to, NEW m \in Frame, m.type \notin {"PairUpdate", "PairRemoved"},
             wire' = Sent(c, to, m), c \in up, UNCHANGED <<up, sessions, space, forwarded, lapsed>>
      PROVE  CurrentInv'
  <2>1. Tells(c, to, m) /\ \A o : ~About(m, o)
    BY <1>0, <1>3, SentTells DEF About
  <2> QED
    BY <1>3, <2>1, SilentCurrent
<1>4. ASSUME NEW d \in Components, SetRemotePair(c, d) PROVE CurrentInv'
  <2> DEFINE m == [type |-> "Pair", val |-> ops + 1]
  <2>1. m \in Frame /\ m.type \notin {"PairUpdate", "PairRemoved"}
    BY <1>0, FramesMade
  <2>2. /\ wire' = Sent(c, {d}, m) /\ c \in up
        /\ UNCHANGED <<up, sessions, space, forwarded, lapsed>>
    BY <1>4 DEF SetRemotePair
  <2> HIDE DEF m
  <2> QED
    BY <1>3, <2>1, <2>2
<1>5. ASSUME NEW d \in Components, RemoveRemotePair(c, d) PROVE CurrentInv'
  <2> DEFINE m == [type |-> "RemovePair", val |-> Invalid]
  <2>1. m \in Frame /\ m.type \notin {"PairUpdate", "PairRemoved"}
    BY FramesMade DEF Invalid
  <2>2. /\ wire' = Sent(c, {d}, m) /\ c \in up
        /\ UNCHANGED <<up, sessions, space, forwarded, lapsed>>
    BY <1>5 DEF RemoveRemotePair
  <2> HIDE DEF m
  <2> QED
    BY <1>3, <2>1, <2>2
<1>6. ASSUME NEW r \in Record, RegisterSubscription(c, r) \/ CancelSubscription(c, r)
      PROVE  CurrentInv'
  <2>1. PICK on \in BOOLEAN : SendSubscription(c, r, on)
    BY <1>6 DEF RegisterSubscription, CancelSubscription
  <2> DEFINE m == [type |-> "Subscription", key |-> r[2], registering |-> on]
  <2>2. m \in Frame /\ m.type \notin {"PairUpdate", "PairRemoved"}
    BY FramesMade DEF Record
  <2>3. wire' = Sent(c, {d \in Components : Covers(r, d)}, m)
    BY <2>1 DEF SendSubscription
  <2>4. c \in up /\ UNCHANGED <<up, sessions, space, forwarded, lapsed>>
    BY <1>6 DEF RegisterSubscription, CancelSubscription
  <2> HIDE DEF m
  <2> QED
    BY <1>3, <2>2, <2>3, <2>4
<1> QED
  BY <1>1, <1>2, <1>4, <1>5, <1>6 DEF Call

\* A subscription is answered.
LEMMA SubscribeCurrent ==
  ASSUME Links, CurrentInv, NEW src \in Components, NEW c \in Components,
         wire[src][c] # <<>>, Head(wire[src][c]).type = "Subscription", Introduce(src, c),
         UNCHANGED <<up, sessions, forwarded>>, Elsewhere(c),
         \A e \in Components \ {c} : pairs'[c][e] = pairs[c][e], Seen(c, c)' = Seen(c, c),
         subscribers[c][c] \subseteq subscribers'[c][c],
         \A x \in Components \ {src} :
           x \notin subscribers[c][c] /\ x \in subscribers'[c][c] => Seen(c, c) = Invalid,
         pairs[c][c] > Invalid /\ src \notin subscribers'[c][c] => <<src, c>> \in lapsed,
         \A x \in Components : x \in u_subscribers'[c] /\ x \notin ListOf(c, c)' =>
           x \in u_subscribers[c] /\ x \notin ListOf(c, c)
  PROVE  CurrentInv'
<1> DEFINE told == IF pairs[c][c] > Invalid THEN {src} ELSE {}
           m == Update(c, pairs[c][c])
<1>0. NetTypeOK /\ src # c /\ c \in up /\ pairs[c][c] \in Nat \cup {Absent}
  <2>1. src # c /\ c \in up
    BY ReadersUp
  <2>2. NetTypeOK
    BY DEF Links
  <2>3. pairs \in [Components -> [Components -> Nat \cup {Absent}]]
    BY <2>2 DEF NetTypeOK
  <2> HIDE DEF told, m
  <2> QED
    BY <2>1, <2>2, <2>3
<1>1. wire' = Answered(src, c, told, m) /\ Told(c, told \cap subscribers'[c][c])
  BY DEF Introduce
<1>2. /\ told = {src} => pairs[c][c] \in Nat /\ Seen(c, c) = pairs[c][c]
      /\ told = {} \/ told = {src}
      /\ told = {} => Seen(c, c) = Invalid
      /\ src \in told => pairs[c][c] > Invalid
  BY <1>0 DEF Absent, Invalid, Seen
<1> HIDE DEF told
<1>3. m \in Frame \/ told \cap sessions[c] = {}
  BY <1>2, FramesMade
<1>4. About(m, c) /\ Shows(m) = pairs[c][c] /\ \A o : About(m, o) => o = c
  BY UpdateShows DEF About
<1> HIDE DEF m
<1>5. Tells(c, told, m)
  BY <1>1, <1>3, AnsweredTells
<1>6. \A x, d \in Components : <<x, d>> \in lapsed' <=>
        <<x, d>> \in lapsed /\ ~(d = c /\ x \in told /\ x \in subscribers'[c][c] /\ x \in sessions[c])
  BY <1>1 DEF Told
<1>7. OwnStep(c, told, m)
  BY <1>0, <1>4, <1>5, <1>6 DEF OwnStep
<1>8. ASSUME NEW x \in Components \ {c} PROVE Learns(x, c, told, m)
  <2>1. CASE x # src
    <3>1. x \notin told
      BY <1>2, <2>1
    <3>2. <<x, c>> \in lapsed => <<x, c>> \in lapsed'
      BY <1>6, <3>1
    <3> QED
      BY <2>1, <3>1, <3>2 DEF Learns
  <2>2. CASE x = src /\ told = {src}
    <3>1. CASE src \in subscribers'[c][c]
      BY <1>2, <1>4, <2>2, <3>1 DEF Learns
    <3>2. CASE src \notin subscribers'[c][c]
      BY <1>2, <1>6, <2>2, <3>2 DEF Learns
    <3> QED
      BY <3>1, <3>2
  <2>3. CASE x = src /\ told = {}
    <3>1. <<x, c>> \in lapsed => <<x, c>> \in lapsed'
      BY <1>6, <2>3
    <3> QED
      BY <1>2, <2>3, <3>1 DEF Learns
  <2> QED
    BY <1>2, <2>1, <2>2, <2>3
<1>9. Current' /\ Straight' /\ Away'
  BY <1>7, <1>8, OwnStepCurrent, OwnStepStraight, OwnStepAway DEF CurrentInv
<1>10. WildMissed'
  <2>1. ASSUME NEW x \in Components, x \in u_subscribers'[c], x \notin ListOf(c, c)'
        PROVE  /\ x \in u_subscribers[c] /\ x \notin ListOf(c, c)
               /\ <<x, c>> \in lapsed => <<x, c>> \in lapsed'
    <3>1. x \notin subscribers'[c][c]
      BY <2>1 DEF ListOf
    <3> QED
      BY <1>6, <2>1, <3>1
  <2> QED
    BY <1>6, <2>1, WildMissedKept DEF CurrentInv
<1> QED
  BY <1>9, <1>10 DEF CurrentInv

\* A subscription is taken back.
LEMMA UnsubscribeCurrent ==
  ASSUME Links, CurrentInv, NEW src \in Components, NEW c \in Components,
         wire[src][c] # <<>>, Head(wire[src][c]).type = "Subscription",
         wire' = Answered(src, c, {}, <<>>), lapsed' = lapsed \cup {<<src, c>>},
         UNCHANGED <<up, sessions, forwarded, pairs>>, Elsewhere(c),
         subscribers'[c][c] = subscribers[c][c] \ {src},
         \A x \in Components \ {src} : x \in u_subscribers'[c] /\ x \notin ListOf(c, c)' =>
           x \in u_subscribers[c] /\ x \notin ListOf(c, c)
  PROVE  CurrentInv'
<1> DEFINE m == Update(c, Invalid)
<1>0. NetTypeOK /\ src # c /\ c \in up
  BY ReadersUp DEF Links
<1>1. \A o : About(m, o) => o = c
  BY DEF About, Update
<1>2. Tells(c, {}, <<>>)
  BY AnsweredTells
<1>3. Tells(c, {}, m)
  BY <1>2 DEF Tells
<1> HIDE DEF m
<1>4. OwnStep(c, {}, m)
  BY <1>0, <1>1, <1>3 DEF OwnStep
<1>5. ASSUME NEW x \in Components \ {c} PROVE Learns(x, c, {}, m)
  <2>1. Seen(c, c)' = Seen(c, c)
    BY DEF Seen
  <2> QED
    BY <2>1 DEF Learns
<1>6. Current' /\ Straight' /\ Away'
  BY <1>4, <1>5, OwnStepCurrent, OwnStepStraight, OwnStepAway DEF CurrentInv
<1>7. WildMissed'
  BY WildMissedKept DEF CurrentInv
<1> QED
  BY <1>6, <1>7 DEF CurrentInv

\* A frame about o's pair is read, and sent on or not.
LEMMA NewsCurrent ==
  ASSUME Links, CurrentInv, NEW src \in Components, NEW c \in Components, wire[src][c] # <<>>,
         NEW o \in Components, About(wire[src][c][1], o), Seen(c, o)' = Shows(wire[src][c][1]),
         UNCHANGED <<up, sessions, lapsed>>, forwarded \subseteq forwarded',
         Elsewhere(c), SameLists(c),
         \A e \in Components \ {o} :
           pairs'[c][e] = pairs[c][e] /\ subscribers'[c][e] = subscribers[c][e],
         Shifted(wire[src][c], wire'[src][c]),
         \A x, y \in Components : x # src \/ y # c =>
           \/ wire'[x][y] = wire[x][y]
           \/ x = c /\ o \in forwarded' /\ Extended(wire[x][y], wire'[x][y], wire[src][c][1])
  PROVE  CurrentInv'
<1> DEFINE f == wire[src][c][1]
<1>0. src # c /\ c \in up
  BY ReadersUp
<1>1. \A e : e # o => ~About(f, e)
  BY DEF About
<1>2. o \notin forwarded' => src = o
  <2>1. StraightAt(src, c)
    BY <1>0 DEF CurrentInv, Straight
  <2>2. 1 \in 1..Len(wire[src][c])
    BY DEF Shifted
  <2> QED
    BY <2>1, <2>2 DEF StraightAt
<1>3. Current'
  <2> SUFFICES ASSUME NEW x \in Components, NEW d \in Components PROVE CurrentAt(x, d)'
    BY DEF Current
  <2>1. CurrentAt(x, d)
    BY DEF CurrentInv, Current
  <2>2. CASE d \in forwarded' \/ x = d
    BY <2>2 DEF CurrentAt
  <2>3. CASE d \notin forwarded' /\ x # d /\ d = o /\ x = c
    <3>0. src = o /\ o # c
      BY <1>0, <1>2, <2>3
    <3>1. subscribers'[o][o] = subscribers[o][o] /\ Seen(o, o)' = Seen(o, o)
      BY <3>0 DEF Elsewhere, Seen
    <3> SUFFICES ASSUME c \in up, o \in up, <<c, o>> \notin lapsed PROVE HasIt(c, o)'
      BY <2>3 DEF CurrentAt
    <3>2. HasIt(c, o) /\ c \in sessions'[o]
      BY <2>1, <2>3 DEF CurrentAt, HasIt
    <3>3. CASE c \in subscribers[o][o]
      <4>1. Carries(wire[o][c], o, Seen(c, o), Seen(o, o))
        BY <3>2, <3>3 DEF HasIt
      <4>2. Shifted(wire[o][c], wire'[o][c]) /\ About(wire[o][c][1], o)
            /\ Seen(c, o)' = Shows(wire[o][c][1])
        BY <3>0
      <4>3. Carries(wire'[o][c], o, Seen(c, o)', Seen(o, o))
        BY <4>1, <4>2, ReadCarries
      <4> QED
        BY <3>1, <3>2, <3>3, <4>3 DEF HasIt
    <3>4. CASE c \notin subscribers[o][o]
      <4>1. \A i \in 1..Len(wire[o][c]) : ~About(wire[o][c][i], o)
        BY <3>2, <3>4 DEF HasIt, Untold
      <4>2. 1 \in 1..Len(wire[o][c]) /\ About(wire[o][c][1], o)
        BY <3>0 DEF Shifted
      <4> QED
        BY <4>1, <4>2
    <3> QED
      BY <3>3, <3>4
  <2>4. CASE d \notin forwarded' /\ x # d /\ ~(d = o /\ x = c)
    <3>1. Seen(x, d)' = Seen(x, d)
      BY <2>4 DEF Elsewhere, Seen
    <3>2. d = c => d # o
      BY <1>0, <1>2, <2>4
    <3>3. subscribers'[d][d] = subscribers[d][d] /\ Seen(d, d)' = Seen(d, d)
      BY <3>2 DEF Elsewhere, Seen
    <3>4. Steady(wire[d][x], wire'[d][x], d)
      <4>1. CASE d = src /\ x = c
        <5>1. d # o
          BY <2>4, <4>1
        <5> QED
          BY <1>1, <4>1, <5>1 DEF Steady
      <4>2. CASE d # src \/ x # c
        <5>1. \/ wire'[d][x] = wire[d][x]
              \/ d = c /\ Extended(wire[d][x], wire'[d][x], f)
          BY <4>2
        <5> QED
          BY <1>1, <3>2, <5>1 DEF Steady
      <4> QED
        BY <4>1, <4>2
    <3> QED
      BY <2>1, <3>1, <3>3, <3>4, CurrentFrame
  <2> QED
    BY <2>2, <2>3, <2>4
<1>4. Straight'
  <2> SUFFICES ASSUME NEW x \in Components, NEW y \in Components \ {x} PROVE StraightAt(x, y)'
    BY DEF Straight
  <2>1. StraightAt(x, y)
    BY DEF CurrentInv, Straight
  <2>2. \/ wire'[x][y] = wire[x][y]
        \/ Shifted(wire[x][y], wire'[x][y])
        \/ o \in forwarded' /\ Extended(wire[x][y], wire'[x][y], f)
    OBVIOUS
  <2>3. o \in forwarded' => \A e \in Components \ forwarded' : ~About(f, e)
    BY <1>1
  <2> QED
    BY <2>1, <2>2, <2>3, StraightFrame
<1>5. Away'
  BY DEF CurrentInv, Away
<1>6. WildMissed'
  <2>1. ASSUME NEW x \in Components, x \in u_subscribers'[c], x \notin ListOf(c, c)'
        PROVE  x \in u_subscribers[c] /\ x \notin ListOf(c, c)
    BY <2>1 DEF SameLists
  <2> QED
    BY <2>1, WildMissedKept DEF CurrentInv
<1> QED
  BY <1>3, <1>4, <1>5, <1>6 DEF CurrentInv

LEMMA HandlersCurrent ==
  ASSUME Links, CurrentInv, NEW src \in Components, NEW c \in Components, Handle(src, c)
  PROVE  CurrentInv'
<1> DEFINE f == Head(wire[src][c])
<1>0. NetTypeOK /\ f \in Frame /\ wire[src][c] # <<>>
      /\ (pairs[c][c] = Absent => subscribers[c][c] = {})
  BY HandlersAnswer DEF Links, AbsentBare
<1>1. src # c /\ c \in up
  BY <1>0, ReadersUp
<1>2. f = wire[src][c][1] /\ Shifted(wire[src][c], Tail(wire[src][c]))
  BY <1>0, HeadFacts
<1> HIDE DEF f
<1>3. ASSUME HandleIncomingPair(src, c) PROVE CurrentInv'
  <2>1. /\ f.val \in Nat /\ AddPair(c, c, f.val) /\ f.type = "Pair"
        /\ wire' = Answered(src, c, ListOf(c, c), Update(c, f.val))
        /\ Told(c, ListOf(c, c)) /\ UNCHANGED <<up, sessions, forwarded>>
    BY <1>0, <1>3, FrameFacts DEF HandleIncomingPair, Reads, f
  <2>2. Tells(c, ListOf(c, c), Update(c, f.val))
    BY <1>0, <2>1, FramesMade, AnsweredTells DEF f
  <2> QED
    BY <1>1, <2>1, <2>2, SetCurrent
<1>4. ASSUME HandleRemovePair(src, c) PROVE CurrentInv'
  <2>1. /\ RemovePair(c, c) /\ f.type = "RemovePair"
        /\ wire' = Answered(src, c, subscribers[c][c], Removal(c))
        /\ Told(c, subscribers[c][c]) /\ UNCHANGED <<up, sessions, forwarded>>
    BY <1>4 DEF HandleRemovePair, Reads, f
  <2>2. Tells(c, subscribers[c][c], Removal(c))
    BY <1>0, <2>1, FramesMade, AnsweredTells DEF f
  <2> QED
    BY <1>1, <2>1, <2>2, RemoveCurrent
<1>5. ASSUME HandlePairUpdate(src, c) PROVE CurrentInv'
  <2>1. /\ f.val \in Nat /\ f.owner \in Components /\ f.type = "PairUpdate"
        /\ AddPair(c, f.owner, f.val)
        /\ wire' = Answered(src, c, ListOf(c, f.owner), f)
        /\ forwarded' = IF ListOf(c, f.owner) \cap sessions[c] = {}
                        THEN forwarded ELSE forwarded \cup {f.owner}
        /\ UNCHANGED <<up, sessions, lapsed>>
    BY <1>0, <1>5, FrameFacts DEF HandlePairUpdate, Reads, f
  <2>0. PICK o \in Components, v \in Nat : o = f.owner /\ v = f.val
    BY <2>1
  <2>2. About(f, o) /\ Shows(f) = v
    BY <2>0, <2>1 DEF About, Shows
  <2>a. /\ AddPair(c, o, v) /\ wire' = Answered(src, c, ListOf(c, o), f)
        /\ forwarded' = IF ListOf(c, o) \cap sessions[c] = {}
                        THEN forwarded ELSE forwarded \cup {o}
    BY <2>0, <2>1
  <2>3. /\ Elsewhere(c) /\ pairs'[c][o] = v
        /\ \A e \in Components \ {o} :
             pairs'[c][e] = pairs[c][e] /\ subscribers'[c][e] = subscribers[c][e]
    BY <1>0, <2>a, Added
  <2>4. SameLists(c) /\ Seen(c, o)' = v
    <3>1. SameLists(c)
      BY <1>0, <2>a, AddedSame
    <3> QED
      BY <2>3, <3>1 DEF Seen, Absent
  <2>5. /\ wire'[src][c] = Tail(wire[src][c])
        /\ \A x, y \in Components : x # src \/ y # c =>
             wire'[x][y] = IF x = c /\ y \in ListOf(c, o) \cap sessions[c]
                           THEN Append(wire[x][y], f) ELSE wire[x][y]
    BY <1>0, <1>1, <2>a, AnsweredWires
  <2>6. ASSUME NEW x \in Components, NEW y \in Components, x # src \/ y # c
        PROVE  \/ wire'[x][y] = wire[x][y]
               \/ x = c /\ o \in forwarded' /\ Extended(wire[x][y], wire'[x][y], f)
    <3>1. wire[x][y] \in Seq(Frame)
      BY <1>0 DEF NetTypeOK
    <3>2. Extended(wire[x][y], Append(wire[x][y], f), f)
      BY <1>0, <3>1, AppendExtends
    <3>3. CASE x = c /\ y \in ListOf(c, o) \cap sessions[c]
      BY <2>a, <2>5, <2>6, <3>2, <3>3
    <3>4. CASE ~(x = c /\ y \in ListOf(c, o) \cap sessions[c])
      BY <2>5, <2>6, <3>4
    <3> QED
      BY <3>3, <3>4
  <2>7. forwarded \subseteq forwarded' /\ UNCHANGED <<up, sessions, lapsed>>
    BY <2>1, <2>a
  <2>8. Shifted(wire[src][c], wire'[src][c])
    BY <1>2, <2>5
  <2>9. About(wire[src][c][1], o) /\ Seen(c, o)' = Shows(wire[src][c][1])
    BY <1>2, <2>2, <2>4
  <2>10. \A x, y \in Components : x # src \/ y # c =>
           \/ wire'[x][y] = wire[x][y]
           \/ x = c /\ o \in forwarded' /\ Extended(wire[x][y], wire'[x][y], wire[src][c][1])
    BY <1>2, <2>6
  <2> QED
    BY <1>0, <2>3, <2>4, <2>7, <2>8, <2>9, <2>10, NewsCurrent
<1>6. ASSUME HandlePairRemoved(src, c) PROVE CurrentInv'
  <2>1. /\ f.owner \in Components /\ f.type = "PairRemoved" /\ RemovePair(c, f.owner)
        /\ wire' = Answered(src, c, {}, <<>>)
        /\ UNCHANGED <<up, sessions, lapsed, forwarded>>
    BY <1>0, <1>6, FrameFacts DEF HandlePairRemoved, Reads, f
  <2>0. PICK o \in Components : o = f.owner
    BY <2>1
  <2>2. About(f, o) /\ Shows(f) = Invalid /\ RemovePair(c, o)
    BY <2>0, <2>1 DEF About, Shows
  <2>3. /\ Elsewhere(c) /\ subscribers' = subscribers
        /\ pairs'[c][o] = IF pairs[c][o] = Absent \/ subscribers[c][o] = {} THEN Absent ELSE Invalid
        /\ \A e \in Components \ {o} : pairs'[c][e] = pairs[c][e]
    BY <1>0, <2>2, Removed
  <2>4. SameLists(c) /\ Seen(c, o)' = Invalid
    <3>1. SameLists(c)
      BY <1>0, <2>2, RemovedSame
    <3> QED
      BY <2>3, <3>1 DEF Seen
  <2>5. /\ wire'[src][c] = Tail(wire[src][c])
        /\ \A x, y \in Components : x # src \/ y # c => wire'[x][y] = wire[x][y]
    <3>1. {} \cap sessions[c] = {}
      OBVIOUS
    <3>2. /\ Answered(src, c, {}, <<>>)[src][c] = Tail(wire[src][c])
          /\ \A x, y \in Components : x # src \/ y # c =>
               Answered(src, c, {}, <<>>)[x][y] = IF x = c /\ y \in {} \cap sessions[c]
                                                 THEN Append(wire[x][y], <<>>) ELSE wire[x][y]
      BY <1>0, <1>1, <3>1, AnsweredWires
    <3> QED
      BY <2>1, <3>1, <3>2
  <2>6. forwarded \subseteq forwarded' /\ UNCHANGED <<up, sessions, lapsed>>
    BY <2>1
  <2>7. Shifted(wire[src][c], wire'[src][c])
    BY <1>2, <2>5
  <2>8. About(wire[src][c][1], o) /\ Seen(c, o)' = Shows(wire[src][c][1])
    BY <1>2, <2>2, <2>4
  <2>9. \A e \in Components \ {o} :
          pairs'[c][e] = pairs[c][e] /\ subscribers'[c][e] = subscribers[c][e]
    BY <2>3
  <2> QED
    BY <1>0, <2>3, <2>4, <2>5, <2>6, <2>7, <2>8, <2>9, NewsCurrent
<1>7. ASSUME HandleSubscribe(src, c) PROVE CurrentInv'
  <2>1. /\ Elsewhere(c) /\ u_subscribers' = u_subscribers
        /\ pairs'[c][c] = Seen(c, c) /\ subscribers'[c][c] = ListOf(c, c) \cup {src}
        /\ \A e \in Components \ {c} : pairs'[c][e] = pairs[c][e]
    BY <1>0, <1>7, Listed
  <2>2. /\ f.type = "Subscription" /\ Introduce(src, c) /\ UNCHANGED <<up, sessions, forwarded>>
    BY <1>7 DEF HandleSubscribe, Asked, Reads, f
  <2>3. Seen(c, c) # Absent /\ Seen(c, c)' = Seen(c, c)
    BY <2>1 DEF Seen, Absent, Invalid
  <2>4. ListOf(c, c)' = ListOf(c, c) \cup {src} /\ subscribers[c][c] \subseteq ListOf(c, c)
    BY <1>0, <2>1, <2>3 DEF ListOf
  <2>5. \A x \in Components \ {src} :
          x \notin subscribers[c][c] /\ x \in subscribers'[c][c] => Seen(c, c) = Invalid
    BY <2>1 DEF ListOf, Seen
  <2> QED
    BY <1>0, <2>1, <2>2, <2>3, <2>4, <2>5, SubscribeCurrent DEF f
<1>8. ASSUME HandleSubscribeToAll(src, c) PROVE CurrentInv'
  <2>1. /\ Elsewhere(c) /\ pairs' = pairs /\ u_subscribers'[c] = u_subscribers[c] \cup {src}
        /\ subscribers'[c][c] = IF pairs[c][c] = Absent \/ src \in u_subscribers[c]
                                THEN subscribers[c][c] ELSE subscribers[c][c] \cup {src}
    BY <1>0, <1>8, ListedEverywhere
  <2>2. /\ f.type = "Subscription" /\ Introduce(src, c) /\ UNCHANGED <<up, sessions, forwarded>>
    BY <1>8 DEF HandleSubscribeToAll, Asked, Reads, f
  <2>3. Seen(c, c)' = Seen(c, c) /\ subscribers[c][c] \subseteq subscribers'[c][c]
    BY <2>1 DEF Seen
  <2>4. \A x \in Components \ {src} : x \in subscribers'[c][c] => x \in subscribers[c][c]
    BY <2>1
  <2>5. pairs[c][c] > Invalid /\ src \notin subscribers'[c][c] => <<src, c>> \in lapsed
    <3> SUFFICES ASSUME pairs[c][c] > Invalid, src \notin subscribers'[c][c]
                 PROVE  <<src, c>> \in lapsed
      OBVIOUS
    <3>1. pairs[c][c] # Absent
      BY DEF Absent, Invalid
    <3>2. src \in u_subscribers[c] /\ src \notin subscribers[c][c]
      BY <2>1, <3>1
    <3> QED
      BY <3>1, <3>2 DEF CurrentInv, WildMissed, ListOf
  <2>6. ASSUME NEW x \in Components, x \in u_subscribers'[c], x \notin ListOf(c, c)'
        PROVE  x \in u_subscribers[c] /\ x \notin ListOf(c, c)
    BY <2>1, <2>6 DEF ListOf
  <2>7. \A e \in Components \ {c} : pairs'[c][e] = pairs[c][e]
    BY <2>1
  <2> QED
    BY <1>0, <2>1, <2>2, <2>3, <2>4, <2>5, <2>6, <2>7, SubscribeCurrent DEF f
<1>9. ASSUME HandleUnsubscribe(src, c) PROVE CurrentInv'
  <2>1. /\ Elsewhere(c) /\ pairs' = pairs /\ u_subscribers' = u_subscribers
        /\ subscribers'[c][c] = subscribers[c][c] \ {src}
    BY <1>0, <1>9, Unlisted
  <2>2. /\ f.type = "Subscription" /\ UNCHANGED <<up, sessions, forwarded>>
        /\ wire' = Answered(src, c, {}, <<>>) /\ lapsed' = lapsed \cup {<<src, c>>}
    BY <1>9 DEF HandleUnsubscribe, Asked, Reads, f
  <2>3. ASSUME NEW x \in Components \ {src}, x \in u_subscribers'[c], x \notin ListOf(c, c)'
        PROVE  x \in u_subscribers[c] /\ x \notin ListOf(c, c)
    BY <2>1, <2>3 DEF ListOf
  <2> QED
    BY <1>0, <2>1, <2>2, <2>3, UnsubscribeCurrent DEF f
<1>10. ASSUME HandleUnsubscribeFromAll(src, c) PROVE CurrentInv'
  <2>1. /\ Elsewhere(c) /\ pairs' = pairs /\ u_subscribers'[c] = u_subscribers[c] \ {src}
        /\ subscribers'[c][c] = subscribers[c][c] \ {src}
    BY <1>0, <1>10, UnlistedEverywhere
  <2>2. /\ f.type = "Subscription" /\ UNCHANGED <<up, sessions, forwarded>>
        /\ wire' = Answered(src, c, {}, <<>>) /\ lapsed' = lapsed \cup {<<src, c>>}
    BY <1>10 DEF HandleUnsubscribeFromAll, Asked, Reads, f
  <2>3. ASSUME NEW x \in Components \ {src}, x \in u_subscribers'[c], x \notin ListOf(c, c)'
        PROVE  x \in u_subscribers[c] /\ x \notin ListOf(c, c)
    BY <2>1, <2>3 DEF ListOf
  <2> QED
    BY <1>0, <2>1, <2>2, <2>3, UnsubscribeCurrent DEF f
<1> QED
  BY <1>3, <1>4, <1>5, <1>6, <1>7, <1>8, <1>9, <1>10 DEF Handle

\* A departure, an arrival and the news of one.
LEMMA LeaveCurrent ==
  ASSUME Links, CurrentInv, NEW c \in Components, Leave(c)
  PROVE  CurrentInv'
<1>0. NetTypeOK
  BY DEF Links
<1>1. /\ c \in up /\ up' = up \ {c} /\ UNCHANGED forwarded
      /\ \A d \in Components : sessions'[d] = IF d = c THEN {} ELSE sessions[d] \ {c}
      /\ \A x, y \in Components : wire'[x][y] = IF c \in {x, y} THEN <<>> ELSE wire[x][y]
      /\ Elsewhere(c) /\ u_subscribers'[c] = {}
      /\ lapsed' = lapsed \cup ({c} \X Components) \cup (Components \X {c})
  BY <1>0, LeaveFacts
<1>2. \A x, d \in Components : <<x, d>> \in lapsed' <=> <<x, d>> \in lapsed \/ x = c \/ d = c
  BY <1>1
<1>3. Current'
  <2> SUFFICES ASSUME NEW x \in Components, NEW d \in Components PROVE CurrentAt(x, d)'
    BY DEF Current
  <2>1. CASE x = c \/ d = c
    BY <1>2, <2>1 DEF CurrentAt
  <2>2. CASE x # c /\ d # c
    <3>1. pairs'[x] = pairs[x] /\ pairs'[d] = pairs[d] /\ subscribers'[d] = subscribers[d]
      BY <1>1, <2>2 DEF Elsewhere
    <3>2. wire'[d][x] = IF c \in {d, x} THEN <<>> ELSE wire[d][x]
      BY <1>1
    <3>3. sessions'[d] = IF d = c THEN {} ELSE sessions[d] \ {c}
      BY <1>1
    <3>4. Steady(wire[d][x], wire'[d][x], d) /\ (x \in sessions[d] => x \in sessions'[d])
      BY <2>2, <3>2, <3>3 DEF Steady
    <3>5. Seen(x, d)' = Seen(x, d) /\ Seen(d, d)' = Seen(d, d)
      BY <3>1 DEF Seen
    <3>6. CurrentAt(x, d)
      BY DEF CurrentInv, Current
    <3> QED
      BY <1>1, <1>2, <3>1, <3>4, <3>5, <3>6, CurrentFrame
  <2> QED
    BY <2>1, <2>2
<1>4. Straight'
  <2> SUFFICES ASSUME NEW x \in Components, NEW y \in Components \ {x} PROVE StraightAt(x, y)'
    BY DEF Straight
  <2>1. StraightAt(x, y)
    BY DEF CurrentInv, Straight
  <2>2. wire'[x][y] = wire[x][y] \/ Len(wire'[x][y]) = 0
    <3>1. wire'[x][y] = IF c \in {x, y} THEN <<>> ELSE wire[x][y]
      BY <1>1
    <3> QED
      BY <3>1
  <2> QED
    BY <1>1, <2>1, <2>2, StraightFrame
<1>5. Away'
  BY <1>1, <1>2 DEF CurrentInv, Away
<1>6. WildMissed'
  BY <1>1, <1>2, WildMissedKept DEF CurrentInv
<1> QED
  BY <1>3, <1>4, <1>5, <1>6 DEF CurrentInv

LEMMA JoinCurrent ==
  ASSUME Links, CurrentInv, NEW c \in Components, Join(c)
  PROVE  CurrentInv'
<1>1. /\ c \notin up /\ up' = up \cup {c} /\ sessions' = [sessions EXCEPT ![c] = up]
      /\ UNCHANGED <<pairs, subscribers, u_subscribers, wire, forwarded, lapsed>>
  BY DEF Join, space
<1>2. Current'
  <2> SUFFICES ASSUME NEW x \in Components, NEW d \in Components PROVE CurrentAt(x, d)'
    BY DEF Current
  <2>1. CASE x = c \/ d = c
    BY <1>1, <2>1 DEF CurrentAt, CurrentInv, Away
  <2>2. CASE x # c /\ d # c
    <3>1. sessions'[d] = sessions[d]
      BY <1>1, <2>2 DEF Links, NetTypeOK
    <3>2. Steady(wire[d][x], wire'[d][x], d) /\ Seen(x, d)' = Seen(x, d) /\ Seen(d, d)' = Seen(d, d)
      BY <1>1 DEF Steady, Seen
    <3>3. CurrentAt(x, d)
      BY DEF CurrentInv, Current
    <3> QED
      BY <1>1, <2>2, <3>1, <3>2, <3>3, CurrentFrame
  <2> QED
    BY <2>1, <2>2
<1>3. Straight' /\ Away' /\ WildMissed'
  BY <1>1 DEF CurrentInv, Straight, StraightAt, Away, WildMissed, ListOf
<1> QED
  BY <1>2, <1>3 DEF CurrentInv

LEMMA AskingSaysNothing ==
  ASSUME NEW keys, NEW q, AsksFor(q, keys)
  PROVE  \A i \in 1..Len(q) : \A o : ~About(q[i], o)
<1>1. \A o : ~About(On(Key), o) /\ ~About(On(kWildcardKey), o)
  BY DEF About, On
<1> QED
  BY <1>1 DEF AsksFor

LEMMA AnnounceCurrent ==
  ASSUME Links, CurrentInv, NEW d \in Components, NEW c \in Components, Announce(d, c)
  PROVE  CurrentInv'
<1>0. NetTypeOK
  BY DEF Links
<1>1. /\ d \in up /\ c \in up /\ c \notin sessions[d] /\ c # d
      /\ sessions'[d] = sessions[d] \cup {c}
      /\ \A x \in Components \ {d} : sessions'[x] = sessions[x]
      /\ AsksFor(wire'[d][c], Wants(records[d], c))
      /\ \A x, y \in Components : x # d \/ y # c => wire'[x][y] = wire[x][y]
      /\ UNCHANGED <<pairs, subscribers, u_subscribers>>
      /\ UNCHANGED <<up, forwarded, lapsed>>
  BY <1>0, AnnounceFacts
<1>2. Current'
  <2> SUFFICES ASSUME NEW x \in Components, NEW y \in Components PROVE CurrentAt(x, y)'
    BY DEF Current
  <2>0. CurrentAt(x, y)
    BY DEF CurrentInv, Current
  <2>1. CASE x = c /\ y = d
    BY <1>1, <2>0, <2>1 DEF CurrentAt, HasIt
  <2>2. CASE x # c \/ y # d
    <3>1. Steady(wire[y][x], wire'[y][x], y) /\ Seen(x, y)' = Seen(x, y) /\ Seen(y, y)' = Seen(y, y)
      BY <1>1, <2>2 DEF Steady, Seen
    <3>2. x \in sessions[y] => x \in sessions'[y]
      BY <1>1
    <3> QED
      BY <1>1, <2>0, <3>1, <3>2, CurrentFrame
  <2> QED
    BY <2>1, <2>2
<1>3. Straight'
  <2> SUFFICES ASSUME NEW x \in Components, NEW y \in Components \ {x} PROVE StraightAt(x, y)'
    BY DEF Straight
  <2>1. StraightAt(x, y)
    BY DEF CurrentInv, Straight
  <2>2. CASE x = d /\ y = c
    BY <1>1, <2>2, AskingSaysNothing DEF StraightAt
  <2>3. CASE x # d \/ y # c
    BY <1>1, <2>1, <2>3, StraightFrame
  <2> QED
    BY <2>2, <2>3
<1>4. Away' /\ WildMissed'
  BY <1>1 DEF CurrentInv, Away, WildMissed, ListOf
<1> QED
  BY <1>2, <1>3, <1>4 DEF CurrentInv

LEMMA InitCurrent ==
  ASSUME NEW held \in [Components -> SUBSET Record], NetInit(held)
  PROVE  CurrentInv
<1>1. /\ up = Components
      /\ \A c \in Components : sessions[c] = Components \ {c} /\ u_subscribers[c] = {}
      /\ \A c, o \in Components : subscribers[c][o] = {} /\ pairs[c][o] = Absent
      /\ \A c, d \in Components : c # d => AsksFor(wire[c][d], Wants(held[c], d))
  BY InitFacts
<1>2. ASSUME NEW c \in Components, NEW d \in Components, c # d
      PROVE  \A i \in 1..Len(wire[c][d]) : \A o : ~About(wire[c][d][i], o)
  BY <1>1, <1>2, AskingSaysNothing
<1>3. Current
  <2> SUFFICES ASSUME NEW x \in Components, NEW d \in Components, x # d PROVE HasIt(x, d)
    BY DEF Current, CurrentAt
  <2>1. sessions[d] = Components \ {d} /\ subscribers[d][d] = {} /\ pairs[x][d] = Absent
    BY <1>1
  <2>2. \A i \in 1..Len(wire[d][x]) : ~About(wire[d][x][i], d)
    BY <1>2
  <2>3. Untold(wire[d][x], d, Seen(x, d))
    BY <2>1, <2>2 DEF Untold, Seen
  <2> QED
    BY <2>1, <2>3 DEF HasIt
<1>4. Straight
  BY <1>2 DEF Straight, StraightAt
<1>5. Away /\ WildMissed
  BY <1>1 DEF Away, WildMissed
<1> QED
  BY <1>3, <1>4, <1>5 DEF CurrentInv

LEMMA CurrentStep ==
  ASSUME Links, CurrentInv, [NetStep]_net
  PROVE  CurrentInv'
<1>1. CASE UNCHANGED net
  <2>1. UNCHANGED <<up, sessions, pairs, subscribers, u_subscribers, wire, forwarded, lapsed>>
    BY <1>1 DEF net, space
  <2>2. Current'
    BY <2>1 DEF CurrentInv, Current, CurrentAt, HasIt, Seen
  <2>3. Straight' /\ Away' /\ WildMissed'
    BY <2>1 DEF CurrentInv, Straight, StraightAt, Away, WildMissed, ListOf
  <2> QED
    BY <2>2, <2>3 DEF CurrentInv
<1>2. CASE NetStep
  BY <1>2, CallsCurrent, LeaveCurrent, JoinCurrent, HandlersCurrent, AnnounceCurrent DEF NetStep
<1> QED
  BY <1>1, <1>2

LEMMA CurrentInvSees == Links /\ CurrentInv => CurrentUnlessForwarded
<1> SUFFICES ASSUME Links, CurrentInv, NEW c \in up, NEW d \in up, c # d,
                    c \in subscribers[d][d], ~OnItsWay(c, d),
                    d \notin forwarded, <<c, d>> \notin lapsed
             PROVE  Seen(c, d) = Seen(d, d)
  BY DEF CurrentUnlessForwarded
<1>1. c \in Components /\ d \in Components
  BY DEF Links, NetTypeOK
<1>2. Carries(wire[d][c], d, Seen(c, d), Seen(d, d))
  BY <1>1 DEF CurrentInv, Current, CurrentAt, HasIt
<1>3. \A i \in 1..Len(wire[d][c]) : ~About(wire[d][c][i], d)
  BY <1>1 DEF OnItsWay, About
<1> QED
  BY <1>2, <1>3 DEF Carries

\* A subscriber to whom nothing is on its way sees what the owner of the pair sees
\* (applyAndNotify, handlePairUpdate, handleSubscription), in the window's network.
THEOREM WindowCurrent == Spec => []CurrentUnlessForwarded
<1> DEFINE I == ViewInv /\ CurrentInv
<1>1. Init => I
  <2> SUFFICES ASSUME Init PROVE CurrentInv
    BY InitView
  <2> DEFINE held == [c \in Components |-> IF c = gui THEN {Everything} ELSE {}]
  <2>1. NetInit(held)
    BY DEF Init
  <2>2. held \in [Components -> SUBSET Record]
    BY DEF Everything, Record
  <2> HIDE DEF held
  <2> QED
    BY <2>1, <2>2, InitCurrent
<1>2. I /\ [Next]_vars => I'
  <2> SUFFICES ASSUME ViewInv, CurrentInv, [Next]_vars PROVE ViewInv' /\ CurrentInv'
    OBVIOUS
  <2>1. TypeOK /\ Links
    BY DEF ViewInv
  <2> QED
    BY <2>1, ViewStep, WindowSteps, CurrentStep
<1>3. I => CurrentUnlessForwarded
  BY CurrentInvSees DEF ViewInv
<1> QED
  BY <1>1, <1>2, <1>3, PTL DEF Spec

\* The same of a network without a window, from no subscriptions (applyAndNotify,
\* handlePairUpdate, handleSubscription).
THEOREM NetworkCurrent == NetSpec => []CurrentUnlessForwarded
<1> DEFINE none == [c \in Components |-> {}]
<1>1. NetInit(none) => Links /\ CurrentInv
  <2>1. none \in [Components -> SUBSET Record]
    OBVIOUS
  <2> QED
    BY <2>1, InitLinks, InitCurrent
<1>2. Links /\ CurrentInv /\ [NetNext]_net => (Links /\ CurrentInv)'
  BY NetNextSteps, LinksStep, CurrentStep
<1> QED
  BY <1>1, <1>2, CurrentInvSees, PTL DEF NetSpec

-----------------------------------------------------------------------------
(* Nobody hears of its own pair                                            *)

\* Frames and lists run along an order R: subscriptions to those before, what is
\* published to those after.
Transitive(R) ==
  \A x, y, z \in Components : <<x, y>> \in R /\ <<y, z>> \in R => <<x, z>> \in R
Irreflexive(R) == \A x \in Components : <<x, x>> \notin R
Ordered(R) ==
  \A c \in Components : \A d \in Components \ {c} : Covered(c, d) => <<c, d>> \in R
FrameRuns(R, x, y, f) ==
  /\ f.type = "Subscription" => <<x, y>> \in R
  /\ \A o \in Components : About(f, o) => <<y, x>> \in R /\ (o = x \/ <<x, o>> \in R)
QueueRuns(R, x, y, q) == \A i \in 1..Len(q) : FrameRuns(R, x, y, q[i])
WiresRun(R) == \A x, y \in Components : QueueRuns(R, x, y, wire[x][y])
ListsRun(R) ==
  \A d \in Components : /\ \A x \in u_subscribers[d] : <<x, d>> \in R
                        /\ \A o \in Components : \A x \in subscribers[d][o] : <<x, d>> \in R

\* The inductive invariant of NoEcho.
EchoInv(R) == WiresRun(R) /\ ListsRun(R)

LEMMA QueueKept ==
  ASSUME NEW R, NEW x, NEW y, NEW q, NEW q2, QueueRuns(R, x, y, q),
         \/ q2 = q \/ Len(q2) = 0 \/ Shifted(q, q2)
         \/ \E f : Extended(q, q2, f) /\ FrameRuns(R, x, y, f)
  PROVE  QueueRuns(R, x, y, q2)
<1> SUFFICES ASSUME NEW i \in 1..Len(q2) PROVE FrameRuns(R, x, y, q2[i])
  BY DEF QueueRuns
<1>1. ASSUME NEW j \in 1..Len(q), q2[i] = q[j] PROVE FrameRuns(R, x, y, q2[i])
  BY <1>1 DEF QueueRuns
<1>2. CASE q2 = q
  BY <1>1, <1>2
<1>3. CASE Len(q2) = 0
  BY <1>3
<1>4. CASE Shifted(q, q2)
  <2>1. i + 1 \in 1..Len(q) /\ q2[i] = q[i + 1]
    BY <1>4 DEF Shifted
  <2> QED
    BY <1>1, <2>1
<1>5. ASSUME NEW f, Extended(q, q2, f), FrameRuns(R, x, y, f) PROVE FrameRuns(R, x, y, q2[i])
  <2>1. (i \in 1..Len(q) /\ q2[i] = q[i]) \/ q2[i] = f
    BY <1>5 DEF Extended
  <2> QED
    BY <1>1, <1>5, <2>1
<1> QED
  BY <1>2, <1>3, <1>4, <1>5

LEMMA ListsKept ==
  ASSUME NEW R, ListsRun(R), NEW c \in Components, Elsewhere(c), NEW X, ListsFrom(c, X),
         \A x \in X : <<x, c>> \in R
  PROVE  ListsRun(R)'
<1> SUFFICES ASSUME NEW d \in Components
             PROVE  /\ \A x \in u_subscribers'[d] : <<x, d>> \in R
                    /\ \A o \in Components : \A x \in subscribers'[d][o] : <<x, d>> \in R
  BY DEF ListsRun
<1>1. /\ \A x \in u_subscribers[d] : <<x, d>> \in R
      /\ \A o \in Components : \A x \in subscribers[d][o] : <<x, d>> \in R
  BY DEF ListsRun
<1>2. CASE d = c
  BY <1>1, <1>2 DEF ListsFrom
<1>3. CASE d # c
  BY <1>1, <1>3 DEF Elsewhere
<1> QED
  BY <1>2, <1>3

LEMMA SentRuns ==
  ASSUME NetTypeOK, NEW R, WiresRun(R), NEW c \in Components, NEW to, NEW m \in Frame,
         \A y \in to \cap sessions[c] : FrameRuns(R, c, y, m), wire' = Sent(c, to, m)
  PROVE  WiresRun(R)'
<1>1. \A x, y \in Components : wire'[x][y] = IF x = c /\ y \in to \cap sessions[c]
                                             THEN Append(wire[x][y], m) ELSE wire[x][y]
  BY SentWires
<1> SUFFICES ASSUME NEW x \in Components, NEW y \in Components
             PROVE  QueueRuns(R, x, y, wire'[x][y])
  BY DEF WiresRun
<1>2. QueueRuns(R, x, y, wire[x][y])
  BY DEF WiresRun
<1>3. wire[x][y] \in Seq(Frame)
  BY DEF NetTypeOK
<1>4. Extended(wire[x][y], Append(wire[x][y], m), m)
  BY <1>3, AppendExtends
<1>5. CASE x = c /\ y \in to \cap sessions[c]
  <2>1. Extended(wire[x][y], wire'[x][y], m) /\ FrameRuns(R, x, y, m)
    BY <1>1, <1>4, <1>5
  <2> QED
    BY <1>2, <2>1, QueueKept
<1>6. CASE ~(x = c /\ y \in to \cap sessions[c])
  BY <1>1, <1>2, <1>6
<1> QED
  BY <1>5, <1>6

LEMMA AnsweredRuns ==
  ASSUME Links, NEW R, WiresRun(R), NEW src \in Components, NEW c \in Components,
         wire[src][c] # <<>>, NEW to, NEW m, m \in Frame \/ to \cap sessions[c] = {},
         \A y \in to \cap sessions[c] : FrameRuns(R, c, y, m), wire' = Answered(src, c, to, m)
  PROVE  WiresRun(R)'
<1>0. NetTypeOK /\ src # c
  BY ReadersUp DEF Links
<1>1. /\ wire'[src][c] = Tail(wire[src][c])
      /\ \A x, y \in Components : x # src \/ y # c =>
           wire'[x][y] = IF x = c /\ y \in to \cap sessions[c]
                         THEN Append(wire[x][y], m) ELSE wire[x][y]
  BY <1>0, AnsweredWires
<1> SUFFICES ASSUME NEW x \in Components, NEW y \in Components
             PROVE  QueueRuns(R, x, y, wire'[x][y])
  BY DEF WiresRun
<1>2. QueueRuns(R, x, y, wire[x][y])
  BY DEF WiresRun
<1>3. wire[x][y] \in Seq(Frame)
  BY <1>0 DEF NetTypeOK
<1>4. CASE x = src /\ y = c
  <2>1. Shifted(wire[x][y], wire'[x][y])
    BY <1>0, <1>1, <1>4, HeadFacts
  <2> QED
    BY <1>2, <2>1, QueueKept
<1>5. CASE x = c /\ y \in to \cap sessions[c]
  <2>1. m \in Frame /\ x # src
    BY <1>0, <1>5
  <2>2. Extended(wire[x][y], Append(wire[x][y], m), m)
    BY <1>3, <2>1, AppendExtends
  <2>3. Extended(wire[x][y], wire'[x][y], m) /\ FrameRuns(R, x, y, m)
    BY <1>1, <1>5, <2>1, <2>2
  <2> QED
    BY <1>2, <2>3, QueueKept
<1>6. CASE (x # src \/ y # c) /\ ~(x = c /\ y \in to \cap sessions[c])
  BY <1>1, <1>2, <1>6
<1> QED
  BY <1>4, <1>5, <1>6

\* An owner's frames run down its list, other frames say nothing of a pair.
LEMMA OwnFramesRun ==
  ASSUME NEW R, NEW c \in Components, NEW y, <<y, c>> \in R, NEW v
  PROVE  FrameRuns(R, c, y, Update(c, v)) /\ FrameRuns(R, c, y, Removal(c))
<1>1. /\ Update(c, v).type = "PairUpdate" /\ Update(c, v).owner = c
      /\ Removal(c).type = "PairRemoved" /\ Removal(c).owner = c
  BY DEF Update, Removal
<1> QED
  BY <1>1 DEF FrameRuns, About

LEMMA ListsOut ==
  ASSUME NEW R, ListsRun(R), NEW c \in Components, NEW o \in Components
  PROVE  \A y \in ListOf(c, o) \cup subscribers[c][o] : <<y, c>> \in R
<1>1. /\ \A y \in u_subscribers[c] : <<y, c>> \in R
      /\ \A y \in subscribers[c][o] : <<y, c>> \in R
  BY DEF ListsRun
<1>2. ListOf(c, o) = u_subscribers[c] \/ ListOf(c, o) = subscribers[c][o]
  BY DEF ListOf
<1> QED
  BY <1>1, <1>2

LEMMA CallsRun ==
  ASSUME Links, NEW R, EchoInv(R), Ordered(R), Ordered(R)', NEW c \in Components, Call(c)
  PROVE  EchoInv(R)'
<1>0. NetTypeOK /\ ops + 1 \in Nat /\ WiresRun(R) /\ ListsRun(R)
  BY DEF Links, NetTypeOK, EchoInv
<1>1. ListsRun(R)'
  <2>1. Elsewhere(c) /\ ListsFrom(c, {})
    BY CallFacts DEF Calls
  <2> QED
    BY <1>0, <2>1, ListsKept
<1>2. ASSUME SetPair(c) PROVE WiresRun(R)'
  <2>1. wire' = Sent(c, ListOf(c, c), Update(c, ops + 1)) /\ Update(c, ops + 1) \in Frame
    BY <1>0, <1>2, FramesMade DEF SetPair
  <2>2. \A y \in ListOf(c, c) \cap sessions[c] : FrameRuns(R, c, y, Update(c, ops + 1))
    BY <1>0, ListsOut, OwnFramesRun
  <2> QED
    BY <1>0, <2>1, <2>2, SentRuns
<1>3. ASSUME RemoveOwnPair(c) PROVE WiresRun(R)'
  <2>1. wire' = Sent(c, subscribers[c][c], Removal(c)) /\ Removal(c) \in Frame
    BY <1>0, <1>3, FramesMade DEF RemoveOwnPair
  <2>2. \A y \in subscribers[c][c] \cap sessions[c] : FrameRuns(R, c, y, Removal(c))
    BY <1>0, ListsOut, OwnFramesRun
  <2> QED
    BY <1>0, <2>1, <2>2, SentRuns
<1>4. ASSUME NEW d \in Components, SetRemotePair(c, d) PROVE WiresRun(R)'
  <2> DEFINE m == [type |-> "Pair", val |-> ops + 1]
  <2>1. m \in Frame /\ \A y : FrameRuns(R, c, y, m)
    BY <1>0, FramesMade DEF FrameRuns, About
  <2>2. wire' = Sent(c, {d}, m)
    BY <1>4 DEF SetRemotePair
  <2> HIDE DEF m
  <2> QED
    BY <1>0, <2>1, <2>2, SentRuns
<1>5. ASSUME NEW d \in Components, RemoveRemotePair(c, d) PROVE WiresRun(R)'
  <2> DEFINE m == [type |-> "RemovePair", val |-> Invalid]
  <2>1. m \in Frame /\ \A y : FrameRuns(R, c, y, m)
    BY FramesMade DEF FrameRuns, About, Invalid
  <2>2. wire' = Sent(c, {d}, m)
    BY <1>5 DEF RemoveRemotePair
  <2> HIDE DEF m
  <2> QED
    BY <1>0, <2>1, <2>2, SentRuns
<1>6. ASSUME NEW r \in Record, RegisterSubscription(c, r) \/ CancelSubscription(c, r)
      PROVE  WiresRun(R)'
  <2>1. PICK on \in BOOLEAN : SendSubscription(c, r, on)
    BY <1>6 DEF RegisterSubscription, CancelSubscription
  <2> DEFINE m == [type |-> "Subscription", key |-> r[2], registering |-> on]
             to == {d \in Components : Covers(r, d)}
  <2>2. m \in Frame /\ \A y : <<c, y>> \in R => FrameRuns(R, c, y, m)
    BY FramesMade DEF Record, FrameRuns, About
  <2>3. wire' = Sent(c, to, m)
    BY <2>1 DEF SendSubscription
  <2>4. r \in records'[c] \/ r \in records[c]
    BY <1>0, <1>6 DEF RegisterSubscription, CancelSubscription, NetTypeOK
  <2>5. ASSUME NEW y \in to \cap sessions[c] PROVE <<c, y>> \in R
    <3>1. y \in Components /\ Covers(r, y) /\ y # c
      BY <2>5 DEF Links, SessionsUp
    <3>2. Covered(c, y)' \/ Covered(c, y)
      BY <2>4, <3>1 DEF Covered
    <3> QED
      BY <3>1, <3>2 DEF Ordered
  <2> HIDE DEF m, to
  <2> QED
    BY <1>0, <2>2, <2>3, <2>5, SentRuns
<1>7. WiresRun(R)'
  BY <1>2, <1>3, <1>4, <1>5, <1>6 DEF Call
<1> QED
  BY <1>1, <1>7 DEF EchoInv

LEMMA HandlersRun ==
  ASSUME Links, NEW R, EchoInv(R), NEW src \in Components, NEW c \in Components, Handle(src, c),
         Transitive(R)
  PROVE  EchoInv(R)'
<1> DEFINE f == Head(wire[src][c])
<1>0. /\ NetTypeOK /\ WiresRun(R) /\ ListsRun(R)
      /\ f \in Frame /\ wire[src][c] # <<>> /\ Elsewhere(c)
  BY HandlersAnswer DEF Links, EchoInv, Answers
<1>1. FrameRuns(R, src, c, f)
  <2>1. f = wire[src][c][1] /\ 1 \in 1..Len(wire[src][c])
    BY <1>0, HeadFacts DEF Shifted
  <2> HIDE DEF f
  <2> QED
    BY <1>0, <2>1 DEF WiresRun, QueueRuns
<1>2. ListsRun(R)'
  <2>0. ListsFrom(c, IF f.type = "Subscription" THEN {src} ELSE {})
    BY HandlersList
  <2> HIDE DEF f
  <2>1. CASE f.type = "Subscription"
    <3>1. <<src, c>> \in R /\ ListsFrom(c, {src})
      BY <1>1, <2>0, <2>1 DEF FrameRuns
    <3> QED
      BY <1>0, <3>1, ListsKept
  <2>2. CASE f.type # "Subscription"
    <3>1. ListsFrom(c, {})
      BY <2>0, <2>2
    <3> QED
      BY <1>0, <3>1, ListsKept
  <2> QED
    BY <2>1, <2>2
<1> HIDE DEF f
<1>3. ASSUME HandleIncomingPair(src, c) PROVE WiresRun(R)'
  <2>1. f.val \in Nat /\ wire' = Answered(src, c, ListOf(c, c), Update(c, f.val))
    BY <1>0, <1>3, FrameFacts DEF HandleIncomingPair, Reads, f
  <2>2. Update(c, f.val) \in Frame
    BY <2>1, FramesMade
  <2>3. \A y \in ListOf(c, c) \cap sessions[c] : FrameRuns(R, c, y, Update(c, f.val))
    BY <1>0, ListsOut, OwnFramesRun
  <2> QED
    BY <1>0, <2>1, <2>2, <2>3, AnsweredRuns
<1>4. ASSUME HandleRemovePair(src, c) PROVE WiresRun(R)'
  <2>1. wire' = Answered(src, c, subscribers[c][c], Removal(c)) /\ Removal(c) \in Frame
    BY <1>4, FramesMade DEF HandleRemovePair
  <2>2. \A y \in subscribers[c][c] \cap sessions[c] : FrameRuns(R, c, y, Removal(c))
    BY <1>0, ListsOut, OwnFramesRun
  <2> QED
    BY <1>0, <2>1, <2>2, AnsweredRuns
<1>5. ASSUME HandlePairUpdate(src, c) PROVE WiresRun(R)'
  <2>1. f.owner \in Components /\ f.type = "PairUpdate" /\ wire' = Answered(src, c, ListOf(c, f.owner), f)
    BY <1>0, <1>5, FrameFacts DEF HandlePairUpdate, Reads, f
  <2>2. <<c, src>> \in R /\ (f.owner = src \/ <<src, f.owner>> \in R)
    BY <1>1, <2>1 DEF FrameRuns, About
  <2>3. <<c, f.owner>> \in R
    BY <2>1, <2>2 DEF Transitive
  <2>4. ASSUME NEW y \in ListOf(c, f.owner) \cap sessions[c] PROVE FrameRuns(R, c, y, f)
    <3>1. <<y, c>> \in R
      BY <1>0, <2>1, <2>4, ListsOut
    <3> QED
      BY <2>1, <2>3, <3>1 DEF FrameRuns, About
  <2> QED
    BY <1>0, <2>1, <2>4, AnsweredRuns
<1>6. ASSUME wire' = Answered(src, c, {}, <<>>) PROVE WiresRun(R)'
  <2>1. {} \cap sessions[c] = {}
    OBVIOUS
  <2>2. \A y \in {} \cap sessions[c] : FrameRuns(R, c, y, <<>>)
    BY <2>1
  <2> QED
    BY <1>0, <1>6, <2>1, <2>2, AnsweredRuns
<1>7. ASSUME Introduce(src, c), f.type = "Subscription" PROVE WiresRun(R)'
  <2> DEFINE told == IF pairs[c][c] > Invalid THEN {src} ELSE {}
             m == Update(c, pairs[c][c])
  <2>1. wire' = Answered(src, c, told, m)
    BY <1>7 DEF Introduce
  <2>2. \A y \in told : y = src /\ pairs[c][c] \in Nat
    BY <1>0 DEF NetTypeOK, Absent, Invalid
  <2>3. <<src, c>> \in R
    BY <1>1, <1>7 DEF FrameRuns
  <2> HIDE DEF told
  <2>4. m \in Frame \/ told \cap sessions[c] = {}
    BY <2>2, FramesMade
  <2>5. \A y \in told \cap sessions[c] : FrameRuns(R, c, y, m)
    BY <2>2, <2>3, OwnFramesRun
  <2> HIDE DEF m
  <2> QED
    BY <1>0, <2>1, <2>4, <2>5, AnsweredRuns
<1>8. ASSUME HandleSubscribe(src, c) \/ HandleSubscribeToAll(src, c) PROVE WiresRun(R)'
  BY <1>7, <1>8 DEF HandleSubscribe, HandleSubscribeToAll, Asked, Reads, f
<1>9. ASSUME HandlePairRemoved(src, c) \/ HandleUnsubscribe(src, c) \/ HandleUnsubscribeFromAll(src, c)
      PROVE  WiresRun(R)'
  BY <1>6, <1>9 DEF HandlePairRemoved, HandleUnsubscribe, HandleUnsubscribeFromAll
<1>10. WiresRun(R)'
  BY <1>3, <1>4, <1>5, <1>8, <1>9 DEF Handle
<1> QED
  BY <1>2, <1>10 DEF EchoInv

LEMMA AskingRuns ==
  ASSUME NEW R, NEW x \in Components, NEW y \in Components, NEW held, NEW q,
         AsksFor(q, Wants(held, y)), (\E r \in held : Covers(r, y)) => <<x, y>> \in R
  PROVE  QueueRuns(R, x, y, q)
<1> SUFFICES ASSUME NEW i \in 1..Len(q) PROVE FrameRuns(R, x, y, q[i])
  BY DEF QueueRuns
<1>1. \A o : ~About(q[i], o)
  BY AskingSaysNothing
<1>2. q[i].key \in Wants(held, y)
  BY DEF AsksFor
<1>3. \E r \in held : Covers(r, y)
  BY <1>2 DEF Wants
<1> QED
  BY <1>1, <1>3 DEF FrameRuns

LEMMA LeaveRuns ==
  ASSUME Links, NEW R, EchoInv(R), NEW c \in Components, Leave(c)
  PROVE  EchoInv(R)'
<1>0. NetTypeOK /\ WiresRun(R) /\ ListsRun(R)
  BY DEF Links, EchoInv
<1>1. /\ \A x, y \in Components : wire'[x][y] = IF c \in {x, y} THEN <<>> ELSE wire[x][y]
      /\ Elsewhere(c) /\ u_subscribers'[c] = {}
      /\ \A o \in Components : pairs'[c][o] = Absent /\ subscribers'[c][o] = {}
  BY <1>0, LeaveFacts
<1>2. WiresRun(R)'
  <2> SUFFICES ASSUME NEW x \in Components, NEW y \in Components
               PROVE  QueueRuns(R, x, y, wire'[x][y])
    BY DEF WiresRun
  <2>1. QueueRuns(R, x, y, wire[x][y])
    BY <1>0 DEF WiresRun
  <2>2. wire'[x][y] = <<>> \/ wire'[x][y] = wire[x][y]
    BY <1>1
  <2>3. Len(<<>>) = 0
    OBVIOUS
  <2> QED
    BY <2>1, <2>2, <2>3, QueueKept
<1>3. ListsFrom(c, {})
  BY <1>1 DEF ListsFrom
<1>4. ListsRun(R)'
  BY <1>0, <1>1, <1>3, ListsKept
<1> QED
  BY <1>2, <1>4 DEF EchoInv

LEMMA AnnounceRuns ==
  ASSUME Links, NEW R, EchoInv(R), Ordered(R), NEW d \in Components, NEW c \in Components,
         Announce(d, c)
  PROVE  EchoInv(R)'
<1>0. NetTypeOK /\ WiresRun(R) /\ ListsRun(R)
  BY DEF Links, EchoInv
<1>1. /\ c # d /\ AsksFor(wire'[d][c], Wants(records[d], c))
      /\ \A x, y \in Components : x # d \/ y # c => wire'[x][y] = wire[x][y]
      /\ UNCHANGED <<pairs, subscribers, u_subscribers>>
  BY <1>0, AnnounceFacts
<1>2. (\E r \in records[d] : Covers(r, c)) => <<d, c>> \in R
  BY <1>1 DEF Ordered, Covered
<1>3. WiresRun(R)'
  <2> SUFFICES ASSUME NEW x \in Components, NEW y \in Components
               PROVE  QueueRuns(R, x, y, wire'[x][y])
    BY DEF WiresRun
  <2>1. CASE x = d /\ y = c
    BY <1>1, <1>2, <2>1, AskingRuns
  <2>2. CASE x # d \/ y # c
    BY <1>0, <1>1, <2>2 DEF WiresRun
  <2> QED
    BY <2>1, <2>2
<1>4. ListsRun(R)'
  BY <1>0, <1>1 DEF ListsRun
<1> QED
  BY <1>3, <1>4 DEF EchoInv

LEMMA InitRuns ==
  ASSUME NEW held \in [Components -> SUBSET Record], NetInit(held), NEW R, Ordered(R)
  PROVE  EchoInv(R)
<1>1. /\ records = held
      /\ \A c \in Components : u_subscribers[c] = {}
      /\ \A c, o \in Components : subscribers[c][o] = {}
      /\ \A c \in Components : wire[c][c] = <<>>
      /\ \A c, d \in Components : c # d => AsksFor(wire[c][d], Wants(held[c], d))
  BY InitFacts
<1>2. ASSUME NEW x \in Components, NEW y \in Components PROVE QueueRuns(R, x, y, wire[x][y])
  <2>1. CASE x = y
    <3>1. Len(<<>>) = 0
      OBVIOUS
    <3> QED
      BY <1>1, <2>1, <3>1 DEF QueueRuns
  <2>2. CASE x # y
    <3>1. (\E r \in held[x] : Covers(r, y)) => <<x, y>> \in R
      BY <1>1, <2>2 DEF Ordered, Covered
    <3> QED
      BY <1>1, <2>2, <3>1, AskingRuns
  <2> QED
    BY <2>1, <2>2
<1> QED
  BY <1>1, <1>2 DEF EchoInv, WiresRun, ListsRun

\* Every step keeps it, if the records do not go against the order.
LEMMA EchoStep ==
  ASSUME Links, NEW R, EchoInv(R), Ordered(R), Ordered(R)', [NetStep]_net,
         Transitive(R)
  PROVE  EchoInv(R)'
<1>1. CASE UNCHANGED net
  BY <1>1 DEF net, space, EchoInv, WiresRun, ListsRun
<1>2. CASE NetStep
  <2>1. ASSUME NEW c \in Components, Join(c) PROVE EchoInv(R)'
    BY <2>1 DEF Join, space, EchoInv, WiresRun, ListsRun
  <2> QED
    BY <1>2, <2>1, CallsRun, LeaveRuns, HandlersRun, AnnounceRuns DEF NetStep
<1> QED
  BY <1>1, <1>2

LEMMA EchoInvSees ==
  ASSUME NEW R, EchoInv(R), Irreflexive(R), Transitive(R)
  PROVE  NoEcho
<1> SUFFICES ASSUME NEW c \in Components PROVE ~OnItsWay(c, c)
  BY DEF NoEcho
<1> SUFFICES ASSUME OnItsWay(c, c) PROVE FALSE
  OBVIOUS
<1>a. PICK d \in Components : \E i \in 1..Len(wire[d][c]) : About(wire[d][c][i], c)
  BY DEF OnItsWay, About
<1>0. PICK i \in 1..Len(wire[d][c]) : About(wire[d][c][i], c)
  BY <1>a
<1>1. FrameRuns(R, d, c, wire[d][c][i])
  BY DEF EchoInv, WiresRun, QueueRuns
<1>2. <<c, d>> \in R /\ (c = d \/ <<d, c>> \in R)
  BY <1>0, <1>1 DEF FrameRuns
<1>3. <<c, c>> \in R
  BY <1>2 DEF Transitive
<1> QED
  BY <1>3 DEF Irreflexive

\* The records of an application are among what it may ask for.
Offered(Top) == \A c \in Components \ Top : records[c] \subseteq Offers[c]

LEMMA OfferedOrdered ==
  ASSUME NEW R, NEW Top, Orders(R, Top)
  PROVE  (Offered(Top) => Ordered(R)) /\ (Offered(Top)' => Ordered(R)')
<1>1. ASSUME NEW c \in Components, NEW d \in Components \ {c}, NEW held,
             c \notin Top => held \subseteq Offers[c], NEW r \in held, Covers(r, d)
      PROVE  <<c, d>> \in R
  <2>1. c \in Top \/ \E q \in Offers[c] : Covers(q, d)
    BY <1>1
  <2> QED
    BY <2>1 DEF Orders
<1>2. ASSUME Offered(Top) PROVE Ordered(R)
  BY <1>1, <1>2 DEF Offered, Ordered, Covered
<1>3. ASSUME Offered(Top)' PROVE Ordered(R)'
  BY <1>1, <1>3 DEF Offered, Ordered, Covered
<1> QED
  BY <1>2, <1>3

LEMMA OfferedStep ==
  ASSUME Links, NEW Top, Offered(Top),
         \/ \E c \in Components \ Top : Application(c) \/ Leave(c) \/ Join(c)
         \/ \E c \in Top \cap Components : Call(c) \/ Leave(c) \/ Join(c)
         \/ \E src, c \in Components : Handle(src, c) \/ Announce(src, c)
         \/ UNCHANGED records
  PROVE  Offered(Top)'
<1>0. UNCHANGED records => Offered(Top)'
  BY DEF Offered
<1>1. ASSUME NEW c \in Components, NEW S, records' = [records EXCEPT ![c] = S],
             c \notin Top => S \subseteq Offers[c]
      PROVE  Offered(Top)'
  <2> SUFFICES ASSUME NEW x \in Components \ Top PROVE records'[x] \subseteq Offers[x]
    BY DEF Offered
  <2>1. records[x] \subseteq Offers[x]
    BY DEF Offered
  <2>2. records'[x] = IF x = c THEN S ELSE records[x]
    BY <1>1 DEF Links, NetTypeOK
  <2> QED
    BY <1>1, <2>1, <2>2
<1>2. ASSUME NEW c \in Components, NEW r, c \notin Top => r \in Offers[c],
             RegisterSubscription(c, r) \/ CancelSubscription(c, r)
      PROVE  Offered(Top)'
  <2>1. PICK S \in {records[c] \cup {r}, records[c] \ {r}} : records' = [records EXCEPT ![c] = S]
    BY <1>2 DEF RegisterSubscription, CancelSubscription
  <2>2. c \notin Top => S \subseteq Offers[c]
    BY <1>2, <2>1 DEF Offered
  <2> QED
    BY <1>1, <2>1, <2>2
<1>3. ASSUME NEW c \in Components, Call(c), c \notin Top => Application(c) PROVE Offered(Top)'
  <2>1. CASE c \in Top
    BY <1>0, <1>2, <1>3, <2>1
       DEF Call, SetPair, RemoveOwnPair, SetRemotePair, RemoveRemotePair
  <2>2. CASE c \notin Top
    BY <1>0, <1>2, <1>3, <2>2
       DEF Application, SetPair, RemoveOwnPair, SetRemotePair, RemoveRemotePair
  <2> QED
    BY <2>1, <2>2
<1>4. ASSUME NEW c \in Components, Leave(c) PROVE Offered(Top)'
  <2>1. records' = [records EXCEPT ![c] = {}] /\ {} \subseteq Offers[c]
    BY <1>4 DEF Leave
  <2> QED
    BY <1>1, <2>1
<1>5. ASSUME NEW c \in Components, Join(c) PROVE Offered(Top)'
  BY <1>0, <1>5 DEF Join
<1>6. ASSUME NEW src \in Components, NEW c \in Components, Handle(src, c) \/ Announce(src, c)
      PROVE  Offered(Top)'
  <2>1. UNCHANGED records
    BY <1>6, HandlersAnswer DEF Announce, Answers
  <2> QED
    BY <1>0, <2>1
<1>7. \A c \in Components : Application(c) => Call(c)
  BY OffersAssumption DEF Application, Call
<1> QED
  BY <1>0, <1>3, <1>4, <1>5, <1>6, <1>7

\* Nobody is told about its own pair (applyAndNotify, handlePairUpdate), if nobody
\* may ask for pairs in a cycle: the window asks for everything, so nobody else may
\* ask for the window's pair.  Two that ask for each other's do hear of their own.
THEOREM WindowNoEcho ==
  ASSUME Acyclic({gui})
  PROVE  Spec => []NoEcho
<1>0. PICK R \in SUBSET (Components \X Components) : Orders(R, {gui})
  BY DEF Acyclic
<1>1. Transitive(R) /\ Irreflexive(R)
  BY <1>0 DEF Orders, Transitive, Irreflexive
<1> DEFINE I == ViewInv /\ Offered({gui}) /\ EchoInv(R)
<1>2. Init => I
  <2> SUFFICES ASSUME Init PROVE Offered({gui}) /\ EchoInv(R)
    BY InitView
  <2> DEFINE held == [c \in Components |-> IF c = gui THEN {Everything} ELSE {}]
  <2>1. NetInit(held) /\ held \in [Components -> SUBSET Record]
    BY DEF Init, Everything, Record
  <2>2. \A c \in Components : c # gui => held[c] = {}
    OBVIOUS
  <2> HIDE DEF held
  <2>3. Offered({gui})
    <3>1. records = held
      BY <2>1, InitFacts
    <3> QED
      BY <2>2, <3>1 DEF Offered
  <2>4. Ordered(R)
    BY <1>0, <2>3, OfferedOrdered
  <2> QED
    BY <2>1, <2>3, <2>4, InitRuns
<1>3. I /\ [Next]_vars => I'
  <2> SUFFICES ASSUME ViewInv, Offered({gui}), EchoInv(R), [Next]_vars
               PROVE  ViewInv' /\ Offered({gui})' /\ EchoInv(R)'
    OBVIOUS
  <2>1. TypeOK /\ Links /\ NetTypeOK
    BY DEF ViewInv, Links
  <2>2. Offered({gui})'
    <3>1. CASE Window \/ UNCHANGED vars
      <4>1. Call(gui) \/ UNCHANGED net
        BY <2>1, <3>1, WindowCalls DEF vars
      <4>2. (\E c \in {gui} \cap Components : Call(c) \/ Leave(c) \/ Join(c)) \/ UNCHANGED records
        BY <4>1, ViewAssumption DEF net
      <4> QED
        BY <2>1, <4>2, OfferedStep
    <3>2. CASE Others \/ Handlers
      BY <2>1, <3>2, OfferedStep DEF Others, Handlers
    <3> QED
      BY <3>1, <3>2 DEF Next
  <2>3. Ordered(R) /\ Ordered(R)'
    BY <1>0, <2>2, OfferedOrdered
  <2>4. EchoInv(R)'
    BY <1>1, <2>1, <2>3, WindowSteps, EchoStep
  <2> QED
    BY <2>1, <2>2, <2>4, ViewStep
<1>4. I => NoEcho
  BY <1>1, EchoInvSees
<1> QED
  BY <1>2, <1>3, <1>4, PTL DEF Spec

\* The same of a network without a window (applyAndNotify, handlePairUpdate): there
\* must be no cycle among those who may ask for each other's pairs.
THEOREM NetworkNoEcho ==
  ASSUME Acyclic({})
  PROVE  NetSpec => []NoEcho
<1>0. PICK R \in SUBSET (Components \X Components) : Orders(R, {})
  BY DEF Acyclic
<1>1. Transitive(R) /\ Irreflexive(R)
  BY <1>0 DEF Orders, Transitive, Irreflexive
<1> DEFINE none == [c \in Components |-> {}]
           I == Links /\ Offered({}) /\ EchoInv(R)
<1>2. NetInit(none) => I
  <2> SUFFICES ASSUME NetInit(none) PROVE I
    OBVIOUS
  <2>1. none \in [Components -> SUBSET Record] /\ \A c \in Components : none[c] = {}
    OBVIOUS
  <2> HIDE DEF none
  <2>2. Links /\ records = none
    BY <2>1, InitLinks, InitFacts
  <2>3. Offered({})
    BY <2>1, <2>2 DEF Offered
  <2>4. Ordered(R)
    BY <1>0, <2>3, OfferedOrdered
  <2> QED
    BY <2>1, <2>2, <2>3, <2>4, InitRuns
<1>3. I /\ [NetNext]_net => I'
  <2> SUFFICES ASSUME Links, Offered({}), EchoInv(R), [NetNext]_net
               PROVE  Links' /\ Offered({})' /\ EchoInv(R)'
    OBVIOUS
  <2>1. [NetStep]_net
    BY NetNextSteps
  <2>2. Offered({})'
    <3>1. CASE UNCHANGED net
      BY <3>1, OfferedStep DEF net
    <3>2. CASE NetNext
      BY <3>2, OfferedStep DEF NetNext
    <3> QED
      BY <3>1, <3>2
  <2>3. Ordered(R) /\ Ordered(R)'
    BY <1>0, <2>2, OfferedOrdered
  <2> QED
    BY <1>1, <2>1, <2>2, <2>3, LinksStep, EchoStep
<1>4. I => NoEcho
  BY <1>1, EchoInvSees
<1> QED
  BY <1>2, <1>3, <1>4, PTL DEF NetSpec
=============================================================================
