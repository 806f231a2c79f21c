----------------------------- MODULE NodeProofs -----------------------------
(***************************************************************************)
(* Theorems about Node, for any number of io threads, other components and *)
(* wildcard subscriptions.                                                 *)
(***************************************************************************)
EXTENDS Node, TLAPS

\* There is no node: nothing of the kernel, and no thread that could use it.
Down ==
  /\ ~client_instance /\ ~server_instance /\ ~pair_space /\ io_context = "none"
  /\ sessions = {} /\ subs = {}
  /\ \A w \in Workers : io[w] \in {"none", "ended"}

\* initialize is in Server's constructor: there is a client and no io thread.
Made ==
  /\ client_instance /\ ~server_instance /\ pair_space /\ io_context = "running"
  /\ sessions = {} /\ subs = {}
  /\ \A w \in Workers : io[w] = "none"

\* The node is complete, though its io threads may be on their way out.
Up == client_instance /\ server_instance /\ pair_space /\ io_context # "none"

\* What is there at each place of the link's thread ...
LinkPhases ==
  /\ link \in {"idle", "initialize", "waiting"} =>
       Down /\ \A w \in Workers : io[w] = "none"
  /\ link \in {"registering", "silent"} => Made
  /\ link \in {"subscribing", "connected"} => Up
  /\ link = "subscribing" => subs = {}
  /\ link = "connected" => subs = {wildcard} /\ subscribed_to_all
  /\ link = "ended" => Down \/ Up
  /\ state = "Connected" => link = "ended"

\* ... and of the render thread, which takes down what the link has left.
MainPhases ==
  /\ main \notin {"using", "joining"} => link = "ended"
  /\ main \in {"closing", "stopping", "stopped", "releasing"} => Up
  /\ main = "releasing" => \A w \in Workers : io[w] = "ended"
  /\ main = "done" => Down
  /\ main # "done" /\ state = "Connected" => Up

\* A session is closed by whoever takes it out of the map.
NodeInv == TypeOK /\ open = sessions /\ LinkPhases /\ MainPhases /\ WildcardAgrees

\* The link's thread: one attempt after another, then the first subscription.
LEMMA LinkKeeps ==
  ASSUME NodeInv, Link \/ Registration
  PROVE  NodeInv'
<1> USE DEF NodeInv, TypeOK, LinkPhases, MainPhases, WildcardAgrees, Down, Made, Up, ok,
            kernel, client, srnp
<1>1. CASE BeginAttempt
  BY <1>1 DEF BeginAttempt
<1>2. CASE LoopEnds
  BY <1>2 DEF LoopEnds
<1>3. CASE MakeClient
  BY <1>3 DEF MakeClient
<1>4. CASE RegistrationFails
  BY <1>4 DEF RegistrationFails
<1>5. CASE MasterSilent
  BY <1>5 DEF MasterSilent
<1>6. CASE MasterAnswers
  BY <1>6 DEF MasterAnswers
<1>7. CASE FirstSubscription
  BY <1>7 DEF FirstSubscription, subscribeToAll, RegisterWildcard
<1>8. CASE Connected
  BY <1>8 DEF Connected
<1>9. CASE Retry
  BY <1>9 DEF Retry
<1> QED
  BY <1>1, <1>2, <1>3, <1>4, <1>5, <1>6, <1>7, <1>8, <1>9 DEF Link, Registration

\* The io threads: handlers begin and end, and add and remove sessions meanwhile.
LEMMA WorkerKeeps ==
  ASSUME NodeInv, NEW w \in Workers, BeginHandler(w) \/ Worker(w)
  PROVE  NodeInv'
<1> USE DEF NodeInv, TypeOK, LinkPhases, MainPhases, WildcardAgrees, Down, Made, Up, ok,
            kernel, client, srnp
<1>1. CASE BeginHandler(w)
  BY <1>1 DEF BeginHandler
<1>2. CASE EndHandler(w)
  BY <1>2 DEF EndHandler, HandlerReturns
<1>3. ASSUME NEW p \in Peers, AddSession(w, p) PROVE NodeInv'
  BY <1>3 DEF AddSession, HandlerReturns
<1>4. ASSUME NEW p \in Peers, RemoveSession(w, p) PROVE NodeInv'
  BY <1>4 DEF RemoveSession, HandlerReturns
<1>5. CASE LeaveRun(w)
  BY <1>5 DEF LeaveRun
<1> QED
  BY <1>1, <1>2, <1>3, <1>4, <1>5 DEF Worker

\* The render thread: the wildcard subscription is switched, and the node taken down.
LEMMA MainKeeps ==
  ASSUME NodeInv, Teardown \/ RequestStop \/ \E on \in BOOLEAN : Toggle(on)
  PROVE  NodeInv'
<1> USE DEF NodeInv, TypeOK, LinkPhases, MainPhases, WildcardAgrees, Down, Made, Up, ok,
            kernel, client, srnp
<1>1. ASSUME NEW on \in BOOLEAN, Toggle(on) PROVE NodeInv'
  <2>1. Up /\ link = "ended" /\ state = "Connected" /\ main = "using"
    BY <1>1 DEF Toggle
  <2>2. UNCHANGED <<kernel, io, sessions, open, link, main, stop_requested, state>>
    BY <1>1 DEF Toggle
  <2>3. CASE on
    <3>1. subscribed_to_all = FALSE /\ subs = {}
      <4>1. subscribed_to_all \in BOOLEAN /\ on = TRUE
        BY <2>3
      <4>2. subscribed_to_all = FALSE
        BY <1>1, <4>1, Zenon DEF Toggle
      <4> QED
        BY <2>1, <4>2
    <3>2. /\ subs' = {next_handle + 1} /\ wildcard' = next_handle + 1
          /\ next_handle' = next_handle + 1 /\ subscribed_to_all' = TRUE
      BY <1>1, <2>3, <3>1 DEF Toggle, subscribeToAll, RegisterWildcard
    <3> QED
      BY <2>1, <2>2, <3>2
  <2>4. CASE ~on
    <3>1. subscribed_to_all = TRUE
      <4>1. subscribed_to_all \in BOOLEAN /\ on = FALSE
        BY <2>4
      <4> QED
        BY <1>1, <4>1, Zenon DEF Toggle
    <3>2. /\ subs' = subs \ {wildcard} /\ wildcard' = kInvalid
          /\ next_handle' = next_handle /\ subscribed_to_all' = FALSE
      BY <1>1, <2>4 DEF Toggle, Unsubscribe
    <3>3. subs' = {}
      BY <2>1, <3>1, <3>2
    <3> QED
      BY <2>1, <2>2, <3>2, <3>3 DEF kInvalid
  <2> QED
    BY <2>3, <2>4
<1>2. CASE RequestStop
  BY <1>2 DEF RequestStop
<1>3. CASE JoinLink
  BY <1>3 DEF JoinLink
<1>4. CASE CloseClient
  BY <1>4 DEF CloseClient
<1>5. CASE StopServer
  BY <1>5 DEF StopServer
<1>6. CASE JoinWorkers
  BY <1>6 DEF JoinWorkers
<1>7. CASE Reset
  BY <1>7 DEF Reset, Release
<1> QED
  BY <1>1, <1>2, <1>3, <1>4, <1>5, <1>6, <1>7 DEF Teardown

LEMMA NodeInvInit == Init => NodeInv
<1> SUFFICES ASSUME Init PROVE NodeInv
  OBVIOUS
<1>1. TypeOK
  BY DEF Init, TypeOK, kInvalid
<1>2. open = sessions /\ LinkPhases /\ MainPhases
  BY DEF Init, LinkPhases, MainPhases, Down
<1>3. WildcardAgrees
  BY DEF Init, WildcardAgrees
<1> QED
  BY <1>1, <1>2, <1>3 DEF NodeInv

LEMMA NodeInvStep == NodeInv /\ [Next]_vars => NodeInv'
<1> SUFFICES ASSUME NodeInv, [Next]_vars PROVE NodeInv'
  OBVIOUS
<1>1. CASE UNCHANGED vars
  BY <1>1 DEF NodeInv, TypeOK, LinkPhases, MainPhases, WildcardAgrees, Down, Made, Up, ok,
              vars, kernel, client, srnp
<1>2. CASE Next
  BY <1>2, LinkKeeps, WorkerKeeps, MainKeeps DEF Next
<1> QED
  BY <1>1, <1>2

\* The node is taken down whole, after a failed attempt as at the end: no handler
\* runs without client, server and pair space, no session stays open, and no
\* attempt finds the node of an earlier one.
THEOREM TakeDownSafety == Spec => []TakenDownWhole
<1>1. NodeInv => TakenDownWhole
  BY DEF NodeInv, TypeOK, LinkPhases, MainPhases, Down, Made, Up, ok,
         TakenDownWhole, HandlersAlive, SessionsClosed, OneNode
<1> QED
  BY <1>1, NodeInvInit, NodeInvStep, PTL DEF Spec

\* The checkbox of the window and the client's record of the wildcard subscription
\* agree once the link is connected.
THEOREM WildcardSafety == Spec => []WildcardAgrees
<1>1. NodeInv => WildcardAgrees
  BY DEF NodeInv
<1> QED
  BY <1>1, NodeInvInit, NodeInvStep, PTL DEF Spec
=============================================================================
