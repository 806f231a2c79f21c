-------------------------------- MODULE Node --------------------------------
(***************************************************************************)
(* The life of a node, from initialize to shutdown (src/srnp_kernel.cpp,   *)
(* the constructor and stop of Server in src/server.cpp, close of Client   *)
(* in src/client.cpp), as the GUI drives it: SrnpLink of gui/srnp_link.cpp *)
(* initializes on a thread of its own, again and again until the master    *)
(* answers, while the render thread reads the state, switches the wildcard *)
(* subscription and at last destroys the link.                             *)
(*                                                                         *)
(* The io threads exist from the end of Server's constructor to stop.      *)
(* A handler on one of them may be anything the server runs: it uses the   *)
(* client and the pair space; the ones that add and remove components are  *)
(* told apart.                                                             *)
(***************************************************************************)
EXTENDS Integers, FiniteSets

CONSTANTS Workers,    \* the io threads, four in the code
          Peers,      \* other components
          MaxHandles  \* bound on wildcard subscriptions made

ASSUME HandlesAssumption == MaxHandles \in Nat \ {0}

VARIABLES
  client_instance, server_instance, pair_space,  \* whether each is there
  io_context,         \* "none", "running" or "stopped"
  io,                 \* what each io thread does
  sessions,           \* Client::sessions_
  open,               \* the peers with a session that is not closed
  subs, next_handle,  \* Client::subscriptions_: the records for "*"
  link,               \* where connectLoop is
  main,               \* where the render thread is
  stop_requested,
  state, subscribed_to_all, wildcard  \* of SrnpLink

kernel  == <<client_instance, server_instance, pair_space, io_context>>
client  == <<sessions, open, subs, next_handle>>
srnp    == <<state, subscribed_to_all, wildcard>>
vars    == <<kernel, io, client, link, main, stop_requested, srnp>>

\* kInvalidSubscriptionHandle
kInvalid == 0

ok == client_instance

Init ==
  /\ client_instance = FALSE /\ server_instance = FALSE /\ pair_space = FALSE
  /\ io_context = "none"
  /\ io = [w \in Workers |-> "none"]
  /\ sessions = {} /\ open = {}
  /\ subs = {} /\ next_handle = kInvalid
  /\ link = "idle" /\ main = "using" /\ stop_requested = FALSE
  /\ state = "Disconnected" /\ subscribed_to_all = FALSE /\ wildcard = kInvalid

-----------------------------------------------------------------------------
(* connectLoop and initialize, on the link's thread                        *)

BeginAttempt ==
  /\ link = "idle" /\ ~stop_requested
  /\ link' = "initialize"
  /\ state' = "Connecting"
  /\ UNCHANGED <<kernel, io, client, main, stop_requested, subscribed_to_all, wildcard>>

LoopEnds ==
  /\ link = "idle" /\ stop_requested
  /\ link' = "ended"
  /\ UNCHANGED <<kernel, io, client, main, stop_requested, srnp>>

\* initialize up to Server's constructor.  That ok() does not make it throw here
\* is OneNode.
MakeClient ==
  /\ link = "initialize" /\ ~ok
  /\ pair_space' = TRUE /\ io_context' = "running" /\ client_instance' = TRUE
  /\ link' = "registering"
  /\ UNCHANGED <<server_instance, io, client, main, stop_requested, srnp>>

\* Mutant: connectLoop gives up after a failure.
FailsForGood ==
  /\ link \in {"registering", "silent"}
  /\ client_instance' = FALSE /\ pair_space' = FALSE /\ io_context' = "none"
  /\ link' = "ended" /\ state' = "Disconnected"
  /\ UNCHANGED <<server_instance, io, client, main, stop_requested, subscribed_to_all, wildcard>>

\* Server's constructor throws: the master cannot be reached, breaks the
\* connection or answers something else.  initialize shuts the node down, which
\* has neither server nor sessions, and connectLoop notes the failure.
RegistrationFails ==
  /\ link \in {"registering", "silent"}
  /\ client_instance' = FALSE /\ pair_space' = FALSE /\ io_context' = "none"
  /\ link' = "waiting" /\ state' = "Disconnected"
  /\ UNCHANGED <<server_instance, io, client, main, stop_requested, subscribed_to_all, wildcard>>

\* The connection is made and the read of the reply blocks: it has no timeout.
MasterSilent ==
  /\ link = "registering"
  /\ link' = "silent"
  /\ UNCHANGED <<kernel, io, client, main, stop_requested, srnp>>

\* The master's welcome arrives with the components it knows.  onWelcome makes
\* the sessions and the client ready, the io threads start, and waitUntilReady
\* finds what it waits for.
MasterAnswers ==
  /\ link = "registering"
  /\ sessions' \in SUBSET Peers /\ open' = sessions'
  /\ server_instance' = TRUE
  /\ io' = [w \in Workers |-> "idle"]
  /\ link' = "subscribing"
  /\ UNCHANGED <<client_instance, pair_space, io_context, subs, next_handle,
                 main, stop_requested, srnp>>

\* registerSubscription(kAnyOwner, "*"), which makes no second record.
RegisterWildcard ==
  IF subs = {}
  THEN /\ subs' = {next_handle + 1}
       /\ next_handle' = next_handle + 1
       /\ wildcard' = next_handle + 1
  ELSE /\ wildcard' = kInvalid
       /\ UNCHANGED <<subs, next_handle>>

subscribeToAll ==
  /\ RegisterWildcard
  /\ subscribed_to_all' = TRUE

FirstSubscription ==
  /\ link = "subscribing"
  /\ subscribeToAll
  /\ link' = "connected"
  /\ UNCHANGED <<kernel, io, sessions, open, main, stop_requested, state>>

Connected ==
  /\ link = "connected"
  /\ state' = "Connected"
  /\ link' = "ended"
  /\ UNCHANGED <<kernel, io, client, main, stop_requested, subscribed_to_all, wildcard>>

\* The retry delay has passed, or a stop was requested.
Retry ==
  /\ link = "waiting"
  /\ link' = "idle"
  /\ UNCHANGED <<kernel, io, client, main, stop_requested, srnp>>

-----------------------------------------------------------------------------
(* The io threads                                                          *)

BeginHandler(w) ==
  /\ io[w] = "idle" /\ io_context = "running"
  /\ io' = [io EXCEPT ![w] = "handler"]
  /\ UNCHANGED <<kernel, client, link, main, stop_requested, srnp>>

HandlerReturns(w) ==
  /\ io[w] = "handler"
  /\ io' = [io EXCEPT ![w] = "idle"]

\* A handler that neither adds nor removes a session.
EndHandler(w) ==
  /\ HandlerReturns(w)
  /\ UNCHANGED <<kernel, client, link, main, stop_requested, srnp>>

\* onComponentUpdate: addSession.
AddSession(w, p) ==
  /\ HandlerReturns(w)
  /\ p \notin sessions
  /\ sessions' = sessions \cup {p} /\ open' = open \cup {p}
  /\ UNCHANGED <<kernel, subs, next_handle, link, main, stop_requested, srnp>>

\* onComponentUpdate: removeSession.
RemoveSession(w, p) ==
  /\ HandlerReturns(w)
  /\ p \in sessions
  /\ sessions' = sessions \ {p} /\ open' = open \ {p}
  /\ UNCHANGED <<kernel, subs, next_handle, link, main, stop_requested, srnp>>

\* run returns on a stopped context.
LeaveRun(w) ==
  /\ io[w] = "idle" /\ io_context = "stopped"
  /\ io' = [io EXCEPT ![w] = "ended"]
  /\ UNCHANGED <<kernel, client, link, main, stop_requested, srnp>>

-----------------------------------------------------------------------------
(* The render thread                                                       *)

Unsubscribe ==
  /\ subs' = subs \ {wildcard}
  /\ wildcard' = kInvalid
  /\ subscribed_to_all' = FALSE
  /\ UNCHANGED next_handle

\* Mutant: the state is not asked for.
ToggleAnytime(on) ==
  /\ main = "using" /\ next_handle < MaxHandles
  /\ on # subscribed_to_all /\ client_instance
  /\ IF on THEN subscribeToAll ELSE Unsubscribe
  /\ UNCHANGED <<kernel, io, sessions, open, link, main, stop_requested, state>>

\* setSubscribedToAll
Toggle(on) ==
  /\ main = "using" /\ next_handle < MaxHandles
  /\ on # subscribed_to_all /\ state = "Connected"
  /\ IF on THEN subscribeToAll ELSE Unsubscribe
  /\ UNCHANGED <<kernel, io, sessions, open, link, main, stop_requested, state>>

\* ~SrnpLink: request_stop, then join.
RequestStop ==
  /\ main = "using"
  /\ stop_requested' = TRUE
  /\ main' = "joining"
  /\ UNCHANGED <<kernel, io, client, link, srnp>>

JoinLink ==
  /\ main = "joining" /\ link = "ended"
  /\ main' = IF ok THEN "closing" ELSE "done"
  /\ UNCHANGED <<kernel, io, client, link, stop_requested, srnp>>

\* shutdown: Client::close takes the sessions and closes them.
CloseClient ==
  /\ main = "closing"
  /\ sessions' = {} /\ open' = open \ sessions
  /\ main' = "stopping"
  /\ UNCHANGED <<kernel, io, subs, next_handle, link, stop_requested, srnp>>

\* Mutant: the io context is not stopped.
StopNothing ==
  /\ main = "stopping"
  /\ main' = "stopped"
  /\ UNCHANGED <<kernel, io, client, link, stop_requested, srnp>>

\* Server::stop up to the join.
StopServer ==
  /\ main = "stopping"
  /\ io_context' = "stopped"
  /\ main' = "stopped"
  /\ UNCHANGED <<client_instance, server_instance, pair_space, io, client, link,
                 stop_requested, srnp>>

\* workers_.clear() joins the io threads.
JoinWorkers ==
  /\ main = "stopped"
  /\ \A w \in Workers : io[w] = "ended"
  /\ main' = "releasing"
  /\ UNCHANGED <<kernel, io, client, link, stop_requested, srnp>>

\* The end of shutdown.
Release ==
  /\ main = "releasing"
  /\ client_instance' = FALSE /\ server_instance' = FALSE /\ pair_space' = FALSE
  /\ io_context' = "none"
  /\ sessions' = {} /\ subs' = {}
  /\ main' = "done"
  /\ UNCHANGED <<io, next_handle, link, stop_requested, srnp>>

\* Mutant: ~Client closes nothing.
ResetOnly == Release /\ UNCHANGED open

\* ~Client closes the sessions made after Client::close.
Reset == Release /\ open' = open \ sessions

-----------------------------------------------------------------------------
(* The specification                                                       *)

Link == BeginAttempt \/ LoopEnds \/ MakeClient \/ FirstSubscription \/ Connected \/ Retry
Registration == RegistrationFails \/ MasterSilent \/ MasterAnswers
Teardown == JoinLink \/ CloseClient \/ StopServer \/ JoinWorkers \/ Reset
Worker(w) ==
  \/ EndHandler(w) \/ LeaveRun(w)
  \/ \E p \in Peers : AddSession(w, p) \/ RemoveSession(w, p)

Next ==
  \/ Link \/ Registration \/ Teardown \/ RequestStop
  \/ \E w \in Workers : BeginHandler(w) \/ Worker(w)
  \/ \E on \in BOOLEAN : Toggle(on)

Spec == Init /\ [][Next]_vars

\* The threads run, handlers return, an attempt comes to something, and a master
\* that is tried for ever answers in the end.
FairSpec ==
  /\ Spec
  /\ WF_vars(Link) /\ WF_vars(Teardown)
  /\ \A w \in Workers : WF_vars(Worker(w))
  /\ WF_vars(link = "registering" /\ Registration)
  /\ SF_vars(MasterAnswers)

-----------------------------------------------------------------------------
(* Properties                                                              *)

TypeOK ==
  /\ {client_instance, server_instance, pair_space, stop_requested, subscribed_to_all}
       \subseteq BOOLEAN
  /\ io_context \in {"none", "running", "stopped"}
  /\ io \in [Workers -> {"none", "idle", "handler", "ended"}]
  /\ sessions \subseteq Peers /\ open \subseteq Peers
  /\ subs \subseteq Nat /\ next_handle \in Nat /\ wildcard \in Nat
  /\ link \in {"idle", "initialize", "registering", "silent", "subscribing", "connected",
               "waiting", "ended"}
  /\ main \in {"using", "joining", "closing", "stopping", "stopped", "releasing", "done"}
  /\ state \in {"Disconnected", "Connecting", "Connected"}

\* "nothing is still touching these by the time they go": a handler runs only
\* while client, server, pair space and io context are all there.
HandlersAlive ==
  (\E w \in Workers : io[w] = "handler") =>
    ok /\ server_instance /\ pair_space /\ io_context # "none"

\* No session outlives the client, those included that a handler made between
\* Client::close and the end of the io threads.
SessionsClosed == ~ok => open = {}

\* No attempt finds the node of an earlier one still there.
OneNode == link = "initialize" => ~ok

\* Taking a node down, after a failed attempt or at the end, leaves nothing
\* behind and pulls nothing away from under a handler.
TakenDownWhole == HandlersAlive /\ SessionsClosed /\ OneNode

\* Once the link says it is connected, the wildcard subscription is in place
\* exactly when the link says so, under the handle the link keeps.
WildcardAgrees ==
  state = "Connected" /\ ok =>
    subs = IF subscribed_to_all THEN {wildcard} ELSE {}

\* Closing the window ends, unless the link's thread is waiting for a master that
\* has accepted the connection and says nothing.
DestroyEnds == main = "joining" ~> (main = "done" \/ link = "silent")

\* The link connects in the end, unless it is destroyed before.
Connects == <>(state = "Connected" \/ main # "using" \/ link = "silent")
=============================================================================
