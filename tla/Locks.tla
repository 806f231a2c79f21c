------------------------------- MODULE Locks --------------------------------
(***************************************************************************)
(* The mutexes of one process and the threads that take them.  All are     *)
(* std::mutex, which is not recursive, under std::lock_guard: a mutex is   *)
(* held for a scope, and scopes nest.                                      *)
(*                                                                         *)
(* A call of the library is a path: the locks and unlocks on the longest   *)
(* way through the code, each step with the mutexes that are held where it *)
(* stands.  A condition in the code makes a thread leave steps of its      *)
(* scope out, never a mutex locked.  LockPaths has the paths.              *)
(***************************************************************************)
EXTENDS Integers, Sequences

CONSTANTS Threads,
          Mutexes,
          Nobody,     \* the owner of a mutex that is free
          Paths,      \* what the threads call: the API and the io handlers
          Callbacks,  \* what a user callback may call
          Rank,       \* the order in which the mutexes are meant to be taken
          MaxCalls    \* bound: calls in a behaviour

Step == [op : {"lock", "unlock", "callback"}, m : Mutexes \cup {Nobody},
         held : SUBSET Mutexes]

\* What is held at the head of the rest of a path.
Held(rest) == IF rest = <<>> THEN {} ELSE Head(rest).held

\* What is held once a step is done.
After(s) ==
  CASE s.op = "lock"     -> s.held \cup {s.m}
    [] s.op = "unlock"   -> s.held \ {s.m}
    [] s.op = "callback" -> s.held

\* Scopes: a path begins and ends with nothing held, every step leaves what the
\* next one says is held, and what is unlocked had been locked.
Scoped(path) ==
  /\ path \in Seq(Step)
  /\ Held(path) = {}
  /\ \A i \in 1..Len(path) :
       /\ path[i].op # "callback" => path[i].m \in Mutexes
       /\ path[i].op = "unlock" => path[i].m \in path[i].held
       /\ After(path[i]) = IF i = Len(path) THEN {} ELSE path[i + 1].held

ASSUME PathsAssumption == \A path \in Paths \cup Callbacks : Scoped(path)
ASSUME RankAssumption  == Rank \in [Mutexes -> Nat]
ASSUME FreeAssumption  == Nobody \notin Threads \cup Mutexes
ASSUME CallsAssumption == MaxCalls \in Nat

VARIABLES
  owner,  \* the thread that holds each mutex, or Nobody
  rest,   \* the rest of each thread's path
  calls   \* calls so far

vars == <<owner, rest, calls>>

Init ==
  /\ owner = [m \in Mutexes |-> Nobody]
  /\ rest = [t \in Threads |-> <<>>]
  /\ calls = 0

-----------------------------------------------------------------------------

\* Where a thread may go on from the head of s: there, or further on in the
\* same scope, as the code's conditions have it.
Onwards(s) ==
  {SubSeq(s, i, Len(s)) : i \in {j \in 1..Len(s) : s[j].held = Held(s)}}
  \cup (IF Held(s) = {} THEN {<<>>} ELSE {})

Call(t) ==
  /\ rest[t] = <<>> /\ calls < MaxCalls
  /\ calls' = calls + 1
  /\ \E path \in Paths : \E s \in Onwards(path) : rest' = [rest EXCEPT ![t] = s]
  /\ UNCHANGED owner

\* A thread at a step of this kind takes it and goes on.
Take(t, op) ==
  /\ rest[t] # <<>> /\ Head(rest[t]).op = op
  /\ \E s \in Onwards(Tail(rest[t])) : rest' = [rest EXCEPT ![t] = s]
  /\ UNCHANGED calls

Lock(t) ==
  /\ Take(t, "lock")
  /\ owner[Head(rest[t]).m] = Nobody
  /\ owner' = [owner EXCEPT ![Head(rest[t]).m] = t]

Unlock(t) ==
  /\ Take(t, "unlock")
  /\ owner' = [owner EXCEPT ![Head(rest[t]).m] = Nobody]

\* A user callback calls the library in turn, or does not.
RunCallback(t) ==
  \/ Take(t, "callback") /\ UNCHANGED owner
  \/ /\ rest[t] # <<>> /\ Head(rest[t]).op = "callback"
     /\ \E path \in Callbacks : \E s \in Onwards(path) :
          rest' = [rest EXCEPT ![t] = s \o Tail(@)]
     /\ UNCHANGED <<owner, calls>>

Run(t) == Lock(t) \/ Unlock(t) \/ RunCallback(t)

Next == \E t \in Threads : Call(t) \/ Run(t)

Spec == Init /\ [][Next]_vars

\* The scheduler runs every thread that can run.  The mutexes need not be fair:
\* the calls of a behaviour are finitely many.
FairSpec == Spec /\ \A t \in Threads : WF_vars(Run(t))

-----------------------------------------------------------------------------
(* Properties                                                              *)

TypeOK ==
  /\ owner \in [Mutexes -> Threads \cup {Nobody}]
  /\ rest \in [Threads -> Seq(Step)]
  /\ calls \in 0..MaxCalls

\* Mutual exclusion and scope: a thread holds exactly the mutexes of the scope it
\* is in.
ScopesHeld == \A t \in Threads : {m \in Mutexes : owner[m] = t} = Held(rest[t])

\* A thread that waits for a mutex holds only mutexes of lower rank: no thread
\* waits for itself, and no threads wait for one another in a circle, whatever
\* user callbacks call.  They run "outside the lock, so a slow user callback
\* cannot block the pair space" (applyAndNotify), nor anything else.
LockOrder ==
  \A t \in Threads : rest[t] # <<>> =>
    /\ Head(rest[t]).op = "lock" =>
         \A m \in Mutexes : owner[m] = t => Rank[m] < Rank[Head(rest[t]).m]
    /\ Head(rest[t]).op = "callback" => \A m \in Mutexes : owner[m] # t

\* Every call of the library returns.
CallsReturn == \A t \in Threads : rest[t] # <<>> ~> rest[t] = <<>>
=============================================================================
