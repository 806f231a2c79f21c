------------------------------ MODULE MCLocks -------------------------------
(* Locks with the paths of the library. *)
EXTENDS LockPaths
=============================================================================
