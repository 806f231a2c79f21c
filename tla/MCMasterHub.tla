---------------------------- MODULE MCMasterHub -----------------------------
(* MasterHub on small instances. *)
EXTENDS MasterHub

\* The first two components draw the same id: a restart on the same port.
CONSTANTS c1, c2, c3

MCSeed == [c \in Components |-> IF c = c3 THEN 2 ELSE 1]
=============================================================================
