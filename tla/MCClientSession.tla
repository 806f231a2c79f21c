-------------------------- MODULE MCClientSession ---------------------------
(* ClientSession on small instances. *)
EXTENDS ClientSession, TLC

CONSTANTS k1, k2, s1, s2, w1

MCSymmetry == Permutations({k1, k2})
=============================================================================
