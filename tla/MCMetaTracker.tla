--------------------------- MODULE MCMetaTracker ----------------------------
(* MetaTracker on small instances. *)
EXTENDS MetaTracker

CONSTANTS m1, m2, k1, k2, f1, f2, s1, s2
=============================================================================
