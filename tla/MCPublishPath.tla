--------------------------- MODULE MCPublishPath ----------------------------
(* PublishPath on small instances. *)
EXTENDS PublishPath, TLC

CONSTANTS k1, f1, p1, p2, t1, t2
=============================================================================
