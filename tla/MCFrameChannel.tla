--------------------------- MODULE MCFrameChannel ---------------------------
(* FrameChannel on small instances. *)
EXTENDS FrameChannel, TLC

CONSTANTS k1, k2, t1, t2
=============================================================================
