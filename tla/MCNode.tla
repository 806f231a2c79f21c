------------------------------- MODULE MCNode -------------------------------
(* Node on a small instance. *)
EXTENDS Node

CONSTANTS w1, w2, w3, w4, p1, p2
=============================================================================
