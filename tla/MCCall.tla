------------------------------- MODULE MCCall -------------------------------
(* Instances of Call for TLC: two calls of each direction. *)
EXTENDS Call

CONSTANTS in1, in2, out1, out2
=============================================================================
