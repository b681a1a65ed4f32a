---------------------------- MODULE MCCallTracer ----------------------------
(* At most two iterations over two items and three calls, jumps or iterations.*)
EXTENDS CallTracer
=============================================================================
