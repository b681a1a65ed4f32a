------------------------------ MODULE MCSignals ------------------------------
(* A signal that stops the run when it has no handler, and one that does not. *)
EXTENDS Signals
=============================================================================
