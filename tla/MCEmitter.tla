------------------------------ MODULE MCEmitter ------------------------------
(* Model-checking instance of Emitter. *)
EXTENDS Emitter
=============================================================================
