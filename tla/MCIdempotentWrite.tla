-------------------------- MODULE MCIdempotentWrite --------------------------
(* Instances of the idempotent write for TLC.                              *)
EXTENDS IdempotentWrite
=============================================================================
