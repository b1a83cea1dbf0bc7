--------------------------- MODULE MCCallLifecycle ---------------------------
(* An instance of the calls for TLC.                                       *)
EXTENDS CallLifecycle
=============================================================================
