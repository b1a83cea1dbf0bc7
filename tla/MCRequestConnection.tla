------------------------ MODULE MCRequestConnection ------------------------
(* Instances of the request connections for TLC.                           *)
EXTENDS RequestConnection
=============================================================================
