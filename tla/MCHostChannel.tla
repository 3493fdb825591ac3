--------------------------- MODULE MCHostChannel ---------------------------
(* Model checking of HostChannel: the .cfg files give the constants.       *)
EXTENDS HostChannel
=============================================================================
