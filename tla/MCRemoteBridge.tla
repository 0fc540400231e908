--------------------------- MODULE MCRemoteBridge ---------------------------
(* An instance of RemoteBridge for TLC. *)
EXTENDS RemoteBridge

CONSTANT laptop
=============================================================================
