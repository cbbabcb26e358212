------------------------ MODULE MCGatewayConnection ------------------------
(* Small instances of GatewayConnection for TLC. *)
EXTENDS GatewayConnection

CONSTANTS loop, ping, r1, r2
=============================================================================
