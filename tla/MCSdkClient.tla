---------------------------- MODULE MCSdkClient ----------------------------
(* Small instances of SdkClient for TLC. *)
EXTENDS SdkClient

CONSTANTS boot, loop, ping, a1, c1, c2
=============================================================================
