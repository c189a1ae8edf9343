-------------------------- MODULE MCBridgeSessions --------------------------
(* Small instances of BridgeSessions.                                      *)
EXTENDS BridgeSessions
=============================================================================
