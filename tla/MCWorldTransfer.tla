-------------------------- MODULE MCWorldTransfer --------------------------
(* Small instances of WorldTransfer: two worlds, and two connections or one *)
(* connection and an admin, all after the same few agents.                  *)
EXTENDS WorldTransfer
=============================================================================
