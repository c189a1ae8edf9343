----------------------------- MODULE MCEventLog -----------------------------
(* Small instances of EventLog: logs of two or three entries and a channel   *)
(* of one or two messages, both too small for the events there are.          *)
EXTENDS EventLog
=============================================================================
