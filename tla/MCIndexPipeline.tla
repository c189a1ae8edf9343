-------------------------- MODULE MCIndexPipeline --------------------------
(* A tick with up to two audits, one action or none and a snapshot of one    *)
(* agent; with SQLite a second run over the same tick.                       *)
EXTENDS IndexPipeline

MCRuns == [sqlite |-> 2, d1 |-> 1]
=============================================================================
