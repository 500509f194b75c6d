---------------------------- MODULE MCIndexerLive ----------------------------
(* No symmetry here: it is unsound for liveness.                              *)
EXTENDS Indexer

MCOutboxId == 1..3
=============================================================================
