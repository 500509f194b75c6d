------------------------------ MODULE MCReindex ------------------------------
EXTENDS Reindex, TLC

MCOutboxId == 1..3

Symmetry == Permutations(Record) \cup Permutations(Body)
=============================================================================
