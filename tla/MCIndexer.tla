------------------------------ MODULE MCIndexer ------------------------------
EXTENDS Indexer, TLC

MCOutboxId == 1..4

Symmetry == Permutations(Record) \cup Permutations(Body) \cup Permutations(Tenant)
=============================================================================
