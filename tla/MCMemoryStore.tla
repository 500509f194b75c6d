---------------------------- MODULE MCMemoryStore ----------------------------
(* MemoryStore on a small instance.  Record ids are interchangeable (none is  *)
(* compared with another by order), and so are bodies and namespaces.         *)
EXTENDS MemoryStore, TLC

MCOutboxId == 1..5

Symmetry == Permutations(Record) \cup Permutations(Body)
              \cup Permutations(Namespace) \cup Permutations(Tenant)
=============================================================================
