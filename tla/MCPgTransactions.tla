--------------------------- MODULE MCPgTransactions ---------------------------
EXTENDS PgTransactions, TLC

MCOutboxId == 1..4

Symmetry == Permutations(Record) \cup Permutations(Body) \cup Permutations(Session)
              \cup Permutations(Tenant) \cup Permutations(Namespace)

\* A bound: writes of Update and of Append kinds are not mixed (they differ in
\* content and in subject, so neither sees the other's records), and no step is
\* taken after the second record of an Append kind.
Stored == {r \in Record : Exists(r)}
Titles == {records[r].title : r \in Stored}
            \cup {txn[s].write.title : s \in {o \in Session : IsStore(o)}}
OneMode ==
    \/ Titles \subseteq UpdateTitle
    \/ Titles \cap UpdateTitle = {} /\ Cardinality(Stored) <= 1
=============================================================================
