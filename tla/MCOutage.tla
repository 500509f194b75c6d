------------------------------- MODULE MCOutage -------------------------------
(* What Indexer's documentation says of outages, on the instance of MCIndexer. *)
EXTENDS MCIndexer

\* History: the row in hand failed because its Qdrant request met no Qdrant.
VARIABLE unreached

OutageInit == Init /\ unreached = FALSE

OutageNext ==
    /\ Next
    /\ unreached' =
         (phase' = "fail" /\ (unreached \/ (phase = "call" /\ ~qdrantUp)))

OutageSpec == OutageInit /\ [][OutageNext]_<<vars, unreached>>

\* An outage of Qdrant costs no row an attempt: a row that failed because its
\* request did not reach Qdrant is not charged for that (drain_batch).
OutageNotCharged ==
    [][(\E x \in outbox, y \in outbox' : y.id = x.id /\ y.attempts > x.attempts)
         => ~unreached]_<<vars, unreached>>
=============================================================================
