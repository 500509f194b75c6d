------------------------------- MODULE Indexer -------------------------------
(***************************************************************************)
(* The outbox drainer (crates/daimon-indexer) beside the store: it copies  *)
(* active records into the Qdrant collection and takes retracted ones out, *)
(* one outbox row at a time, while the store keeps committing.             *)
(*                                                                         *)
(* The indexer is a singleton, as its documentation requires.  A step of   *)
(* it is one call: a SQL statement or a Qdrant request.  Between two steps *)
(* the store may commit, Qdrant may go down or come back, and the indexer  *)
(* may die.  Qdrant keeps its points over an outage.                       *)
(*                                                                         *)
(* A point is its record's id: the payload is computed from columns no     *)
(* statement changes (MemoryStore!OneWayStatus), so it cannot differ from  *)
(* the record's.  A request that failed may or may not have taken effect;  *)
(* one that takes effect after the client gave up on it is not modelled.   *)
(***************************************************************************)
EXTENDS MemoryStore

CONSTANTS
    BatchLimit,    \* LIMIT of the batch SELECT (50)
    MaxAttempts,   \* MAX_ATTEMPTS (10)
    Poison,        \* records the embedder or Qdrant rejects every time
    CanPark        \* may a start find no embedder?

ASSUME BatchLimitAssumption == BatchLimit \in Nat \ {0}
ASSUME MaxAttemptsAssumption == MaxAttempts \in Nat \ {0}
ASSUME CanParkAssumption == CanPark \in BOOLEAN

VARIABLES
    points,    \* ids of the points in the collection
    qdrantUp,  \* does Qdrant answer?
    phase,     \* where the indexer is
    batch,     \* the rows of the batch it has not begun, as it read them
    row        \* the row it is working on, as it read it

indexVars == <<points, qdrantUp>>
drainVars == <<phase, batch, row>>
vars == <<storeVars, indexVars, drainVars>>

\* idle: between batches; fetched: rows read, health not yet checked;
\* rows: at the head of the for loop; call: about to call Qdrant for row;
\* mark: row succeeded; fail: row failed; parked: no embedder; down: no process.
Phase == {"idle", "fetched", "rows", "call", "mark", "fail", "parked", "down"}

TypeOK ==
    /\ StoreTypeOK
    /\ points \subseteq Record
    /\ qdrantUp \in BOOLEAN
    /\ phase \in Phase
    /\ batch \subseteq OutboxRow
    /\ IF phase \in {"call", "mark", "fail"} THEN row \in OutboxRow ELSE row = NoRow

ASSUME NoOutboxRowAssumption == NoRow \notin OutboxRow

Init ==
    /\ StoreInit
    /\ points = {}
    /\ qdrantUp = TRUE
    /\ phase = "idle"
    /\ batch = {}
    /\ row = NoRow

-----------------------------------------------------------------------------
\* MUTANT of Pending: the drainer keeps a cursor at the last id it processed.
Pending_Cursor ==
    {x \in outbox : ~x.processed /\ \A y \in outbox : y.processed => y.id < x.id}

\* The unprocessed rows, and the first BatchLimit of them by id.
Pending == {x \in outbox : ~x.processed}

NextBatch ==
    {x \in Pending : Cardinality({y \in Pending : y.id < x.id}) < BatchLimit}

-----------------------------------------------------------------------------
\* drain_batch: SELECT ... WHERE processed_at IS NULL ORDER BY id LIMIT 50.
Fetch ==
    /\ phase = "idle"
    /\ Pending # {}
    /\ batch' = NextBatch
    /\ phase' = "fetched"
    /\ UNCHANGED <<storeVars, indexVars, row>>

\* The outage guard, asked once per batch: no row is charged, the batch is
\* dropped and the main loop naps.
Defer ==
    /\ phase = "fetched"
    /\ ~qdrantUp
    /\ batch' = {}
    /\ phase' = "idle"
    /\ UNCHANGED <<storeVars, indexVars, row>>

Begin ==
    /\ phase = "fetched"
    /\ qdrantUp
    /\ phase' = "rows"
    /\ UNCHANGED <<storeVars, indexVars, batch, row>>

\* The head of the for loop: x is the next row of the batch.
Take(x) ==
    /\ phase = "rows"
    /\ x \in batch
    /\ \A y \in batch : x.id <= y.id
    /\ row' = x
    /\ batch' = batch \ {x}
    /\ UNCHANGED <<storeVars, indexVars>>

\* process_row, "upsert": the record is read again and is active; its text is
\* embedded next.
ReadActive(x) ==
    /\ Take(x)
    /\ x.op = "upsert"
    /\ Active(x.record)
    /\ phase' = "call"

\* process_row, "upsert": the record is gone or retracted; nothing to index.
SkipRetracted(x) ==
    /\ Take(x)
    /\ x.op = "upsert"
    /\ ~Active(x.record)
    /\ phase' = "mark"

\* process_row, "delete": no read, the call is next.
ReadDelete(x) ==
    /\ Take(x)
    /\ x.op = "delete"
    /\ phase' = "call"

\* MUTANT of ReadFails: a failed read is taken for "the record is gone".
ReadFails_AsGone(x) ==
    /\ Take(x)
    /\ x.op = "upsert"
    /\ phase' = "mark"

\* process_row fails before it calls Qdrant: the SELECT's connection is lost.
\* A row of either operation may instead fail in the call (see CallFails).
ReadFails(x) ==
    /\ Take(x)
    /\ x.op = "upsert"
    /\ phase' = "fail"

\* What the call on row leaves in the collection.
Applied ==
    IF row.op = "upsert" THEN points \cup {row.record} ELSE points \ {row.record}

Rejected == row.op = "upsert" /\ row.record \in Poison

\* store.upsert or store.delete returned: with wait(true) the point is there,
\* or gone.
CallSucceeds ==
    /\ phase = "call"
    /\ qdrantUp
    /\ ~Rejected
    /\ points' = Applied
    /\ phase' = "mark"
    /\ UNCHANGED <<storeVars, qdrantUp, batch, row>>

\* MUTANT of CallFails: a failed delete is swallowed.
CallFails_DeleteSwallowed ==
    /\ phase = "call"
    /\ \/ ~qdrantUp /\ UNCHANGED points
       \/ Rejected /\ UNCHANGED points
       \/ qdrantUp /\ ~Rejected /\ points' = Applied
    /\ phase' = IF row.op = "delete" THEN "mark" ELSE "fail"
    /\ UNCHANGED <<storeVars, qdrantUp, batch, row>>

\* The call failed: Qdrant is down, the record is poison, or the answer was
\* lost after the request took effect.
CallFails ==
    /\ phase = "call"
    /\ \/ ~qdrantUp /\ UNCHANGED points
       \/ Rejected /\ UNCHANGED points
       \/ qdrantUp /\ ~Rejected /\ points' = Applied
    /\ phase' = "fail"
    /\ UNCHANGED <<storeVars, qdrantUp, batch, row>>

\* UPDATE ... SET processed_at=now().
MarkProcessed ==
    /\ phase = "mark"
    /\ outbox' = {IF x.id = row.id THEN [x EXCEPT !.processed = TRUE] ELSE x :
                   x \in outbox}
    /\ phase' = "rows"
    /\ row' = NoRow
    /\ UNCHANGED <<records, namespaces, indexVars, batch>>

\* MUTANT of ChargeAttempt: the row at the cap is retried once more.
ChargeAttempt_PastCap ==
    /\ phase = "fail"
    /\ row.attempts + 1 <= MaxAttempts
    /\ outbox' = {IF x.id = row.id THEN [x EXCEPT !.attempts = row.attempts + 1]
                   ELSE x : x \in outbox}
    /\ phase' = "rows"
    /\ row' = NoRow
    /\ UNCHANGED <<records, namespaces, indexVars, batch>>

\* MUTANT of ChargeAttempt: the UPDATE matches record_id instead of id.
ChargeAttempt_ByRecord ==
    /\ phase = "fail"
    /\ row.attempts + 1 < MaxAttempts
    /\ outbox' = {IF x.record = row.record
                   THEN [x EXCEPT !.attempts = row.attempts + 1]
                   ELSE x : x \in outbox}
    /\ phase' = "rows"
    /\ row' = NoRow
    /\ UNCHANGED <<records, namespaces, indexVars, batch>>

\* UPDATE ... SET attempts=$2: the row stays in the queue.
ChargeAttempt ==
    /\ phase = "fail"
    /\ row.attempts + 1 < MaxAttempts
    /\ outbox' = {IF x.id = row.id THEN [x EXCEPT !.attempts = row.attempts + 1]
                   ELSE x : x \in outbox}
    /\ phase' = "rows"
    /\ row' = NoRow
    /\ UNCHANGED <<records, namespaces, indexVars, batch>>

\* UPDATE ... SET processed_at=now(), attempts=$2: the queue moves on.
DeadLetter ==
    /\ phase = "fail"
    /\ row.attempts + 1 >= MaxAttempts
    /\ outbox' = {IF x.id = row.id
                   THEN [x EXCEPT !.processed = TRUE, !.attempts = row.attempts + 1]
                   ELSE x : x \in outbox}
    /\ phase' = "rows"
    /\ row' = NoRow
    /\ UNCHANGED <<records, namespaces, indexVars, batch>>

\* MUTANT of UpdateFails: the row in hand outlives its batch.
UpdateFails_KeepsRow ==
    /\ phase \in {"mark", "fail"}
    /\ phase' = "idle"
    /\ batch' = {}
    /\ UNCHANGED <<storeVars, indexVars, row>>

\* The UPDATE itself failed: the error leaves drain_batch with the rest of the
\* batch unprocessed, and the main loop naps.
UpdateFails ==
    /\ phase \in {"mark", "fail"}
    /\ phase' = "idle"
    /\ batch' = {}
    /\ row' = NoRow
    /\ UNCHANGED <<storeVars, indexVars>>

EndBatch ==
    /\ phase = "rows"
    /\ batch = {}
    /\ phase' = "idle"
    /\ UNCHANGED <<storeVars, indexVars, batch, row>>

\* The process dies, or is stopped, at any point.
Crash ==
    /\ phase # "down"
    /\ phase' = "down"
    /\ batch' = {}
    /\ row' = NoRow
    /\ UNCHANGED <<storeVars, indexVars>>

\* main: ensure() needs Qdrant (a failure there ends the process, which is
\* down already); then the embedder loads, or the indexer parks for good.
Restart ==
    /\ phase = "down"
    /\ qdrantUp
    /\ phase' = "idle"
    /\ UNCHANGED <<storeVars, indexVars, batch, row>>

Park ==
    /\ phase = "down"
    /\ qdrantUp
    /\ CanPark
    /\ phase' = "parked"
    /\ UNCHANGED <<storeVars, indexVars, batch, row>>

QdrantFails ==
    /\ qdrantUp
    /\ qdrantUp' = FALSE
    /\ UNCHANGED <<storeVars, points, drainVars>>

QdrantRecovers ==
    /\ ~qdrantUp
    /\ qdrantUp' = TRUE
    /\ UNCHANGED <<storeVars, points, drainVars>>

-----------------------------------------------------------------------------
StoreStep == StoreNext /\ UNCHANGED <<indexVars, drainVars>>

ProcessRow ==
    \E x \in batch :
      ReadActive(x) \/ SkipRetracted(x) \/ ReadDelete(x) \/ ReadFails(x)

Drain ==
    \/ Fetch \/ Defer \/ Begin \/ ProcessRow
    \/ CallSucceeds \/ CallFails
    \/ MarkProcessed \/ ChargeAttempt \/ DeadLetter \/ UpdateFails
    \/ EndBatch

Environment == Crash \/ Restart \/ Park \/ QdrantFails \/ QdrantRecovers

Next == StoreStep \/ Drain \/ Environment

Spec == Init /\ [][Next]_vars
-----------------------------------------------------------------------------
\* What a query for dead-lettered rows finds: attempts >= 10 AND processed_at
\* IS NOT NULL.
DeadLettered(x) == x.processed /\ x.attempts >= MaxAttempts

Outstanding(x) == ~x.processed \/ DeadLettered(x)

\* A retraction that the outbox calls done is done for good: while r's point is
\* in the collection, every delete row its tenant queued is unprocessed or
\* dead-lettered.  An upsert prepared from an earlier read, retried or replayed
\* after a crash never brings a deleted point back.
RetractionSticks ==
    \A r \in points : \A d \in OwnRows(r, "delete") : Outstanding(d)

\* No memory is silently missing from semantic recall: an active record
\* without a point has its upsert row in the queue or in the dead letters, or
\* another tenant's forget() put a delete row for it in the queue.
NoSilentGap ==
    \A r \in Record : (Active(r) /\ r \notin points) =>
      \/ \E u \in OwnRows(r, "upsert") : Outstanding(u)
      \/ \E x \in outbox : /\ x.record = r
                           /\ x.op = "delete"
                           /\ x.tenant # records[r].tenant

\* The retry counter and the processed mark agree: a row still in the queue has
\* been charged less than the cap, and a row at the cap has left the queue.
CapEndsRetries ==
    \A x \in outbox : x.processed \/ x.attempts < MaxAttempts

\* What was processed is final, no row loses an attempt, and no row is moved to
\* another record or operation.
ProcessedIsFinal ==
    [][\A x \in outbox : \E y \in outbox' :
         /\ y.id = x.id /\ y.record = x.record /\ y.op = x.op
         /\ y.attempts >= x.attempts
         /\ x.processed => y = x
      ]_vars

-----------------------------------------------------------------------------
\* The refinement mapping.  A record is due while a row about it is outstanding;
\* another tenant's row is about a record that is none of its business and keeps
\* the record due for good.
Live == {r \in Record : Active(r)}
Retracted == {r \in Record : Exists(r) /\ ~Active(r)}
Due ==
    {r \in Record : \E x \in outbox :
       /\ x.record = r
       /\ Outstanding(x) \/ x.tenant # records[r].tenant}

Index == INSTANCE SearchIndex
           WITH live <- Live, retracted <- Retracted, found <- points, due <- Due

\* Seen from outside, the outbox, the batches, the calls, crashes and retries are
\* an index that is wrong about a record only while it says so: every step of
\* the store, the drainer and their environment is one of SearchIndex or none.
ImplementsIndex == Index!Spec

-----------------------------------------------------------------------------
\* Fairness.  A running indexer takes its next step (the main loop never stops
\* on its own), a stopped one is started again by its supervisor, and an outage
\* of Qdrant ends.  Nothing is assumed of the store.
Fairness == WF_vars(Drain) /\ WF_vars(Restart) /\ WF_vars(QdrantRecovers)

FairSpec == Spec /\ Fairness

\* Steps in which the process, a connection to PostgreSQL or Qdrant is lost.
Fault == Crash \/ QdrantFails \/ UpdateFails \/ \E x \in batch : ReadFails(x)

\* Faults may come in any number and at any step, but not forever.
FaultsCease == <>[][~Fault]_vars

\* No row is stuck: once the faults cease, every row of the outbox is processed,
\* behind however many poison rows it waits and in whatever order the ids
\* became visible.
EveryRowProcessed ==
    FaultsCease =>
      \A i \in OutboxId :
        i \in UsedIds ~> \E x \in outbox : x.id = i /\ x.processed

\* The collection converges: once the faults cease, a retracted record's point is
\* gone for good unless its delete was dead-lettered, and an active record has
\* a point unless it is retracted or its upsert was dead-lettered.
IndexConverges ==
    FaultsCease =>
      \A r \in Record :
        /\ (Exists(r) /\ ~Active(r)) ~>
             \/ [](r \notin points)
             \/ \E d \in OwnRows(r, "delete") : DeadLettered(d)
        /\ Active(r) ~>
             \/ r \in points
             \/ ~Active(r)
             \/ \E u \in OwnRows(r, "upsert") : DeadLettered(u)
=============================================================================
