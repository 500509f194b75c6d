---------------------------- MODULE ReindexProofs ----------------------------
(***************************************************************************)
(* Theorems about Reindex, for every value of the constants: a rebuild may *)
(* be begun, stopped and begun again any number of times, beside a store,  *)
(* an indexer, imports and starting processes that take steps between any  *)
(* two of its own.                                                         *)
(*                                                                         *)
(* The argument.  What the indexer holds is sound whatever happens to the  *)
(* collection (Rows).  Once the records to rebuild have been read, the     *)
(* points there are and those still to come together miss none of them     *)
(* that is still active, and no later one the outbox does not account for  *)
(* (Filling): what is committed later has its row in the queue.  From the  *)
(* moment the collection was emptied until the rebuild is spoiled, it      *)
(* holds no point whose delete is done (Following): an upsert of the       *)
(* rebuild cannot put one back while the records it has in hand are        *)
(* active.                                                                 *)
(***************************************************************************)
EXTENDS Reindex, IndexerProofs

\* The queue, and what the indexer holds of it.
Rows == OutboxKeys /\ OutboxOwners /\ CapEndsRetries /\ Snapshot /\ CallIsCovered

\* What the rebuild holds: nothing between its runs, and, as long as it is
\* clean, active records.
InHand ==
    /\ step # "upsert" => todo = {}
    /\ \A r \in owed : Exists(r)
    /\ rebuild = "clean" => \A r \in todo : Active(r)

\* An active record that has no point, and will not get one from the rebuild.
Missing(r) == Active(r) /\ r \notin points \cup todo

\* A record stored after the SELECT, whose upsert row is not done.
Queued(r) == r \notin owed /\ \E u \in OwnRows(r, "upsert") : Outstanding(u)

\* Since the SELECT, every record the rebuild will not bring was stored later and
\* is accounted for by the outbox, and an upsert row about to be marked has had
\* its effect.
Filling ==
    rebuild # "due" =>
      /\ \A r \in Record : Missing(r) => Queued(r) \/ ForeignDelete(r)
      /\ (phase = "mark" /\ row.op = "upsert" /\ Missing(row.record)) =>
           ForeignDelete(row.record)

\* The collection was emptied, and nothing has put a retracted point in it since.
Followed == step \in {"create", "select"} \/ rebuild = "clean"

OwnDelete == row.op = "delete" /\ row.tenant = records[row.record].tenant

Following ==
    Followed =>
      /\ RetractionSticks
      /\ (phase = "mark" /\ OwnDelete) => row.record \notin points

RInv == ReindexTypeOK /\ Rows /\ InHand /\ Filling /\ Following

-----------------------------------------------------------------------------
(***************************************************************************)
(* A step is one of these.                                                 *)
(***************************************************************************)
Imports ==
    \E t \in Tenant, w \in MemoryWrite, r \in Record, st \in ImportStatus :
      Import(t, w, r, st)

Calls == (CallSucceeds \/ CallFails \/ CallRefused) /\ UNCHANGED reindexVars

Updates == (MarkProcessed \/ ChargeAttempt \/ DeadLetter) /\ UNCHANGED reindexVars

\* The indexer reads, skips, defers, ends, dies or starts.
Moves ==
    /\ Fetch \/ Defer \/ Begin \/ EndBatch \/ ProcessRow \/ UpdateFails \/ Environment
    /\ UNCHANGED <<Tables, points, step, todo, rebuild, owed>>

\* The others leave the tables and the indexer alone.
Rebuilds ==
    /\ UNCHANGED <<storeVars, qdrantUp, drainVars>>
    /\ \/ Reindexing
       \/ UNCHANGED <<points, step, todo, rebuild, owed>>

\* There is no other step.
LEMMA StepCases ==
    ASSUME [ReindexNext]_allVars
    PROVE  Rebuilds \/ Imports \/ StoreBesideReindex \/ Moves \/ Calls \/ Updates
<1> USE DEF vars, storeVars, indexVars, drainVars, reindexVars, allVars, Tables
<1>1. CASE UNCHANGED allVars
  BY <1>1 DEF Rebuilds
<1>2. CASE Reindexing
  BY <1>2 DEF Rebuilds, Reindexing, Drop, Create, Select, Finish, Stop, UpsertOne
<1>3. CASE Ensure
  <2>1. ASSUME NEW p \in Starter, EnsureAsks(p) \/ EnsureFails(p) PROVE Rebuilds
    BY <2>1 DEF EnsureAsks, EnsureFails, Rebuilds
  <2>2. CASE ServerCreates
    BY <2>2 DEF ServerCreates, Rebuilds
  <2>3. CASE IndexerCreates \/ IndexerStarts
    BY <2>3 DEF IndexerCreates, IndexerStarts, Restart, Park, Environment, Moves
  <2> QED BY <1>3, <2>1, <2>2, <2>3 DEF Ensure
<1>4. CASE IndexerBesideReindex
  <2>1. CASE Fetch \/ Defer \/ Begin \/ EndBatch \/ UpdateFails \/ Crash
               \/ QdrantFails \/ QdrantRecovers
    BY <1>4, <2>1 DEF IndexerBesideReindex, Fetch, Defer, Begin, EndBatch, UpdateFails,
                      Crash, QdrantFails, QdrantRecovers, Environment, Moves
  <2>2. CASE ProcessRow
    BY <1>4, <2>2 DEF IndexerBesideReindex, ProcessRow, ReadActive, SkipRetracted,
                      ReadDelete, ReadFails, Take, Moves
  <2> QED BY <1>4, <2>1, <2>2 DEF IndexerBesideReindex, Calls, Updates
<1> QED BY <1>1, <1>2, <1>3, <1>4 DEF ReindexNext, Imports

-----------------------------------------------------------------------------
\* Types: what the indexer and the store do is already known (TypeStep).
LEMMA ReindexTypeStep ==
    ASSUME ReindexTypeOK, [ReindexNext]_allVars
    PROVE  ReindexTypeOK'
<1> USE DEF ReindexTypeOK, ReindexStep, Starter, Rebuild
<1>1. CASE UNCHANGED allVars
  BY <1>1 DEF allVars, vars, storeVars, indexVars, drainVars, reindexVars, TypeOK,
              StoreTypeOK
<1>2. CASE Reindexing
  <2>1. /\ UNCHANGED <<storeVars, qdrantUp, drainVars>>
        /\ points' \subseteq Record
    BY <1>2 DEF Reindexing, Drop, Create, Select, Finish, Stop, UpsertOne, TypeOK,
                vars, storeVars, indexVars, drainVars
  <2>2. TypeOK'
    BY <2>1 DEF TypeOK, StoreTypeOK, storeVars, drainVars
  <2>3. /\ collection' \in BOOLEAN /\ step' \in ReindexStep
        /\ todo' \subseteq Record /\ starting' \subseteq Starter
        /\ rebuild' \in Rebuild /\ owed' \subseteq Record
        /\ ~collection' => points' = {}
    BY <1>2 DEF Reindexing, Drop, Create, CreateCollection, Select, Live, Finish, Stop,
                UpsertOne, vars, indexVars
  <2> QED BY <2>2, <2>3
<1>3. CASE Ensure
  <2>1. ASSUME NEW p \in Starter, EnsureAsks(p) \/ EnsureFails(p)
        PROVE  ReindexTypeOK'
    BY <2>1 DEF EnsureAsks, EnsureFails, CreateCollection, vars, storeVars, indexVars,
                drainVars, TypeOK, StoreTypeOK
  <2>2. CASE ServerCreates
    BY <2>2 DEF ServerCreates, CreateCollection, vars, storeVars, indexVars, drainVars,
                TypeOK, StoreTypeOK
  <2>3. CASE IndexerCreates \/ IndexerStarts
    BY <2>3 DEF IndexerCreates, IndexerStarts, CreateCollection, Restart, Park,
                reindexVars, storeVars, indexVars, TypeOK, StoreTypeOK, Phase
  <2> QED BY <1>3, <2>1, <2>2, <2>3 DEF Ensure
<1>4. ASSUME NEW t \in Tenant, NEW w \in MemoryWrite, NEW r \in Record,
             NEW st \in ImportStatus, Import(t, w, r, st)
      PROVE  ReindexTypeOK'
  <2>1. [tenant |-> t, namespace |-> w.namespace, title |-> w.title,
         body |-> w.body, status |-> st] \in RecordRow
    BY ImportStatusAssumption DEF MemoryWrite, RecordRow
  <2>2. StoreTypeOK'
    BY <1>4, <2>1 DEF Import, StoreTypeOK, TypeOK, MemoryWrite
  <2> QED BY <1>4, <2>2 DEF Import, indexVars, drainVars, TypeOK
<1>5. CASE StoreBesideReindex
  BY <1>5, TypeStep DEF StoreBesideReindex, Next, StoreStep, indexVars, drainVars
<1>6. CASE IndexerBesideReindex
  <2>1. CASE CallRefused
    BY <2>1, <1>6 DEF CallRefused, IndexerBesideReindex, reindexVars, storeVars,
                      indexVars, TypeOK, StoreTypeOK, Phase
  <2>2. CASE ~CallRefused
    <3>1. Next
      BY <1>6, <2>2 DEF IndexerBesideReindex, Next, Drain, Environment
    <3>2. TypeOK'
      BY <3>1, TypeStep
    <3>3. points' = points \/ collection
      BY <1>6, <2>2 DEF IndexerBesideReindex, Fetch, Defer, Begin, EndBatch, UpdateFails,
            Crash, QdrantFails, QdrantRecovers, ProcessRow, ReadActive, SkipRetracted,
            ReadDelete, ReadFails, Take, MarkProcessed, ChargeAttempt, DeadLetter,
            indexVars
    <3> QED BY <1>6, <3>2, <3>3 DEF IndexerBesideReindex, reindexVars
  <2> QED BY <2>1, <2>2
<1> QED BY <1>1, <1>2, <1>3, <1>4, <1>5, <1>6 DEF ReindexNext

\* Every variable keeps its type, and there are points only in a collection.
THEOREM ReindexTypes == ReindexSpec => []ReindexTypeOK
<1>1. ReindexInit => ReindexTypeOK
  BY DEF ReindexInit, Init, StoreInit, ReindexTypeOK, TypeOK, StoreTypeOK, Phase,
         ReindexStep, Rebuild
<1>2. ReindexTypeOK /\ [ReindexNext]_allVars => ReindexTypeOK'
  BY ReindexTypeStep
<1> QED BY <1>1, <1>2, PTL DEF ReindexSpec

-----------------------------------------------------------------------------
Sound == Rows /\ InHand /\ Filling /\ Following

\* What depends on the tables alone.
LEMMA TablesKept ==
    ASSUME UNCHANGED Tables
    PROVE  /\ Pending' = Pending
           /\ \A r, op : OwnRows(r, op)' = OwnRows(r, op)
           /\ \A r : Exists(r)' = Exists(r)
           /\ \A r : Active(r)' = Active(r)
           /\ \A r : ForeignDelete(r)' = ForeignDelete(r)
           /\ OutboxKeys' = OutboxKeys
           /\ OutboxOwners' = OutboxOwners
           /\ CapEndsRetries' = CapEndsRetries
BY DEF Tables, Pending, OwnRows, Active, Exists, ForeignDelete, OutboxKeys,
       OutboxOwners, CapEndsRetries

\* The row in hand is one of the outbox.
LEMMA RowInHand ==
    ASSUME RInv, phase \in {"call", "mark", "fail"}
    PROVE  /\ row \in OutboxRow /\ row \in outbox /\ ~row.processed
           /\ Exists(row.record)
BY NoOutboxRowAssumption
   DEF RInv, ReindexTypeOK, TypeOK, Rows, Snapshot, Pending, OutboxKeys

\* The rebuild's own steps.
LEMMA RebuildKeeps ==
    ASSUME RInv, Rebuilds
    PROVE  Sound'
<1> USE DEF RInv, Sound
<1>1. UNCHANGED Tables /\ UNCHANGED drainVars /\ UNCHANGED <<phase, batch, row>>
  BY DEF Rebuilds, Tables, storeVars, drainVars
<1>2. Rows'
  BY <1>1, TablesKept DEF Rows, Snapshot, CallIsCovered
<1>3. CASE UNCHANGED <<points, step, todo, rebuild, owed>>
  <2>1. UNCHANGED records
    BY <1>1 DEF Tables
  <2> QED BY <1>1, <1>2, <1>3, <2>1, TablesKept
             DEF InHand, Filling, Queued, Outstanding, DeadLettered, Following,
                 Followed, Missing, OwnDelete, RetractionSticks
<1>4. CASE Drop
  BY <1>1, <1>2, <1>4 DEF Drop, InHand, Filling, Following, RetractionSticks
<1>5. CASE Create
  <2>1. UNCHANGED <<points, todo, rebuild, owed, records>> /\ step = "create" /\ step' = "select"
    BY <1>5 DEF Create, vars, indexVars, storeVars
  <2> QED BY <1>1, <1>2, <2>1, TablesKept
             DEF InHand, Filling, Queued, Outstanding, DeadLettered, Following,
                 Followed, Missing, OwnDelete, RetractionSticks
<1>6. CASE Select
  <2>1. /\ UNCHANGED <<points, records>> /\ step = "select" /\ step' = "upsert"
        /\ rebuild' = "clean" /\ todo' = {r \in Record : Active(r)}
        /\ owed' = todo'
    BY <1>6 DEF Select, Live, vars, indexVars, storeVars
  <2>2. (phase = "mark") => row.record \in Record
    BY RowInHand DEF OutboxRow
  <2>3. InHand'
    BY <2>1, <1>1, TablesKept DEF InHand, Active, Exists
  <2>4. \A r \in Record : ~Missing(r)'
    BY <1>1, <2>1, TablesKept DEF Missing
  <2>5. Filling'
    BY <1>1, <2>2, <2>4 DEF Filling
  <2> QED BY <1>1, <1>2, <2>1, <2>3, <2>5, TablesKept
             DEF Following, Followed, OwnDelete, RetractionSticks
<1>7. ASSUME NEW r \in todo, UpsertOne(r)
      PROVE  Sound'
  <2>1. /\ UNCHANGED <<records, step, rebuild, owed>> /\ step = "upsert"
        /\ points' = points \cup {r} /\ todo' = todo \ {r}
    BY <1>7 DEF UpsertOne, storeVars
  <2>2. InHand'
    BY <1>1, <2>1, TablesKept DEF InHand
  <2>3. Filling'
    BY <1>1, <2>1, TablesKept DEF Filling, Queued, Outstanding, DeadLettered, Missing
  <2>4. Following'
    <3> SUFFICES ASSUME rebuild = "clean"
                 PROVE  /\ RetractionSticks'
                        /\ (phase = "mark" /\ OwnDelete) => row.record \notin points'
      BY <1>1, <2>1 DEF Following, Followed, OwnDelete
    <3>1. Active(r)
      BY DEF InHand
    <3>2. OwnRows(r, "delete") = {}
      BY <3>1 DEF Rows, OutboxOwners, OwnRows
    <3>3. RetractionSticks'
      BY <1>1, <2>1, <3>2, TablesKept DEF RetractionSticks, Following, Followed
    <3>4. ASSUME phase = "mark", OwnDelete PROVE row.record # r
      BY <3>1, <3>4, RowInHand DEF OwnDelete, Rows, OutboxOwners
    <3> QED BY <2>1, <3>3, <3>4 DEF Following, Followed
  <2> QED BY <1>2, <2>2, <2>3, <2>4
<1>8. CASE Finish
  <2>1. UNCHANGED <<points, todo, rebuild, owed, records>> /\ todo = {} /\ step = "upsert"
        /\ step' = "off"
    BY <1>8 DEF Finish, vars, indexVars, storeVars
  <2> QED BY <1>1, <1>2, <2>1, TablesKept
             DEF InHand, Filling, Queued, Outstanding, DeadLettered, Following,
                 Followed, Missing, OwnDelete, RetractionSticks
<1>9. CASE Stop
  BY <1>1, <1>2, <1>9 DEF Stop, InHand, Filling, Following, Followed
<1> QED BY <1>3, <1>4, <1>5, <1>6, <1>7, <1>8, <1>9 DEF Rebuilds, Reindexing

\* An import writes no row of the outbox, and there was none about its record.
LEMMA ImportKeeps ==
    ASSUME RInv, NEW t \in Tenant, NEW w \in MemoryWrite, NEW r \in Record,
           NEW st \in ImportStatus, Import(t, w, r, st)
    PROVE  Sound'
<1> USE DEF RInv, Sound
<1>1. /\ UNCHANGED <<outbox, points, phase, batch, row, step, todo>>
      /\ rebuild' = "due" /\ owed' = {} /\ ~Exists(r)
      /\ \A q \in Record : q # r => records'[q] = records[q]
      /\ records'[r] # NoRow
  <2>1. [tenant |-> t, namespace |-> w.namespace, title |-> w.title,
         body |-> w.body, status |-> st] \in RecordRow
    BY ImportStatusAssumption DEF MemoryWrite, RecordRow
  <2> QED BY <2>1, NoRowAssumption
             DEF Import, indexVars, drainVars, ReindexTypeOK, TypeOK, StoreTypeOK
<1>2. \A x \in outbox :
        /\ x.record \in Record /\ x.record # r
        /\ records'[x.record] = records[x.record]
  BY <1>1 DEF Rows, OutboxKeys, ReindexTypeOK, TypeOK, StoreTypeOK, OutboxRow
<1>3. \A q, op : OwnRows(q, op)' \subseteq OwnRows(q, op)
  BY <1>1, <1>2 DEF OwnRows
<1>4. OutboxKeys' /\ OutboxOwners' /\ CapEndsRetries'
  BY <1>1, <1>2 DEF Rows, OutboxKeys, OutboxOwners, CapEndsRetries, Exists, Active
<1>5. Snapshot' /\ CallIsCovered'
  BY <1>1, <1>3 DEF Rows, Snapshot, CallIsCovered, Pending
<1>6. InHand' /\ Filling'
  BY <1>1 DEF InHand, Filling
<1>7. Following'
  <2> SUFFICES ASSUME Followed
               PROVE  /\ RetractionSticks'
                      /\ (phase = "mark" /\ OwnDelete') => row.record \notin points
    BY <1>1 DEF Following, Followed
  <2>1. RetractionSticks'
    BY <1>1, <1>3 DEF Following, RetractionSticks
  <2>2. phase = "mark" => OwnDelete' = OwnDelete
    BY <1>1, <1>2, RowInHand DEF OwnDelete
  <2> QED BY <2>1, <2>2 DEF Following
<1> QED BY <1>4, <1>5, <1>6, <1>7 DEF Rows

\* A commit of the store brings its rows along, and spoils a clean rebuild that
\* has a record it retracts in hand.
LEMMA StoreKeeps ==
    ASSUME RInv, StoreBesideReindex
    PROVE  Sound'
<1> USE DEF RInv, Sound, ReindexTypeOK, TypeOK
<1>1. /\ StoreEffect /\ StoreInv'
      /\ UNCHANGED <<points, phase, batch, row, step, todo, owed>>
  BY StoreStepEffect
     DEF StoreBesideReindex, StoreStep, StoreInv, Rows, indexVars, drainVars
<1>2. /\ rebuild' = "clean" => rebuild = "clean" /\ \A r \in todo : Active(r)'
      /\ rebuild' # "due" => rebuild # "due"
  BY DEF StoreBesideReindex
<1>3. \A x \in outbox :
        /\ x \in outbox'
        /\ x.record \in Record
        /\ Exists(x.record)
        /\ records'[x.record].tenant = records[x.record].tenant
        /\ Active(x.record)' => Active(x.record)
  BY <1>1 DEF StoreEffect, Rows, OutboxKeys, StoreTypeOK, OutboxRow
<1>4. \A x \in outbox' : x \notin outbox => ~x.processed /\ x.attempts = 0
  BY <1>1 DEF StoreEffect
<1>5. \A r : \A d \in OwnRows(r, "delete")' : d \in OwnRows(r, "delete") \/ ~d.processed
  BY <1>3, <1>4 DEF OwnRows
<1>6. Rows'
  <2>1. CapEndsRetries'
    BY <1>4, MaxAttemptsAssumption DEF Rows, CapEndsRetries
  <2>2. Snapshot'
    BY <1>1, <1>3 DEF Rows, Snapshot, Pending
  <2>3. CallIsCovered'
    BY <1>1, <1>5 DEF Rows, CallIsCovered
  <2> QED BY <1>1, <2>1, <2>2, <2>3 DEF Rows, StoreInv
<1>7. InHand'
  BY <1>1, <1>2 DEF InHand, StoreEffect
<1>8. ASSUME NEW x \in outbox, ForeignDelete(x.record)
      PROVE  ForeignDelete(x.record)'
  BY <1>3, <1>8 DEF ForeignDelete
<1>9. ASSUME NEW r \in Record, rebuild # "due", Missing(r)'
      PROVE  \/ r \notin owed /\ \E u \in OwnRows(r, "upsert")' : Outstanding(u)
             \/ ForeignDelete(r)'
  <2>1. CASE ~Exists(r)
    BY <1>1, <1>9, <2>1 DEF StoreEffect, OwnRows, Outstanding, Missing, InHand
  <2>2. CASE Exists(r)
    <3>1. Missing(r)
      BY <1>1, <1>9, <2>2 DEF StoreEffect, Missing
    <3>2. CASE Queued(r)
      BY <1>3, <3>2 DEF Queued, OwnRows
    <3>3. CASE ForeignDelete(r)
      BY <1>3, <3>3 DEF ForeignDelete
    <3> QED BY <1>9, <3>1, <3>2, <3>3 DEF Filling
  <2> QED BY <2>1, <2>2
<1>10. Filling'
  <2>1. ASSUME rebuild # "due", phase = "mark", row.op = "upsert", Missing(row.record)'
        PROVE  ForeignDelete(row.record)'
    <3>1. row \in outbox
      BY <2>1, RowInHand
    <3>2. Missing(row.record)
      BY <1>1, <1>3, <2>1, <3>1 DEF Missing
    <3>3. ForeignDelete(row.record)
      BY <2>1, <3>2 DEF Filling
    <3> QED BY <1>1, <1>8, <3>1, <3>3
  <2>2. ASSUME NEW r \in Record, rebuild # "due", Missing(r)'
        PROVE  Queued(r)' \/ ForeignDelete(r)'
    BY <1>1, <1>9, <2>2 DEF Queued, Outstanding, DeadLettered
  <2> QED BY <1>1, <1>2, <2>1, <2>2 DEF Filling
<1>11. Following'
  <2> SUFFICES ASSUME Followed
               PROVE  /\ RetractionSticks'
                      /\ (phase = "mark" /\ OwnDelete') => row.record \notin points
    BY <1>1, <1>2 DEF Following, Followed
  <2>1. RetractionSticks'
    BY <1>1, <1>5 DEF Following, RetractionSticks, Outstanding, DeadLettered
  <2>2. phase = "mark" => OwnDelete' = OwnDelete
    BY <1>1, <1>3, RowInHand DEF OwnDelete
  <2> QED BY <2>1, <2>2 DEF Following
<1> QED BY <1>6, <1>7, <1>10, <1>11

\* Of its moves, only SkipRetracted brings the indexer to a mark.
LEMMA MoveKeeps ==
    ASSUME RInv, Moves
    PROVE  Sound'
<1> USE DEF RInv, Sound
<1>1. UNCHANGED Tables /\ UNCHANGED <<records, points, step, todo, rebuild, owed>>
  BY DEF Moves, Tables
<1>2. \A r : Missing(r)' = Missing(r)
  BY <1>1, TablesKept DEF Missing
<1>3. InHand'
  BY <1>1, TablesKept DEF InHand
<1>4. ASSUME phase' = "mark" => /\ phase = "mark" \/ row'.op # "delete"
                                /\ phase = "mark" \/ ~Missing(row'.record)
                                /\ phase = "mark" => row' = row
      PROVE  Filling' /\ Following'
  BY <1>1, <1>2, <1>4, TablesKept
     DEF Filling, Queued, Outstanding, DeadLettered, Following, Followed, OwnDelete, RetractionSticks
<1>5. CASE UNCHANGED drainVars
  BY <1>1, <1>3, <1>4, <1>5, TablesKept DEF drainVars, Rows, Snapshot, CallIsCovered
<1>6. CASE Fetch
  BY <1>1, <1>3, <1>4, <1>6, TablesKept
     DEF Fetch, NextBatch, ReindexTypeOK, TypeOK, Rows, Snapshot, CallIsCovered
<1>7. CASE Defer \/ Begin \/ EndBatch \/ UpdateFails \/ Crash \/ Restart \/ Park
  BY <1>1, <1>3, <1>4, <1>7, TablesKept
     DEF Defer, Begin, EndBatch, UpdateFails, Crash, Restart, Park,
         Rows, Snapshot, CallIsCovered
<1>8. ASSUME NEW x \in batch,
             ReadActive(x) \/ SkipRetracted(x) \/ ReadDelete(x) \/ ReadFails(x)
      PROVE  Sound'
  <2>1. x \in Pending /\ x # NoRow
    BY NoOutboxRowAssumption DEF Rows, Snapshot, ReindexTypeOK, TypeOK
  <2>2. batch' = batch \ {x} /\ row' = x
    BY <1>8 DEF ReadActive, SkipRetracted, ReadDelete, ReadFails, Take
  <2>3. Snapshot'
    BY <1>1, <2>1, <2>2, TablesKept DEF Rows, Snapshot
  <2>4. CallIsCovered'
    <3> SUFFICES ASSUME phase' = "call", x.op = "upsert"
                 PROVE  OwnRows(x.record, "delete") = {}
      BY <1>1, <2>2, TablesKept DEF CallIsCovered
    <3>1. Active(x.record)
      BY <1>8 DEF ReadActive, SkipRetracted, ReadDelete, ReadFails
    <3> QED BY <3>1 DEF Rows, OutboxOwners, OwnRows
  <2>5. phase # "mark" /\ (phase' = "mark" => x.op # "delete" /\ ~Active(x.record))
    BY <1>8 DEF ReadActive, SkipRetracted, ReadDelete, ReadFails, Take
  <2>6. Filling' /\ Following'
    BY <1>4, <2>2, <2>5 DEF Missing
  <2> QED BY <1>1, <1>3, <2>3, <2>4, <2>6, TablesKept DEF Rows
<1>9. CASE QdrantFails \/ QdrantRecovers
  BY <1>5, <1>9 DEF QdrantFails, QdrantRecovers
<1> QED BY <1>5, <1>6, <1>7, <1>8, <1>9 DEF Moves, ProcessRow, Environment

\* The call of an upsert puts back no point whose delete is done; the call of a
\* delete removes a point its tenant retracted, or another tenant's row did it.
LEMMA CallKeeps ==
    ASSUME RInv, Calls
    PROVE  Sound'
<1> USE DEF RInv, Sound
<1>1. /\ phase = "call" /\ phase' \in {"mark", "fail"}
      /\ row' = row /\ batch' = batch /\ records' = records
      /\ UNCHANGED Tables /\ UNCHANGED <<step, todo, rebuild, owed>>
  BY DEF Calls, CallSucceeds, CallFails, CallRefused, storeVars, Tables, reindexVars
<1>2. /\ points' = points \/ points' = Applied
      /\ phase' = "mark" => points' = Applied
  BY DEF Calls, CallSucceeds, CallFails, CallRefused, indexVars
<1>3. /\ row \in outbox /\ row.op \in {"upsert", "delete"} /\ ~row.processed
      /\ row.record \in Record
  BY <1>1, RowInHand DEF OutboxRow, OutboxOp
<1>4. Rows'
  BY <1>1, TablesKept DEF Rows, Snapshot, CallIsCovered
<1>5. InHand'
  BY <1>1, TablesKept DEF InHand
<1>6. Filling'
  <2> SUFFICES ASSUME rebuild # "due"
               PROVE  /\ \A r \in Record : Missing(r)' => Queued(r) \/ ForeignDelete(r)
                      /\ (phase' = "mark" /\ row.op = "upsert")
                           => ~Missing(row.record)'
    BY <1>1, TablesKept DEF Filling, Queued, Outstanding, DeadLettered
  <2>1. ASSUME NEW r \in Record, Missing(r)', ~Missing(r)
        PROVE  ForeignDelete(r)
    <3>1. Active(r) /\ r = row.record /\ row.op = "delete"
      BY <1>1, <1>2, <1>3, <2>1, TablesKept DEF Missing, Applied
    <3> QED BY <1>3, <3>1 DEF Rows, OutboxOwners, ForeignDelete
  <2>2. (phase' = "mark" /\ row.op = "upsert") => ~Missing(row.record)'
    BY <1>1, <1>2 DEF Missing, Applied
  <2> QED BY <2>1, <2>2 DEF Filling
<1>7. Following'
  <2> SUFFICES ASSUME Followed
               PROVE  /\ RetractionSticks'
                      /\ (phase' = "mark" /\ OwnDelete) => row.record \notin points'
    BY <1>1 DEF Following, Followed, OwnDelete
  <2>1. ASSUME NEW r \in points', NEW d \in OwnRows(r, "delete")
        PROVE  Outstanding(d)
    <3>1. CASE r \in points
      BY <3>1 DEF Following, RetractionSticks
    <3>2. CASE r \notin points
      <4>1. r = row.record /\ row.op = "upsert"
        BY <1>2, <3>2 DEF Applied
      <4> QED BY <1>1, <4>1 DEF Rows, CallIsCovered, Outstanding
    <3> QED BY <3>1, <3>2
  <2>2. RetractionSticks'
    BY <1>1, <2>1, TablesKept DEF RetractionSticks, Outstanding, DeadLettered
  <2>3. (phase' = "mark" /\ OwnDelete) => row.record \notin points'
    BY <1>2 DEF OwnDelete, Applied
  <2> QED BY <2>2, <2>3
<1> QED BY <1>4, <1>5, <1>6, <1>7

\* Replacing the row in hand by y, as in ReplaceRow of IndexerProofs.
LEMMA ReplaceKeeps ==
    ASSUME RInv, row \in outbox, NEW y \in OutboxRow,
           y.id = row.id, y.record = row.record, y.op = row.op,
           y.tenant = row.tenant,
           y.processed \/ y.attempts < MaxAttempts,
           y.processed /\ ~(y.attempts >= MaxAttempts) => phase = "mark",
           outbox' = (outbox \ {row}) \cup {y},
           UNCHANGED <<records, points, batch, step, todo, rebuild, owed>>,
           row' = NoRow, phase' = "rows"
    PROVE  Sound'
<1> USE DEF RInv, Sound
<1>1. /\ \A r : Exists(r)' = Exists(r)
      /\ \A r : Active(r)' = Active(r)
      /\ \A r : Missing(r)' = Missing(r)
  BY DEF Exists, Active, Missing
<1>2. \A x \in outbox' : x \in outbox \/ x = y
  OBVIOUS
<1>3. OutboxKeys'
  BY <1>1, <1>2 DEF Rows, OutboxKeys
<1>4. OutboxOwners'
  BY <1>1, <1>2 DEF Rows, OutboxOwners
<1>5. CapEndsRetries'
  BY <1>2 DEF Rows, CapEndsRetries
<1>6. Snapshot'
  BY NoOutboxRowAssumption
     DEF Rows, Snapshot, Pending, ReindexTypeOK, TypeOK, StoreTypeOK
<1>7. CallIsCovered'
  BY DEF CallIsCovered
<1>8. InHand'
  BY <1>1 DEF InHand
<1>9. Filling'
  <2> SUFFICES ASSUME rebuild # "due", NEW r \in Record, Missing(r),
                      ~ForeignDelete(r)'
               PROVE  r \notin owed /\ \E u \in OwnRows(r, "upsert")' : Outstanding(u)
    BY <1>1 DEF Filling, Queued, Outstanding, DeadLettered
  <2>1. ~ForeignDelete(r)
    BY DEF ForeignDelete
  <2>5. Queued(r)
    BY <2>1 DEF Filling
  <2>2. PICK u \in OwnRows(r, "upsert") : Outstanding(u)
    BY <2>5 DEF Queued
  <2>3. CASE u # row
    BY <2>2, <2>3, <2>5 DEF OwnRows, Queued
  <2>4. CASE u = row
    <3>1. y \in OwnRows(r, "upsert")'
      BY <2>2, <2>4 DEF OwnRows
    <3>2. phase # "mark"
      BY <2>1, <2>2, <2>4 DEF Filling, OwnRows
    <3> QED BY <2>5, <3>1, <3>2 DEF Queued, Outstanding, DeadLettered
  <2> QED BY <2>3, <2>4
<1>10. Following'
  <2> SUFFICES ASSUME Followed, NEW r \in points, NEW d \in OwnRows(r, "delete")'
               PROVE  Outstanding(d)
    BY DEF Following, Followed, RetractionSticks, Outstanding, DeadLettered
  <2>1. CASE d \in outbox
    BY <2>1 DEF Following, RetractionSticks, OwnRows
  <2>2. CASE d = y
    BY <2>2 DEF Following, OwnDelete, OwnRows, Outstanding, DeadLettered
  <2> QED BY <1>2, <2>1, <2>2 DEF OwnRows
<1> QED BY <1>3, <1>4, <1>5, <1>6, <1>7, <1>8, <1>9, <1>10 DEF Rows

\* Marking, charging and dead-lettering are such replacements.
LEMMA UpdateKeeps ==
    ASSUME RInv, Updates
    PROVE  Sound'
<1> USE DEF RInv
<1>1. /\ row \in OutboxRow /\ row \in outbox /\ ~row.processed
      /\ row.attempts \in Nat /\ row.attempts < MaxAttempts
      /\ OutboxKeys
  BY RowInHand
     DEF Updates, MarkProcessed, ChargeAttempt, DeadLetter, Rows, CapEndsRetries,
         OutboxRow
<1>2. /\ UNCHANGED <<records, points, batch, step, todo, rebuild, owed>>
      /\ row' = NoRow /\ phase' = "rows"
  BY DEF Updates, MarkProcessed, ChargeAttempt, DeadLetter, indexVars, reindexVars
<1>3. CASE MarkProcessed
  <2> DEFINE y == [row EXCEPT !.processed = TRUE]
  <2>1. /\ y \in OutboxRow /\ y.id = row.id /\ y.record = row.record
        /\ y.op = row.op /\ y.tenant = row.tenant
        /\ y.processed
    BY <1>1 DEF OutboxRow
  <2>2. outbox' = (outbox \ {row}) \cup {y} /\ phase = "mark"
    BY <1>1, <1>3, UpdateOneRow DEF MarkProcessed
  <2> HIDE DEF y
  <2> QED BY <1>1, <1>2, <2>1, <2>2, ReplaceKeeps
<1>4. CASE ChargeAttempt
  <2> DEFINE y == [row EXCEPT !.attempts = row.attempts + 1]
  <2>1. /\ y \in OutboxRow /\ y.id = row.id /\ y.record = row.record
        /\ y.op = row.op /\ y.tenant = row.tenant
        /\ ~y.processed /\ y.attempts < MaxAttempts
    BY <1>1, <1>4 DEF OutboxRow, ChargeAttempt
  <2>2. outbox' = (outbox \ {row}) \cup {y}
    BY <1>1, <1>4, UpdateOneRow
  <2> HIDE DEF y
  <2> QED BY <1>1, <1>2, <2>1, <2>2, ReplaceKeeps
<1>5. CASE DeadLetter
  <2> DEFINE y == [row EXCEPT !.processed = TRUE, !.attempts = row.attempts + 1]
  <2>1. /\ y \in OutboxRow /\ y.id = row.id /\ y.record = row.record
        /\ y.op = row.op /\ y.tenant = row.tenant
        /\ y.processed /\ y.attempts >= MaxAttempts
    <3>1. row.attempts + 1 \in Nat
      BY <1>1
    <3>2. row.attempts + 1 >= MaxAttempts
      BY <1>5, Zenon DEF DeadLetter
    <3> QED BY <1>1, <3>1, <3>2 DEF OutboxRow
  <2>2. outbox' = (outbox \ {row}) \cup {y}
    BY <1>1, <1>5, UpdateOneRow
  <2> HIDE DEF y
  <2> QED BY <1>1, <1>2, <2>1, <2>2, ReplaceKeeps
<1> QED BY <1>3, <1>4, <1>5 DEF Updates

-----------------------------------------------------------------------------
\* RInv is an inductive invariant.
LEMMA Rebuilding == ReindexSpec => []RInv
<1>1. ReindexInit => RInv
  <2> SUFFICES ASSUME ReindexInit PROVE RInv
    OBVIOUS
  <2>1. ReindexTypeOK
    BY DEF ReindexInit, Init, StoreInit, ReindexTypeOK, TypeOK, StoreTypeOK, Phase,
           ReindexStep, Rebuild
  <2>2. Rows
    BY NoOutboxRowAssumption
       DEF ReindexInit, Init, StoreInit, Rows, OutboxKeys, OutboxOwners,
           CapEndsRetries, Snapshot, CallIsCovered
  <2>3. InHand /\ Filling /\ Following
    BY DEF ReindexInit, Init, StoreInit, InHand, Filling, Following,
           RetractionSticks, Missing, Active, Exists
  <2> QED BY <2>1, <2>2, <2>3 DEF RInv
<1>2. RInv /\ [ReindexNext]_allVars => RInv'
  <2> SUFFICES ASSUME RInv, [ReindexNext]_allVars PROVE Sound'
    BY ReindexTypeStep DEF RInv, Sound
  <2>1. CASE Imports
    BY <2>1, ImportKeeps DEF Imports
  <2> QED BY <2>1, StepCases, RebuildKeeps, StoreKeeps, MoveKeeps, CallKeeps,
             UpdateKeeps
<1> QED BY <1>1, <1>2, PTL DEF ReindexSpec

\* A finished rebuild lost no active record, whatever ran beside it.
THEOREM RebuildLosesNothing == ReindexSpec => []RebuildIsComplete
<1>1. RInv => RebuildIsComplete
  <2> SUFFICES ASSUME RInv, Rebuilt, NEW r \in Record, Active(r), r \notin points
               PROVE  Queued(r) \/ ForeignDelete(r)
    BY DEF RebuildIsComplete, Queued, ForeignDelete
  <2>1. todo = {} /\ rebuild # "due"
    BY DEF RInv, InHand, Rebuilt
  <2>2. Missing(r)
    BY <2>1 DEF Missing
  <2> QED BY <2>1, <2>2 DEF RInv, Filling
<1> QED BY <1>1, Rebuilding, PTL

\* A finished rebuild no retraction overtook brought no retracted point back.
THEOREM QuietRebuild == ReindexSpec => []QuietRebuildIsClean
<1>1. RInv => QuietRebuildIsClean
  BY DEF RInv, Following, Followed, QuietRebuildIsClean
<1> QED BY <1>1, Rebuilding, PTL

-----------------------------------------------------------------------------
\* An import adds a record; an active one has no twin.
LEMMA ImportDedup ==
    ASSUME ReindexTypeOK, DedupUnique, NEW t \in Tenant, NEW w \in MemoryWrite,
           NEW r \in Record, NEW st \in ImportStatus, Import(t, w, r, st)
    PROVE  DedupUnique'
<1>1. /\ \A q \in Record \ {r} : records'[q] = records[q]
      /\ records'[r] = [tenant |-> t, namespace |-> w.namespace, title |-> w.title,
                        body |-> w.body, status |-> st]
      /\ st = "active" => Duplicates(t, w) = {}
  BY DEF Import, ReindexTypeOK, TypeOK, StoreTypeOK
<1>2. ASSUME NEW p \in Record \ {r}, Active(p)', Active(r)',
             records'[p].tenant = records'[r].tenant,
             ContentSha(records'[p]) = ContentSha(records'[r])
      PROVE  FALSE
  <2>1. st = "active" /\ Active(p) /\ records[p].tenant = t
    BY <1>1, <1>2 DEF Active, Exists
  <2>2. ContentSha(records[p]) = ContentSha(w)
    BY <1>1, <1>2 DEF ContentSha
  <2> QED BY <1>1, <2>1, <2>2 DEF Duplicates
<1>3. ASSUME NEW p \in Record \ {r}, NEW q \in Record \ {r}, Active(p)', Active(q)',
             records'[p].tenant = records'[q].tenant,
             ContentSha(records'[p]) = ContentSha(records'[q])
      PROVE  p = q
  BY <1>1, <1>3 DEF DedupUnique, Active, Exists
<1> QED BY <1>2, <1>3 DEF DedupUnique

\* With an import running beside the stores, still no tenant has two active
\* records with the same content.
THEOREM ImportsDeduplicate == ReindexSpec => []DedupUnique
<1>1. ReindexInit => DedupUnique
  BY DEF ReindexInit, Init, StoreInit, DedupUnique, Active, Exists
<1>2. ReindexTypeOK /\ DedupUnique /\ [ReindexNext]_allVars => DedupUnique'
  <2> SUFFICES ASSUME ReindexTypeOK, DedupUnique, [ReindexNext]_allVars
               PROVE  DedupUnique'
    OBVIOUS
  <2>1. ASSUME UNCHANGED records PROVE DedupUnique'
    BY <2>1 DEF DedupUnique, Active, Exists
  <2>2. CASE Rebuilds
    BY <2>1, <2>2 DEF Rebuilds, storeVars
  <2>3. CASE Moves
    <3>1. UNCHANGED records
      BY <2>3 DEF Moves, Tables
    <3> QED BY <2>1, <3>1
  <2>4. CASE Calls
    BY <2>1, <2>4 DEF Calls, CallSucceeds, CallFails, CallRefused, storeVars
  <2>5. CASE Updates
    BY <2>1, <2>5 DEF Updates, MarkProcessed, ChargeAttempt, DeadLetter
  <2>6. CASE Imports
    BY <2>6, ImportDedup DEF Imports
  <2>7. CASE StoreBesideReindex
    BY <2>7, DedupStep DEF StoreBesideReindex, StoreStep, ReindexTypeOK, TypeOK
  <2> QED BY <2>2, <2>3, <2>4, <2>5, <2>6, <2>7, StepCases
<1> QED BY <1>1, <1>2, ReindexTypes, PTL DEF ReindexSpec
=============================================================================
