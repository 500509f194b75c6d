------------------------------- MODULE Reindex -------------------------------
(***************************************************************************)
(* `daimon reindex` and `daimon import` (crates/daimon-cli) beside the     *)
(* store and the indexer: nothing keeps an operator from running them      *)
(* while the others work.  reindex drops the Qdrant collection, creates it *)
(* again, loads the embedder, reads the active records in one SELECT and   *)
(* upserts them one by one; the first error ends it.  import inserts       *)
(* records with their recorded status and leaves the outbox alone.         *)
(*                                                                         *)
(* A server (or `daimon health`) and the indexer create the collection as  *)
(* they start, if they find none: VectorStore::ensure() asks first and     *)
(* creates later, and create_collection refuses a collection that exists.  *)
(* A request to a collection that does not exist fails; healthy() does not *)
(* notice, since it only asks whether Qdrant answers.                      *)
(***************************************************************************)
EXTENDS Indexer

CONSTANT
    ImportStatus   \* the statuses found in the file being imported

ASSUME ImportStatusAssumption == ImportStatus \subseteq RecordStatus

VARIABLES
    collection,  \* does the collection exist?
    step,        \* where reindex is
    todo,        \* the rows of its SELECT it has not upserted yet
    starting,    \* who is in ensure(), between its question and its request
    rebuild,     \* history: what the last rebuild is worth
    owed         \* history: the records that were active when it read them

reindexVars == <<collection, step, todo, starting, rebuild, owed>>
allVars == <<vars, reindexVars>>

ReindexStep == {"off", "create", "select", "upsert"}
Starter == {"server", "indexer"}

\* due: a rebuild is needed or has begun (the collection was dropped, or records
\* were imported, and no reindex has finished since); clean: the last one is
\* finished; raced: finished, but a record it was about to upsert was retracted.
Rebuild == {"due", "clean", "raced"}

ReindexTypeOK ==
    /\ TypeOK
    /\ collection \in BOOLEAN
    /\ step \in ReindexStep
    /\ todo \subseteq Record
    /\ starting \subseteq Starter
    /\ rebuild \in Rebuild
    /\ owed \subseteq Record
    /\ ~collection => points = {}

ReindexInit ==
    /\ Init
    /\ collection = TRUE
    /\ step = "off"
    /\ todo = {}
    /\ starting = {}
    /\ rebuild = "clean"
    /\ owed = {}

-----------------------------------------------------------------------------
\* MUTANT of Drop: the points of a dropped collection outlive it.
Drop_KeepsPoints ==
    /\ step = "off"
    /\ qdrantUp
    /\ collection' = FALSE
    /\ step' = "create"
    /\ rebuild' = "due" /\ owed' = {}
    /\ UNCHANGED <<storeVars, points, qdrantUp, drainVars, todo, starting>>

\* recreate(), first half: collection_exists and delete_collection.
Drop ==
    /\ step = "off"
    /\ qdrantUp
    /\ collection' = FALSE
    /\ points' = {}
    /\ step' = "create"
    /\ rebuild' = "due" /\ owed' = {}
    /\ UNCHANGED <<storeVars, qdrantUp, drainVars, todo, starting>>

\* create_collection, which refuses a collection that exists.
CreateCollection ==
    /\ qdrantUp
    /\ ~collection
    /\ collection' = TRUE

\* recreate(), second half; then Embedder::new().  An ensure() may have created
\* the collection meanwhile: that ends reindex (see Stop).
Create ==
    /\ step = "create"
    /\ CreateCollection
    /\ step' = "select"
    /\ UNCHANGED <<vars, todo, starting, rebuild, owed>>

\* MUTANT of Select: it forgets WHERE status='active'.
Select_AnyStatus ==
    /\ step = "select"
    /\ todo' = {r \in Record : Exists(r)}
    /\ step' = "upsert"
    /\ rebuild' = "clean" /\ owed' = Live
    /\ UNCHANGED <<vars, collection, starting>>

\* MUTANT of Select: records that were dead-lettered are left out.
Select_SkipsDeadLetters ==
    /\ step = "select"
    /\ todo' = {r \in Live : ~\E x \in OwnRows(r, "upsert") : DeadLettered(x)}
    /\ step' = "upsert"
    /\ rebuild' = "clean" /\ owed' = Live
    /\ UNCHANGED <<vars, collection, starting>>

\* SELECT ... FROM memory.records WHERE status='active'.
Select ==
    /\ step = "select"
    /\ todo' = Live
    /\ step' = "upsert"
    /\ rebuild' = "clean" /\ owed' = Live
    /\ UNCHANGED <<vars, collection, starting>>

\* The loop's body: embed the record, upsert its point.
UpsertOne(r) ==
    /\ step = "upsert"
    /\ r \in todo \ Poison
    /\ qdrantUp
    /\ collection
    /\ points' = points \cup {r}
    /\ todo' = todo \ {r}
    /\ UNCHANGED <<storeVars, qdrantUp, drainVars, collection, step, starting, rebuild, owed>>

Finish ==
    /\ step = "upsert"
    /\ todo = {}
    /\ step' = "off"
    /\ UNCHANGED <<vars, collection, todo, starting, rebuild, owed>>

\* An error, or the operator, ends it anywhere; what it dropped stays dropped.
\* An upsert that was cut off may have taken effect.
Stop ==
    /\ step # "off"
    /\ step' = "off"
    /\ todo' = {}
    /\ rebuild' = "due" /\ owed' = {}
    /\ \/ UNCHANGED points
       \/ /\ step = "upsert" /\ qdrantUp /\ collection
          /\ \E r \in todo \ Poison : points' = points \cup {r}
    /\ UNCHANGED <<storeVars, qdrantUp, drainVars, collection, starting>>

\* MUTANT of Import: no index keeps a content from being active twice.
Import_NoIndex(t, w, r, st) ==
    /\ ~Exists(r)
    /\ records' = [records EXCEPT ![r] =
         [tenant |-> t, namespace |-> w.namespace, title |-> w.title,
          body |-> w.body, status |-> st]]
    /\ namespaces' \in {namespaces, namespaces \cup {<<t, w.namespace>>}}
    /\ rebuild' = "due" /\ owed' = {}
    /\ UNCHANGED <<outbox, indexVars, drainVars, collection, step, todo, starting>>

\* One line of the file: an id or an active content the database has already is
\* skipped (ON CONFLICT DO NOTHING).  The record and its namespace commit one
\* after the other, and the process may die between.
Import(t, w, r, st) ==
    /\ ~Exists(r)
    /\ st = "active" => Duplicates(t, w) = {}
    /\ records' = [records EXCEPT ![r] =
         [tenant |-> t, namespace |-> w.namespace, title |-> w.title,
          body |-> w.body, status |-> st]]
    /\ namespaces' \in {namespaces, namespaces \cup {<<t, w.namespace>>}}
    /\ rebuild' = "due" /\ owed' = {}
    /\ UNCHANGED <<outbox, indexVars, drainVars, collection, step, todo, starting>>

\* ensure() of p asks whether there is a collection, and finds none.
EnsureAsks(p) ==
    /\ p \notin starting
    /\ p = "indexer" => phase = "down"
    /\ qdrantUp
    /\ ~collection
    /\ starting' = starting \cup {p}
    /\ UNCHANGED <<vars, collection, step, todo, rebuild, owed>>

\* It creates one: a server, or `daimon health`.
ServerCreates ==
    /\ "server" \in starting
    /\ CreateCollection
    /\ starting' = starting \ {"server"}
    /\ UNCHANGED <<vars, step, todo, rebuild, owed>>

\* The same in the indexer, whose start goes on.
IndexerCreates ==
    /\ "indexer" \in starting
    /\ CreateCollection
    /\ Restart \/ Park
    /\ starting' = starting \ {"indexer"}
    /\ UNCHANGED <<step, todo, rebuild, owed>>

\* create_collection fails, or its answer is lost, or the process dies.  The
\* server goes on without; the indexer's process ends.
EnsureFails(p) ==
    /\ p \in starting
    /\ starting' = starting \ {p}
    /\ CreateCollection \/ UNCHANGED collection
    /\ UNCHANGED <<vars, step, todo, rebuild, owed>>

\* The store's step; a retraction of a record that is in todo is noted.
StoreBesideReindex ==
    /\ StoreStep
    /\ rebuild' = IF rebuild = "clean" /\ \E r \in todo : ~Active(r)'
                    THEN "raced" ELSE rebuild
    /\ UNCHANGED <<collection, step, todo, starting, owed>>

\* The indexer's call fails, and leaves nothing, if there is no collection.
CallRefused ==
    /\ phase = "call"
    /\ ~collection
    /\ phase' = "fail"
    /\ UNCHANGED <<storeVars, indexVars, batch, row>>

IndexerBesideReindex ==
    /\ \/ collection /\ (CallSucceeds \/ CallFails)
       \/ CallRefused
       \/ Fetch \/ Defer \/ Begin \/ ProcessRow \/ EndBatch
       \/ MarkProcessed \/ ChargeAttempt \/ DeadLetter \/ UpdateFails
       \/ Crash \/ QdrantFails \/ QdrantRecovers
    /\ UNCHANGED reindexVars

\* The indexer's start finds the collection.
IndexerStarts ==
    /\ collection
    /\ "indexer" \notin starting
    /\ Restart \/ Park
    /\ UNCHANGED reindexVars

Reindexing ==
    \/ Drop \/ Create \/ Select \/ Finish \/ Stop
    \/ \E r \in todo : UpsertOne(r)

Ensure ==
    \/ \E p \in Starter : EnsureAsks(p) \/ EnsureFails(p)
    \/ ServerCreates \/ IndexerCreates \/ IndexerStarts

ReindexNext ==
    \/ Reindexing \/ Ensure
    \/ \E t \in Tenant, w \in MemoryWrite, r \in Record, st \in ImportStatus :
         Import(t, w, r, st)
    \/ StoreBesideReindex \/ IndexerBesideReindex

ReindexSpec == ReindexInit /\ [][ReindexNext]_allVars

-----------------------------------------------------------------------------
\* No reindex is under way, and none is called for.
Rebuilt == step = "off" /\ rebuild # "due"

\* A finished rebuild lost nothing: whatever the store and the indexer did while
\* the collection was dropped and refilled, every record that was active when it
\* read them has its point, dead-lettered or not, as long as it is active; one
\* stored since has its point, or its upsert row in the queue or, after that, in
\* the dead letters; unless another tenant's forget() queued a delete row for it
\* (reindex, and the repair main.rs of the indexer promises).
RebuildIsComplete ==
    Rebuilt =>
      \A r \in Record : (Active(r) /\ r \notin points) =>
        \/ r \notin owed /\ \E u \in OwnRows(r, "upsert") : Outstanding(u)
        \/ \E x \in outbox : /\ x.record = r
                             /\ x.op = "delete"
                             /\ x.tenant # records[r].tenant

\* A finished rebuild that no retraction overtook holds no point whose delete is
\* done.
QuietRebuildIsClean == (Rebuilt /\ rebuild = "clean") => RetractionSticks

\* A finished rebuild holds no point whose delete is done.
RebuildPrunes == Rebuilt => RetractionSticks
=============================================================================
