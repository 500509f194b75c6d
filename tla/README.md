# daimon-memory in TLA+

This directory is a verification development of daimon-memory: TLA+ models of
its stateful core, TLC configurations that check them on small instances, and
theorems about them checked by TLAPS. Paths below are those of the repository;
`pg` is `crates/daimon-pg/src/lib.rs`, `indexer` is
`crates/daimon-indexer/src/main.rs`, `vec` is `crates/daimon-vec/src/lib.rs`,
`cli` is `crates/daimon-cli/src/main.rs`, `mcp` is `crates/daimon-mcp/src/`.
`PROJECT.json` maps every definition to the lines it stands for.

## 1. Inventory

daimon-memory keeps typed records for an agent. PostgreSQL is the source of
truth; a Qdrant collection is a rebuildable semantic index, fed through a
transactional outbox by one background process.

| Component | State | Operations | What makes it correct |
| --- | --- | --- | --- |
| Canonical store (`pg`, `migrations/V001`) | `records` (status active, superseded, forgotten), `namespaces`, `index_outbox`; unique index on active (tenant, content) | `store`: dedup, supersede, insert, enqueue; `forget`: retract, enqueue; `find`, `read`, `list` | one active record per content; one per subject for Update kinds; a record never comes back; the outbox says of each record what happened to it, in order; nothing of another tenant is touched |
| Outbox drainer (`indexer`) | `processed_at` and `attempts` of the outbox rows; a batch read ahead | batch SELECT, health check, per row read, embed, Qdrant call, mark / charge / dead-letter; park; restart | a processed delete is never undone; no active record is missing without a row that says so; the cap ends retries; no row waits for ever; an outage costs nothing |
| Vector index (`vec`) | points, the collection itself, which several processes may create | `ensure`, `recreate`, `upsert`, `delete`, `search`, `healthy` | points are those of active records, eventually |
| Operator tools (`cli`) | none of their own; they run beside everything else | `reindex`, `import`, `export`, `health`, `stats`, `migrate`, `persona`, `protocol` | a rebuild loses nothing and prunes what was retracted; a restore adds what is missing and nothing else goes wrong for it; what the wizards compose is what the server accepts |
| Recall and fusion (`mcp/main.rs`, `mcp/fusion.rs`) | none | semantic arm, keyword arm, reciprocal-rank fusion with an importance boost | deterministic; a hit of either arm is not lost; bounded and ordered |
| Tool and REST surface (`mcp`) | none | `remember`, `recall`, `read`, `list`, `forget` (confirm gate), health, auth | each call reaches the store with what the caller said |
| Memory core (`daimon-memory-core`) | none | `validate_write`, namespace and URI grammar, `parse_scoped`, `display_relative` | an accepted write satisfies the table's CHECKs; addresses round-trip |
| Hermes provider (`integrations/hermes`, `provider.py`) | recall stash, its token and thread; nudge counters; write threads | `queue_prefetch`, `prefetch`, `sync_turn`, `on_memory_write`, drain and shutdown | the stash belongs to the turn's message; nudges tell the truth and saves that fail do not silence them for good; mirrored writes are waited for, and nothing that hangs holds up the host |
| Hermes setup (`integrations/hermes`, `cli.py`) | files under `HERMES_HOME`: shim, manifest, `.env`, its backup; Hermes's switch | `do_setup`, `do_uninstall` | what is cut short is completed by a rerun; the user's lines survive; no key is set twice by setups |

Interactions. `store` and `forget` run in a pool of READ COMMITTED sessions and
speak to the indexer only through `index_outbox`. The indexer reads PostgreSQL
and calls Qdrant, one row at a time, without a transaction around the two.
`reindex` and `import` go to PostgreSQL and Qdrant directly and take no lock
against the others. Clients (REST, MCP, Hermes) see only `store`, `find`,
`read`, `forget`.

What is hard: two transactions on one subject or content; the gap between
reading a record and calling Qdrant; the gap between the call and the mark; a
Qdrant answer that is lost; outbox ids that become visible out of order; rows
that fail for ever at the head of the queue; a rebuild under a running system.
`PROJECT.json` lists each such hazard at its line, with the properties that
would catch it.

## 2. Modules

| Module | Extends | Models |
| --- | --- | --- |
| `MemoryStore` | | the committed effect of each transaction of `store()` and `forget()`; also the abstract specification of the store |
| `PgTransactions` | `MemoryStore` | the statements of those transactions in several sessions: row locks, the unique index, READ COMMITTED snapshots, the sequence |
| `SearchIndex` | | the abstract specification of the index: what its readers may rely on |
| `Indexer` | `MemoryStore` | the drainer beside the store, with crashes, outages, lost answers, parking; implements `SearchIndex` |
| `Reindex` | `Indexer` | `daimon reindex` and `daimon import` beside the store and the drainer; the collection's existence and who creates it |
| `Addresses` | | namespaces, the address parsers and printers, the taxonomy of kinds |
| `Fusion` | | reciprocal-rank fusion as a pure function |
| `Tools` | `MemoryStore`, `Addresses`, `Fusion` | what clients can ask: validated writes, the repository's own clients among them, read, recall, retraction by address |
| `HermesProvider` | | the Hermes provider's session start, background recall and save-nudge, driven by the host's turn loop |
| `HermesSession` | `HermesProvider` | a whole session: mirrored writes, their drain, shutdown |
| `HermesSetup` | | setup and uninstall, file operation by file operation |
| `MemoryStoreProofs`, `IndexerProofs`, `FusionProofs`, `ToolsProofs`, `HermesProofs`, `HermesSetupProofs`, `ReindexProofs`, `PgProofs` | the module named (`PgProofs`: `PgTransactions`; `HermesProofs`: `HermesSession`); `IndexerProofs`, `PgProofs` and `ToolsProofs` also `MemoryStoreProofs`, `ReindexProofs` also `IndexerProofs`, `ToolsProofs` also `FusionProofs` | theorems |
| `MC...` | the module named | bounds and symmetry for TLC |

### MemoryStore

One action is one committed transaction. A title stands for a (kind, title)
pair and `UpdateTitle` for the pairs whose kind has `WriteMode::Update`; a body
stands for body and fields, so `ContentSha` is the pair (title, body) and, like
the code's hash, leaves namespace and tenant out. A transaction that rolls back
or that only finds a duplicate changes nothing.

`Overlap` says whether transactions may be in progress together. If they may
not, the superseding UPDATE sees every committed record and outbox ids grow. If
they may, it can miss records committed after its snapshot (`SupersededSets` is
then any subset), the dedup SELECT can be out of date (`StoreInsert` relies on
the unique index instead), and ids can become visible out of order, except that
a delete row about a record always has a larger id than its upsert row, because
whoever retracts a record has seen its commit (`FreshId`).

### PgTransactions

A session's uncommitted changes are in `txn[s]`; the tables of `MemoryStore`
hold what is committed. A statement that would wait for another transaction is
not enabled until that transaction ends. An UPDATE is two steps: `UpdateScan`
finds the rows under the statement's snapshot, `UpdateRows` locks them and
re-checks the condition, which is what READ COMMITTED does. `InsertRow` waits
for any transaction holding the same index entry and is refused
(`InsertConflict`) if a committed twin is left. `Abort` may strike anywhere.
The run `pg_transactions` checks that this module implements `StoreSpec` with
`Overlap = TRUE`, the identity being the refinement mapping of the tables, and
`PgProofs` proves it; so what is proved of `MemoryStore` for every `Overlap`
speaks of this level too. The run keeps a deadlock check: the statements' locks
cannot leave every session waiting, because an aborted session is a step.

### Indexer

The process is a loop with one step per SQL statement or Qdrant request:
`Fetch` (the batch SELECT), `Defer` or `Begin` (the health check), then per row
`ReadActive`, `SkipRetracted`, `ReadDelete` or `ReadFails`, the call
(`CallSucceeds`, `CallFails`) and the UPDATE (`MarkProcessed`, `ChargeAttempt`,
`DeadLetter`, or `UpdateFails`, which ends the batch). `row` and `batch` are
what the process holds in memory: they go stale while the store commits, and
`Crash` loses them. A failed call may have taken effect. `Poison` are records
whose text the embedder or Qdrant rejects every time. A point is its record's
id: `OneWayStatus` shows that the columns its payload is computed from never
change.

Not modelled: a Qdrant request that takes effect after the client has given up
on it; two indexers at once (the code asks for a singleton); the lengths of
naps.

### SearchIndex

Four sets: the records readers should find (`live`), those they should no longer
find (`retracted`), those they do find (`found`), and those the index may still
be wrong about (`due`). A commit of the store changes the first two and makes
records due; the index changes what is found of a record only while the record
is due, and is done with it only when it is found exactly if it is live.
`Indexer` maps its tables onto these sets (`Live`, `Retracted`, `Due`): a record
is due while a row about it is unprocessed or was dead-lettered, and for good
once another tenant's row names it (see `tenant_scope`). `ImplementsIndex` says
that no crash, outage, lost answer or retry of the drainer shows through.

### Reindex

`collection` is whether the Qdrant collection exists; a request to a collection
that does not exist fails although `healthy()` answers. `reindex` is `Drop`,
`Create`, `Select`, `UpsertOne` per record, `Finish`; `Stop` is an error or a
kill anywhere. `Import` inserts one line of a file, with its recorded status and
no outbox row; its second INSERT, the namespace, may be lost. `ensure()` asks
(`EnsureAsks`) and creates later (`ServerCreates`, `IndexerCreates`), while a
reindex, a server and an indexer may all be between the two; whoever comes
second is refused (`EnsureFails`, `Stop`). `rebuild` is a history variable:
whether a rebuild is due, finished and quiet (`clean`), or finished after a
retraction overtook it (`raced`); `owed`, another, are the records the SELECT read
as active. Those the rebuild must bring whatever became of their outbox rows, for
reindex is the documented repair of dead letters; only a record stored after the
SELECT may be left to the queue. Imported records are active or forgotten.

### HermesProvider

The host calls the hooks of a turn in order, from one thread; this order is the
host's, known here only from the provider's comments (`WarmNext` is marked
external). `Work(k)` is the end of the recall thread of token `k`: it holds the
lock while it compares its token with the newest and commits. `Join` gives up
when the newest thread is still at work, since a recall may take 6 s and
`prefetch` waits 3 s. Hits are known by the token they were asked with.
`gaveUp`, `lastServed`, `outcome`, `sinceSave`, `silent` and `refused` are
history variables. A provider without a client does nothing and is not modelled,
nor is `DAIMON_NUDGE=off`.

### HermesSession

A mirrored write is a number and a thread that ends whenever it likes, or never.
A drain runs over a copy of the list (`toJoin`) and waits 5 s for each thread,
oldest first: `JoinWrite` goes on either because the thread has ended or because
the time is up, and notes the latter in the history variable `overdue`. A drain
ends a session, after which turns may go on, or the provider, which then closes
its client. The threads are daemon threads: what is in flight when the process
exits is lost, as the code accepts.

### HermesSetup

Each file operation of `do_setup` and `do_uninstall` is a step; `_atomic_write`
is one, since only its rename is seen, and the backup, a plain copy, is two.
`Crash` may strike between any two and loses what the command holds in memory.
The user edits `.env` at any time, between `_write_env`'s read and its replace
included. A file of lines is a set of lines; a line for a key is the user's or a
setup's. `_write_env` compares the text before `=` literally, so the lines for a key
are those that begin with `KEY=`; a user's `export KEY=`, `KEY =` or indented line is
one of `OtherLine`, which setup keeps and beside which it adds a line of its own.
`touched` and `ranOnEmpty` are history variables. Two commands at once, and write
errors that are not a kill, are not modelled.

### Addresses, Fusion, Tools

An address is a record: whether it begins with the scheme, the components
between its slashes, and what follows its `#`. `Segment` (which components match
`[a-z0-9][a-z0-9-]*`) and `Uuid` are constants, and a UUID is a legal segment:
a namespace can contain one, and the parsers must still find the tenant and the
record's id. A UUID is taken to be written in one way.

`Fusion` follows `fuse()` with scores scaled to integers. An arm is a sequence of
hits; ranks, the namespace post-filter of the semantic arm, the importance boost,
the order and its tie-breaks are the code's. A list is taken in an order by
counting, not by recursion (`InOrder`: the n-th element is the one with n - 1
before it), so that the provers can reason about it.

`Tools` writes to the tables of `MemoryStore` what a request becomes after the
tool's defaults, the cast of `importance` to eight bits (`AsU8`; only MCP calls
are cast, `POST /v1/memory` refuses a number that is no u8) and `validate_write`
(`Accepted`). `columns` is a record's importance and confidence, `points` the
collection. Recall is two steps because the code awaits twice: `KeywordArm` reads
PostgreSQL, then other calls commit and the index moves on, then `SemanticArm`
reads Qdrant and fuses. An arm that fails is empty. The text search and the
nearest neighbours are any order of any of the records the filters let through.
One recall at a time is watched: recalls change nothing. The drainer is one step
per attempt at a row (`IndexRow`), since its interleavings inside one are `Indexer`'s:
an attempt has its effect and is marked; or fails, before or after the effect, and is
charged, which at the cap takes the row out of the queue as `processed` although its
delete may never have reached Qdrant; or is cut off with nothing written. `Effects`
says what a row may do to the points, an upsert that was read before a retraction
included. `Done` rows are those processed and not given up. A reindex may be under way
at any time (`ReindexDrops`, `ReindexPuts`); `restored` is a history variable: the
points of retracted records that it put back. `answer` is one too, for the property on
confirmation, as is `retracted` in `recall`. So `RetractedIsNotServed` promises what
the code keeps: a record whose delete row is done is served by no later recall, unless
a reindex that read it before the retraction put its point back.

The repository's own clients are requests like any other (`OwnWrite`): the
persona wizard, `daimon protocol seed` and `import`, and Hermes's mirrored notes,
with what each fills in for what it is not told. `since` is compared in tenths of
a second by PostgreSQL and in whole ones by Qdrant, truncated on one side and
rounded on the other (`SinceEpoch`, `CreatedEpoch`).

Not modelled: `LIKE` wildcards in a prefix, and a prefix that ends inside a
component.

## 3. Properties and runs

| Run | Shows |
| --- | --- |
| `pg_transactions` | `StoreSpec`: the statement-level store implements the atomic one; `OutboxMatchesStatus`; the unique index keeps `DedupUnique`; `ConflictMeansStored`: a store refused by the index lost to a committed twin; `OneWayStatus`: a retraction between an UPDATE's snapshot and its locks is not undone; `FoundIsSuperseded`: a store that commits leaves no record current that its UPDATE had found, though it waits for locks and re-checks in between. 2 sessions, 2 tenants, an Update and an Append title, 3 records, 4 outbox rows, enough for a retraction between an UPDATE's snapshot and its locks |
| `supersede_race` (violation) | `OneActivePerSubject` fails for two overlapping stores of one subject: each UPDATE sees only committed records |
| `tenant_scope` (violation) | `forget` of another tenant's id commits a delete row about that record |
| `indexer_safety` | `RetractionSticks`, `NoSilentGap`, `CapEndsRetries`, `ProcessedIsFinal`, and `ImplementsIndex`, the refinement of `SearchIndex`, with crashes, outages and lost answers: 2 tenants, 2 records, batches of 2, a cap of 2, 4 outbox rows |
| `indexer_outage` (violation) | health is asked once per batch, so a row whose request meets no Qdrant later in the batch is charged; the history variable `unreached` of `MCOutage` tells that failure from every other |
| `indexer_live` | `EveryRowProcessed`, `IndexConverges` with a poison record, batches of 1, ids visible out of order, 3 outbox rows |
| `reindex` | `RebuildIsComplete`: every record the rebuild read as active has its point, dead-lettered or not; `QuietRebuildIsClean`; `DedupUnique` with imports, which pass the dedup SELECT by; crashes, overlapping stores, and a server and an indexer starting at any point: 2 records, 3 outbox rows, a cap of 1. Parking is left to `indexer_safety`: to a rebuild it is a crash with no restart |
| `reindex_race` (violation) | a retraction whose delete is processed between reindex's SELECT and its upsert leaves its point behind |
| `tools` | `AddressesLeadBack`, `GuidedCallsAreStored`, `OwnClientsAreStored`, `UnconfirmedForgetSparesDurable`, `RetractedIsNotServed`, `ArmsAgreeOnSince`, `BothArmsFirst`, `DroppedHitsLeaveNoTrace`, with overlapping stores, a drainer that fails and gives up (a cap of 1), and reindexes: 2 records created at different fractions of a second, 3 outbox rows, 2 tenants, the requests and recalls of `MCTools` (unscoped, scoped, blank, bounded in time) |
| `hermes_turns` | `ServedInOrder`, `JoinedIsCurrent`, `QuietNudgeIsTrue`, `SilenceBounded`, `CloseSparesWrites`, `HostNeverHangs` over 4 turns, a cadence of 2, one mirrored write |
| `hermes_setup` | `FinishedIsComplete`, `KeysStayUnique`, `BackupIsPristine`, `UserLinesSurvive` for one setting, the API key and one foreign line: a setting and the key that is written only if it is given are the two cases `_write_env` tells apart |
| `hermes_persona` (violation) | the system block is always empty: `recall` answers a blank query with nothing |

The violations are the code's disagreements with its own comments; `findings`
in `PROJECT.json` quotes both sides.

More such disagreements are in the models without a run of their own:

- `reindex` marks no outbox row processed, so it does not drain what a parked
  indexer left (`Finish`; indexer 66-67 says it does);
- `prefetch`, when it gives up after 3 s, injects what an earlier message
  recalled (`Join`, `Take`; provider.py 385-389);
- a refused `daimon_remember` silences the nudge of its turn (`Remember`,
  `CoveredTurn`; provider.py 486); `SilenceBounded` says how much silence
  failing saves can buy;
- an import killed between its two INSERTs leaves a record whose namespace no
  rerun registers, although "re-running a partial restore is safe" (`Import`;
  cli 278-279); it may also put a second current record beside the one its
  subject has, as overlapping stores may (`supersede_race`), but never a second
  active record of the same content (`DedupUnique`);
- a delete row that is dead-lettered counts as processed although its point may still
  be there: recall goes on serving the retracted record until the next reindex
  (`IndexRow`, `Done` of `Tools`; indexer 202-207);
- the semantic arm may show a record up to a second and a half older than asked
  for, although it "honors the same predicates" (vec 169; `ArmsAgreeOnSince`
  says it never hides one);
- "Only `title` is required" of a protocol file (cli 617), but the server
  refuses one with an empty body (`CompleteCall`);
- a retry of a store whose answer was lost makes its content current again if
  another writer superseded it meanwhile, as a new record: the code cannot tell
  a retry from a new wish;
- setup's comment says "atomic; never clobber a foreign file" (`cli.py` 164),
  but `plugin.yaml` is replaced whoever wrote it (`WriteManifest`); `FinishedIsComplete`
  therefore asks for a manifest, not for setup's own. And the backup is not atomic
  (`EndCopy`); the "PRISTINE" backup is of setup's own lines if the
  first setup found `.env` empty (`ranOnEmpty`), which a test expects;
- an uninstall leaves Hermes switched to what it removed, and one that is killed
  may leave a directory the next one takes for foreign (`RemoveFile`);
- `_write_env` says it adds "missing" lines, but takes a key that the user set as
  `export KEY=` or `KEY =` for missing: which of the two lines counts is up to what
  loads the file (`OtherLine`; `cli.py` 108-112);
- what the user writes to `.env` between `_write_env`'s read and its replace is
  lost (`touched` in `UserLinesSurvive`).

`Tools` has three of the same sort. The description of the forget tool
(`mcp/mcp.rs` 144) says that durable records require `confirm=true` and that
`user/` records forget freely. The gate looks for `/agent/` and `/resources/` in
the text, and `forget()` acts on the record id alone: an address with the wrong
namespace retracts a durable record unconfirmed, which is why
`UnconfirmedForgetSparesDurable` speaks of callers that name the namespace right;
and a record under, say, `user/agent/` is gated although it is the user's. An
`importance` of 300 sent over MCP is stored as 44 (`AsU8`; 228), although
`validate_write` says it enforces 0 to 100.

Bounds. Record ids are created once and never reused, outbox ids are drawn
once, so both sets bound the number of operations of a behaviour; the store
stops when they are used up (which is why `tenant_scope` does
not check for deadlock; nor do the Hermes runs, whose session
ends with its last turn or its shutdown, and a host whose setup is done may rest;
the others do, and pass, since the indexer can always
crash and restart, or a session begin and abort). Two records
of one subject, one supersession, one or two forgets and the rows they queue are
what it takes to put an upsert, a delete and a replay of each in every order. A batch
of two is the smallest in which a row is stale because of the row before it. A
cap of two is the smallest that has a charge and a dead letter.
`pg_transactions` does not mix writes of Update and of Append kinds (`OneMode`):
they differ in content and in subject, so neither sees the other's records; and
it stops at the second record of an Append kind. It runs with `Overlap = TRUE`, as do
`tools`, `reindex` and `indexer_live`; `indexer_safety` runs with `FALSE`, which is a
bound: with overlapping stores it does not finish in minutes. The theorems about
`Indexer` and `Reindex` assume neither value. The violations `indexer_outage`,
`reindex_race` and `tenant_scope` need no overlap. A cap of one is enough for
`reindex`, which must tell a dead letter from a row in the queue. In `tools`, two records are what a rank
needs to shift and a hit of both arms to meet one of a single arm; one request's
namespace contains a kind and a UUID, which is also a record's id. A state is looked
at without `answer`, which no action reads (`Observed`); no step is taken after an
answer, since every step forgets it and leads where it led before the recall
(`NotAnswered`); and the records are stored in the order of their creation times
(`CreatedInOrder`). The run stops when rows or records are used up, so it does not
check for deadlock. In `hermes_turns`, a refused save at a cadence of two makes the
silence four turns long before it is too long, which is why there are four; the fourth
comes only in sessions that have asked at most three recalls (`FewRecalls`). Symmetry
is used where a run checks safety only.

Fairness. `FairSpec` assumes that a running indexer takes its next step (its
main loop never ends by itself), that a dead one is started again (compose and
Kubernetes restart it) and that a Qdrant outage ends. Nothing is assumed of the
store. The liveness properties hold under `FaultsCease`: crashes, outages and
database errors may come in any number but not for ever. Parking, which is for
good, is excluded from `indexer_live` (`CanPark = FALSE`). `FairSession` assumes
only that the host's own thread goes on while it is in a hook (`HostStep`): it
assumes nothing of the threads that recall and write, which may hang for ever, and
`HostNeverHangs` holds all the same, because every join has a timeout.

## 4. Proofs

`MemoryStoreProofs` proves, for every value of the constants: `StoreTypeCorrect`,
`Dedup`, `OneWay` and `OutboxTellsAll`, whether stores overlap or not. They rest on
`StoreStepEffect`, which says what any step of the store can do to the tables
and the outbox, so that a proof about another module need not open the store's
actions again.

`IndexerProofs` proves `TypeCorrect`, `RetractionIsFinal`, `NoRecordIsLost` and
`RetriesEnd`. None of the three safety properties is inductive: they speak of
the outbox and the collection, while what could break them is what the process
holds in memory. The inductive invariant `IInv` adds

- `OutboxKeys`, `OutboxOwners`: ids name rows, every row is about a record there
  is, upsert rows are its tenant's, and its tenant has queued no delete row of an
  active record;
- `Snapshot`: `row` and the rows of `batch` are unprocessed rows of the outbox,
  unchanged since they were read, for only this process updates rows;
- `CallIsCovered`: when the process is about to upsert a record, no delete row of
  the record's tenant is processed. There was none when the record was read as
  active, and none can be processed before this row is done: a retraction that
  comes in between has its delete row still ahead;
- `MarkIsEarned`: when the process is about to mark a delete row, the point is
  gone; an upsert row, the point is there, or the record needs none, or another
  tenant's delete row accounts for its absence.

`IndexerProofs` goes on to prove `Implementation`, that every step of `Indexer` is a step
of `SearchIndex` under its mapping or none: a commit of the store is a `Commit`
(`OutboxStory` of `MemoryStoreProofs` supplies the rows that make the retracted
records due), a Qdrant call is a `Work` on a record that is due because its row is
unprocessed, and a mark is a `Settle`, which is where `MarkIsEarned` is needed. It
also proves `ProcessedStays`, and of `SearchIndex` itself that it keeps its promise
(`IndexIsFaithful`), so that the promise holds of the drainer (`FoundIsRight`).

TLC checked `IInv` as an invariant before it was proved. Each action is one
step of the proof, with one leaf per conjunct it can disturb.

`ToolsProofs` proves every property of the run `tools`. `AddressRoundTrip` and
`ConfirmGate` rest on the invariant `Placed`: the namespace and kind of every stored
record are ones the parsers accept, because `Remember` stores only what
`validate_write` accepted, and no other action changes them. From that, `FullRoundTrip` shows that the parser, which takes tenant from the front
and kind and id from the back, recovers the namespace between them whatever
segments it has, and `Forms` that the relative form is never mistaken for a full
one, since a root is not a UUID. `ConfirmGate` adds `DurableShows`: an address
that parses to a durable namespace has its root where the gate looks.

What recall answers needs two more invariants, collected in `TInv`. `TablesTyped`
says that a record's importance and confidence are between 0 and 100, whatever a
client sent (`AcceptedNumbers`: validation comes after the cast), and that only
stored records have points. `RecallMade` says how the recall in progress came about:
each arm is a list of hits without repetition, no longer than was asked for, of
records that passed that arm's reading of `since`, and the answer is `Fuse` of the
two. What was committed between the two reads may make the arms disagree, but not
break this; the rest is about `Fuse`.

- `FusionProofs` shows what `Fuse` answers for any two arms (`FuseRanks`): one hit per
  record found, each placed before all that rank behind it, and nothing left out that
  should have come before what was kept. Induction over the list is avoided:
  `InOrderEnumerates` shows by counting that in a strict total order on a finite set
  every element has a place of its own and every place an element. For that, two
  addresses must never be equal, which is the last tie-break.
  `DroppedHitsDoNotCount` follows because a filtered list passes the filter whole
  (`AllInScope`) and in its own order (`OwnRanks`).
- `BothArmsOutrank` and `BothArmsLead` make exact what the comment on
  `IMPORTANCE_BOOST_MAX` calls shallow ranks: with arms of at most 54 hits, a record
  found by both scores higher than, and is placed before, any found by one, at any
  importance. 54 is the most (`ShallowIsTight`: two 55th places lose to a first place
  of importance 100). The default recall, ten hits, asks for fifty under a prefix and
  is shallow; recall allows arms of 200, and there the comment claims nothing.
  `BoostIsAdvisory` is the same of every answer recall gives (`BothArmsFirst` has the
  54 in its antecedent).
- `RetractionReachesBothArms` is about the arms: a retracted record whose delete row
  is done has no point, except one that a reindex restored (`PointsAnswered`). Its
  delete took the point away, and no attempt at an upsert row behind it, failed or cut
  off, brings it back (`AttemptSpares`); a reindex that does is noted (`ReindexSpares`).
  So what was done when a recall began is in neither store then, and, since nothing is
  reactivated and what is done stays so, nor when the semantic arm looks.
  `RetractionReachesRecall` adds that the answer holds only what the arms found
  (`FoundInScope`).
- `RecallStaysInScope` says of every answer that its records belong to the caller's
  tenant, are of the kind asked for and lie under the namespace asked for. PostgreSQL
  was asked earlier than Qdrant, and Qdrant's payload may be old; the proof needs that
  tenant, namespace and kind of a record never change (`IdentityStays`). The statement
  (`AnswerInScope`) was checked by TLC on the instance of `tools` before it was proved.
- `SinceAgrees` is arithmetic on the two roundings. `SchemaIsEnough` and
  `OwnClientsFit` hold in every state, since they speak of calls one at a time; what
  they need of the state is that an id still free is one the parser takes.

`HermesProofs` proves the type invariant and all safety properties of
`HermesSession`, for any number of turns, recalls and writes and any cadence. What
has to be added is where the newest token belongs: after `on_turn_start` of a turn
with a message, until the next prefetch, the newest query asked is that turn's; what
the stash holds was never served; and `silent` stays below the cadence times one more
than the refused turns with `quiet` to spare.

`PgProofs` proves that `PgTransactions` implements `StoreSpec`
(`StatementsAreAtomic`), for any number of sessions aborted at any statement, under
the assumption `Overlap`; what `MemoryStoreProofs` says of the store then holds of its
statements (`TransactionsTellAll`). The argument is the invariant `PInv`: every
session's transaction is `Good` and any two are `Apart`. Good means that what it will
commit is already settled: the records it supersedes are active, for it holds their
locks; if it has inserted its record, no other active record has the content, except
those it supersedes; the rows it has drawn have ids nobody else has, larger than the
upsert row of the record they are about. Apart means that no two hold the same lock,
have inserted the same content or record, or have drawn the same id. A commit of one
leaves the others good because of what `CommitEffect` says of it, and is itself a
`StoreInsert` or a `Forget`. `RefusedIsStored` looks at the one statement that
refuses. `UpdateSupersedes` is what is left of supersession when stores overlap: what an
UPDATE had found is not current after its store's commit. Once it has its locks, what
it found it will supersede, or someone else has retracted it (`FoundInv`); and as
nothing is reactivated, no other session makes it so
(`FoundByOthers`, `FoundStep`).

`ReindexProofs` proves the type invariant and the properties of `Reindex`,
whatever runs beside the rebuild and wherever it is stopped. Nothing the drainer knows
of the collection survives a rebuild, so `IndexerProofs`' invariant does not hold
here; what does is its part about the outbox and the drainer's hands (`Rows`). The
rest speaks of the rebuild. From the SELECT on, points and the records still in hand
together hold every active record that was owed its point, whatever the outbox says of
it (`Filling`): the drainer takes a point away only for a delete row, which is about
a retracted record or comes from another tenant. What is committed later has its upsert row in
the queue, and keeps it until it has its point or is dead-lettered (`Queued`). From the
moment the collection was emptied until a retraction overtakes the rebuild, no point
has a processed delete row (`Following`), because what is in hand is still active
(`InHand`). `ImportsDeduplicate` extends `Dedup` to a system in which imports run.

`HermesSetupProofs` proves the four properties of `HermesSetup`, and its types on the
way, for any keys and lines. The inductive invariant says what each step of
a command may take for granted: from `manifest` on the shim is a managed one, from
`backup` on the manifest is ours, before `replace` what was read has one line per key
and is still the file unless the user touched it, after it every key is there; and a
file with lines of setup's has been backed up, or a setup found it empty.

Constants' assumptions: outbox ids are naturals, `NoRow` is no row and no write, the batch
limit and the cap are positive; there are finitely many ids for records, and their
addresses are ordered without ties; the limit of a query is a natural, its `since` an
integer, the importance an MCP or REST caller sends an integer; roots, kinds and UUIDs are components, no root or
kind is a UUID, and the words of the default namespaces are segments; the Update
titles are those of an Update kind; a request that is accepted is a write of
`MemoryWrite`.

Only model-checked: liveness (`EveryRowProcessed`, `IndexConverges`,
`HostNeverHangs`), which needs fairness and ENABLED and is out of the prover's reach.
Each other property of a passing run is a theorem, for overlapping stores too; those of
`PgProofs` that compare the statements with the atomic store assume `Overlap`, which is
what the server does: its sessions run together. That scores scaled to
integers order as the code's `f32` do is an abstraction of `Fusion`, not a theorem.

## 5. Not modelled, and the plan

Done, in this order: `MemoryStore`, `Indexer`, their proofs, `PgTransactions`,
`Reindex`, `HermesProvider`, `Addresses`, `Fusion`, `Tools` and their proofs,
`SearchIndex` and the refinement, `HermesSession`, the split `ensure()`,
`HermesSetup`, and their proofs, those of `Reindex` and `PgTransactions` last. A retried store needs no module of its own: a
retry is a second store of the same content, which `PgTransactions` and `Tools` have.

What could still be proved are invariants that the liveness properties rest on: that
the drainer's attempts on a row only grow, and that whatever keeps it from going on is
a fault.

Left out for good: authentication, JSON-RPC framing, health endpoints, export,
stats, migrations, packaging: they keep no state and take no decision a property
is about. The embedder is a
source of failures only.
