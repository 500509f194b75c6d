------------------------------ MODULE MemoryStore ------------------------------
(***************************************************************************)
(* The canonical store of daimon-memory as its callers see it: the tables  *)
(* memory.records, memory.namespaces and memory.index_outbox, and the      *)
(* committed effect of each transaction of PgStore (crates/daimon-pg).     *)
(*                                                                         *)
(* One action is one committed transaction.  A transaction that commits    *)
(* without a write (a deduplicated store) or aborts (a lost unique-index   *)
(* race, a foreign-key failure) leaves the tables as they were.            *)
(*                                                                         *)
(* Abstractions.  A title stands for a (kind, title) pair; the pairs whose *)
(* kind has WriteMode::Update are UpdateTitle.  A body stands for the body *)
(* and the typed fields.  Tags, sources, importance and confidence are     *)
(* left out: no statement modelled here reads them.                        *)
(***************************************************************************)
EXTENDS Naturals, FiniteSets

CONSTANTS
    Tenant,       \* tenants (scope.tenant_id)
    Namespace,    \* namespaces, as MemoryWrite.namespace
    Title,        \* (kind, title) pairs
    UpdateTitle,  \* the pairs whose kind supersedes (WriteMode::Update)
    Body,         \* bodies with their typed fields
    Record,       \* record ids (Uuid::new_v4)
    OutboxId,     \* values of index_outbox.id (BIGSERIAL)
    NoRow,        \* the value of records[r] while no row has id r
    Overlap       \* may two transactions be in progress at once?

ASSUME OutboxIdAssumption == OutboxId \subseteq Nat
ASSUME OverlapAssumption == Overlap \in BOOLEAN

VARIABLES
    records,      \* memory.records, by id
    namespaces,   \* memory.namespaces
    outbox        \* memory.index_outbox

storeVars == <<records, namespaces, outbox>>

MemoryWrite == [namespace : Namespace, title : Title, body : Body]

\* 'reversed', the fourth status the schema allows, is written by no code.
RecordStatus == {"active", "superseded", "forgotten"}

RecordRow == [tenant : Tenant, namespace : Namespace, title : Title,
              body : Body, status : RecordStatus]

OutboxOp == {"upsert", "delete"}

OutboxRow == [id : OutboxId, record : Record, tenant : Tenant, op : OutboxOp,
              processed : BOOLEAN, attempts : Nat]

ASSUME NoRowAssumption == NoRow \notin RecordRow

StoreTypeOK ==
    /\ records \in [Record -> RecordRow \cup {NoRow}]
    /\ namespaces \subseteq Tenant \X Namespace
    /\ outbox \subseteq OutboxRow

StoreInit ==
    /\ records = [r \in Record |-> NoRow]
    /\ namespaces = {}
    /\ outbox = {}

-----------------------------------------------------------------------------
Exists(r) == records[r] # NoRow

Active(r) == Exists(r) /\ records[r].status = "active"

\* What content_sha hashes: kind, title, body and fields.  The namespace and
\* the tenant are not part of it.
ContentSha(x) == <<x.title, x.body>>

\* What the superseding UPDATE matches a write against.
Subject(x) == <<x.namespace, x.title>>

\* The records the dedup SELECT finds.
Duplicates(t, w) ==
    {q \in Record : /\ Active(q)
                    /\ records[q].tenant = t
                    /\ ContentSha(records[q]) = ContentSha(w)}

\* The records the superseding UPDATE matches.
Supersedable(t, w) ==
    {q \in Record : /\ w.title \in UpdateTitle
                    /\ Active(q)
                    /\ records[q].tenant = t
                    /\ Subject(records[q]) = Subject(w)}

\* MUTANT of SupersededSets: an Update kind is stored like an Append kind.
SupersededSets_AppendOnly(t, w) == {{}}

\* The UPDATE sees what was committed when it started (READ COMMITTED), so a
\* store that overlaps others misses the records they commit after that.
SupersededSets(t, w) ==
    IF Overlap THEN SUBSET Supersedable(t, w) ELSE {Supersedable(t, w)}

NewOutboxRow(i, r, t, op) ==
    [id |-> i, record |-> r, tenant |-> t, op |-> op,
     processed |-> FALSE, attempts |-> 0]

UsedIds == {x.id : x \in outbox}

\* i may become the id of the next row about r.  Ids are drawn before commit,
\* so overlapping transactions commit them in any order; but whoever retracts r
\* has seen the commit of r's upsert row before it draws an id.
FreshId(i, r) ==
    /\ i \notin UsedIds
    /\ \A x \in outbox :
         (~Overlap \/ (x.record = r /\ x.op = "upsert")) => x.id < i

\* The ids one store draws: for the delete rows of the records it supersedes
\* first, for the upsert row of its own record r last.
FreshIds(ids, sup, r) ==
    /\ \A q \in sup \cup {r} : FreshId(ids[q], q)
    /\ \A q \in sup : ids[q] < ids[r]
    /\ \A p, q \in sup : ids[p] = ids[q] => p = q

-----------------------------------------------------------------------------
\* store() found an active record with the same content: its URI is returned
\* and nothing is written.
StoreDedup(t, w) ==
    /\ Duplicates(t, w) # {}
    /\ UNCHANGED storeVars

\* The transaction of a store that writes: the superseded records, one delete
\* row each, the record, its namespace and its upsert row commit together.
InsertRecord(t, w, r, sup, ids) ==
    /\ ~Exists(r)
    /\ FreshIds(ids, sup, r)
    /\ records' = [q \in Record |->
         IF q = r
           THEN [tenant |-> t, namespace |-> w.namespace, title |-> w.title,
                 body |-> w.body, status |-> "active"]
         ELSE IF q \in sup
           THEN [records[q] EXCEPT !.status = "superseded"]
         ELSE records[q]]
    /\ namespaces' = namespaces \cup {<<t, w.namespace>>}
    /\ outbox' = outbox
         \cup {NewOutboxRow(ids[q], q, t, "delete") : q \in sup}
         \cup {NewOutboxRow(ids[r], r, t, "upsert")}

\* The dedup SELECT found no duplicate.  When stores overlap one may have been
\* committed since: the unique index refuses the record, unless the same
\* transaction supersedes the duplicate.
StoreInsert(t, w) ==
    \E r \in Record, sup \in SupersededSets(t, w) :
      \E ids \in [sup \cup {r} -> OutboxId] :
        /\ Duplicates(t, w) \subseteq (IF Overlap THEN sup ELSE {})
        /\ InsertRecord(t, w, r, sup, ids)

Store(t, w) == StoreDedup(t, w) \/ StoreInsert(t, w)

\* MUTANT of ForgetOwned: the status changes without a delete row.
ForgetOwned_NoDelete(t, r) ==
    /\ Exists(r)
    /\ records[r].tenant = t
    /\ records' = [records EXCEPT ![r].status = "forgotten"]
    /\ UNCHANGED <<namespaces, outbox>>

\* forget() of a record of the caller's tenant, whatever its status.
ForgetOwned(t, r) ==
    /\ Exists(r)
    /\ records[r].tenant = t
    /\ records' = [records EXCEPT ![r].status = "forgotten"]
    /\ \E i \in OutboxId :
         /\ FreshId(i, r)
         /\ outbox' = outbox \cup {NewOutboxRow(i, r, t, "delete")}
    /\ UNCHANGED namespaces

\* forget() of another tenant's record: the UPDATE matches no row, the delete
\* row is inserted and committed all the same, and the caller gets NotFound.
\* (An id no row has breaks the outbox's foreign key: the transaction aborts.)
ForgetUnowned(t, r) ==
    /\ Exists(r)
    /\ records[r].tenant # t
    /\ \E i \in OutboxId :
         /\ FreshId(i, r)
         /\ outbox' = outbox \cup {NewOutboxRow(i, r, t, "delete")}
    /\ UNCHANGED <<records, namespaces>>

Forget(t, r) == ForgetOwned(t, r) \/ ForgetUnowned(t, r)

StoreNext ==
    \E t \in Tenant :
      \/ \E w \in MemoryWrite : Store(t, w)
      \/ \E r \in Record : Forget(t, r)

StoreSpec == StoreInit /\ [][StoreNext]_storeVars

-----------------------------------------------------------------------------
\* Rows about r written by r's own tenant, by operation.
OwnRows(r, op) ==
    {x \in outbox : /\ x.record = r
                    /\ x.op = op
                    /\ x.tenant = records[r].tenant}

\* Deduplication holds: no tenant has two active records with the same content
\* hash, whatever namespaces they were written to (the SELECT at the head of
\* store() and the index records_dedup_active).
DedupUnique ==
    \A p, q \in Record :
      (/\ Active(p) /\ Active(q)
       /\ records[p].tenant = records[q].tenant
       /\ ContentSha(records[p]) = ContentSha(records[q])) => p = q

\* An Update kind has one current record per subject: a new write supersedes
\* the prior record for the same subject (WriteMode::Update).
OneActivePerSubject ==
    \A p, q \in Record :
      (/\ Active(p) /\ Active(q)
       /\ records[p].tenant = records[q].tenant
       /\ records[p].title \in UpdateTitle
       /\ Subject(records[p]) = Subject(records[q])) => p = q

\* The outbox tells each record's story and in order: one upsert row; as long as
\* the record is active its tenant has queued no delete; once it is not, a
\* delete row is there, with a later id than the upsert.
OutboxMatchesStatus ==
    \A r \in Record : Exists(r) =>
      /\ Cardinality(OwnRows(r, "upsert")) = 1
      /\ Active(r) <=> OwnRows(r, "delete") = {}
      /\ \A u \in OwnRows(r, "upsert"), d \in OwnRows(r, "delete") : u.id < d.id

\* A record's life is one way: what was superseded or forgotten never becomes
\* active again, what was forgotten never becomes readable again, and its
\* content never changes (so a point computed from it never goes out of date).
OneWayStatus ==
    [][\A r \in Record : Exists(r) =>
         /\ records'[r] \in
              {[records[r] EXCEPT !.status = s] : s \in RecordStatus}
         /\ records'[r].status = "active" => records[r].status = "active"
         /\ records[r].status = "forgotten" => records'[r].status = "forgotten"
      ]_storeVars

\* An operation of one tenant leaves nothing about another tenant's records:
\* every row of the outbox is about a record of the tenant that queued it.
TenantScoped ==
    \A x \in outbox : x.tenant = records[x.record].tenant

=============================================================================
