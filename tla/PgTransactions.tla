---------------------------- MODULE PgTransactions ----------------------------
(***************************************************************************)
(* store() and forget() of PgStore statement by statement, in several      *)
(* sessions of the connection pool, as PostgreSQL runs them: READ          *)
(* COMMITTED, row locks held to the end of the transaction, a partial      *)
(* unique index on active content, a foreign key from the outbox, and a    *)
(* sequence that is not transactional.                                     *)
(*                                                                         *)
(* The tables of MemoryStore hold what is committed.  A transaction's own  *)
(* changes are in txn until it commits; a statement that meets another     *)
(* transaction's uncommitted change to the same row, index key or          *)
(* namespace waits, which here means that it is not enabled.  An UPDATE    *)
(* that waited re-checks its condition on the rows it had found (targets), *)
(* and does not look for new ones.                                         *)
(*                                                                         *)
(* With Overlap = TRUE this module implements MemoryStore.                 *)
(***************************************************************************)
EXTENDS MemoryStore

CONSTANT
    Session        \* connections of the pool

VARIABLES
    txn,           \* what each session is doing
    sequence       \* the next value of index_outbox_id_seq

txnVars == <<txn, sequence>>
vars == <<storeVars, txnVars>>

\* select .. upsert: the statements of store(); retract, delete: of forget();
\* commit: all statements done; conflict: the unique index refused the record.
Step == {"idle", "select", "scan", "update", "enqueue", "insert", "namespace",
         "upsert", "retract", "delete", "commit", "conflict"}

Txn == [step : Step, tenant : Tenant \cup {NoRow},
        write : MemoryWrite \cup {NoRow},
        record : Record \cup {NoRow},
        targets : SUBSET Record, sup : SUBSET Record,
        rows : SUBSET OutboxRow]

Idle == [step |-> "idle", tenant |-> NoRow, write |-> NoRow, record |-> NoRow,
         targets |-> {}, sup |-> {}, rows |-> {}]

\* NoRow stands for "no write" in a session, and tells a forget() from a store().
ASSUME NoWriteAssumption == NoRow \notin MemoryWrite

TypeOK ==
    /\ StoreTypeOK
    /\ txn \in [Session -> Txn]
    /\ sequence \in Nat

Init ==
    /\ StoreInit
    /\ txn = [s \in Session |-> Idle]
    /\ sequence = 1

-----------------------------------------------------------------------------
IsStore(s) == txn[s].write # NoRow

\* Records whose row another session has updated and not yet committed.
LockedByOther(s, r) ==
    \E o \in Session \ {s} :
      \/ r \in txn[o].sup
      \/ ~IsStore(o) /\ txn[o].step \in {"delete", "commit"}
           /\ txn[o].record = r /\ records[r].tenant = txn[o].tenant

\* MUTANT of ContentHeldByOther: records_dedup_active is not UNIQUE.
ContentHeldByOther_NoIndex(s, t, w) == FALSE

\* Another session has inserted a record with the content of w for tenant t.
ContentHeldByOther(s, t, w) ==
    \E o \in Session \ {s} :
      /\ IsStore(o)
      /\ txn[o].step \in {"namespace", "upsert", "commit"}
      /\ txn[o].tenant = t
      /\ ContentSha(txn[o].write) = ContentSha(w)

\* Another session has inserted the namespace of w for tenant t.
NamespaceHeldByOther(s, t, w) ==
    /\ <<t, w.namespace>> \notin namespaces
    /\ \E o \in Session \ {s} :
         /\ IsStore(o)
         /\ txn[o].step \in {"upsert", "commit"}
         /\ txn[o].tenant = t
         /\ txn[o].write.namespace = w.namespace

Goto(s, step) == txn' = [txn EXCEPT ![s].step = step]

\* INSERT INTO memory.index_outbox: the id is drawn at once.
Enqueue(s, r, op, step) ==
    /\ sequence \in OutboxId
    /\ txn' = [txn EXCEPT
         ![s].step = step,
         ![s].rows = @ \cup {NewOutboxRow(sequence, r, txn[s].tenant, op)}]
    /\ sequence' = sequence + 1

-----------------------------------------------------------------------------
BeginStore(s, t, w) ==
    /\ txn[s].step = "idle"
    /\ txn' = [txn EXCEPT ![s] =
         [Idle EXCEPT !.step = "select", !.tenant = t, !.write = w]]
    /\ UNCHANGED <<storeVars, sequence>>

\* The dedup SELECT finds a record: commit, and return its URI.
SelectHit(s) ==
    /\ txn[s].step = "select"
    /\ Duplicates(txn[s].tenant, txn[s].write) # {}
    /\ txn' = [txn EXCEPT ![s] = Idle]
    /\ UNCHANGED <<storeVars, sequence>>

SelectMiss(s) ==
    /\ txn[s].step = "select"
    /\ Duplicates(txn[s].tenant, txn[s].write) = {}
    /\ Goto(s, IF txn[s].write.title \in UpdateTitle THEN "scan" ELSE "insert")
    /\ UNCHANGED <<storeVars, sequence>>

\* The superseding UPDATE takes its snapshot and finds its rows.
UpdateScan(s) ==
    /\ txn[s].step = "scan"
    /\ txn' = [txn EXCEPT
         ![s].step = "update",
         ![s].targets = Supersedable(txn[s].tenant, txn[s].write)]
    /\ UNCHANGED <<storeVars, sequence>>

\* MUTANT of UpdateRows: the rows found are changed without a second look.
UpdateRows_NoRecheck(s) ==
    /\ txn[s].step = "update"
    /\ \A q \in txn[s].targets : ~LockedByOther(s, q)
    /\ txn' = [txn EXCEPT ![s].step = "enqueue", ![s].sup = txn[s].targets]
    /\ UNCHANGED <<storeVars, sequence>>

\* MUTANT of UpdateRows: rows another session has locked are passed over.
UpdateRows_SkipLocked(s) ==
    /\ txn[s].step = "update"
    /\ txn' = [txn EXCEPT
         ![s].step = "enqueue",
         ![s].sup = {q \in txn[s].targets : Active(q) /\ ~LockedByOther(s, q)}]
    /\ UNCHANGED <<storeVars, sequence>>

\* It locks them, waiting for other transactions, and changes those that are
\* still active.
UpdateRows(s) ==
    /\ txn[s].step = "update"
    /\ \A q \in txn[s].targets : ~LockedByOther(s, q)
    /\ txn' = [txn EXCEPT
         ![s].step = "enqueue",
         ![s].sup = {q \in txn[s].targets : Active(q)}]
    /\ UNCHANGED <<storeVars, sequence>>

\* One 'delete' row for each id the UPDATE returned.
EnqueueDelete(s, q) ==
    /\ txn[s].step = "enqueue"
    /\ q \in txn[s].sup
    /\ \A x \in txn[s].rows : x.record # q
    /\ Enqueue(s, q, "delete", "enqueue")
    /\ UNCHANGED storeVars

\* MUTANT of EnqueueDone: the loop over the superseded records stops early.
EnqueueDone_Early(s) ==
    /\ txn[s].step = "enqueue"
    /\ Goto(s, "insert")
    /\ UNCHANGED <<storeVars, sequence>>

EnqueueDone(s) ==
    /\ txn[s].step = "enqueue"
    /\ {x.record : x \in txn[s].rows} = txn[s].sup
    /\ Goto(s, "insert")
    /\ UNCHANGED <<storeVars, sequence>>

\* The records whose index entries the new record's insertion would meet.
Twins(s) == Duplicates(txn[s].tenant, txn[s].write) \ txn[s].sup

\* INSERT INTO memory.records waits for every transaction that has inserted or
\* is retracting an entry of the same key.
MayInsert(s) ==
    /\ txn[s].step = "insert"
    /\ ~ContentHeldByOther(s, txn[s].tenant, txn[s].write)
    /\ \A q \in Twins(s) : ~LockedByOther(s, q)

InsertRow(s) ==
    /\ MayInsert(s)
    /\ Twins(s) = {}
    /\ \E r \in Record :
         /\ ~Exists(r)
         /\ \A o \in Session : IsStore(o) => txn[o].record # r
         /\ txn' = [txn EXCEPT ![s].step = "namespace", ![s].record = r]
    /\ UNCHANGED <<storeVars, sequence>>

\* MUTANT of InsertConflict: an uncommitted twin is refused without a wait.
InsertConflict_NoWait(s) ==
    /\ txn[s].step = "insert"
    /\ \/ Twins(s) # {}
       \/ ContentHeldByOther(s, txn[s].tenant, txn[s].write)
    /\ Goto(s, "conflict")
    /\ UNCHANGED <<storeVars, sequence>>

\* records_dedup_active refuses the row: the caller gets a Backend error and the
\* transaction is rolled back when it is dropped.
InsertConflict(s) ==
    /\ MayInsert(s)
    /\ Twins(s) # {}
    /\ Goto(s, "conflict")
    /\ UNCHANGED <<storeVars, sequence>>

\* INSERT INTO memory.namespaces ... ON CONFLICT DO NOTHING.
InsertNamespace(s) ==
    /\ txn[s].step = "namespace"
    /\ ~NamespaceHeldByOther(s, txn[s].tenant, txn[s].write)
    /\ Goto(s, "upsert")
    /\ UNCHANGED <<storeVars, sequence>>

EnqueueUpsert(s) ==
    /\ txn[s].step = "upsert"
    /\ Enqueue(s, txn[s].record, "upsert", "commit")
    /\ UNCHANGED storeVars

CommitStore(s) ==
    /\ txn[s].step = "commit"
    /\ IsStore(s)
    /\ LET t == txn[s].tenant  w == txn[s].write IN
         /\ records' = [q \in Record |->
              IF q = txn[s].record
                THEN [tenant |-> t, namespace |-> w.namespace, title |-> w.title,
                      body |-> w.body, status |-> "active"]
              ELSE IF q \in txn[s].sup
                THEN [records[q] EXCEPT !.status = "superseded"]
              ELSE records[q]]
         /\ namespaces' = namespaces \cup {<<t, w.namespace>>}
    /\ outbox' = outbox \cup txn[s].rows
    /\ txn' = [txn EXCEPT ![s] = Idle]
    /\ UNCHANGED sequence

-----------------------------------------------------------------------------
BeginForget(s, t, r) ==
    /\ txn[s].step = "idle"
    /\ Exists(r)
    /\ txn' = [txn EXCEPT ![s] =
         [Idle EXCEPT !.step = "retract", !.tenant = t, !.record = r]]
    /\ UNCHANGED <<storeVars, sequence>>

\* UPDATE ... SET status='forgotten' WHERE tenant_id=$1 AND id=$2: waits for
\* whoever is retracting the row, then changes it if it is the tenant's.
Retract(s) ==
    /\ txn[s].step = "retract"
    /\ records[txn[s].record].tenant = txn[s].tenant =>
         ~LockedByOther(s, txn[s].record)
    /\ Goto(s, "delete")
    /\ UNCHANGED <<storeVars, sequence>>

EnqueueForget(s) ==
    /\ txn[s].step = "delete"
    /\ Enqueue(s, txn[s].record, "delete", "commit")
    /\ UNCHANGED storeVars

CommitForget(s) ==
    /\ txn[s].step = "commit"
    /\ ~IsStore(s)
    /\ LET r == txn[s].record IN
         records' = IF records[r].tenant = txn[s].tenant
                      THEN [records EXCEPT ![r].status = "forgotten"]
                      ELSE records
    /\ outbox' = outbox \cup txn[s].rows
    /\ txn' = [txn EXCEPT ![s] = Idle]
    /\ UNCHANGED <<namespaces, sequence>>

-----------------------------------------------------------------------------
\* MUTANT of Abort: a rolled-back session never returns to the pool.
Abort_Leaks(s) ==
    /\ txn[s].step # "idle"
    /\ txn' = [txn EXCEPT ![s].step = "aborted"]
    /\ UNCHANGED <<storeVars, sequence>>

\* The transaction is rolled back: its connection was lost, the server or a
\* statement failed, or the caller went away.
Abort(s) ==
    /\ txn[s].step # "idle"
    /\ txn' = [txn EXCEPT ![s] = Idle]
    /\ UNCHANGED <<storeVars, sequence>>

StoreStatement(s) ==
    \/ SelectHit(s) \/ SelectMiss(s)
    \/ UpdateScan(s) \/ UpdateRows(s)
    \/ EnqueueDone(s) \/ \E q \in txn[s].sup : EnqueueDelete(s, q)
    \/ InsertRow(s) \/ InsertConflict(s)
    \/ InsertNamespace(s) \/ EnqueueUpsert(s) \/ CommitStore(s)

ForgetStatement(s) == Retract(s) \/ EnqueueForget(s) \/ CommitForget(s)

Next ==
    \E s \in Session :
      \/ \E t \in Tenant, w \in MemoryWrite : BeginStore(s, t, w)
      \/ \E t \in Tenant, r \in Record : BeginForget(s, t, r)
      \/ StoreStatement(s)
      \/ ForgetStatement(s)
      \/ Abort(s)

Spec == Init /\ [][Next]_vars

-----------------------------------------------------------------------------
\* A store that commits leaves no record current that its UPDATE had found,
\* whoever held or changed the record since.  So two current records of a subject
\* come only of stores of which neither had committed when the other's UPDATE took
\* its snapshot (the race of MCSupersedeRace.cfg).
FoundIsSuperseded ==
    [][\A s \in Session, r \in Record :
         /\ IsStore(s) /\ txn[s].step = "commit" /\ txn[s].record = r
         /\ ~Exists(r) /\ Exists(r)'
         => \A q \in txn[s].targets : ~Active(q)'
      ]_vars

\* A store that loses the race for its content loses it to a stored twin: when
\* the unique index refuses the record, an active record of the same tenant and
\* content is committed, so the caller's retry is deduplicated.
ConflictMeansStored ==
    [][\A s \in Session :
         (txn[s].step # "conflict" /\ txn'[s].step = "conflict") =>
           \E q \in Record :
             /\ Active(q)
             /\ records[q].tenant = txn[s].tenant
             /\ ContentSha(records[q]) = ContentSha(txn[s].write)
      ]_vars
=============================================================================
