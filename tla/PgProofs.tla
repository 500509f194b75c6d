------------------------------ MODULE PgProofs ------------------------------
(***************************************************************************)
(* The statements of store() and forget() implement the store of           *)
(* MemoryStore, for every value of the constants: any number of sessions,  *)
(* tenants, records and bodies, aborted at any statement.                  *)
(*                                                                         *)
(* The argument.  A transaction's effect is known before it commits, and   *)
(* no other transaction can take it back: the records it supersedes are    *)
(* active as long as it holds their locks, no record of its content can be *)
(* inserted as long as its own index entry is there, and an outbox id that *)
(* was drawn is drawn once.  So at the commit its statements, made at      *)
(* different times, add up to one step of MemoryStore.                     *)
(***************************************************************************)
EXTENDS PgTransactions, MemoryStoreProofs

StoreSteps == {"select", "scan", "update", "enqueue", "insert", "namespace", "upsert",
               "conflict"}

\* s has inserted its record.
Inserted(s) == IsStore(s) /\ txn[s].step \in {"namespace", "upsert", "commit"}

\* s has locked a record to forget it.
Retracts(s, r) ==
    /\ ~IsStore(s)
    /\ txn[s].step \in {"delete", "commit"}
    /\ txn[s].record = r
    /\ records[r].tenant = txn[s].tenant

Holds(s, r) == r \in txn[s].sup \/ Retracts(s, r)

\* Whose transaction it is and what it writes.
Parties(s) ==
    /\ txn[s].step = "idle" => txn[s] = Idle
    /\ txn[s].step # "idle" => txn[s].tenant \in Tenant
    /\ txn[s].step \in StoreSteps => IsStore(s)
    /\ txn[s].step \in {"retract", "delete"} => ~IsStore(s)
    /\ ~IsStore(s) => txn[s].sup = {}
    /\ (~IsStore(s) /\ txn[s].step # "idle") => txn[s].record \in Record /\ Exists(txn[s].record)
    /\ txn[s].step \in {"select", "scan", "update", "retract", "delete"} =>
         txn[s].sup = {} /\ txn[s].rows = {}

\* A record that matches the UPDATE of s, its status aside.
Rival(s, q) ==
    /\ txn[s].write.title \in UpdateTitle
    /\ Exists(q)
    /\ records[q].tenant = txn[s].tenant
    /\ Subject(records[q]) = Subject(txn[s].write)

\* The superseding UPDATE found rivals, and those it locked are still active.
Superseding(s) ==
    /\ txn[s].step = "update" => \A q \in txn[s].targets : Rival(s, q)
    /\ IsStore(s) => \A q \in txn[s].sup : Rival(s, q) /\ Active(q)

\* The rows drawn so far.
Drawn(s) ==
    /\ \A x \in txn[s].rows :
         /\ x.tenant = txn[s].tenant /\ ~x.processed /\ x.attempts = 0
         /\ x.id < sequence
         /\ \A y \in txn[s].rows : (x.id = y.id \/ x.record = y.record) => x = y
         /\ \A y \in outbox : x.id # y.id
         /\ x.op = "delete" =>
              /\ Exists(x.record)
              /\ \A y \in outbox : (y.record = x.record /\ y.op = "upsert") => y.id < x.id
              /\ IsStore(s) => x.record \in txn[s].sup
    /\ txn[s].step \in {"enqueue", "insert", "namespace", "upsert"} =>
         \A x \in txn[s].rows : x.op = "delete"
    /\ (txn[s].step \in {"insert", "namespace", "upsert"} \/ Inserted(s)) =>
         \A q \in txn[s].sup : \E x \in txn[s].rows : x.record = q

\* The row that completes a transaction.
Completed(s) ==
    txn[s].step = "commit" =>
      IF IsStore(s)
        THEN \E u \in txn[s].rows :
               /\ u.op = "upsert" /\ u.record = txn[s].record
               /\ \A x \in txn[s].rows : x # u => x.op = "delete" /\ x.id < u.id
        ELSE \E d \in txn[s].rows :
               d.op = "delete" /\ d.record = txn[s].record /\ txn[s].rows = {d}

\* The record inserted is new, and no record but those superseded has its content.
New(s) ==
    Inserted(s) =>
      /\ txn[s].record \in Record
      /\ ~Exists(txn[s].record)
      /\ Duplicates(txn[s].tenant, txn[s].write) \subseteq txn[s].sup

Good(s) == Parties(s) /\ Superseding(s) /\ Drawn(s) /\ Completed(s) /\ New(s)

\* What keeps two transactions apart: locks, the sequence, the primary key and
\* the index on active content.
Apart(s, o) ==
    /\ \A r \in Record : ~(Holds(s, r) /\ Holds(o, r))
    /\ \A x \in txn[s].rows, y \in txn[o].rows : x.id # y.id
    /\ (Inserted(s) /\ Inserted(o)) =>
         /\ txn[s].record # txn[o].record
         /\ \/ txn[s].tenant # txn[o].tenant
            \/ ContentSha(txn[s].write) # ContentSha(txn[o].write)

PInv ==
    /\ TypeOK
    /\ StoreInv
    /\ \A x \in outbox : x.id < sequence
    /\ \A s \in Session : Good(s)
    /\ \A s, o \in Session : s # o => Apart(s, o)

-----------------------------------------------------------------------------
\* A statement changes its own transaction alone.
LEMMA Statement ==
    ASSUME PInv, NEW s \in Session, NEW x \in Txn,
           UNCHANGED storeVars, sequence' \in Nat, sequence <= sequence',
           txn' = [txn EXCEPT ![s] = x],
           Good(s)', \A o \in Session \ {s} : Apart(s, o)'
    PROVE  PInv'
<1>1. /\ txn \in [Session -> Txn] /\ txn' \in [Session -> Txn]
      /\ records' = records /\ namespaces' = namespaces /\ outbox' = outbox
      /\ \A o \in Session \ {s} : txn'[o] = txn[o]
  BY DEF PInv, TypeOK, storeVars
<1>2. TypeOK' /\ StoreInv'
  BY <1>1 DEF PInv, TypeOK, StoreTypeOK, StoreInv, OutboxKeys, OutboxOwners, Exists,
              Active
<1>3. \A y \in outbox' : y.id < sequence'
  <2> SUFFICES ASSUME NEW y \in outbox PROVE y.id < sequence'
    BY <1>1
  <2>1. y.id \in Nat /\ sequence \in Nat /\ y.id < sequence
    BY OutboxIdAssumption DEF PInv, TypeOK, StoreTypeOK, OutboxRow
  <2> QED BY <2>1
<1>4. ASSUME NEW o \in Session \ {s} PROVE Good(o)'
  <2>1. Good(o)
    BY DEF PInv
  <2>2. Parties(o)' /\ Superseding(o)' /\ Completed(o)' /\ New(o)'
    BY <1>1, <2>1
       DEF Good, Parties, Superseding, Completed, New, IsStore, Inserted, Rival,
           Exists, Active, Duplicates
  <2>3. \A y \in txn[o].rows : y.id < sequence'
    <3> SUFFICES ASSUME NEW y \in txn[o].rows PROVE y.id < sequence'
      OBVIOUS
    <3>1. y \in OutboxRow
      BY <1>1 DEF Txn
    <3>2. y.id \in Nat /\ sequence \in Nat
      BY <3>1, OutboxIdAssumption DEF PInv, TypeOK, OutboxRow
    <3>3. y.id < sequence
      BY <2>1 DEF Good, Drawn
    <3> QED BY <3>2, <3>3
  <2>4. Drawn(o)'
    BY <1>1, <2>1, <2>3 DEF Good, Drawn, IsStore, Inserted, Exists
  <2> QED BY <2>2, <2>4 DEF Good
<1>5. ASSUME NEW o \in Session, NEW p \in Session, o # p PROVE Apart(o, p)'
  <2>1. CASE o = s
    BY <1>5, <2>1
  <2>2. CASE p = s
    <3>1. Apart(s, o)'
      BY <1>5, <2>2
    <3> QED BY <2>2, <3>1 DEF Apart
  <2>3. CASE o # s /\ p # s
    <3>1. Apart(o, p)
      BY <1>5 DEF PInv
    <3> QED BY <1>1, <2>3, <3>1 DEF Apart, Holds, Retracts, Inserted, IsStore
  <2> QED BY <2>1, <2>2, <2>3
<1> QED BY <1>2, <1>3, <1>4, <1>5 DEF PInv

\* A statement that takes no lock, draws no id and inserts nothing stays apart.
LEMMA StaysApart ==
    ASSUME PInv, NEW s \in Session, NEW x \in Txn, UNCHANGED storeVars,
           txn' = [txn EXCEPT ![s] = x],
           \A r \in Record : Holds(s, r)' => Holds(s, r),
           x.rows \subseteq txn[s].rows,
           Inserted(s)' => /\ Inserted(s) /\ x.record = txn[s].record
                           /\ x.tenant = txn[s].tenant /\ x.write = txn[s].write
    PROVE  \A o \in Session \ {s} : Apart(s, o)'
<1> SUFFICES ASSUME NEW o \in Session \ {s} PROVE Apart(s, o)'
  OBVIOUS
<1>1. /\ txn'[o] = txn[o] /\ txn'[s] = x /\ records' = records
      /\ Apart(s, o)
  BY DEF PInv, TypeOK, storeVars
<1>2. /\ \A r : Holds(o, r)' = Holds(o, r)
      /\ Inserted(o)' = Inserted(o)
  BY <1>1 DEF Holds, Retracts, Inserted, IsStore
<1> QED BY <1>1, <1>2 DEF Apart

\* What is known of a session.
LEMMA SessionFacts ==
    ASSUME PInv, NEW s \in Session
    PROVE  /\ txn \in [Session -> Txn] /\ txn[s] \in Txn /\ Good(s)
           /\ sequence \in Nat /\ StoreTypeOK
           /\ \A o \in Session \ {s} : Apart(s, o) /\ Good(o)
BY DEF PInv, TypeOK

\* A statement that draws no id.
LEMMA NothingDrawn ==
    ASSUME PInv, sequence' = sequence
    PROVE  sequence' \in Nat /\ sequence <= sequence'
<1>1. sequence \in Nat
  BY DEF PInv, TypeOK
<1> QED BY <1>1

\* A session at rest.
LEMMA IdleIsTxn == Idle \in Txn
BY DEF Idle, Txn, Step

\* A transaction that ends without a commit, by itself or aborted.
LEMMA EndKeeps ==
    ASSUME PInv, NEW s \in Session, SelectHit(s) \/ Abort(s)
    PROVE  PInv'
<1>1. /\ UNCHANGED storeVars /\ sequence' = sequence
      /\ txn' = [txn EXCEPT ![s] = Idle]
  BY DEF SelectHit, Abort
<1>2. txn'[s] = Idle
  BY <1>1, SessionFacts
<1>3. /\ ~IsStore(s)' /\ Idle.rows = {} /\ txn'[s].step = "idle"
      /\ \A r : ~Holds(s, r)'
  BY <1>2 DEF Idle, IsStore, Holds, Retracts
<1>4. Good(s)'
  BY <1>2, <1>3 DEF Good, Parties, Superseding, Drawn, Completed, New, Inserted, Idle,
                    IsStore, StoreSteps
<1>5. \A o \in Session \ {s} : Apart(s, o)'
  BY <1>1, <1>3, IdleIsTxn, StaysApart DEF Inserted
<1> QED BY <1>1, <1>4, <1>5, NothingDrawn, IdleIsTxn, Statement

\* A transaction that begins holds nothing and has drawn nothing.
LEMMA BeginKeeps ==
    ASSUME PInv, NEW s \in Session, NEW t \in Tenant,
           \/ \E w \in MemoryWrite : BeginStore(s, t, w)
           \/ \E r \in Record : BeginForget(s, t, r)
    PROVE  PInv'
<1>1. ASSUME NEW w \in MemoryWrite, BeginStore(s, t, w) PROVE PInv'
  <2> DEFINE x == [Idle EXCEPT !.step = "select", !.tenant = t, !.write = w]
  <2>1. /\ x \in Txn /\ x.step = "select" /\ x.tenant = t /\ x.write = w
        /\ x.rows = {} /\ x.sup = {}
    BY DEF Idle, Txn, Step
  <2>2. /\ UNCHANGED storeVars /\ sequence' = sequence
        /\ txn' = [txn EXCEPT ![s] = x]
    BY <1>1 DEF BeginStore
  <2> HIDE DEF x
  <2>3. txn'[s] = x
    BY <2>2, SessionFacts
  <2>4. Good(s)'
    BY <2>1, <2>3, NoWriteAssumption
       DEF Good, Parties, Superseding, Drawn, Completed, New, Inserted, IsStore,
           StoreSteps
  <2>5. \A o \in Session \ {s} : Apart(s, o)'
    BY <2>1, <2>2, <2>3, StaysApart DEF Inserted, Holds, Retracts
  <2> QED BY <2>1, <2>2, <2>4, <2>5, NothingDrawn, Statement
<1>2. ASSUME NEW r \in Record, BeginForget(s, t, r) PROVE PInv'
  <2> DEFINE x == [Idle EXCEPT !.step = "retract", !.tenant = t, !.record = r]
  <2>1. /\ x \in Txn /\ x.step = "retract" /\ x.tenant = t /\ x.write = NoRow
        /\ x.record = r /\ x.rows = {} /\ x.sup = {}
    BY DEF Idle, Txn, Step
  <2>2. /\ UNCHANGED storeVars /\ sequence' = sequence /\ Exists(r)
        /\ txn' = [txn EXCEPT ![s] = x]
    BY <1>2 DEF BeginForget
  <2> HIDE DEF x
  <2>3. txn'[s] = x
    BY <2>2, SessionFacts
  <2>4. Good(s)'
    BY <2>1, <2>2, <2>3
       DEF Good, Parties, Superseding, Drawn, Completed, New, Inserted, IsStore,
           StoreSteps, Exists, storeVars
  <2>5. \A o \in Session \ {s} : Apart(s, o)'
    BY <2>1, <2>2, <2>3, StaysApart DEF Inserted, Holds, Retracts
  <2> QED BY <2>1, <2>2, <2>4, <2>5, NothingDrawn, Statement
<1> QED BY <1>1, <1>2

-----------------------------------------------------------------------------
\* Only the step changes.
StepsTo(s, step) ==
    /\ txn'[s].step = step
    /\ txn'[s].tenant = txn[s].tenant /\ txn'[s].write = txn[s].write
    /\ txn'[s].record = txn[s].record /\ txn'[s].targets = txn[s].targets
    /\ txn'[s].sup = txn[s].sup /\ txn'[s].rows = txn[s].rows
    /\ records' = records /\ outbox' = outbox /\ sequence' = sequence

\* What goes on without a new lock or record changes only its step.
LEMMA GotoFields ==
    ASSUME PInv, NEW s \in Session, NEW step \in Step, Goto(s, step),
           UNCHANGED storeVars, sequence' = sequence
    PROVE  /\ [txn[s] EXCEPT !.step = step] \in Txn
           /\ txn' = [txn EXCEPT ![s] = [txn[s] EXCEPT !.step = step]]
           /\ StepsTo(s, step)
BY SessionFacts DEF Goto, Txn, storeVars, StepsTo

\* What was superseded and inserted stays so.
LEMMA GotoKept ==
    ASSUME NEW s, NEW step, Good(s), StepsTo(s, step), step # "update",
           Inserted(s)' => Inserted(s)
    PROVE  Superseding(s)' /\ New(s)'
<1>1. /\ \A q : Rival(s, q)' = Rival(s, q)
      /\ \A q : Active(q)' = Active(q)
      /\ \A q : Exists(q)' = Exists(q)
      /\ IsStore(s)' = IsStore(s)
  BY DEF StepsTo, Rival, Active, Exists, IsStore
<1>2. Superseding(s)'
  BY <1>1 DEF StepsTo, Good, Superseding
<1>3. Duplicates(txn[s].tenant, txn[s].write)' = Duplicates(txn[s].tenant, txn[s].write)
  BY DEF StepsTo, Duplicates, Active, Exists
<1>4. New(s)'
  BY <1>1, <1>3 DEF StepsTo, Good, New
<1> QED BY <1>2, <1>4

\* Going on without a new lock or a new record.
LEMMA GotoKeeps ==
    ASSUME PInv, NEW s \in Session, NEW step \in Step, Goto(s, step),
           UNCHANGED storeVars, sequence' = sequence,
           Good(s)', Inserted(s)' => Inserted(s), IsStore(s)
    PROVE  PInv'
<1> DEFINE x == [txn[s] EXCEPT !.step = step]
<1>1. /\ x \in Txn /\ txn' = [txn EXCEPT ![s] = x] /\ txn'[s] = x
      /\ x.rows \subseteq txn[s].rows
      /\ x.record = txn[s].record /\ x.tenant = txn[s].tenant
      /\ x.write = txn[s].write
  BY GotoFields, SessionFacts
<1>2. \A r \in Record : Holds(s, r)' => Holds(s, r)
  BY GotoFields DEF StepsTo, Holds, Retracts, IsStore
<1> HIDE DEF x
<1>3. \A o \in Session \ {s} : Apart(s, o)'
  BY <1>1, <1>2, StaysApart
<1> QED BY <1>1, <1>3, NothingDrawn, Statement

\* After the dedup SELECT: nothing is held yet.
LEMMA SelectMissKeeps ==
    ASSUME PInv, NEW s \in Session, SelectMiss(s)
    PROVE  PInv'
<1>1. PICK step \in {"scan", "insert"} : Goto(s, step)
  BY DEF SelectMiss
<1>2. step \in Step /\ txn[s].step = "select" /\ UNCHANGED storeVars /\ sequence' = sequence
  BY DEF SelectMiss, Step
<1>3. Good(s) /\ IsStore(s)
  BY <1>2, SessionFacts DEF Good, Parties, StoreSteps
<1>4. txn[s].sup = {} /\ txn[s].rows = {}
  BY <1>2, <1>3 DEF Good, Parties
<1>5. Good(s)' /\ ~Inserted(s)'
  BY <1>1, <1>2, <1>3, <1>4, GotoFields
     DEF StepsTo, Good, Parties, Superseding, Drawn, Completed, New, Inserted, IsStore, StoreSteps
<1> QED BY <1>1, <1>2, <1>3, <1>5, GotoKeeps

\* When every superseded record has its delete row, the insertion may come.
LEMMA EnqueueDoneKeeps ==
    ASSUME PInv, NEW s \in Session, EnqueueDone(s)
    PROVE  PInv'
<1>1. /\ Goto(s, "insert") /\ "insert" \in Step /\ txn[s].step = "enqueue"
      /\ UNCHANGED storeVars /\ sequence' = sequence
      /\ \A q \in txn[s].sup : \E x \in txn[s].rows : x.record = q
  BY DEF EnqueueDone, Step
<1>2. Good(s) /\ IsStore(s)
  BY <1>1, SessionFacts DEF Good, Parties, StoreSteps
<1>3. StepsTo(s, "insert") /\ ~Inserted(s)'
  BY <1>1, GotoFields DEF StepsTo, Inserted
<1>4. Parties(s)' /\ Completed(s)'
  BY <1>1, <1>2, <1>3 DEF StepsTo, Good, Parties, Completed, IsStore, StoreSteps
<1>5. Drawn(s)'
  BY <1>1, <1>2, <1>3 DEF StepsTo, Good, Drawn, IsStore, Exists
<1>6. Good(s)'
  BY <1>2, <1>3, <1>4, <1>5, GotoKept DEF Good
<1> QED BY <1>1, <1>2, <1>3, <1>6, GotoKeeps

\* A refused transaction keeps its locks until it ends.
LEMMA InsertConflictKeeps ==
    ASSUME PInv, NEW s \in Session, InsertConflict(s)
    PROVE  PInv'
<1>1. /\ Goto(s, "conflict") /\ "conflict" \in Step /\ txn[s].step = "insert"
      /\ UNCHANGED storeVars /\ sequence' = sequence
  BY DEF InsertConflict, MayInsert, Step
<1>2. Good(s) /\ IsStore(s)
  BY <1>1, SessionFacts DEF Good, Parties, StoreSteps
<1>3. StepsTo(s, "conflict") /\ ~Inserted(s)'
  BY <1>1, GotoFields DEF StepsTo, Inserted
<1>4. Parties(s)' /\ Completed(s)'
  BY <1>1, <1>2, <1>3 DEF StepsTo, Good, Parties, Completed, IsStore, StoreSteps
<1>5. Drawn(s)'
  BY <1>1, <1>2, <1>3 DEF StepsTo, Good, Drawn, IsStore, Exists
<1>6. Good(s)'
  BY <1>2, <1>3, <1>4, <1>5, GotoKept DEF Good
<1> QED BY <1>1, <1>2, <1>3, <1>6, GotoKeeps

\* The namespace is nobody else's business.
LEMMA InsertNamespaceKeeps ==
    ASSUME PInv, NEW s \in Session, InsertNamespace(s)
    PROVE  PInv'
<1>1. /\ Goto(s, "upsert") /\ "upsert" \in Step /\ txn[s].step = "namespace"
      /\ UNCHANGED storeVars /\ sequence' = sequence
  BY DEF InsertNamespace, Step
<1>2. Good(s) /\ IsStore(s) /\ Inserted(s)
  BY <1>1, SessionFacts DEF Good, Parties, StoreSteps, Inserted
<1>3. StepsTo(s, "upsert")
  BY <1>1, GotoFields
<1>4. Parties(s)' /\ Completed(s)'
  BY <1>1, <1>2, <1>3 DEF StepsTo, Good, Parties, Completed, IsStore, StoreSteps
<1>5. Drawn(s)'
  BY <1>1, <1>2, <1>3 DEF StepsTo, Good, Drawn, IsStore, Exists
<1>6. Good(s)'
  BY <1>2, <1>3, <1>4, <1>5, GotoKept DEF Good
<1> QED BY <1>1, <1>2, <1>6, GotoKeeps

\* forget() takes the row's lock when nobody else has it.
LEMMA RetractKeeps ==
    ASSUME PInv, NEW s \in Session, Retract(s)
    PROVE  PInv'
<1> DEFINE x == [txn[s] EXCEPT !.step = "delete"]
<1>1. /\ Goto(s, "delete") /\ "delete" \in Step /\ txn[s].step = "retract"
      /\ UNCHANGED storeVars /\ sequence' = sequence
  BY DEF Retract, Step
<1>2. Good(s) /\ ~IsStore(s) /\ txn[s].sup = {} /\ txn[s].rows = {}
  BY <1>1, SessionFacts DEF Good, Parties
<1>3. Good(s)'
  BY <1>1, <1>2, GotoFields
     DEF StepsTo, Good, Parties, Superseding, Drawn, Completed, New, Inserted, IsStore,
         StoreSteps, Exists
<1>4. ASSUME NEW o \in Session \ {s} PROVE Apart(s, o)'
  <2>1. /\ txn'[o] = txn[o] /\ records' = records
        /\ ~Inserted(s)' /\ txn'[s].rows = {} /\ txn'[s].sup = {}
    BY <1>1, <1>2, GotoFields, SessionFacts DEF StepsTo, Inserted, IsStore
  <2>2. ASSUME NEW r \in Record, Holds(s, r)', Holds(o, r)' PROVE FALSE
    <3>1. r = txn[s].record /\ records[r].tenant = txn[s].tenant
      BY <1>1, <2>1, <2>2, GotoFields DEF StepsTo, Holds, Retracts
    <3>2. ~LockedByOther(s, r)
      BY <3>1 DEF Retract
    <3>3. Holds(o, r)
      BY <2>1, <2>2 DEF Holds, Retracts, IsStore
    <3> QED BY <3>2, <3>3 DEF LockedByOther, Holds, Retracts
  <2> QED BY <2>1, <2>2 DEF Apart
<1>5. x \in Txn /\ txn' = [txn EXCEPT ![s] = x]
  BY <1>1, GotoFields
<1> HIDE DEF x
<1> QED BY <1>1, <1>3, <1>4, <1>5, NothingDrawn, Statement

-----------------------------------------------------------------------------
\* The superseding UPDATE finds its rows.
LEMMA UpdateScanKeeps ==
    ASSUME PInv, NEW s \in Session, UpdateScan(s)
    PROVE  PInv'
<1> DEFINE found == Supersedable(txn[s].tenant, txn[s].write)
           x == [txn[s] EXCEPT !.step = "update", !.targets = found]
<1>1. /\ txn[s].step = "scan" /\ UNCHANGED storeVars /\ sequence' = sequence
      /\ txn' = [txn EXCEPT ![s] = x] /\ records' = records
  BY DEF UpdateScan, storeVars
<1>2. /\ x \in Txn /\ x.step = "update" /\ x.targets = found
      /\ x.tenant = txn[s].tenant /\ x.write = txn[s].write
      /\ x.record = txn[s].record /\ x.sup = txn[s].sup /\ x.rows = txn[s].rows
  BY SessionFacts DEF Txn, Step, Supersedable
<1>3. Good(s) /\ IsStore(s) /\ txn[s].sup = {} /\ txn[s].rows = {}
  BY <1>1, SessionFacts DEF Good, Parties, StoreSteps
<1>4. \A q \in found : Rival(s, q)
  BY DEF Supersedable, Rival, Active
<1> HIDE DEF x, found
<1>5. txn'[s] = x
  BY <1>1, SessionFacts
<1>6. Superseding(s)'
  BY <1>1, <1>2, <1>3, <1>4, <1>5 DEF Superseding, Rival, Exists
<1>7. Good(s)'
  BY <1>1, <1>2, <1>3, <1>5, <1>6
     DEF Good, Parties, Drawn, Completed, New, Inserted, IsStore, StoreSteps
<1>8. \A o \in Session \ {s} : Apart(s, o)'
  BY <1>1, <1>2, <1>3, <1>5, StaysApart DEF Inserted, Holds, Retracts, IsStore
<1> QED BY <1>1, <1>2, <1>7, <1>8, NothingDrawn, Statement

\* It locks those nobody else has locked, and drops those no longer active.
LEMMA UpdateRowsKeeps ==
    ASSUME PInv, NEW s \in Session, UpdateRows(s)
    PROVE  PInv'
<1> DEFINE kept == {q \in txn[s].targets : Active(q)}
           x == [txn[s] EXCEPT !.step = "enqueue", !.sup = kept]
<1>1. /\ txn[s].step = "update" /\ UNCHANGED storeVars /\ sequence' = sequence
      /\ txn' = [txn EXCEPT ![s] = x] /\ records' = records
      /\ \A q \in txn[s].targets : ~LockedByOther(s, q)
  BY DEF UpdateRows, storeVars
<1>2. /\ x \in Txn /\ x.step = "enqueue" /\ x.sup = kept
      /\ x.tenant = txn[s].tenant /\ x.write = txn[s].write
      /\ x.record = txn[s].record /\ x.rows = txn[s].rows
  BY SessionFacts DEF Txn, Step
<1>3. Good(s) /\ IsStore(s) /\ txn[s].rows = {}
  BY <1>1, SessionFacts DEF Good, Parties, StoreSteps
<1>4. \A q \in kept : Rival(s, q) /\ Active(q) /\ ~LockedByOther(s, q)
  BY <1>1, <1>3 DEF Good, Superseding
<1> HIDE DEF x, kept
<1>5. txn'[s] = x
  BY <1>1, SessionFacts
<1>6. Superseding(s)'
  BY <1>1, <1>2, <1>3, <1>4, <1>5 DEF Superseding, Rival, Exists, Active
<1>7. Good(s)'
  BY <1>1, <1>2, <1>3, <1>5, <1>6
     DEF Good, Parties, Drawn, Completed, New, Inserted, IsStore, StoreSteps
<1>8. ASSUME NEW o \in Session \ {s} PROVE Apart(s, o)'
  <2>1. txn'[o] = txn[o] /\ ~Inserted(s)' /\ IsStore(s)'
    BY <1>1, <1>2, <1>3, <1>5, SessionFacts DEF Inserted, IsStore
  <2>2. ASSUME NEW r \in Record, Holds(s, r)', Holds(o, r)' PROVE FALSE
    <3>1. ~LockedByOther(s, r)
      BY <1>2, <1>4, <1>5, <2>1, <2>2 DEF Holds, Retracts
    <3>2. Holds(o, r)
      BY <1>1, <2>1, <2>2 DEF Holds, Retracts, IsStore
    <3> QED BY <3>1, <3>2 DEF LockedByOther, Holds, Retracts
  <2> QED BY <1>2, <1>3, <1>5, <2>1, <2>2 DEF Apart
<1> QED BY <1>1, <1>2, <1>7, <1>8, NothingDrawn, Statement

\* The record's key is free: no other transaction has inserted its content, and
\* no active record but those superseded has it.
LEMMA InsertRowKeeps ==
    ASSUME PInv, NEW s \in Session, InsertRow(s)
    PROVE  PInv'
<1>1. PICK r \in Record :
        /\ ~Exists(r)
        /\ \A o \in Session : IsStore(o) => txn[o].record # r
        /\ txn' = [txn EXCEPT ![s].step = "namespace", ![s].record = r]
  BY DEF InsertRow
<1> DEFINE x == [txn[s] EXCEPT !.step = "namespace", !.record = r]
<1>2. /\ txn[s].step = "insert" /\ UNCHANGED storeVars /\ sequence' = sequence
      /\ txn' = [txn EXCEPT ![s] = x] /\ records' = records /\ outbox' = outbox
      /\ Twins(s) = {} /\ ~ContentHeldByOther(s, txn[s].tenant, txn[s].write)
  BY <1>1 DEF InsertRow, MayInsert, storeVars
<1>3. /\ x \in Txn /\ x.step = "namespace" /\ x.record = r
      /\ x.tenant = txn[s].tenant /\ x.write = txn[s].write
      /\ x.sup = txn[s].sup /\ x.rows = txn[s].rows
  BY SessionFacts DEF Txn, Step
<1>4. Good(s) /\ IsStore(s)
  BY <1>2, SessionFacts DEF Good, Parties, StoreSteps
<1> HIDE DEF x
<1>5. txn'[s] = x
  BY <1>2, SessionFacts
<1>6. Parties(s)' /\ Superseding(s)' /\ Completed(s)'
  BY <1>2, <1>3, <1>4, <1>5
     DEF Good, Parties, Superseding, Completed, IsStore, StoreSteps, Rival, Exists,
         Active
<1>7. Drawn(s)'
  BY <1>2, <1>3, <1>4, <1>5 DEF Good, Drawn, IsStore, Exists
<1>8. New(s)'
  BY <1>1, <1>2, <1>3, <1>5 DEF New, Twins, Duplicates, Active, Exists
<1>9. Good(s)'
  BY <1>6, <1>7, <1>8 DEF Good
<1>10. ASSUME NEW o \in Session \ {s} PROVE Apart(s, o)'
  <2>1. txn'[o] = txn[o] /\ Apart(s, o)
    BY <1>2, SessionFacts
  <2>2. \A q \in Record : (Holds(s, q)' => Holds(s, q)) /\ (Holds(o, q)' => Holds(o, q))
    BY <1>2, <1>3, <1>4, <1>5, <2>1 DEF Holds, Retracts, IsStore
  <2>3. ASSUME Inserted(o)'
        PROVE  /\ x.record # txn[o].record
               /\ \/ x.tenant # txn[o].tenant
                  \/ ContentSha(x.write) # ContentSha(txn[o].write)
    <3>1. IsStore(o) /\ txn[o].step \in {"namespace", "upsert", "commit"}
      BY <2>1, <2>3 DEF Inserted, IsStore
    <3> QED BY <1>1, <1>2, <1>3, <3>1 DEF ContentHeldByOther
  <2> QED BY <1>3, <1>5, <2>1, <2>2, <2>3 DEF Apart
<1> QED BY <1>2, <1>3, <1>9, <1>10, NothingDrawn, Statement

-----------------------------------------------------------------------------
\* A row is drawn: its id is new to the table and to every transaction.
Draws(s, row, step) ==
    /\ txn'[s].step = step /\ txn'[s].rows = txn[s].rows \cup {row}
    /\ txn'[s].tenant = txn[s].tenant /\ txn'[s].write = txn[s].write
    /\ txn'[s].record = txn[s].record /\ txn'[s].targets = txn[s].targets
    /\ txn'[s].sup = txn[s].sup
    /\ records' = records /\ outbox' = outbox /\ sequence' = sequence + 1

\* What drawing an id changes, field by field.
LEMMA EnqueueFields ==
    ASSUME PInv, NEW s \in Session, NEW r \in Record, NEW op \in OutboxOp,
           NEW step \in Step, Enqueue(s, r, op, step), UNCHANGED storeVars,
           txn[s].step # "idle"
    PROVE  LET row == NewOutboxRow(sequence, r, txn[s].tenant, op)
               x == [txn[s] EXCEPT !.step = step, !.rows = txn[s].rows \cup {row}]
           IN  /\ row \in OutboxRow /\ x \in Txn
               /\ row.id = sequence /\ row.record = r /\ row.op = op
               /\ row.tenant = txn[s].tenant /\ ~row.processed /\ row.attempts = 0
               /\ txn' = [txn EXCEPT ![s] = x]
               /\ Draws(s, row, step)
<1> DEFINE row == NewOutboxRow(sequence, r, txn[s].tenant, op)
           x == [txn[s] EXCEPT !.step = step, !.rows = txn[s].rows \cup {row}]
<1>1. txn[s] \in Txn /\ txn[s].tenant \in Tenant
  BY SessionFacts DEF Good, Parties
<1>2. /\ row \in OutboxRow /\ row.id = sequence /\ row.record = r /\ row.op = op
      /\ row.tenant = txn[s].tenant /\ ~row.processed /\ row.attempts = 0
  BY <1>1 DEF NewOutboxRow, OutboxRow, Enqueue
<1>3. txn' = [txn EXCEPT ![s] = x] /\ sequence' = sequence + 1
  BY DEF Enqueue
<1> HIDE DEF row
<1>4. /\ x \in Txn /\ x.step = step /\ x.rows = txn[s].rows \cup {row}
      /\ x.tenant = txn[s].tenant /\ x.write = txn[s].write
      /\ x.record = txn[s].record /\ x.targets = txn[s].targets
      /\ x.sup = txn[s].sup
  BY <1>1, <1>2 DEF Txn
<1> HIDE DEF x
<1>5. Draws(s, row, step)
  BY <1>3, <1>4, SessionFacts DEF Draws, storeVars
<1> QED BY <1>2, <1>3, <1>4, <1>5 DEF row, x

\* The same under one name.
LEMMA EnqueueDraws ==
    ASSUME PInv, NEW s \in Session, NEW r \in Record, NEW op \in OutboxOp,
           NEW step \in Step, Enqueue(s, r, op, step), UNCHANGED storeVars,
           txn[s].step # "idle"
    PROVE  Draws(s, NewOutboxRow(sequence, r, txn[s].tenant, op), step)
BY EnqueueFields

\* Every id there is was drawn before.
LEMMA IdsAreDrawn ==
    ASSUME PInv
    PROVE  /\ sequence \in Nat
           /\ \A y \in outbox : y.id \in Nat /\ y.id < sequence
           /\ \A s \in Session : \A y \in txn[s].rows : y.id \in Nat /\ y.id < sequence
<1>1. \A y \in OutboxRow : y.id \in Nat
  BY OutboxIdAssumption DEF OutboxRow
<1>2. outbox \subseteq OutboxRow /\ \A s \in Session : txn[s].rows \subseteq OutboxRow
  BY DEF PInv, TypeOK, StoreTypeOK, Txn
<1>3. /\ \A y \in outbox : y.id < sequence
      /\ \A s \in Session : \A y \in txn[s].rows : y.id < sequence
  BY DEF PInv, Good, Drawn
<1> QED BY <1>1, <1>2, <1>3 DEF PInv, TypeOK

\* What a drawn row must be for the transaction to stay good: a delete row of a
\* record there is, superseded by this transaction if it is a store's, or the
\* upsert row that completes a store.
LEMMA DrawKeeps ==
    ASSUME PInv, NEW s \in Session, NEW r \in Record, NEW op \in OutboxOp,
           NEW step \in Step, Enqueue(s, r, op, step), UNCHANGED storeVars,
           txn[s].step # "idle",
           \A y \in txn[s].rows : y.record # r,
           op = "delete" => Exists(r) /\ (IsStore(s) => r \in txn[s].sup),
           Parties(s)', Superseding(s)', Completed(s)', New(s)',
           step \in {"enqueue", "insert", "namespace", "upsert"} =>
             op = "delete" /\ \A y \in txn[s].rows : y.op = "delete",
           step = "commit" /\ IsStore(s) =>
             \A q \in txn[s].sup : \E y \in txn[s].rows : y.record = q,
           step \notin {"insert", "namespace", "upsert"},
           Inserted(s)' => Inserted(s),
           \A q \in Record : Holds(s, q)' => Holds(s, q)
    PROVE  PInv'
<1> DEFINE row == NewOutboxRow(sequence, r, txn[s].tenant, op)
           x == [txn[s] EXCEPT !.step = step, !.rows = txn[s].rows \cup {row}]
<1>1. /\ row \in OutboxRow /\ x \in Txn
      /\ row.id = sequence /\ row.record = r /\ row.op = op
      /\ row.tenant = txn[s].tenant /\ ~row.processed /\ row.attempts = 0
      /\ txn' = [txn EXCEPT ![s] = x]
      /\ Draws(s, row, step)
  BY EnqueueFields
<1> HIDE DEF row, x
<1>2. /\ \A y \in outbox : y.id < row.id /\ y.id # row.id
      /\ \A o \in Session : \A y \in txn[o].rows : y.id # row.id
  BY <1>1, IdsAreDrawn
<1>3. \A y \in txn[s].rows \cup {row} : y.id < sequence'
  <2>1. sequence \in Nat /\ sequence' = sequence + 1
    BY <1>1, IdsAreDrawn DEF Draws
  <2>2. \A y \in txn[s].rows : y.id \in Nat /\ y.id < sequence
    BY IdsAreDrawn
  <2> QED BY <1>1, <2>1, <2>2
<1>4. Good(s) /\ IsStore(s)' = IsStore(s)
  BY <1>1, SessionFacts DEF Draws, IsStore
<1>5. ASSUME NEW y \in txn'[s].rows
      PROVE  /\ y.tenant = txn'[s].tenant /\ ~y.processed /\ y.attempts = 0
             /\ y.id < sequence'
             /\ \A z \in txn'[s].rows : (y.id = z.id \/ y.record = z.record) => y = z
             /\ \A z \in outbox' : y.id # z.id
             /\ y.op = "delete" =>
                  /\ Exists(y.record)'
                  /\ \A z \in outbox' :
                       (z.record = y.record /\ z.op = "upsert") => z.id < y.id
                  /\ IsStore(s)' => y.record \in txn'[s].sup
  <2>1. CASE y \in txn[s].rows
    BY <1>1, <1>2, <1>3, <1>4, <2>1 DEF Draws, Good, Drawn, Exists
  <2>2. CASE y = row
    BY <1>1, <1>2, <1>3, <1>4, <2>2 DEF Draws, Exists
  <2> QED BY <1>1, <1>5, <2>1, <2>2 DEF Draws
<1>6. Drawn(s)'
  <2>1. step \in {"enqueue", "insert", "namespace", "upsert"} =>
          \A y \in txn'[s].rows : y.op = "delete"
    BY <1>1 DEF Draws
  <2>2. (step \in {"insert", "namespace", "upsert"} \/ Inserted(s)') =>
          \A q \in txn'[s].sup : \E y \in txn'[s].rows : y.record = q
    BY <1>1, <1>4 DEF Draws, Inserted
  <2>3. txn'[s].step = step
    BY <1>1 DEF Draws
  <2> QED BY <1>5, <2>1, <2>2, <2>3 DEF Drawn
<1>7. Good(s)'
  BY <1>6 DEF Good
<1>8. ASSUME NEW o \in Session \ {s} PROVE Apart(s, o)'
  <2>1. txn'[o] = txn[o] /\ Apart(s, o)
    BY <1>1, SessionFacts
  <2>2. \A q \in Record : Holds(o, q)' => Holds(o, q)
    BY <1>1, <2>1 DEF Draws, Holds, Retracts, IsStore
  <2>3. \A y \in txn'[s].rows, z \in txn'[o].rows : y.id # z.id
    BY <1>1, <1>2, <2>1 DEF Draws, Apart
  <2>4. Inserted(o)' => Inserted(o)
    BY <2>1 DEF Inserted, IsStore
  <2> QED BY <1>1, <2>1, <2>2, <2>3, <2>4 DEF Draws, Apart
<1>9. sequence' \in Nat /\ sequence <= sequence'
  <2>1. sequence \in Nat /\ sequence' = sequence + 1
    BY <1>1, IdsAreDrawn DEF Draws
  <2> QED BY <2>1
<1> QED BY <1>1, <1>7, <1>8, <1>9, Statement

\* The delete row of a superseded record.
LEMMA EnqueueDeleteKeeps ==
    ASSUME PInv, NEW s \in Session, NEW q \in txn[s].sup, EnqueueDelete(s, q)
    PROVE  PInv'
<1> DEFINE row == NewOutboxRow(sequence, q, txn[s].tenant, "delete")
<1>1. /\ txn[s].step = "enqueue" /\ UNCHANGED storeVars
      /\ Enqueue(s, q, "delete", "enqueue")
      /\ \A y \in txn[s].rows : y.record # q
  BY DEF EnqueueDelete
<1>2. /\ q \in Record /\ "delete" \in OutboxOp /\ "enqueue" \in Step
      /\ Good(s) /\ IsStore(s)
  BY <1>1, SessionFacts DEF Txn, OutboxOp, Step, Good, Parties, StoreSteps
<1>3. Draws(s, row, "enqueue")
  BY <1>1, <1>2, EnqueueFields
<1>4. Exists(q)
  BY <1>2 DEF Good, Superseding, Active
<1>5. Parties(s)' /\ Completed(s)' /\ New(s)' /\ ~Inserted(s)' /\ IsStore(s)'
  BY <1>1, <1>2, <1>3
     DEF Draws, Good, Parties, Completed, New, Inserted, IsStore, StoreSteps
<1>6. Superseding(s)'
  BY <1>1, <1>2, <1>3 DEF Draws, Good, Superseding, Rival, Active, Exists, IsStore
<1>7. \A r \in Record : Holds(s, r)' => Holds(s, r)
  BY <1>3, <1>5 DEF Draws, Holds, Retracts
<1>8. \A y \in txn[s].rows : y.op = "delete"
  BY <1>1, <1>2 DEF Good, Drawn
<1> QED BY <1>1, <1>2, <1>4, <1>5, <1>6, <1>7, <1>8, DrawKeeps

\* The upsert row of the new record completes the store.
LEMMA EnqueueUpsertKeeps ==
    ASSUME PInv, NEW s \in Session, EnqueueUpsert(s)
    PROVE  PInv'
<1> DEFINE r == txn[s].record
           row == NewOutboxRow(sequence, r, txn[s].tenant, "upsert")
<1>1. /\ txn[s].step = "upsert" /\ UNCHANGED storeVars
      /\ Enqueue(s, r, "upsert", "commit")
  BY DEF EnqueueUpsert
<1>2. /\ "upsert" \in OutboxOp /\ "commit" \in Step /\ Good(s) /\ Inserted(s)
      /\ IsStore(s)
  BY <1>1, SessionFacts DEF OutboxOp, Step, Good, Parties, StoreSteps, Inserted
<1>3. r \in Record /\ ~Exists(r)
  BY <1>2 DEF Good, New
<1>4. /\ Draws(s, row, "commit")
      /\ row.id = sequence /\ row.record = r /\ row.op = "upsert"
  <2>1. txn[s].step # "idle"
    BY <1>1
  <2>2. row.id = sequence /\ row.record = r /\ row.op = "upsert"
    BY DEF NewOutboxRow
  <2>3. Draws(s, row, "commit")
    BY <1>1, <1>2, <1>3, <2>1, EnqueueDraws
  <2> QED BY <2>2, <2>3
<1> HIDE DEF row
<1>5. \A y \in txn[s].rows : y.op = "delete" /\ y.record # r
  BY <1>1, <1>2, <1>3 DEF Good, Drawn
<1>6. \A y \in txn[s].rows : y.id < row.id
  BY <1>4, IdsAreDrawn
<1>7. Completed(s)'
  <2>1. row \in txn'[s].rows /\ row.op = "upsert" /\ row.record = txn'[s].record
    BY <1>4 DEF Draws
  <2>2. \A y \in txn'[s].rows : y # row => y.op = "delete" /\ y.id < row.id
    BY <1>4, <1>5, <1>6 DEF Draws
  <2>3. IsStore(s)'
    BY <1>2, <1>4 DEF Draws, IsStore
  <2> QED BY <2>1, <2>2, <2>3 DEF Completed
<1>8. Parties(s)'
  BY <1>1, <1>2, <1>4 DEF Draws, Good, Parties, IsStore, StoreSteps
<1>9. Superseding(s)'
  BY <1>1, <1>2, <1>4 DEF Draws, Good, Superseding, Rival, Active, Exists, IsStore
<1>10. New(s)'
  BY <1>2, <1>4 DEF Draws, Good, New, Duplicates, Active, Exists
<1>11. \A q \in Record : Holds(s, q)' => Holds(s, q)
  BY <1>2, <1>4 DEF Draws, Holds, Retracts, IsStore
<1>12. \A q \in txn[s].sup : \E y \in txn[s].rows : y.record = q
  BY <1>1, <1>2 DEF Good, Drawn
<1> QED BY <1>1, <1>2, <1>3, <1>5, <1>7, <1>8, <1>9, <1>10, <1>11, <1>12, DrawKeeps

\* The delete row of a forgotten record.
LEMMA EnqueueForgetKeeps ==
    ASSUME PInv, NEW s \in Session, EnqueueForget(s)
    PROVE  PInv'
<1> DEFINE r == txn[s].record
           row == NewOutboxRow(sequence, r, txn[s].tenant, "delete")
<1>1. /\ txn[s].step = "delete" /\ UNCHANGED storeVars
      /\ Enqueue(s, r, "delete", "commit")
  BY DEF EnqueueForget
<1>2. /\ "delete" \in OutboxOp /\ "commit" \in Step /\ Good(s) /\ ~IsStore(s)
      /\ txn[s].sup = {} /\ txn[s].rows = {} /\ r \in Record /\ Exists(r)
  BY <1>1, SessionFacts DEF OutboxOp, Step, Good, Parties
<1>3. /\ Draws(s, row, "commit")
      /\ row.id = sequence /\ row.record = r /\ row.op = "delete"
  <2>1. txn[s].step # "idle"
    BY <1>1
  <2>2. row.id = sequence /\ row.record = r /\ row.op = "delete"
    BY DEF NewOutboxRow
  <2>3. Draws(s, row, "commit")
    BY <1>1, <1>2, <2>1, EnqueueDraws
  <2> QED BY <2>2, <2>3
<1> HIDE DEF row
<1>4. ~IsStore(s)' /\ ~Inserted(s)'
  BY <1>2, <1>3 DEF Draws, IsStore, Inserted
<1>5. Parties(s)'
  BY <1>1, <1>2, <1>3 DEF Draws, Good, Parties, IsStore, StoreSteps, Exists
<1>6. Superseding(s)' /\ New(s)'
  BY <1>3, <1>4 DEF Draws, Superseding, New
<1>7. Completed(s)'
  <2>1. txn'[s].rows = {row} /\ row.op = "delete" /\ row.record = txn'[s].record
    BY <1>2, <1>3 DEF Draws
  <2> QED BY <1>4, <2>1 DEF Completed
<1>8. \A q \in Record : Holds(s, q)' => Holds(s, q)
  BY <1>1, <1>3 DEF Draws, Holds, Retracts, IsStore
<1> QED BY <1>1, <1>2, <1>4, <1>5, <1>6, <1>7, <1>8, DrawKeeps

-----------------------------------------------------------------------------
(***************************************************************************)
(* The commits.                                                            *)
(***************************************************************************)
CommitOf(s) ==
    /\ txn[s].step = "commit"
    /\ txn' = [txn EXCEPT ![s] = Idle]
    /\ outbox' = outbox \cup txn[s].rows
    /\ sequence' = sequence

\* The commit of a store is a StoreInsert.
LEMMA StoreCommits ==
    ASSUME Overlap, PInv, NEW s \in Session, CommitStore(s)
    PROVE  /\ CommitOf(s) /\ Inserted(s)
           /\ txn[s].tenant \in Tenant /\ txn[s].write \in MemoryWrite
           /\ StoreInsert(txn[s].tenant, txn[s].write)
<1> DEFINE t == txn[s].tenant
           w == txn[s].write
           r == txn[s].record
           sup == txn[s].sup
           rows == txn[s].rows
           RowOf(q) == CHOOSE y \in rows : y.record = q
           ids == [q \in sup \cup {r} |-> RowOf(q).id]
<1>1. CommitOf(s) /\ IsStore(s) /\ Inserted(s)
  BY DEF CommitStore, CommitOf, Inserted
<1>2. /\ Good(s) /\ t \in Tenant /\ w \in MemoryWrite /\ sup \subseteq Record
      /\ rows \subseteq OutboxRow
  BY <1>1, SessionFacts DEF Txn, CommitOf, Good, Parties, IsStore
<1>3. /\ r \in Record /\ ~Exists(r) /\ Duplicates(t, w) \subseteq sup
  BY <1>1, <1>2 DEF Good, New
<1>4. sup \subseteq Supersedable(t, w) /\ r \notin sup
  BY <1>1, <1>2, <1>3 DEF Good, Superseding, Supersedable, Rival
<1>5. PICK u \in rows :
        /\ u.op = "upsert" /\ u.record = r
        /\ \A y \in rows : y # u => y.op = "delete" /\ y.id < u.id
  BY <1>1, <1>2 DEF CommitOf, Good, Completed
<1>6. \A y \in rows : /\ y.tenant = t /\ ~y.processed /\ y.attempts = 0
                      /\ \A z \in rows : (y.id = z.id \/ y.record = z.record) => y = z
                      /\ \A z \in outbox : y.id # z.id
                      /\ y.op = "delete" =>
                           /\ y.record \in sup
                           /\ \A z \in outbox :
                                (z.record = y.record /\ z.op = "upsert") => z.id < y.id
  BY <1>1, <1>2 DEF Good, Drawn
<1>7. \A q \in sup : \E y \in rows : y.record = q
  BY <1>1, <1>2 DEF Good, Drawn
<1>8. ASSUME NEW q \in sup \cup {r}
      PROVE  RowOf(q) \in rows /\ RowOf(q).record = q
  BY <1>5, <1>7
<1>9. RowOf(r) = u
  BY <1>5, <1>6, <1>8
<1>10. \A q \in sup : RowOf(q).op = "delete" /\ RowOf(q).id < u.id
  BY <1>4, <1>5, <1>8
<1>11. \A y \in rows : y = RowOf(y.record) /\ (y = u \/ y.record \in sup)
  BY <1>4, <1>5, <1>6, <1>8
<1> HIDE DEF RowOf
<1>12. ids \in [sup \cup {r} -> OutboxId] /\ \A q \in sup \cup {r} : ids[q] = RowOf(q).id
  BY <1>2, <1>8 DEF OutboxRow
<1> HIDE DEF ids
<1>13. \A z \in outbox : z.record # r
  BY <1>3 DEF PInv, StoreInv, OutboxKeys
<1>14. FreshIds(ids, sup, r)
  <2>1. ASSUME NEW q \in sup \cup {r} PROVE FreshId(ids[q], q)
    <3>1. ids[q] \notin UsedIds
      BY <1>6, <1>8, <1>12 DEF UsedIds
    <3>2. \A z \in outbox : (z.record = q /\ z.op = "upsert") => z.id < ids[q]
      BY <1>6, <1>8, <1>10, <1>12, <1>13
    <3> QED BY <3>1, <3>2 DEF FreshId
  <2>2. \A q \in sup : ids[q] < ids[r]
    BY <1>9, <1>10, <1>12
  <2>3. \A p, q \in sup : ids[p] = ids[q] => p = q
    BY <1>6, <1>8, <1>12
  <2> QED BY <2>1, <2>2, <2>3 DEF FreshIds
<1>15. outbox' = outbox
         \cup {NewOutboxRow(ids[q], q, t, "delete") : q \in sup}
         \cup {NewOutboxRow(ids[r], r, t, "upsert")}
  <2>1. ASSUME NEW y \in rows PROVE y = NewOutboxRow(y.id, y.record, t, y.op)
    <3>1. y = [id |-> y.id, record |-> y.record, tenant |-> y.tenant, op |-> y.op,
               processed |-> y.processed, attempts |-> y.attempts]
      BY <1>2 DEF OutboxRow
    <3>2. y.processed = FALSE /\ y.attempts = 0 /\ y.tenant = t
      BY <1>2, <1>6 DEF OutboxRow
    <3> QED BY <3>1, <3>2 DEF NewOutboxRow
  <2>2. u = NewOutboxRow(ids[r], r, t, "upsert")
    BY <1>5, <1>9, <1>12, <2>1
  <2>3. \A q \in sup : RowOf(q) = NewOutboxRow(ids[q], q, t, "delete")
    BY <1>8, <1>10, <1>12, <2>1
  <2>4. rows = {RowOf(q) : q \in sup} \cup {u}
    BY <1>5, <1>8, <1>11
  <2>5. outbox' = outbox \cup rows
    BY <1>1 DEF CommitOf
  <2> QED BY <2>2, <2>3, <2>4, <2>5
<1>16. /\ records' = [q \in Record |->
            IF q = r
              THEN [tenant |-> t, namespace |-> w.namespace, title |-> w.title,
                    body |-> w.body, status |-> "active"]
            ELSE IF q \in sup
              THEN [records[q] EXCEPT !.status = "superseded"]
            ELSE records[q]]
       /\ namespaces' = namespaces \cup {<<t, w.namespace>>}
  BY DEF CommitStore
<1>17. InsertRecord(t, w, r, sup, ids)
  BY <1>3, <1>14, <1>15, <1>16 DEF InsertRecord
<1>18. sup \in SupersededSets(t, w)
  BY <1>4 DEF SupersededSets
<1> HIDE DEF t, w, r, sup
<1>19. StoreInsert(t, w)
  BY <1>3, <1>12, <1>17, <1>18 DEF StoreInsert
<1> QED BY <1>1, <1>2, <1>19 DEF t, w

\* The commit of a forget() is a Forget.
LEMMA ForgetCommits ==
    ASSUME Overlap, PInv, NEW s \in Session, CommitForget(s)
    PROVE  /\ CommitOf(s) /\ ~IsStore(s)
           /\ txn[s].tenant \in Tenant /\ txn[s].record \in Record
           /\ Exists(txn[s].record)
           /\ \A y \in txn[s].rows : y.op = "delete"
           /\ Forget(txn[s].tenant, txn[s].record)
<1> DEFINE t == txn[s].tenant
           r == txn[s].record
<1>1. CommitOf(s) /\ ~IsStore(s) /\ UNCHANGED namespaces
  BY DEF CommitForget, CommitOf
<1>2. /\ Good(s) /\ t \in Tenant /\ r \in Record /\ Exists(r)
      /\ txn[s].rows \subseteq OutboxRow
  BY <1>1, SessionFacts DEF CommitOf, Good, Parties, Txn
<1>3. PICK d \in txn[s].rows : d.op = "delete" /\ d.record = r /\ txn[s].rows = {d}
  BY <1>1, <1>2 DEF CommitOf, Good, Completed
<1>4. /\ d.tenant = t /\ ~d.processed /\ d.attempts = 0
      /\ \A z \in outbox : d.id # z.id
      /\ \A z \in outbox : (z.record = r /\ z.op = "upsert") => z.id < d.id
  BY <1>2, <1>3 DEF Good, Drawn
<1>5. d \in OutboxRow
  BY <1>2
<1>6. d = NewOutboxRow(d.id, r, t, "delete") /\ d.id \in OutboxId
  <2>1. d = [id |-> d.id, record |-> d.record, tenant |-> d.tenant, op |-> d.op,
             processed |-> d.processed, attempts |-> d.attempts] /\ d.id \in OutboxId
    BY <1>5 DEF OutboxRow
  <2>2. d.processed = FALSE
    BY <1>4, <1>5 DEF OutboxRow
  <2> QED BY <1>3, <1>4, <2>1, <2>2 DEF NewOutboxRow
<1>7. outbox' = outbox \cup {NewOutboxRow(d.id, r, t, "delete")}
  BY <1>1, <1>3, <1>6 DEF CommitOf
<1>8. \A y \in txn[s].rows : y.op = "delete"
  BY <1>3
<1>9. records' = IF records[r].tenant = t
                   THEN [records EXCEPT ![r].status = "forgotten"] ELSE records
  BY DEF CommitForget
<1>10. FreshId(d.id, r)
  BY <1>4 DEF FreshId, UsedIds
<1>11. Forget(t, r)
  BY <1>1, <1>2, <1>6, <1>7, <1>9, <1>10 DEF Forget, ForgetOwned, ForgetUnowned
<1> QED BY <1>1, <1>2, <1>8, <1>11

-----------------------------------------------------------------------------
\* What a commit of s means to the other transactions: a record that was there
\* keeps its tenant, subject and content and does not become active, nor
\* inactive unless s held its lock; a new one is the one s inserted.
CommitEffect(s) ==
    /\ \A q \in Record : Exists(q) =>
         /\ Exists(q)'
         /\ records'[q].tenant = records[q].tenant
         /\ Subject(records'[q]) = Subject(records[q])
         /\ ContentSha(records'[q]) = ContentSha(records[q])
         /\ Active(q)' => Active(q)
         /\ (Active(q) /\ ~Holds(s, q)) => Active(q)'
    /\ \A q \in Record : (Exists(q)' /\ ~Exists(q)) =>
         /\ Inserted(s) /\ q = txn[s].record
         /\ records'[q].tenant = txn[s].tenant
         /\ ContentSha(records'[q]) = ContentSha(txn[s].write)
    /\ \A y \in txn[s].rows : y.op = "upsert" => ~Exists(y.record)

\* A store's commit means that to the others.
LEMMA StoreCommitEffect ==
    ASSUME PInv, NEW s \in Session, CommitStore(s)
    PROVE  CommitEffect(s)
<1> DEFINE t == txn[s].tenant
           w == txn[s].write
           r == txn[s].record
           sup == txn[s].sup
<1>1. /\ txn[s].step = "commit" /\ IsStore(s) /\ Inserted(s) /\ Good(s)
      /\ records' = [q \in Record |->
           IF q = r
             THEN [tenant |-> t, namespace |-> w.namespace, title |-> w.title,
                   body |-> w.body, status |-> "active"]
           ELSE IF q \in sup
             THEN [records[q] EXCEPT !.status = "superseded"]
           ELSE records[q]]
  BY SessionFacts DEF CommitStore, Inserted
<1>2. r \in Record /\ ~Exists(r)
  BY <1>1 DEF Good, New
<1>3. \A q \in Record : Exists(q) => q # r /\ records[q] \in RecordRow
  BY <1>2, SessionFacts DEF StoreTypeOK, Exists
<1>4. ASSUME NEW q \in Record, Exists(q), q \in sup
      PROVE  /\ records'[q] = [records[q] EXCEPT !.status = "superseded"]
             /\ records'[q] \in RecordRow
             /\ Holds(s, q)
  BY <1>1, <1>3, <1>4 DEF RecordRow, RecordStatus, Holds
<1>5. ASSUME NEW q \in Record, Exists(q), q \notin sup
      PROVE  records'[q] = records[q]
  BY <1>1, <1>3, <1>5
<1>6. ASSUME NEW q \in Record, Exists(q)
      PROVE  /\ Exists(q)'
             /\ records'[q].tenant = records[q].tenant
             /\ Subject(records'[q]) = Subject(records[q])
             /\ ContentSha(records'[q]) = ContentSha(records[q])
             /\ Active(q)' => Active(q)
             /\ (Active(q) /\ ~Holds(s, q)) => Active(q)'
  <2>1. CASE q \in sup
    <3>1. /\ records[q] \in RecordRow
          /\ records'[q] = [records[q] EXCEPT !.status = "superseded"]
          /\ records'[q] \in RecordRow
          /\ Holds(s, q)
      BY <1>3, <1>4, <1>6, <2>1
    <3>2. /\ records'[q].tenant = records[q].tenant
          /\ records'[q].namespace = records[q].namespace
          /\ records'[q].title = records[q].title
          /\ records'[q].body = records[q].body
          /\ records'[q].status = "superseded"
      BY <3>1 DEF RecordRow
    <3>3. Exists(q)'
      BY <3>1, NoRowAssumption DEF Exists
    <3>4. ~Active(q)'
      BY <3>2 DEF Active
    <3> QED BY <3>1, <3>2, <3>3, <3>4 DEF Subject, ContentSha
  <2>2. CASE q \notin sup
    BY <1>5, <1>6, <2>2 DEF Exists, Active
  <2> QED BY <2>1, <2>2
<1>7. \A q \in Record : (Exists(q)' /\ ~Exists(q)) => q = r
  BY <1>1 DEF Exists, Good, Superseding, Active
<1>8. records'[r].tenant = t /\ ContentSha(records'[r]) = ContentSha(w)
  BY <1>1, <1>2 DEF ContentSha
<1>9. \A y \in txn[s].rows : y.op = "upsert" => y.record = r
  BY <1>1 DEF Good, Completed
<1> QED BY <1>1, <1>2, <1>6, <1>7, <1>8, <1>9 DEF CommitEffect

\* And so does a forget()'s.
LEMMA ForgetCommitEffect ==
    ASSUME Overlap, PInv, NEW s \in Session, CommitForget(s)
    PROVE  CommitEffect(s)
<1> DEFINE t == txn[s].tenant
           r == txn[s].record
<1>1. /\ ~IsStore(s) /\ r \in Record /\ Exists(r) /\ txn[s].step = "commit"
      /\ \A y \in txn[s].rows : y.op = "delete"
  BY ForgetCommits DEF CommitForget
<1>2. records' = IF records[r].tenant = t
                   THEN [records EXCEPT ![r].status = "forgotten"] ELSE records
  BY DEF CommitForget
<1>3. records \in [Record -> RecordRow \cup {NoRow}]
  BY SessionFacts DEF StoreTypeOK
<1>4. CASE records[r].tenant # t
  BY <1>1, <1>2, <1>4 DEF CommitEffect, Exists, Active
<1>5. CASE records[r].tenant = t
  <2>1. records[r] \in RecordRow /\ Holds(s, r)
    BY <1>1, <1>3, <1>5 DEF Exists, Holds, Retracts
  <2>2. /\ records'[r] = [records[r] EXCEPT !.status = "forgotten"]
        /\ records'[r] \in RecordRow
        /\ \A q \in Record \ {r} : records'[q] = records[q]
    BY <1>1, <1>2, <1>3, <1>5, <2>1 DEF RecordRow, RecordStatus
  <2>3. /\ records'[r].tenant = records[r].tenant
        /\ Subject(records'[r]) = Subject(records[r])
        /\ ContentSha(records'[r]) = ContentSha(records[r])
        /\ records'[r].status = "forgotten" /\ records'[r] # NoRow
    BY <2>1, <2>2, NoRowAssumption DEF RecordRow, Subject, ContentSha
  <2> QED BY <1>1, <2>1, <2>2, <2>3 DEF CommitEffect, Exists, Active
<1> QED BY <1>4, <1>5

\* The other transactions stay good and apart.
LEMMA CommitKeeps ==
    ASSUME PInv, NEW s \in Session, CommitOf(s), CommitEffect(s), [StoreNext]_storeVars
    PROVE  PInv'
<1>1. /\ txn' \in [Session -> Txn] /\ txn'[s] = Idle
      /\ \A o \in Session \ {s} : txn'[o] = txn[o]
      /\ sequence' = sequence /\ outbox' = outbox \cup txn[s].rows
  BY SessionFacts, IdleIsTxn DEF CommitOf
<1>2. StoreInv' /\ TypeOK'
  BY <1>1, StoreStepEffect DEF PInv, TypeOK, StoreInv
<1>3. \A y \in outbox' : y.id < sequence'
  BY <1>1, IdsAreDrawn
<1>4. ~IsStore(s)' /\ ~Inserted(s)' /\ txn'[s].rows = {} /\ \A q : ~Holds(s, q)'
  BY <1>1 DEF Idle, IsStore, Inserted, Holds, Retracts
<1>5. Good(s)'
  BY <1>1, <1>4 DEF Good, Parties, Superseding, Drawn, Completed, New, Idle, StoreSteps
<1>6. ASSUME NEW o \in Session \ {s} PROVE Good(o)'
  <2>1. /\ Good(o) /\ Apart(s, o) /\ txn'[o] = txn[o] /\ txn[o] \in Txn
        /\ IsStore(o)' = IsStore(o) /\ Inserted(o)' = Inserted(o)
    BY <1>1, SessionFacts DEF IsStore, Inserted
  <2>2. \A q \in Record : Rival(o, q) => Rival(o, q)'
    BY <2>1 DEF CommitEffect, Rival
  <2>3. txn[o].sup \subseteq Record /\ txn[o].targets \subseteq Record
        /\ \A y \in txn[o].rows : y.record \in Record
    BY <2>1 DEF Txn, OutboxRow
  <2>4. Parties(o)'
    BY <2>1 DEF CommitEffect, Good, Parties
  <2>5. Superseding(o)'
    <3>1. \A q \in txn[o].sup : ~Holds(s, q)
      BY <2>1, <2>3 DEF Apart, Holds
    <3> QED BY <2>1, <2>2, <2>3, <3>1 DEF CommitEffect, Good, Superseding, Active
  <2>6. Drawn(o)'
    <3>1. ASSUME NEW y \in txn[o].rows
          PROVE  /\ \A z \in outbox' : y.id # z.id
                 /\ y.op = "delete" =>
                      /\ Exists(y.record)'
                      /\ \A z \in outbox' :
                           (z.record = y.record /\ z.op = "upsert") => z.id < y.id
      BY <1>1, <2>1, <2>3 DEF CommitEffect, Good, Drawn, Apart
    <3> QED BY <1>1, <2>1, <3>1 DEF Good, Drawn
  <2>7. Completed(o)'
    BY <2>1 DEF Good, Completed
  <2>8. New(o)'
    <3> SUFFICES ASSUME Inserted(o)
                 PROVE  /\ ~Exists(txn[o].record)'
                        /\ \A q \in Record :
                             (/\ Active(q)' /\ records'[q].tenant = txn[o].tenant
                              /\ ContentSha(records'[q]) = ContentSha(txn[o].write))
                               => q \in txn[o].sup
      BY <2>1 DEF Good, New, Duplicates
    <3>1. /\ txn[o].record \in Record /\ ~Exists(txn[o].record)
          /\ \A q \in Record :
               (/\ Active(q) /\ records[q].tenant = txn[o].tenant
                /\ ContentSha(records[q]) = ContentSha(txn[o].write))
                 => q \in txn[o].sup
      BY <2>1 DEF Good, New, Duplicates
    <3>2. ~Exists(txn[o].record)'
      BY <2>1, <3>1 DEF CommitEffect, Apart
    <3>3. ASSUME NEW q \in Record, Active(q)', records'[q].tenant = txn[o].tenant,
                 ContentSha(records'[q]) = ContentSha(txn[o].write)
          PROVE  q \in txn[o].sup
      <4>1. Exists(q)
        BY <2>1, <3>3 DEF CommitEffect, Apart, Active
      <4> QED BY <3>1, <3>3, <4>1 DEF CommitEffect
    <3> QED BY <3>2, <3>3
  <2> QED BY <2>4, <2>5, <2>6, <2>7, <2>8 DEF Good
<1>7. ASSUME NEW o \in Session, NEW p \in Session, o # p PROVE Apart(o, p)'
  <2>1. CASE o = s \/ p = s
    BY <1>4, <2>1 DEF Apart
  <2>2. CASE o # s /\ p # s
    <3>1. Apart(o, p) /\ Good(o) /\ Good(p) /\ txn'[o] = txn[o] /\ txn'[p] = txn[p]
      BY <1>1, <1>7, <2>2 DEF PInv
    <3>2. ASSUME NEW x \in Session, x # s, NEW q \in Record, Holds(x, q)'
          PROVE  Holds(x, q)
      <4>1. txn'[x] = txn[x] /\ Good(x)
        BY <1>1, <3>2 DEF PInv
      <4> QED BY <3>2, <4>1 DEF Holds, Retracts, IsStore, CommitEffect, Good, Parties
    <3> QED BY <2>2, <3>1, <3>2 DEF Apart, Inserted, IsStore
  <2> QED BY <2>1, <2>2
<1> QED BY <1>2, <1>3, <1>5, <1>6, <1>7 DEF PInv

-----------------------------------------------------------------------------
\* PInv is an inductive invariant, and a step is one of MemoryStore or none.
LEMMA StepImplements ==
    ASSUME Overlap, PInv, [Next]_vars
    PROVE  PInv' /\ [StoreNext]_storeVars
<1>1. CASE UNCHANGED vars
  <2>1. UNCHANGED <<records, namespaces, outbox, txn, sequence>>
    BY <1>1 DEF vars, storeVars, txnVars
  <2> QED BY <2>1
          DEF PInv, TypeOK, StoreTypeOK, StoreInv, OutboxKeys, OutboxOwners, Good,
              Parties, Superseding, Drawn, Completed, New, Apart, Holds, Retracts,
              Inserted, IsStore, Rival, Exists, Active, Duplicates, storeVars
<1>2. ASSUME NEW s \in Session, SelectHit(s) \/ Abort(s)
      PROVE  PInv' /\ UNCHANGED storeVars
  BY <1>2, EndKeeps DEF SelectHit, Abort
<1>3. ASSUME NEW s \in Session, NEW t \in Tenant,
             \/ \E w \in MemoryWrite : BeginStore(s, t, w)
             \/ \E r \in Record : BeginForget(s, t, r)
      PROVE  PInv' /\ UNCHANGED storeVars
  BY <1>3, BeginKeeps DEF BeginStore, BeginForget
<1>4. ASSUME NEW s \in Session, SelectMiss(s) \/ UpdateScan(s) \/ UpdateRows(s)
                                \/ EnqueueDone(s) \/ InsertRow(s)
                                \/ InsertConflict(s) \/ InsertNamespace(s)
      PROVE  PInv' /\ UNCHANGED storeVars
  BY <1>4, SelectMissKeeps, UpdateScanKeeps, UpdateRowsKeeps, EnqueueDoneKeeps,
     InsertRowKeeps, InsertConflictKeeps, InsertNamespaceKeeps
     DEF SelectMiss, UpdateScan, UpdateRows, EnqueueDone, InsertRow, InsertConflict,
         InsertNamespace
<1>5. ASSUME NEW s \in Session,
             \/ \E q \in txn[s].sup : EnqueueDelete(s, q)
             \/ EnqueueUpsert(s) \/ Retract(s) \/ EnqueueForget(s)
      PROVE  PInv' /\ UNCHANGED storeVars
  BY <1>5, EnqueueDeleteKeeps, EnqueueUpsertKeeps, RetractKeeps, EnqueueForgetKeeps
     DEF EnqueueDelete, EnqueueUpsert, Retract, EnqueueForget
<1>6. ASSUME NEW s \in Session, CommitStore(s)
      PROVE  PInv' /\ StoreNext
  <2>1. CommitOf(s) /\ CommitEffect(s) /\ StoreNext
    BY <1>6, StoreCommits, StoreCommitEffect DEF StoreNext, Store
  <2> QED BY <2>1, CommitKeeps
<1>7. ASSUME NEW s \in Session, CommitForget(s)
      PROVE  PInv' /\ StoreNext
  <2>1. CommitOf(s) /\ CommitEffect(s) /\ StoreNext
    BY <1>7, ForgetCommits, ForgetCommitEffect DEF StoreNext
  <2> QED BY <2>1, CommitKeeps
<1> QED BY <1>1, <1>2, <1>3, <1>4, <1>5, <1>6, <1>7
        DEF Next, StoreStatement, ForgetStatement

\* No session has begun anything, and the tables are empty.
LEMMA Started == Init => PInv /\ StoreInit
<1> SUFFICES ASSUME Init PROVE PInv /\ StoreInit
  OBVIOUS
<1>1. \A s \in Session : txn[s] = Idle
  BY DEF Init
<1>2. /\ StoreInit /\ sequence = 1 /\ outbox = {}
      /\ txn \in [Session -> Txn]
  BY IdleIsTxn DEF Init, StoreInit
<1>3. TypeOK /\ StoreInv
  BY <1>2 DEF TypeOK, StoreInit, StoreTypeOK, StoreInv, OutboxKeys, OutboxOwners
<1>4. ASSUME NEW s \in Session
      PROVE  Good(s) /\ ~Inserted(s) /\ txn[s].rows = {} /\ \A q : ~Holds(s, q)
  BY <1>1, <1>4 DEF Good, Parties, Superseding, Drawn, Completed, New, Inserted,
                    Holds, Retracts, IsStore, Idle, StoreSteps
<1> QED BY <1>2, <1>3, <1>4 DEF PInv, Apart

\* However the statements interleave, every transaction stays good and apart.
LEMMA Invariance ==
    ASSUME Overlap
    PROVE  Spec => []PInv
<1>1. PInv /\ [Next]_vars => PInv'
  BY StepImplements
<1> QED BY <1>1, Started, PTL DEF Spec

\* The sessions, their tables and the sequence keep their types.
THEOREM TxnTypes ==
    ASSUME Overlap
    PROVE  Spec => []TypeOK
<1>1. PInv => TypeOK
  BY DEF PInv
<1> QED BY <1>1, Invariance, PTL

\* However the statements of the sessions interleave and wherever they are
\* aborted, the committed tables go through steps of MemoryStore only: store()
\* and forget() are atomic as far as anyone can tell.
THEOREM StatementsAreAtomic ==
    ASSUME Overlap
    PROVE  Spec => StoreSpec
<1>1. PInv /\ [Next]_vars => [StoreNext]_storeVars
  BY StepImplements
<1> QED BY <1>1, Started, Invariance, PTL DEF Spec, StoreSpec

\* So what is proved of MemoryStore holds of the transactions: the outbox tells
\* every record's story, no content is active twice, status goes one way.
THEOREM TransactionsTellAll ==
    ASSUME Overlap
    PROVE  Spec => []OutboxMatchesStatus /\ []DedupUnique /\ OneWayStatus
BY StatementsAreAtomic, OutboxTellsAll, Dedup, OneWay, PTL

\* No other statement leaves a session refused.
LEMMA OnlyConflictRefuses ==
    ASSUME TypeOK, Next, NEW s \in Session,
           txn[s].step # "conflict", txn'[s].step = "conflict"
    PROVE  InsertConflict(s)
<1>1. txn \in [Session -> Txn]
  BY DEF TypeOK
<1>2. PICK o \in Session :
        \/ \E t \in Tenant, w \in MemoryWrite : BeginStore(o, t, w)
        \/ \E t \in Tenant, r \in Record : BeginForget(o, t, r)
        \/ StoreStatement(o)
        \/ ForgetStatement(o)
        \/ Abort(o)
  BY DEF Next
<1>3. txn'[s].step = txn[s].step \/ o = s
  BY <1>1, <1>2 DEF BeginStore, BeginForget, StoreStatement, ForgetStatement,
     Abort, SelectHit, SelectMiss, UpdateScan, UpdateRows, EnqueueDone,
     EnqueueDelete, InsertRow, InsertConflict, InsertNamespace, EnqueueUpsert,
     CommitStore, Retract, EnqueueForget, CommitForget, Goto, Enqueue
<1>4. o = s
  BY <1>3
<1> SUFFICES ASSUME ~InsertConflict(s) PROVE txn'[s].step # "conflict"
  OBVIOUS
<1>5. CASE \/ \E t \in Tenant, w \in MemoryWrite : BeginStore(s, t, w)
           \/ \E t \in Tenant, r \in Record : BeginForget(s, t, r)
  BY <1>1, <1>5 DEF BeginStore, BeginForget, Idle
<1>6. CASE SelectHit(s) \/ CommitStore(s) \/ CommitForget(s) \/ Abort(s)
  BY <1>1, <1>6 DEF SelectHit, CommitStore, CommitForget, Abort, Idle
<1>7. CASE SelectMiss(s) \/ EnqueueDone(s) \/ InsertNamespace(s) \/ Retract(s)
  BY <1>1, <1>7 DEF SelectMiss, EnqueueDone, InsertNamespace, Retract, Goto, Txn
<1>8. CASE UpdateScan(s) \/ UpdateRows(s) \/ InsertRow(s)
  BY <1>1, <1>8 DEF UpdateScan, UpdateRows, InsertRow, Txn
<1>9. ASSUME NEW q, NEW op, NEW step, step # "conflict", Enqueue(s, q, op, step)
      PROVE  txn'[s].step # "conflict"
  BY <1>1, <1>9 DEF Enqueue, Txn
<1>10. CASE \/ \E q \in txn[s].sup : EnqueueDelete(s, q)
            \/ EnqueueUpsert(s) \/ EnqueueForget(s)
  BY <1>9, <1>10 DEF EnqueueDelete, EnqueueUpsert, EnqueueForget
<1> QED
  BY <1>2, <1>4, <1>5, <1>6, <1>7, <1>8, <1>10 DEF StoreStatement, ForgetStatement

\* A refused store has a committed twin: the index refuses a record only for an
\* active one of the same tenant and content.
THEOREM RefusedIsStored ==
    ASSUME Overlap
    PROVE  Spec => ConflictMeansStored
<1> DEFINE Stored(s) ==
             \E q \in Record :
               /\ Active(q)
               /\ records[q].tenant = txn[s].tenant
               /\ ContentSha(records[q]) = ContentSha(txn[s].write)
           Refuses == \A s \in Session :
             (txn[s].step # "conflict" /\ txn'[s].step = "conflict") => Stored(s)
<1>1. ASSUME TypeOK, Next, NEW s \in Session,
             txn[s].step # "conflict", txn'[s].step = "conflict"
      PROVE  Stored(s)
  <2>1. InsertConflict(s)
    BY <1>1, OnlyConflictRefuses
  <2>2. PICK q \in Duplicates(txn[s].tenant, txn[s].write) : TRUE
    BY <2>1 DEF InsertConflict, Twins
  <2> QED BY <2>2 DEF Duplicates
<1>2. TypeOK /\ [Next]_vars => [Refuses]_vars
  BY <1>1
<1> QED BY <1>2, TxnTypes, PTL DEF Spec, ConflictMeansStored

-----------------------------------------------------------------------------
Unscanned == {"idle", "select", "scan", "retract", "delete"}
Updated == {"enqueue", "insert", "namespace", "upsert", "commit"}

\* What the UPDATE of s found it supersedes, or someone else has retracted it.
Found(s) ==
    /\ (txn[s].step \in Unscanned \/ ~IsStore(s)) => txn[s].targets = {}
    /\ txn[s].step \in {"update"} \cup Updated =>
         \A q \in txn[s].targets :
           /\ Exists(q)
           /\ (Active(q) /\ txn[s].step # "update") => q \in txn[s].sup

FoundInv == \A s \in Session : Found(s)

\* Others' commits revive nothing, so what s found stays accounted for.
LEMMA FoundByOthers ==
    ASSUME Overlap, PInv, [Next]_vars, NEW s \in Session, Found(s), txn'[s] = txn[s]
    PROVE  Found(s)'
<1>1. StoreEffect
  BY StepImplements, StoreStepEffect DEF PInv
<1>2. txn[s].targets \subseteq Record
  BY SessionFacts DEF Txn
<1>3. \A q \in txn[s].targets : Exists(q) => Exists(q)' /\ (Active(q)' => Active(q))
  BY <1>1, <1>2 DEF StoreEffect
<1> QED BY <1>3 DEF Found, IsStore

\* A statement after which s has what it had, and has or has not updated as before.
GoesOn(s) ==
    /\ records' = records
    /\ txn'[s].write = txn[s].write /\ txn'[s].targets = txn[s].targets
    /\ txn'[s].sup = txn[s].sup
    /\ txn'[s].step \in Unscanned => txn[s].step \in Unscanned
    /\ txn'[s].step # "update"
    /\ txn'[s].step \in Updated => txn[s].step \in Updated \cup Unscanned

\* Such a statement loses nothing that was found.
LEMMA FoundGoesOn ==
    ASSUME NEW s \in Session, Found(s), GoesOn(s)
    PROVE  Found(s)'
<1>1. /\ IsStore(s)' = IsStore(s)
      /\ \A q : Exists(q)' = Exists(q) /\ Active(q)' = Active(q)
  BY DEF GoesOn, IsStore, Exists, Active
<1>2. CASE txn[s].step \in Unscanned \/ ~IsStore(s)
  BY <1>1, <1>2 DEF Found, GoesOn
<1>3. CASE txn[s].step \notin Unscanned /\ IsStore(s)
  <2>1. txn'[s].step \in Updated => txn[s].step \in Updated /\ txn[s].step # "update"
    BY <1>3 DEF GoesOn, Updated
  <2> QED BY <1>1, <1>3, <2>1 DEF Found, GoesOn
<1> QED BY <1>2, <1>3

\* The statements of s itself.
LEMMA FoundByOwn ==
    ASSUME PInv, NEW s \in Session, Found(s),
           \/ \E t \in Tenant, w \in MemoryWrite : BeginStore(s, t, w)
           \/ \E t \in Tenant, r \in Record : BeginForget(s, t, r)
           \/ StoreStatement(s) \/ ForgetStatement(s) \/ Abort(s)
    PROVE  Found(s)'
<1>1. txn \in [Session -> Txn]
  BY SessionFacts
<1>2. CASE SelectHit(s) \/ CommitStore(s) \/ CommitForget(s) \/ Abort(s)
  <2>1. txn'[s] = Idle
    BY <1>1, <1>2 DEF SelectHit, CommitStore, CommitForget, Abort
  <2> QED BY <2>1 DEF Found, Idle, Updated
<1>3. CASE \/ \E t \in Tenant, w \in MemoryWrite : BeginStore(s, t, w)
           \/ \E t \in Tenant, r \in Record : BeginForget(s, t, r)
  <2>1. txn'[s].targets = {} /\ txn'[s].step \in {"select", "retract"}
    BY <1>1, <1>3 DEF BeginStore, BeginForget, Idle
  <2> QED BY <2>1 DEF Found, Updated
<1>4. CASE UpdateScan(s)
  <2>1. /\ txn'[s].step = "update" /\ txn'[s].write = txn[s].write
        /\ txn'[s].targets = Supersedable(txn[s].tenant, txn[s].write)
        /\ records' = records /\ IsStore(s)
    BY <1>1, <1>4, SessionFacts
       DEF UpdateScan, storeVars, Txn, Good, Parties, StoreSteps
  <2> QED BY <2>1 DEF Found, Unscanned, Updated, Supersedable, IsStore, Exists, Active
<1>5. CASE UpdateRows(s)
  <2>1. /\ txn[s].step = "update" /\ txn'[s].step = "enqueue"
        /\ txn'[s].write = txn[s].write /\ txn'[s].targets = txn[s].targets
        /\ txn'[s].sup = {q \in txn[s].targets : Active(q)}
        /\ records' = records /\ IsStore(s)
    BY <1>1, <1>5, SessionFacts
       DEF UpdateRows, storeVars, Txn, Good, Parties, StoreSteps
  <2> QED BY <2>1 DEF Found, Unscanned, Updated, IsStore, Exists, Active
<1>6. ASSUME NEW step \in Step, Goto(s, step), UNCHANGED storeVars
      PROVE  /\ records' = records /\ txn'[s].step = step
             /\ txn'[s].write = txn[s].write /\ txn'[s].targets = txn[s].targets
             /\ txn'[s].sup = txn[s].sup
  BY <1>1, <1>6 DEF Goto, Txn, storeVars
<1>7. CASE SelectMiss(s)
  <2>1. PICK step \in {"scan", "insert"} : Goto(s, step)
    BY <1>7 DEF SelectMiss
  <2>2. GoesOn(s)
    BY <1>6, <1>7, <2>1 DEF SelectMiss, Step, GoesOn, Unscanned, Updated
  <2> QED BY <2>2, FoundGoesOn
<1>8. ASSUME NEW from \in Step, NEW step \in Step, Goto(s, step), UNCHANGED storeVars,
             txn[s].step = from, <<from, step>> \in {<<"enqueue", "insert">>,
               <<"insert", "conflict">>, <<"namespace", "upsert">>, <<"retract", "delete">>}
      PROVE  Found(s)'
  <2>1. GoesOn(s)
    BY <1>6, <1>8 DEF GoesOn, Unscanned, Updated
  <2> QED BY <2>1, FoundGoesOn
<1>9. CASE EnqueueDone(s) \/ InsertConflict(s) \/ InsertNamespace(s) \/ Retract(s)
  BY <1>8, <1>9 DEF EnqueueDone, InsertConflict, MayInsert, InsertNamespace, Retract, Step
<1>10. CASE InsertRow(s)
  <2>1. GoesOn(s)
    BY <1>1, <1>10 DEF InsertRow, MayInsert, Txn, storeVars, GoesOn, Unscanned, Updated
  <2> QED BY <2>1, FoundGoesOn
<1>11. ASSUME NEW q, NEW op, NEW step \in {"enqueue", "commit"}, Enqueue(s, q, op, step),
              UNCHANGED storeVars, txn[s].step \in Updated \cup Unscanned
       PROVE  Found(s)'
  <2>1. GoesOn(s)
    BY <1>1, <1>11 DEF Enqueue, Txn, storeVars, GoesOn, Unscanned, Updated
  <2> QED BY <2>1, FoundGoesOn
<1>12. CASE \/ \E q \in txn[s].sup : EnqueueDelete(s, q)
            \/ EnqueueUpsert(s) \/ EnqueueForget(s)
  BY <1>11, <1>12
     DEF EnqueueDelete, EnqueueUpsert, EnqueueForget, Unscanned, Updated
<1> QED BY <1>2, <1>3, <1>4, <1>5, <1>7, <1>9, <1>10, <1>12
        DEF StoreStatement, ForgetStatement

\* Every step leaves what was found accounted for.
LEMMA FoundStep ==
    ASSUME Overlap, PInv, FoundInv, [Next]_vars
    PROVE  FoundInv'
<1> SUFFICES ASSUME NEW s \in Session PROVE Found(s)'
  BY DEF FoundInv
<1>1. Found(s)
  BY DEF FoundInv
<1>2. CASE txn'[s] = txn[s]
  BY <1>1, <1>2, FoundByOthers
<1>3. CASE txn'[s] # txn[s]
  <2>1. PICK o \in Session :
          \/ \E t \in Tenant, w \in MemoryWrite : BeginStore(o, t, w)
          \/ \E t \in Tenant, r \in Record : BeginForget(o, t, r)
          \/ StoreStatement(o) \/ ForgetStatement(o) \/ Abort(o)
    BY <1>3 DEF Next, vars, txnVars
  <2>2. txn'[s] = txn[s] \/ o = s
    BY <2>1, SessionFacts DEF BeginStore, BeginForget, StoreStatement, ForgetStatement,
       Abort, SelectHit, SelectMiss, UpdateScan, UpdateRows, EnqueueDone,
       EnqueueDelete, InsertRow, InsertConflict, InsertNamespace, EnqueueUpsert,
       CommitStore, Retract, EnqueueForget, CommitForget, Goto, Enqueue
  <2> QED BY <1>1, <1>3, <2>1, <2>2, FoundByOwn
<1> QED BY <1>2, <1>3

\* A record appears by the commit of the store that inserted it.
LEMMA AppearsByCommit ==
    ASSUME Overlap, PInv, Next, NEW s \in Session, IsStore(s), txn[s].step = "commit",
           ~Exists(txn[s].record), records'[txn[s].record] # NoRow
    PROVE  CommitStore(s)
<1> DEFINE r == txn[s].record
<1>1. r \in Record /\ Inserted(s) /\ records' # records
  BY SessionFacts DEF Good, New, Inserted, Exists
<1>2. PICK o \in Session : CommitStore(o) \/ CommitForget(o)
  BY <1>1 DEF Next, StoreStatement, ForgetStatement, storeVars, BeginStore, BeginForget,
     Abort, SelectHit, SelectMiss, UpdateScan, UpdateRows, EnqueueDone,
     EnqueueDelete, InsertRow, InsertConflict, InsertNamespace, EnqueueUpsert,
     Retract, EnqueueForget
<1>3. CommitEffect(o)
  BY <1>2, StoreCommitEffect, ForgetCommitEffect
<1>4. Inserted(o) /\ r = txn[o].record
  BY <1>1, <1>3 DEF CommitEffect, Exists
<1>5. o = s
  BY <1>1, <1>4, SessionFacts DEF Apart
<1>6. ~CommitForget(s)
  BY DEF CommitForget
<1> QED BY <1>2, <1>5, <1>6

\* No store leaves current what its UPDATE had found: of two current records of a
\* subject, neither was committed when the other's UPDATE looked.
THEOREM UpdateSupersedes ==
    ASSUME Overlap
    PROVE  Spec => FoundIsSuperseded
<1> DEFINE Superseded == \A s \in Session, r \in Record :
             /\ IsStore(s) /\ txn[s].step = "commit" /\ txn[s].record = r
             /\ ~Exists(r) /\ Exists(r)'
             => \A q \in txn[s].targets : ~Active(q)'
<1>1. Init => FoundInv
  BY DEF Init, FoundInv, Found, Idle, Updated
<1>2. PInv /\ FoundInv /\ [Next]_vars => FoundInv'
  BY FoundStep
<1>3. PInv /\ FoundInv /\ [Next]_vars => [Superseded]_vars
  <2> SUFFICES ASSUME PInv, FoundInv, Next, NEW s \in Session, IsStore(s),
                      txn[s].step = "commit", ~Exists(txn[s].record),
                      records'[txn[s].record] # NoRow, NEW q \in txn[s].targets
               PROVE  ~Active(q)'
    BY DEF Exists
  <2>1. CommitStore(s) /\ q \in Record /\ txn[s].record \in Record
    BY AppearsByCommit, SessionFacts DEF Txn, Good, New, Inserted
  <2>2. Exists(q) /\ (Active(q) => q \in txn[s].sup)
    BY DEF FoundInv, Found, Updated
  <2>3. records'[q] = IF q \in txn[s].sup
                        THEN [records[q] EXCEPT !.status = "superseded"] ELSE records[q]
    BY <2>1, <2>2 DEF CommitStore
  <2>4. CASE q \in txn[s].sup
    <3>1. records[q] \in RecordRow
      BY <2>1, <2>2, SessionFacts DEF StoreTypeOK, Exists
    <3>2. records'[q].status = "superseded"
      BY <2>3, <2>4, <3>1 DEF RecordRow
    <3> QED BY <3>2 DEF Active
  <2>5. CASE q \notin txn[s].sup
    BY <2>2, <2>3, <2>5 DEF Active, Exists
  <2> QED BY <2>4, <2>5
<1> QED BY <1>1, <1>2, <1>3, Invariance, PTL DEF Spec, FoundIsSuperseded
=============================================================================
