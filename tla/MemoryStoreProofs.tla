-------------------------- MODULE MemoryStoreProofs --------------------------
(***************************************************************************)
(* Theorems about MemoryStore, for every value of the constants.           *)
(***************************************************************************)
EXTENDS MemoryStore, FiniteSetTheorems, TLAPS

\* The superseded records are active, of the caller's tenant and subject.
LEMMA SupersededAreSupersedable ==
    ASSUME NEW t, NEW w, NEW sup \in SupersededSets(t, w)
    PROVE  sup \subseteq Supersedable(t, w)
BY DEF SupersededSets

\* The tables keep their types when a store writes.
LEMMA InsertTypeCorrect ==
    ASSUME StoreTypeOK,
           NEW t \in Tenant, NEW w \in MemoryWrite, NEW r \in Record,
           NEW sup \in SUBSET Supersedable(t, w),
           NEW ids \in [sup \cup {r} -> OutboxId],
           InsertRecord(t, w, r, sup, ids)
    PROVE  StoreTypeOK'
<1> USE DEF StoreTypeOK, InsertRecord
<1>1. sup \subseteq Record /\ \A q \in sup : Active(q)
  BY DEF Supersedable
<1>2. records' \in [Record -> RecordRow \cup {NoRow}]
  <2> SUFFICES ASSUME NEW q \in Record
               PROVE  records'[q] \in RecordRow \cup {NoRow}
    OBVIOUS
  <2>1. CASE q = r
    BY <2>1 DEF MemoryWrite, RecordRow, RecordStatus
  <2>2. CASE q # r /\ q \in sup
    BY <1>1, <2>2 DEF Active, Exists, RecordRow, RecordStatus
  <2>3. CASE q # r /\ q \notin sup
    BY <2>3
  <2> QED BY <2>1, <2>2, <2>3
<1>3. namespaces' \subseteq Tenant \X Namespace
  BY DEF MemoryWrite
<1>4. outbox' \subseteq OutboxRow
  <2>1. \A q \in sup : NewOutboxRow(ids[q], q, t, "delete") \in OutboxRow
    BY <1>1 DEF NewOutboxRow, OutboxRow, OutboxOp
  <2>2. NewOutboxRow(ids[r], r, t, "upsert") \in OutboxRow
    BY DEF NewOutboxRow, OutboxRow, OutboxOp
  <2> QED BY <2>1, <2>2
<1> QED BY <1>2, <1>3, <1>4

\* The tables keep their types when a record is forgotten.
LEMMA ForgetTypeCorrect ==
    ASSUME StoreTypeOK, NEW t \in Tenant, NEW r \in Record, Forget(t, r)
    PROVE  StoreTypeOK'
<1> USE DEF StoreTypeOK
<1>1. ASSUME NEW i \in OutboxId
      PROVE  NewOutboxRow(i, r, t, "delete") \in OutboxRow
  BY DEF NewOutboxRow, OutboxRow, OutboxOp
<1>2. CASE ForgetOwned(t, r)
  <2>1. [records[r] EXCEPT !.status = "forgotten"] \in RecordRow
    BY <1>2 DEF ForgetOwned, Exists, RecordRow, RecordStatus
  <2> QED BY <1>1, <1>2, <2>1 DEF ForgetOwned
<1>3. CASE ForgetUnowned(t, r)
  BY <1>1, <1>3 DEF ForgetUnowned
<1> QED BY <1>2, <1>3 DEF Forget

\* The tables keep their types in every step.
LEMMA StoreStepTypeCorrect ==
    ASSUME StoreTypeOK, [StoreNext]_storeVars
    PROVE  StoreTypeOK'
<1>1. CASE UNCHANGED storeVars
  BY <1>1 DEF storeVars, StoreTypeOK
<1>2. ASSUME NEW t \in Tenant, NEW w \in MemoryWrite, StoreDedup(t, w)
      PROVE  StoreTypeOK'
  BY <1>2 DEF StoreDedup, storeVars, StoreTypeOK
<1>3. ASSUME NEW t \in Tenant, NEW w \in MemoryWrite, StoreInsert(t, w)
      PROVE  StoreTypeOK'
  BY <1>3, SupersededAreSupersedable, InsertTypeCorrect DEF StoreInsert
<1>4. ASSUME NEW t \in Tenant, NEW r \in Record, Forget(t, r)
      PROVE  StoreTypeOK'
  BY <1>4, ForgetTypeCorrect
<1> QED BY <1>1, <1>2, <1>3, <1>4 DEF StoreNext, Store

\* The three tables always hold rows of their schema.
THEOREM StoreTypeCorrect == StoreSpec => []StoreTypeOK
<1>1. StoreInit => StoreTypeOK
  BY DEF StoreInit, StoreTypeOK
<1>2. StoreTypeOK /\ [StoreNext]_storeVars => StoreTypeOK'
  BY StoreStepTypeCorrect
<1> QED BY <1>1, <1>2, PTL DEF StoreSpec

-----------------------------------------------------------------------------
\* One record's life: it only ever appears, or goes from active to superseded,
\* or to forgotten; its content never changes.
LifeStep(r) ==
    Exists(r) =>
      /\ records'[r] \in {[records[r] EXCEPT !.status = s] : s \in RecordStatus}
      /\ records'[r].status = "active" => records[r].status = "active"
      /\ records[r].status = "forgotten" => records'[r].status = "forgotten"

\* No step of the store gives a record new content or a new life.
LEMMA OneWayStep ==
    ASSUME StoreTypeOK, StoreNext, NEW q \in Record
    PROVE  LifeStep(q)
<1> SUFFICES ASSUME Exists(q)
             PROVE  /\ records'[q] \in {[records[q] EXCEPT !.status = s] :
                                          s \in RecordStatus}
                    /\ records'[q].status = "active" => records[q].status = "active"
                    /\ records[q].status = "forgotten" =>
                         records'[q].status = "forgotten"
  BY DEF LifeStep
<1>1. records[q] \in RecordRow
  BY DEF StoreTypeOK, Exists
<1>2. [records[q] EXCEPT !.status = records[q].status] = records[q]
  BY <1>1 DEF RecordRow
<1>3. CASE records'[q] = records[q]
  BY <1>1, <1>2, <1>3 DEF RecordRow
<1>4. ASSUME NEW t \in Tenant, NEW w \in MemoryWrite, NEW r \in Record,
             NEW sup \in SUBSET Supersedable(t, w), NEW ids,
             InsertRecord(t, w, r, sup, ids)
      PROVE  \/ records'[q] = records[q]
             \/ /\ records[q].status = "active"
                /\ records'[q] = [records[q] EXCEPT !.status = "superseded"]
  BY <1>4 DEF InsertRecord, Supersedable, Active
<1>5. ASSUME NEW t \in Tenant, NEW r \in Record, Forget(t, r)
      PROVE  \/ records'[q] = records[q]
             \/ records'[q] = [records[q] EXCEPT !.status = "forgotten"]
  BY <1>5 DEF Forget, ForgetOwned, ForgetUnowned, StoreTypeOK
<1>6. \/ records'[q] = records[q]
      \/ /\ records[q].status = "active"
         /\ records'[q] = [records[q] EXCEPT !.status = "superseded"]
      \/ records'[q] = [records[q] EXCEPT !.status = "forgotten"]
  <2>1. ASSUME NEW t \in Tenant, NEW w \in MemoryWrite, Store(t, w)
        PROVE  <1>6
    BY <2>1, <1>4, SupersededAreSupersedable
       DEF Store, StoreDedup, StoreInsert, storeVars
  <2> QED BY <2>1, <1>5 DEF StoreNext
<1>7. CASE /\ records[q].status = "active"
           /\ records'[q] = [records[q] EXCEPT !.status = "superseded"]
  BY <1>1, <1>7 DEF RecordRow, RecordStatus
<1>8. CASE records'[q] = [records[q] EXCEPT !.status = "forgotten"]
  BY <1>1, <1>8 DEF RecordRow, RecordStatus
<1> QED BY <1>3, <1>6, <1>7, <1>8

\* What was superseded or forgotten never becomes active again, what was
\* forgotten never becomes readable again, and content never changes.
THEOREM OneWay == StoreSpec => OneWayStatus
<1>1. StoreTypeOK /\ [StoreNext]_storeVars =>
        [\A r \in Record : LifeStep(r)]_storeVars
  BY OneWayStep
<1> QED BY <1>1, StoreTypeCorrect, PTL DEF StoreSpec, OneWayStatus, LifeStep

-----------------------------------------------------------------------------
\* In every step the active records are old active ones and at most one new
\* one, which was stored while nothing active had its content.
LEMMA DedupStep ==
    ASSUME StoreTypeOK, DedupUnique, [StoreNext]_storeVars
    PROVE  DedupUnique'
<1>1. CASE UNCHANGED storeVars
  BY <1>1 DEF storeVars, DedupUnique, Active, Exists, ContentSha
<1>2. ASSUME NEW t \in Tenant, NEW w \in MemoryWrite, StoreDedup(t, w)
      PROVE  DedupUnique'
  BY <1>2 DEF StoreDedup, storeVars, DedupUnique, Active, Exists, ContentSha
<1>3. ASSUME NEW t \in Tenant, NEW w \in MemoryWrite, StoreInsert(t, w)
      PROVE  DedupUnique'
  <2>1. PICK r \in Record, sup \in SupersededSets(t, w) :
          /\ Duplicates(t, w) \subseteq sup
          /\ \E ids \in [sup \cup {r} -> OutboxId] : InsertRecord(t, w, r, sup, ids)
    BY <1>3 DEF StoreInsert
  <2>2. \A q \in Record : (q # r /\ Active(q)') =>
          /\ Active(q)
          /\ records'[q] = records[q]
          /\ q \notin sup
    <3>1. \A q \in sup : q \in Record /\ records[q] \in RecordRow
      BY SupersededAreSupersedable DEF Supersedable, Active, Exists, StoreTypeOK
    <3> QED BY <2>1, <3>1 DEF InsertRecord, Active, Exists, RecordRow
  <2>3. /\ records'[r].tenant = t
        /\ ContentSha(records[r])' = ContentSha(w)
    BY <2>1 DEF InsertRecord, ContentSha
  <2>4. ASSUME NEW q \in Record, q # r, Active(q)', records'[q].tenant = t,
               ContentSha(records[q])' = ContentSha(w)
        PROVE  FALSE
    BY <2>1, <2>2, <2>4 DEF Duplicates, ContentSha
  <2> QED BY <2>2, <2>3, <2>4 DEF DedupUnique, ContentSha
<1>4. ASSUME NEW t \in Tenant, NEW r \in Record, Forget(t, r)
      PROVE  DedupUnique'
  <2>1. \A q \in Record : Active(q)' => Active(q) /\ records'[q] = records[q]
    BY <1>4 DEF Forget, ForgetOwned, ForgetUnowned, StoreTypeOK, RecordRow,
                Active, Exists
  <2> QED BY <2>1 DEF DedupUnique, ContentSha
<1> QED BY <1>1, <1>2, <1>3, <1>4 DEF StoreNext, Store

\* No tenant ever has two active records with one content hash.
THEOREM Dedup == StoreSpec => []DedupUnique
<1>1. StoreInit => DedupUnique
  BY DEF StoreInit, DedupUnique, Active, Exists
<1>2. StoreTypeOK /\ DedupUnique /\ [StoreNext]_storeVars => DedupUnique'
  BY DedupStep
<1> QED BY <1>1, <1>2, StoreTypeCorrect, PTL DEF StoreSpec

-----------------------------------------------------------------------------
\* Ids identify rows, and a row's record exists (the outbox's foreign key).
OutboxKeys ==
    /\ \A x, y \in outbox : x.id = y.id => x = y
    /\ \A x \in outbox : Exists(x.record)

\* Upsert rows are written by the record's tenant, and no delete row of an
\* active record is.
OutboxOwners ==
    \A x \in outbox :
      /\ x.op = "upsert" => x.tenant = records[x.record].tenant
      /\ (x.op = "delete" /\ Active(x.record)) =>
           x.tenant # records[x.record].tenant

StoreInv == StoreTypeOK /\ OutboxKeys /\ OutboxOwners

\* What every step of the store leaves behind, as far as a drainer can tell:
\* rows are only added, and come unprocessed; a record keeps its tenant and is
\* not reactivated; a new record comes with an upsert row of its own.
StoreEffect ==
    /\ outbox \subseteq outbox'
    /\ \A x \in outbox' \ outbox : ~x.processed /\ x.attempts = 0
    /\ \A r \in Record : Exists(r) =>
         /\ Exists(r)'
         /\ records'[r].tenant = records[r].tenant
         /\ Active(r)' => Active(r)
    /\ \A r \in Record : (Active(r)' /\ ~Exists(r)) =>
         \E u \in outbox' : /\ u.record = r /\ u.op = "upsert" /\ ~u.processed
                            /\ u.tenant = records'[r].tenant

\* The effect of an insertion.
LEMMA InsertEffect ==
    ASSUME StoreInv,
           NEW t \in Tenant, NEW w \in MemoryWrite, NEW r \in Record,
           NEW sup \in SUBSET Supersedable(t, w),
           NEW ids \in [sup \cup {r} -> OutboxId],
           InsertRecord(t, w, r, sup, ids)
    PROVE  StoreEffect /\ OutboxKeys' /\ OutboxOwners'
<1> DEFINE new == NewOutboxRow(ids[r], r, t, "upsert")
           gone(q) == NewOutboxRow(ids[q], q, t, "delete")
<1> USE DEF StoreInv
<1>1. \A q \in sup : /\ q \in Record /\ Active(q) /\ records[q] \in RecordRow
                     /\ records[q].tenant = t
                     /\ q # r
  BY DEF Supersedable, Active, Exists, StoreTypeOK, InsertRecord
<1>2. /\ Active(r)' /\ Exists(r)' /\ ~Exists(r)
      /\ records'[r].tenant = t
  BY NoRowAssumption DEF InsertRecord, Active, Exists, RecordRow, RecordStatus,
                         MemoryWrite
<1>3. \A q \in sup : Exists(q)' /\ ~Active(q)' /\ records'[q].tenant = t
  BY <1>1, NoRowAssumption
     DEF InsertRecord, Active, Exists, RecordRow, RecordStatus
<1>4. \A q \in Record : q # r /\ q \notin sup => records'[q] = records[q]
  BY DEF InsertRecord
<1>5. \A q \in Record : Exists(q) =>
        /\ Exists(q)'
        /\ records'[q].tenant = records[q].tenant
        /\ Active(q)' => Active(q)
  BY <1>1, <1>2, <1>3, <1>4 DEF Active, Exists
<1>6. outbox' = outbox \cup {gone(q) : q \in sup} \cup {new}
  BY DEF InsertRecord
<1>7. /\ new.id = ids[r] /\ new.record = r /\ new.op = "upsert"
      /\ new.tenant = t /\ ~new.processed /\ new.attempts = 0
  BY DEF NewOutboxRow
<1>8. \A q \in sup : /\ gone(q).id = ids[q] /\ gone(q).record = q
                     /\ gone(q).op = "delete" /\ gone(q).tenant = t
                     /\ ~gone(q).processed /\ gone(q).attempts = 0
  BY DEF NewOutboxRow
<1> HIDE DEF new, gone
<1>9. StoreEffect
  <2>1. \A x \in outbox' \ outbox : ~x.processed /\ x.attempts = 0
    BY <1>6, <1>7, <1>8
  <2>2. \A q \in Record : (Active(q)' /\ ~Exists(q)) => q = r
    BY <1>1, <1>4 DEF Active, Exists
  <2>3. \A q \in Record : (Active(q)' /\ ~Exists(q)) =>
          \E u \in outbox' : /\ u.record = q /\ u.op = "upsert" /\ ~u.processed
                             /\ u.tenant = records'[q].tenant
    BY <2>2, <1>2, <1>6, <1>7
  <2> QED BY <1>5, <1>6, <2>1, <2>3 DEF StoreEffect
<1>10. OutboxKeys'
  <2>1. /\ ids[r] \notin UsedIds
        /\ \A q \in sup : ids[q] \notin UsedIds /\ ids[q] < ids[r]
        /\ \A p, q \in sup : ids[p] = ids[q] => p = q
    BY DEF InsertRecord, FreshIds, FreshId
  <2>2. \A q \in sup : ids[q] # ids[r]
    <3>1. \A q \in sup \cup {r} : ids[q] \in Nat
      BY OutboxIdAssumption
    <3>2. \A m, n \in Nat : m < n => m # n
      OBVIOUS
    <3> QED BY <2>1, <3>1, <3>2
  <2>3. ASSUME NEW x \in outbox', NEW y \in outbox', x.id = y.id
        PROVE  x = y
    <3>1. CASE x \in outbox
      <4>1. x.id \in UsedIds
        BY <3>1 DEF UsedIds
      <4> QED BY <1>6, <1>7, <1>8, <2>1, <2>3, <3>1, <4>1 DEF OutboxKeys
    <3>2. CASE y \in outbox
      <4>1. y.id \in UsedIds
        BY <3>2 DEF UsedIds
      <4> QED BY <1>6, <1>7, <1>8, <2>1, <2>3, <3>2, <4>1 DEF OutboxKeys
    <3>3. CASE x \notin outbox /\ y \notin outbox
      BY <1>6, <1>7, <1>8, <2>1, <2>2, <2>3, <3>3
    <3> QED BY <3>1, <3>2, <3>3
  <2>4. ASSUME NEW x \in outbox'
        PROVE  Exists(x.record)'
    <3>1. CASE x \in outbox
      BY <3>1, <1>5 DEF OutboxKeys, StoreTypeOK, OutboxRow
    <3> QED BY <1>2, <1>3, <1>6, <1>7, <1>8, <2>4, <3>1
  <2> QED BY <2>3, <2>4 DEF OutboxKeys
<1>11. OutboxOwners'
  <2> SUFFICES ASSUME NEW x \in outbox'
               PROVE  /\ x.op = "upsert" => x.tenant = records'[x.record].tenant
                      /\ (x.op = "delete" /\ Active(x.record)') =>
                           x.tenant # records'[x.record].tenant
    BY DEF OutboxOwners
  <2>1. CASE x \in outbox
    <3>1. x.record \in Record /\ Exists(x.record)
      BY <2>1 DEF OutboxKeys, StoreTypeOK, OutboxRow
    <3> QED BY <1>5, <2>1, <3>1 DEF OutboxOwners
  <2> QED BY <1>2, <1>3, <1>6, <1>7, <1>8, <2>1
<1> QED BY <1>9, <1>10, <1>11

\* The effect of a retraction.
LEMMA ForgetEffect ==
    ASSUME StoreInv, NEW t \in Tenant, NEW r \in Record, Forget(t, r)
    PROVE  StoreEffect /\ OutboxKeys' /\ OutboxOwners'
<1> USE DEF StoreInv
<1>1. PICK i \in OutboxId :
        /\ i \notin UsedIds
        /\ outbox' = outbox \cup {NewOutboxRow(i, r, t, "delete")}
  BY DEF Forget, ForgetOwned, ForgetUnowned, FreshId
<1> DEFINE new == NewOutboxRow(i, r, t, "delete")
<1>2. /\ new.id = i /\ new.record = r /\ new.op = "delete" /\ new.tenant = t
      /\ ~new.processed /\ new.attempts = 0
  BY DEF NewOutboxRow
<1>3. outbox' = outbox \cup {new}
  BY <1>1
<1> HIDE DEF new
<1>4. /\ Exists(r)
      /\ Active(r)' => t # records'[r].tenant
  BY NoRowAssumption DEF Forget, ForgetOwned, ForgetUnowned, StoreTypeOK,
                         RecordRow, RecordStatus, Exists, Active
<1>5. ASSUME NEW q \in Record
      PROVE  /\ Exists(q)' <=> Exists(q)
             /\ Exists(q) => records'[q].tenant = records[q].tenant
             /\ Active(q)' => Active(q)
  <2>1. records[q] \in RecordRow \cup {NoRow}
    BY DEF StoreTypeOK
  <2>2. CASE records'[q] = records[q]
    BY <2>2 DEF Exists, Active
  <2>3. CASE /\ Exists(q)
             /\ records'[q] = [records[q] EXCEPT !.status = "forgotten"]
    BY <2>1, <2>3, NoRowAssumption DEF Exists, Active, RecordRow, RecordStatus
  <2> QED BY <2>2, <2>3 DEF Forget, ForgetOwned, ForgetUnowned, StoreTypeOK
<1>6. StoreEffect
  <2>1. \A x \in outbox' \ outbox : ~x.processed /\ x.attempts = 0
    BY <1>2, <1>3
  <2>2. \A q \in Record : ~(Active(q)' /\ ~Exists(q))
    BY <1>5 DEF Active
  <2> QED BY <1>3, <1>5, <2>1, <2>2 DEF StoreEffect
<1>7. OutboxKeys'
  <2>1. \A x \in outbox : x.id # i
    BY <1>1 DEF UsedIds
  <2>2. \A x \in outbox : x.record \in Record /\ Exists(x.record)
    BY DEF OutboxKeys, StoreTypeOK, OutboxRow
  <2>3. \A x \in outbox' : Exists(x.record)'
    BY <1>2, <1>3, <1>4, <1>5, <2>2
  <2>4. \A x, y \in outbox' : x.id = y.id => x = y
    BY <1>2, <1>3, <2>1 DEF OutboxKeys
  <2> QED BY <2>3, <2>4 DEF OutboxKeys
<1>8. OutboxOwners'
  <2> SUFFICES ASSUME NEW x \in outbox'
               PROVE  /\ x.op = "upsert" => x.tenant = records'[x.record].tenant
                      /\ (x.op = "delete" /\ Active(x.record)') =>
                           x.tenant # records'[x.record].tenant
    BY DEF OutboxOwners
  <2>1. CASE x \in outbox
    <3>1. x.record \in Record /\ Exists(x.record)
      BY <2>1 DEF OutboxKeys, StoreTypeOK, OutboxRow
    <3> QED BY <1>5, <2>1, <3>1 DEF OutboxOwners
  <2>2. CASE x = new
    BY <1>2, <1>4, <2>2
  <2> QED BY <1>3, <2>1, <2>2
<1> QED BY <1>6, <1>7, <1>8

\* Every step of the store has an effect of this kind.
LEMMA StoreStepEffect ==
    ASSUME StoreInv, [StoreNext]_storeVars
    PROVE  StoreEffect /\ StoreInv'
<1>1. StoreTypeOK'
  BY StoreStepTypeCorrect DEF StoreInv
<1>2. CASE UNCHANGED storeVars
  BY <1>1, <1>2 DEF storeVars, StoreEffect, StoreInv, OutboxKeys, OutboxOwners,
                    Active, Exists
<1>3. ASSUME NEW t \in Tenant, NEW w \in MemoryWrite, StoreDedup(t, w)
      PROVE  StoreEffect /\ StoreInv'
  BY <1>2, <1>3 DEF StoreDedup
<1>4. ASSUME NEW t \in Tenant, NEW w \in MemoryWrite, StoreInsert(t, w)
      PROVE  StoreEffect /\ StoreInv'
  BY <1>1, <1>4, SupersededAreSupersedable, InsertEffect DEF StoreInsert, StoreInv
<1>5. ASSUME NEW t \in Tenant, NEW r \in Record, Forget(t, r)
      PROVE  StoreEffect /\ StoreInv'
  BY <1>1, <1>5, ForgetEffect DEF StoreInv
<1> QED BY <1>2, <1>3, <1>4, <1>5 DEF StoreNext, Store

-----------------------------------------------------------------------------
\* What OutboxMatchesStatus says of a record, without counting.
Story(r) ==
    /\ \E u \in outbox : OwnRows(r, "upsert") = {u}
    /\ Active(r) <=> OwnRows(r, "delete") = {}
    /\ \A u \in OwnRows(r, "upsert"), d \in OwnRows(r, "delete") : u.id < d.id

OutboxStory == \A r \in Record : Exists(r) => Story(r)

\* A record whose row and whose outbox rows do not change keeps its story.
LEMMA StoryKept ==
    ASSUME NEW q, Story(q), records'[q] = records[q], outbox \subseteq outbox',
           \A x \in outbox' \ outbox : x.record # q
    PROVE  Story(q)'
<1>1. Active(q)' <=> Active(q)
  BY DEF Active, Exists
<1>2. \A op : OwnRows(q, op)' = OwnRows(q, op)
  BY DEF OwnRows
<1> QED BY <1>1, <1>2 DEF Story

\* A record that is retracted, with one more delete row of its tenant, younger
\* than its upsert row.
LEMMA StoryEnds ==
    ASSUME NEW q, Story(q), NEW d, d.record = q, d.op = "delete",
           d.tenant = records[q].tenant, records'[q].tenant = records[q].tenant,
           ~Active(q)', outbox \subseteq outbox', d \in outbox',
           \A x \in outbox' \ outbox : x.record = q => x = d,
           \A x \in outbox : x.record = q /\ x.op = "upsert" => x.id < d.id
    PROVE  Story(q)'
<1>1. OwnRows(q, "upsert")' = OwnRows(q, "upsert")
  BY DEF OwnRows
<1>2. OwnRows(q, "delete")' = OwnRows(q, "delete") \cup {d}
  BY DEF OwnRows
<1>3. \A u \in OwnRows(q, "upsert") : u.id < d.id
  BY DEF OwnRows
<1> QED BY <1>1, <1>2, <1>3 DEF Story

\* An insertion queues its own upsert row, and a later delete row for what it supersedes.
LEMMA InsertStory ==
    ASSUME StoreInv, OutboxStory,
           NEW t \in Tenant, NEW w \in MemoryWrite, NEW r \in Record,
           NEW sup \in SUBSET Supersedable(t, w),
           NEW ids \in [sup \cup {r} -> OutboxId],
           InsertRecord(t, w, r, sup, ids)
    PROVE  OutboxStory'
<1> DEFINE new == NewOutboxRow(ids[r], r, t, "upsert")
           gone(q) == NewOutboxRow(ids[q], q, t, "delete")
<1> USE DEF StoreInv
<1>1. \A q \in sup : /\ q \in Record /\ Active(q) /\ records[q] \in RecordRow
                     /\ records[q].tenant = t
                     /\ q # r
  BY DEF Supersedable, Active, Exists, StoreTypeOK, InsertRecord
<1>2. /\ Active(r)' /\ ~Exists(r)
      /\ records'[r].tenant = t
  BY NoRowAssumption DEF InsertRecord, Active, Exists, RecordRow, RecordStatus,
                         MemoryWrite
<1>3. \A q \in sup : ~Active(q)' /\ records'[q].tenant = t
  BY <1>1, NoRowAssumption
     DEF InsertRecord, Active, Exists, RecordRow, RecordStatus
<1>4. \A q \in Record : q # r /\ q \notin sup => records'[q] = records[q]
  BY DEF InsertRecord
<1>5. outbox' = outbox \cup {gone(q) : q \in sup} \cup {new}
  BY DEF InsertRecord
<1>6. new.record = r /\ new.op = "upsert" /\ new.tenant = t
  BY DEF NewOutboxRow
<1>7. \A q \in sup : /\ gone(q).id = ids[q] /\ gone(q).record = q
                     /\ gone(q).op = "delete" /\ gone(q).tenant = t
  BY DEF NewOutboxRow
<1>8. \A q \in sup : \A x \in outbox : x.record = q /\ x.op = "upsert" => x.id < ids[q]
  BY DEF InsertRecord, FreshIds, FreshId
<1> HIDE DEF new, gone
<1> SUFFICES ASSUME NEW q \in Record, Exists(q)'
             PROVE  Story(q)'
  BY DEF OutboxStory
<1>9. CASE q = r
  <2>1. \A x \in outbox : x.record # r
    BY <1>2 DEF OutboxKeys
  <2>2. OwnRows(r, "upsert")' = {new}
    BY <1>1, <1>2, <1>5, <1>6, <1>7, <2>1 DEF OwnRows
  <2>3. OwnRows(r, "delete")' = {}
    BY <1>1, <1>5, <1>6, <1>7, <2>1 DEF OwnRows
  <2> QED BY <1>2, <1>5, <1>9, <2>2, <2>3 DEF Story
<1>10. CASE q \in sup
  <2>1. Story(q)
    BY <1>1, <1>10 DEF OutboxStory, Active
  <2>2. gone(q) \in outbox' /\ outbox \subseteq outbox'
    BY <1>5, <1>10
  <2>3. \A x \in outbox' \ outbox : x.record = q => x = gone(q)
    BY <1>1, <1>5, <1>6, <1>7, <1>10
  <2>4. \A x \in outbox : x.record = q /\ x.op = "upsert" => x.id < gone(q).id
    BY <1>7, <1>8, <1>10
  <2> QED BY <1>1, <1>3, <1>7, <1>10, <2>1, <2>2, <2>3, <2>4, StoryEnds
<1>11. CASE q # r /\ q \notin sup
  <2>1. records'[q] = records[q] /\ Story(q)
    BY <1>4, <1>11 DEF OutboxStory, Exists
  <2>2. outbox \subseteq outbox' /\ \A x \in outbox' \ outbox : x.record # q
    BY <1>5, <1>6, <1>7, <1>11
  <2> QED BY <2>1, <2>2, StoryKept
<1> QED BY <1>9, <1>10, <1>11

\* A retraction queues a delete row later than any upsert row of its record.
LEMMA ForgetStory ==
    ASSUME StoreInv, OutboxStory, NEW t \in Tenant, NEW r \in Record, Forget(t, r)
    PROVE  OutboxStory'
<1> USE DEF StoreInv
<1>1. PICK i \in OutboxId :
        /\ FreshId(i, r)
        /\ outbox' = outbox \cup {NewOutboxRow(i, r, t, "delete")}
  BY DEF Forget, ForgetOwned, ForgetUnowned
<1> DEFINE d == NewOutboxRow(i, r, t, "delete")
<1>2. d.id = i /\ d.record = r /\ d.op = "delete" /\ d.tenant = t
  BY DEF NewOutboxRow
<1>3. outbox' = outbox \cup {d}
  BY <1>1
<1> HIDE DEF d
<1>4. \A q \in Record : q # r => records'[q] = records[q]
  BY DEF Forget, ForgetOwned, ForgetUnowned, StoreTypeOK
<1> SUFFICES ASSUME NEW q \in Record, Exists(q)'
             PROVE  Story(q)'
  BY DEF OutboxStory
<1>5. CASE q # r
  <2>1. records'[q] = records[q] /\ Story(q)
    BY <1>4, <1>5 DEF OutboxStory, Exists
  <2> QED BY <1>2, <1>3, <1>5, <2>1, StoryKept
<1>6. CASE q = r /\ ForgetOwned(t, r)
  <2>1. Story(q) /\ records[q].tenant = t /\ records[q] \in RecordRow
    BY <1>6 DEF ForgetOwned, OutboxStory, StoreTypeOK, Exists
  <2>2. ~Active(q)' /\ records'[q].tenant = t
    BY <1>6, <2>1 DEF ForgetOwned, Active, RecordRow, StoreTypeOK
  <2>3. \A x \in outbox : x.record = q /\ x.op = "upsert" => x.id < d.id
    BY <1>1, <1>2, <1>6 DEF FreshId
  <2>4. outbox \subseteq outbox' /\ d \in outbox' /\ \A x \in outbox' \ outbox : x = d
    BY <1>3
  <2>5. d.tenant = records[q].tenant /\ d.record = q
    BY <1>2, <1>6, <2>1
  <2>6. \A x \in outbox' \ outbox : x.record = q => x.op = "delete"
    BY <1>2, <2>4
  <2> QED BY <1>2, <1>6, <2>1, <2>2, <2>3, <2>4, <2>5, <2>6, StoryEnds
<1>7. CASE q = r /\ ForgetUnowned(t, r)
  <2>1. Story(q) /\ records[q].tenant # t /\ records'[q] = records[q]
    BY <1>7 DEF ForgetUnowned, OutboxStory
  <2>2. Active(q)' <=> Active(q)
    BY <2>1 DEF Active, Exists
  <2>3. \A op : OwnRows(q, op)' = OwnRows(q, op)
    BY <1>2, <1>3, <2>1 DEF OwnRows
  <2> QED BY <1>3, <2>1, <2>2, <2>3 DEF Story
<1> QED BY <1>5, <1>6, <1>7 DEF Forget

\* No step of the store spoils the story of a record.
LEMMA StoryStep ==
    ASSUME StoreInv, OutboxStory, [StoreNext]_storeVars
    PROVE  OutboxStory'
<1>1. CASE UNCHANGED storeVars
  <2>1. \A q : Exists(q)' = Exists(q) /\ Active(q)' = Active(q)
    BY <1>1 DEF storeVars, Exists, Active
  <2>2. \A q, op : OwnRows(q, op)' = OwnRows(q, op)
    BY <1>1 DEF storeVars, OwnRows
  <2> QED BY <1>1, <2>1, <2>2 DEF storeVars, OutboxStory, Story
<1>2. ASSUME NEW t \in Tenant, NEW w \in MemoryWrite, StoreInsert(t, w)
      PROVE  OutboxStory'
  BY <1>2, SupersededAreSupersedable, InsertStory DEF StoreInsert
<1>3. ASSUME NEW t \in Tenant, NEW r \in Record, Forget(t, r)
      PROVE  OutboxStory'
  BY <1>3, ForgetStory
<1> QED BY <1>1, <1>2, <1>3 DEF StoreNext, Store, StoreDedup

\* The story, told with Cardinality.
LEMMA StoryCounted == OutboxStory => OutboxMatchesStatus
<1> SUFFICES ASSUME OutboxStory, NEW r \in Record, Exists(r)
             PROVE  /\ Cardinality(OwnRows(r, "upsert")) = 1
                    /\ Active(r) <=> OwnRows(r, "delete") = {}
                    /\ \A u \in OwnRows(r, "upsert"), d \in OwnRows(r, "delete") :
                         u.id < d.id
  BY DEF OutboxMatchesStatus
<1>1. Story(r)
  BY DEF OutboxStory
<1>2. \E u \in outbox : OwnRows(r, "upsert") = {u}
  BY <1>1 DEF Story
<1>3. Cardinality(OwnRows(r, "upsert")) = 1
  BY <1>2, FS_Singleton
<1> QED BY <1>1, <1>3 DEF Story

\* The outbox tells every record's story: one upsert row, a delete row exactly if
\* the record was retracted, and the upsert row first.  Overlapping transactions
\* draw their ids in any order, and this order survives.
THEOREM OutboxTellsAll == StoreSpec => []OutboxMatchesStatus
<1>1. StoreInit => StoreInv /\ OutboxStory
  BY DEF StoreInit, StoreInv, StoreTypeOK, OutboxKeys, OutboxOwners, OutboxStory,
         Exists
<1>2. StoreInv /\ OutboxStory /\ [StoreNext]_storeVars => StoreInv' /\ OutboxStory'
  BY StoryStep, StoreStepEffect
<1> QED BY <1>1, <1>2, StoryCounted, PTL DEF StoreSpec
=============================================================================
