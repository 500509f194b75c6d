---------------------------- MODULE IndexerProofs ----------------------------
(***************************************************************************)
(* Theorems about Indexer, for every value of the constants: any number of *)
(* tenants, records and rows, any batch limit and retry cap, overlapping   *)
(* transactions or not, crashes, outages and lost answers at any step.     *)
(*                                                                         *)
(* The argument.  What a batch holds is what the outbox holds (Snapshot):  *)
(* only the one indexer updates a row, so a row it has read and not yet    *)
(* finished is unchanged and unprocessed.  Between the read of an upsert's *)
(* record and the call that acts on it the record may be retracted, but    *)
(* then its delete row is unprocessed (CallIsCovered) and will follow.     *)
(* When a delete row is about to be marked, its point is out of the        *)
(* collection (MarkIsEarned) and no other call can have put it back.       *)
(***************************************************************************)
EXTENDS Indexer, MemoryStoreProofs

\* What the indexer has read is what the outbox still holds.
Snapshot ==
    /\ batch \subseteq Pending
    /\ row # NoRow => row \in Pending /\ row \notin batch

\* A record retracted since the read has an unprocessed delete row.
CallIsCovered ==
    (phase = "call" /\ row.op = "upsert") =>
      \A d \in OwnRows(row.record, "delete") : ~d.processed

\* Another tenant's forget() put a delete row for r in the queue.
ForeignDelete(r) ==
    \E x \in outbox : /\ x.record = r
                      /\ x.op = "delete"
                      /\ x.tenant # records[r].tenant

\* About to mark a delete row: the point is gone.  About to mark an upsert row:
\* the point is there, or the record needs none, or another tenant's delete row
\* accounts for its absence.
MarkIsEarned ==
    phase = "mark" =>
      /\ row.op = "delete" => row.record \notin points
      /\ row.op = "upsert" => \/ row.record \in points
                              \/ ~Active(row.record)
                              \/ ForeignDelete(row.record)

IInv ==
    /\ TypeOK
    /\ OutboxKeys
    /\ OutboxOwners
    /\ Snapshot
    /\ CallIsCovered
    /\ MarkIsEarned
    /\ CapEndsRetries
    /\ RetractionSticks
    /\ NoSilentGap

-----------------------------------------------------------------------------
\* The indexer's own steps take rows out of what it holds one by one.
LEMMA TypeStep ==
    ASSUME TypeOK, [Next]_vars
    PROVE  TypeOK'
<1> USE DEF TypeOK, Phase
<1>1. CASE UNCHANGED vars
  BY <1>1 DEF vars, storeVars, indexVars, drainVars, StoreTypeOK
<1>2. CASE StoreStep
  BY <1>2, StoreStepTypeCorrect DEF StoreStep, indexVars, drainVars
<1>3. CASE Drain
  <2> USE DEF storeVars, indexVars, StoreTypeOK
  <2>1. CASE Fetch
    BY <2>1 DEF Fetch, NextBatch, Pending
  <2>2. CASE Defer \/ Begin \/ EndBatch
    BY <2>2 DEF Defer, Begin, EndBatch
  <2>3. CASE ProcessRow
    BY <2>3 DEF ProcessRow, ReadActive, SkipRetracted, ReadDelete, ReadFails, Take
  <2>4. CASE CallSucceeds \/ CallFails
    <3>1. row.record \in Record
      BY <2>4 DEF CallSucceeds, CallFails, OutboxRow
    <3>2. Applied \subseteq Record
      BY <3>1 DEF Applied
    <3> QED BY <2>4, <3>2 DEF CallSucceeds, CallFails
  <2>5. CASE MarkProcessed
    <3>1. \A x \in OutboxRow : [x EXCEPT !.processed = TRUE] \in OutboxRow
      BY DEF OutboxRow
    <3> QED BY <2>5, <3>1 DEF MarkProcessed
  <2>6. ASSUME phase = "fail"
        PROVE  \A x \in OutboxRow :
                 /\ [x EXCEPT !.attempts = row.attempts + 1] \in OutboxRow
                 /\ [x EXCEPT !.processed = TRUE, !.attempts = row.attempts + 1]
                      \in OutboxRow
    <3>1. row \in OutboxRow
      BY <2>6
    <3>2. row.attempts + 1 \in Nat
      BY <3>1 DEF OutboxRow
    <3> QED BY <3>2 DEF OutboxRow
  <2>7. CASE ChargeAttempt
    BY <2>6, <2>7 DEF ChargeAttempt
  <2>8. CASE DeadLetter
    BY <2>6, <2>8 DEF DeadLetter
  <2>9. CASE UpdateFails
    BY <2>9 DEF UpdateFails
  <2> QED BY <1>3, <2>1, <2>2, <2>3, <2>4, <2>5, <2>7, <2>8, <2>9 DEF Drain
<1>4. CASE Environment
  BY <1>4 DEF Environment, Crash, Restart, Park, QdrantFails, QdrantRecovers,
              storeVars, indexVars, drainVars, StoreTypeOK
<1> QED BY <1>1, <1>2, <1>3, <1>4 DEF Next

\* Every variable keeps the type its comment gives it.
THEOREM TypeCorrect == Spec => []TypeOK
<1>1. Init => TypeOK
  BY DEF Init, StoreInit, TypeOK, StoreTypeOK, Phase
<1>2. TypeOK /\ [Next]_vars => TypeOK'
  BY TypeStep
<1> QED BY <1>1, <1>2, PTL DEF Spec

-----------------------------------------------------------------------------
Tables == <<records, outbox>>

\* The parts of IInv that mention no program counter, and those that do.
Settled == OutboxKeys /\ OutboxOwners /\ CapEndsRetries /\ RetractionSticks /\ NoSilentGap
InFlight == Snapshot /\ CallIsCovered /\ MarkIsEarned

\* A step of the store disturbs no part of the invariant.
LEMMA StoreStepKeeps ==
    ASSUME IInv, StoreStep
    PROVE  Settled' /\ InFlight'
<1> USE DEF IInv, TypeOK
<1>1. /\ StoreEffect /\ StoreInv'
      /\ UNCHANGED <<points, qdrantUp, phase, batch, row>>
  BY StoreStepEffect DEF StoreStep, StoreInv, indexVars, drainVars
<1>2. \A x \in outbox :
        /\ x \in outbox'
        /\ x.record \in Record
        /\ Exists(x.record)
        /\ records'[x.record].tenant = records[x.record].tenant
        /\ Active(x.record)' => Active(x.record)
  BY <1>1 DEF StoreEffect, OutboxKeys, StoreTypeOK, OutboxRow
<1>3. \A x \in outbox' : x \notin outbox => ~x.processed /\ x.attempts = 0
  BY <1>1 DEF StoreEffect
<1>4. \A r : \A d \in OwnRows(r, "delete")' : d \in OwnRows(r, "delete") \/ ~d.processed
  BY <1>2, <1>3 DEF OwnRows
<1>5. Pending \subseteq Pending'
  BY <1>2 DEF Pending
<1>6. Snapshot'
  BY <1>1, <1>5 DEF Snapshot
<1>7. CallIsCovered'
  BY <1>1, <1>4 DEF CallIsCovered
<1>8. ASSUME NEW x \in outbox, ForeignDelete(x.record)
      PROVE  ForeignDelete(x.record)'
  BY <1>2, <1>8 DEF ForeignDelete
<1>9. MarkIsEarned'
  <2> SUFFICES ASSUME phase = "mark", row.op = "upsert", row.record \notin points,
                      Active(row.record)'
               PROVE  ForeignDelete(row.record)'
    BY <1>1 DEF MarkIsEarned
  <2>1. row \in outbox
    BY NoOutboxRowAssumption DEF Snapshot, Pending
  <2> QED BY <1>1, <1>2, <1>8, <2>1 DEF MarkIsEarned
<1>10. CapEndsRetries'
  BY <1>3, MaxAttemptsAssumption DEF CapEndsRetries
<1>11. RetractionSticks'
  BY <1>1, <1>4 DEF RetractionSticks, Outstanding
<1>12. NoSilentGap'
  <2> SUFFICES ASSUME NEW r \in Record, Active(r)', r \notin points
               PROVE  \/ \E u \in OwnRows(r, "upsert")' : Outstanding(u)
                      \/ ForeignDelete(r)'
    BY <1>1 DEF NoSilentGap, ForeignDelete
  <2>1. CASE ~Exists(r)
    BY <1>1, <2>1 DEF StoreEffect, OwnRows, Outstanding
  <2>2. CASE Exists(r)
    <3>1. Active(r)
      BY <1>1, <2>2 DEF StoreEffect
    <3>2. CASE \E u \in OwnRows(r, "upsert") : Outstanding(u)
      BY <1>2, <3>2 DEF OwnRows
    <3>3. CASE ForeignDelete(r)
      BY <1>2, <3>3 DEF ForeignDelete
    <3> QED BY <3>1, <3>2, <3>3 DEF NoSilentGap, ForeignDelete
  <2> QED BY <2>1, <2>2
<1> QED BY <1>1, <1>6, <1>7, <1>9, <1>10, <1>11, <1>12 DEF Settled, InFlight, StoreInv

\* The parts that mention no program counter depend on the tables and the
\* points alone.
LEMMA SettledKept ==
    ASSUME IInv, UNCHANGED Tables, UNCHANGED points
    PROVE  Settled'
BY DEF IInv, Tables, Settled, OutboxKeys, OutboxOwners, CapEndsRetries,
       RetractionSticks, NoSilentGap, OwnRows, Exists, Active

\* Reading, skipping, deferring, ending and dying keep what is in flight sound.
LEMMA ReadStepKeeps ==
    ASSUME IInv, UNCHANGED Tables, UNCHANGED points,
           \/ Fetch \/ Defer \/ Begin \/ EndBatch \/ ProcessRow \/ UpdateFails
           \/ Environment
    PROVE  InFlight'
<1> USE DEF IInv, Tables
<1>1. /\ Pending' = Pending
      /\ \A r, op : OwnRows(r, op)' = OwnRows(r, op)
      /\ \A r : Active(r)' = Active(r)
      /\ \A r : ForeignDelete(r)' = ForeignDelete(r)
  BY DEF Pending, OwnRows, Active, Exists, ForeignDelete
<1>2. CASE UNCHANGED drainVars
  BY <1>1, <1>2 DEF drainVars, InFlight, Snapshot, CallIsCovered, MarkIsEarned
<1>3. CASE Fetch
  BY <1>1, <1>3 DEF Fetch, NextBatch, TypeOK, InFlight, Snapshot, CallIsCovered,
                    MarkIsEarned
<1>4. CASE Defer \/ Begin \/ EndBatch \/ UpdateFails \/ Crash \/ Restart \/ Park
  BY <1>1, <1>4
     DEF Defer, Begin, EndBatch, UpdateFails, Crash, Restart, Park,
         InFlight, Snapshot, CallIsCovered, MarkIsEarned
<1>5. ASSUME NEW x \in batch,
             ReadActive(x) \/ SkipRetracted(x) \/ ReadDelete(x) \/ ReadFails(x)
      PROVE  InFlight'
  <2>0. x \in Pending /\ x # NoRow
    BY NoOutboxRowAssumption DEF Snapshot, TypeOK
  <2>1. batch' = batch \ {x} /\ row' = x
    BY <1>5 DEF ReadActive, SkipRetracted, ReadDelete, ReadFails, Take
  <2>2. Snapshot'
    BY <1>1, <2>0, <2>1 DEF Snapshot
  <2>3. CallIsCovered'
    <3> SUFFICES ASSUME phase' = "call", x.op = "upsert"
                 PROVE  OwnRows(x.record, "delete") = {}
      BY <1>1, <2>1 DEF CallIsCovered
    <3>1. Active(x.record)
      BY <1>5 DEF ReadActive, SkipRetracted, ReadDelete, ReadFails
    <3> QED BY <3>1 DEF OutboxOwners, OwnRows
  <2>4. MarkIsEarned'
    <3> SUFFICES ASSUME phase' = "mark"
                 PROVE  x.op # "delete" /\ ~Active(x.record)
      BY <1>1, <2>1 DEF MarkIsEarned
    <3> QED BY <1>5 DEF ReadActive, SkipRetracted, ReadDelete, ReadFails
  <2> QED BY <2>2, <2>3, <2>4 DEF InFlight
<1> QED BY <1>2, <1>3, <1>4, <1>5
        DEF ProcessRow, Environment, QdrantFails, QdrantRecovers

\* The call of an upsert puts back no point whose delete was processed; the call
\* of a delete earns its mark.
LEMMA CallStepKeeps ==
    ASSUME IInv, CallSucceeds \/ CallFails
    PROVE  Settled' /\ InFlight'
<1> USE DEF IInv, TypeOK
<1>1. /\ phase = "call" /\ phase' \in {"mark", "fail"}
      /\ row' = row /\ batch' = batch
      /\ records' = records /\ outbox' = outbox
  BY DEF CallSucceeds, CallFails, storeVars
<1>2. /\ Pending' = Pending
      /\ \A r, op : OwnRows(r, op)' = OwnRows(r, op)
      /\ \A r : Active(r)' = Active(r)
      /\ \A r : ForeignDelete(r)' = ForeignDelete(r)
  BY <1>1 DEF Pending, OwnRows, Active, Exists, ForeignDelete
<1>3. points' = points \/ points' = Applied
  BY DEF CallSucceeds, CallFails
<1>4. phase' = "mark" => points' = Applied
  BY DEF CallSucceeds, CallFails
<1>5. row \in outbox /\ row.op \in {"upsert", "delete"} /\ ~row.processed
  BY <1>1, NoOutboxRowAssumption DEF Snapshot, Pending, OutboxRow, OutboxOp
<1>6. OutboxKeys' /\ OutboxOwners' /\ CapEndsRetries'
  BY <1>1 DEF OutboxKeys, OutboxOwners, CapEndsRetries, Active, Exists
<1>7. RetractionSticks'
  <2> SUFFICES ASSUME NEW r \in points', NEW d \in OwnRows(r, "delete")
               PROVE  Outstanding(d)
    BY <1>2 DEF RetractionSticks, Outstanding, DeadLettered
  <2>1. CASE r \in points
    BY <2>1 DEF RetractionSticks
  <2>2. CASE r \notin points
    <3>1. r = row.record /\ row.op = "upsert"
      BY <1>3, <2>2 DEF Applied
    <3> QED BY <1>1, <3>1 DEF CallIsCovered, Outstanding
  <2> QED BY <2>1, <2>2
<1>8. NoSilentGap'
  <2> SUFFICES ASSUME NEW r \in Record, Active(r), r \notin points'
               PROVE  \/ \E u \in OwnRows(r, "upsert") : Outstanding(u)
                      \/ ForeignDelete(r)
    BY <1>2 DEF NoSilentGap, Outstanding, DeadLettered, ForeignDelete
  <2>1. CASE r \notin points
    BY <2>1 DEF NoSilentGap, ForeignDelete
  <2>2. CASE r \in points
    <3>1. r = row.record /\ row.op = "delete"
      BY <1>3, <1>5, <2>2 DEF Applied
    <3> QED BY <1>5, <3>1 DEF OutboxOwners, ForeignDelete
  <2> QED BY <2>1, <2>2
<1>9. Snapshot'
  BY <1>1, <1>2 DEF Snapshot
<1>10. CallIsCovered'
  BY <1>1 DEF CallIsCovered
<1>11. MarkIsEarned'
  BY <1>1, <1>4, <1>5 DEF MarkIsEarned, Applied
<1> QED BY <1>6, <1>7, <1>8, <1>9, <1>10, <1>11 DEF Settled, InFlight

\* The UPDATE that ends a row replaces that row alone: it matches by id, and the
\* row read is the row stored.
LEMMA UpdateOneRow ==
    ASSUME OutboxKeys, row \in outbox
    PROVE  /\ MarkProcessed =>
                outbox' = (outbox \ {row}) \cup {[row EXCEPT !.processed = TRUE]}
           /\ ChargeAttempt =>
                outbox' = (outbox \ {row})
                            \cup {[row EXCEPT !.attempts = row.attempts + 1]}
           /\ DeadLetter =>
                outbox' = (outbox \ {row})
                            \cup {[row EXCEPT !.processed = TRUE,
                                              !.attempts = row.attempts + 1]}
BY DEF OutboxKeys, MarkProcessed, ChargeAttempt, DeadLetter

\* Replacing the row in hand by y keeps the invariant if y is about the same
\* operation, is at the cap only when processed, and is processed below the cap
\* only when the row succeeded.
LEMMA ReplaceRow ==
    ASSUME IInv, row \in outbox, NEW y \in OutboxRow,
           y.id = row.id, y.record = row.record, y.op = row.op,
           y.tenant = row.tenant,
           y.processed \/ y.attempts < MaxAttempts,
           y.processed /\ ~(y.attempts >= MaxAttempts) => phase = "mark",
           outbox' = (outbox \ {row}) \cup {y},
           records' = records, points' = points, batch' = batch,
           row' = NoRow, phase' = "rows"
    PROVE  Settled' /\ InFlight'
<1> USE DEF IInv
<1>1. /\ \A r : Exists(r)' = Exists(r)
      /\ \A r : Active(r)' = Active(r)
  BY DEF Exists, Active
<1>2. \A x \in outbox' : x \in outbox \/ x = y
  OBVIOUS
<1>3. OutboxKeys'
  BY <1>1, <1>2 DEF OutboxKeys
<1>4. OutboxOwners'
  BY <1>1, <1>2 DEF OutboxOwners
<1>5. CapEndsRetries'
  BY <1>2 DEF CapEndsRetries
<1>6. RetractionSticks'
  <2> SUFFICES ASSUME NEW r \in points, NEW d \in OwnRows(r, "delete")'
               PROVE  Outstanding(d)
    BY DEF RetractionSticks, Outstanding, DeadLettered
  <2>1. CASE d \in outbox
    BY <2>1 DEF RetractionSticks, OwnRows
  <2>2. CASE d = y
    BY <2>2 DEF MarkIsEarned, OwnRows, Outstanding, DeadLettered
  <2> QED BY <1>2, <2>1, <2>2 DEF OwnRows
<1>7. NoSilentGap'
  <2> SUFFICES ASSUME NEW r \in Record, Active(r), r \notin points,
                      ~ForeignDelete(r)'
               PROVE  \E u \in OwnRows(r, "upsert")' : Outstanding(u)
    BY <1>1 DEF NoSilentGap, Outstanding, DeadLettered, ForeignDelete
  <2>1. ~ForeignDelete(r)
    BY DEF ForeignDelete
  <2>2. PICK u \in OwnRows(r, "upsert") : Outstanding(u)
    BY <2>1 DEF NoSilentGap, ForeignDelete
  <2>3. CASE u # row
    BY <2>2, <2>3 DEF OwnRows
  <2>4. CASE u = row
    <3>1. y \in OwnRows(r, "upsert")'
      BY <2>2, <2>4 DEF OwnRows
    <3>2. phase # "mark"
      BY <2>1, <2>2, <2>4 DEF MarkIsEarned, OwnRows
    <3> QED BY <3>1, <3>2 DEF Outstanding, DeadLettered
  <2> QED BY <2>3, <2>4
<1>8. Snapshot'
  BY NoOutboxRowAssumption DEF Snapshot, Pending, TypeOK, StoreTypeOK
<1>9. CallIsCovered' /\ MarkIsEarned'
  BY DEF CallIsCovered, MarkIsEarned
<1> QED BY <1>3, <1>4, <1>5, <1>6, <1>7, <1>8, <1>9 DEF Settled, InFlight

\* Marking, charging and dead-lettering are such replacements.
LEMMA UpdateStepKeeps ==
    ASSUME IInv, MarkProcessed \/ ChargeAttempt \/ DeadLetter
    PROVE  Settled' /\ InFlight'
<1> USE DEF IInv
<1>1. /\ row \in OutboxRow /\ row \in outbox /\ ~row.processed
      /\ row.attempts \in Nat /\ row.attempts < MaxAttempts
  BY NoOutboxRowAssumption
     DEF MarkProcessed, ChargeAttempt, DeadLetter, TypeOK, Snapshot, Pending,
         CapEndsRetries, OutboxRow
<1>2. /\ records' = records /\ points' = points /\ batch' = batch
      /\ row' = NoRow /\ phase' = "rows"
  BY DEF MarkProcessed, ChargeAttempt, DeadLetter, indexVars
<1>3. CASE MarkProcessed
  <2> DEFINE y == [row EXCEPT !.processed = TRUE]
  <2>1. /\ y \in OutboxRow /\ y.id = row.id /\ y.record = row.record
        /\ y.op = row.op /\ y.tenant = row.tenant
        /\ y.processed
    BY <1>1 DEF OutboxRow
  <2>2. outbox' = (outbox \ {row}) \cup {y} /\ phase = "mark"
    BY <1>1, <1>3, UpdateOneRow DEF MarkProcessed
  <2> HIDE DEF y
  <2> QED BY <1>1, <1>2, <2>1, <2>2, ReplaceRow
<1>4. CASE ChargeAttempt
  <2> DEFINE y == [row EXCEPT !.attempts = row.attempts + 1]
  <2>1. /\ y \in OutboxRow /\ y.id = row.id /\ y.record = row.record
        /\ y.op = row.op /\ y.tenant = row.tenant
        /\ ~y.processed /\ y.attempts < MaxAttempts
    BY <1>1, <1>4 DEF OutboxRow, ChargeAttempt
  <2>2. outbox' = (outbox \ {row}) \cup {y}
    BY <1>1, <1>4, UpdateOneRow
  <2> HIDE DEF y
  <2> QED BY <1>1, <1>2, <2>1, <2>2, ReplaceRow
<1>5. CASE DeadLetter
  <2> DEFINE y == [row EXCEPT !.processed = TRUE, !.attempts = row.attempts + 1]
  <2>1. /\ y \in OutboxRow /\ y.id = row.id /\ y.record = row.record
        /\ y.op = row.op /\ y.tenant = row.tenant
        /\ y.processed /\ y.attempts >= MaxAttempts
    <3>1. row.attempts + 1 \in Nat
      BY <1>1
    <3>2. row.attempts + 1 >= MaxAttempts
      BY <1>5, Zenon DEF DeadLetter
    <3> QED BY <1>1, <3>1, <3>2 DEF OutboxRow
  <2>2. outbox' = (outbox \ {row}) \cup {y}
    BY <1>1, <1>5, UpdateOneRow
  <2> HIDE DEF y
  <2> QED BY <1>1, <1>2, <2>1, <2>2, ReplaceRow
<1> QED BY <1>3, <1>4, <1>5

-----------------------------------------------------------------------------
\* IInv is an inductive invariant.
LEMMA Invariance == Spec => []IInv
<1>1. Init => IInv
  BY NoOutboxRowAssumption
     DEF Init, StoreInit, IInv, TypeOK, StoreTypeOK, Phase, OutboxKeys,
         OutboxOwners, Snapshot, CallIsCovered, MarkIsEarned, CapEndsRetries,
         RetractionSticks, NoSilentGap, OwnRows, Active, Exists
<1>2. IInv /\ [Next]_vars => IInv'
  <2> SUFFICES ASSUME IInv, [Next]_vars
               PROVE  Settled' /\ InFlight'
    BY TypeStep DEF IInv, Settled, InFlight
  <2>1. CASE UNCHANGED vars
    BY <2>1 DEF vars, storeVars, indexVars, drainVars, IInv, Settled, InFlight,
                OutboxKeys, OutboxOwners, Snapshot, CallIsCovered, MarkIsEarned,
                CapEndsRetries, RetractionSticks, NoSilentGap, OwnRows, Active,
                Exists, Pending, ForeignDelete
  <2>2. CASE StoreStep
    BY <2>2, StoreStepKeeps
  <2>3. CASE CallSucceeds \/ CallFails
    BY <2>3, CallStepKeeps
  <2>4. CASE MarkProcessed \/ ChargeAttempt \/ DeadLetter
    BY <2>4, UpdateStepKeeps
  <2>5. CASE Fetch \/ Defer \/ Begin \/ EndBatch \/ ProcessRow \/ UpdateFails
    <3>1. UNCHANGED Tables /\ UNCHANGED points
      BY <2>5 DEF Fetch, Defer, Begin, EndBatch, ProcessRow, ReadActive,
                  SkipRetracted, ReadDelete, ReadFails, Take, UpdateFails,
                  storeVars, indexVars, Tables
    <3> QED BY <2>5, <3>1, SettledKept, ReadStepKeeps
  <2>6. CASE Environment
    <3>1. UNCHANGED Tables /\ UNCHANGED points
      BY <2>6 DEF Environment, Crash, Restart, Park, QdrantFails, QdrantRecovers,
                  storeVars, indexVars, Tables
    <3> QED BY <2>6, <3>1, SettledKept, ReadStepKeeps
  <2> QED BY <2>1, <2>2, <2>3, <2>4, <2>5, <2>6 DEF Next, Drain
<1> QED BY <1>1, <1>2, PTL DEF Spec

\* A retraction the outbox calls done is done for good, whatever crashes, retries
\* and lost answers came between: no later upsert brings the point back.
THEOREM RetractionIsFinal == Spec => []RetractionSticks
<1>1. IInv => RetractionSticks
  BY DEF IInv
<1> QED BY <1>1, Invariance, PTL

\* No active record is silently missing from the collection.
THEOREM NoRecordIsLost == Spec => []NoSilentGap
<1>1. IInv => NoSilentGap
  BY DEF IInv
<1> QED BY <1>1, Invariance, PTL

\* A row in the queue is below the cap; a row at the cap has left the queue.
THEOREM RetriesEnd == Spec => []CapEndsRetries
<1>1. IInv => CapEndsRetries
  BY DEF IInv
<1> QED BY <1>1, Invariance, PTL

(***************************************************************************)
(* Indexer implements SearchIndex, for every value of the constants.       *)
(*                                                                         *)
(* The argument.  A step of the store is a Commit: what it adds or retracts *)
(* has a fresh row, hence is due.  A call of the drainer is Work on the    *)
(* record of a row that is still in the queue.  Only the mark of a record's *)
(* last outstanding row is a Settle, and then the invariant and the story  *)
(* the outbox tells leave one possibility: the record is active and has    *)
(* its point, or it is retracted and has none.  All else is a stutter.     *)
(***************************************************************************)

JInv == IInv /\ OutboxStory

\* Replacing the row in hand changes no story.
LEMMA UpdateKeepsStory ==
    ASSUME OutboxStory, row \in outbox, records' = records,
           NEW y, y.id = row.id, y.record = row.record, y.op = row.op,
           y.tenant = row.tenant, outbox' = (outbox \ {row}) \cup {y}
    PROVE  OutboxStory'
<1> SUFFICES ASSUME NEW r \in Record, Exists(r)
             PROVE  Story(r)'
  BY DEF OutboxStory, Exists
<1>1. Story(r) /\ (Active(r)' <=> Active(r))
  BY DEF OutboxStory, Active, Exists
<1>2. ASSUME NEW op
      PROVE  \/ /\ OwnRows(r, op)' = OwnRows(r, op)
                /\ row \notin OwnRows(r, op)
             \/ /\ OwnRows(r, op)' = (OwnRows(r, op) \ {row}) \cup {y}
                /\ row \in OwnRows(r, op)
  BY DEF OwnRows
<1>3. PICK u \in outbox : OwnRows(r, "upsert") = {u}
  BY <1>1 DEF Story
<1>4. y \in outbox' /\ \A x \in outbox : x # row => x \in outbox'
  OBVIOUS
<1>5. \E v \in outbox' : OwnRows(r, "upsert")' = {v}
  BY <1>2, <1>3, <1>4
<1>6. Active(r)' <=> OwnRows(r, "delete")' = {}
  <2>1. OwnRows(r, "delete")' = {} <=> OwnRows(r, "delete") = {}
    BY <1>2
  <2> QED BY <1>1, <2>1 DEF Story
<1>7. \A v \in OwnRows(r, "upsert")', d \in OwnRows(r, "delete")' : v.id < d.id
  <2> TAKE v \in OwnRows(r, "upsert")', d \in OwnRows(r, "delete")'
  <2>1. \E v0 \in OwnRows(r, "upsert") : v0.id = v.id
    BY <1>2
  <2>2. \E d0 \in OwnRows(r, "delete") : d0.id = d.id
    BY <1>2
  <2> QED BY <1>1, <2>1, <2>2 DEF Story
<1> QED BY <1>5, <1>6, <1>7 DEF Story

\* The row an update leaves behind.
LEMMA UpdateShape ==
    ASSUME IInv, MarkProcessed \/ ChargeAttempt \/ DeadLetter
    PROVE  /\ row \in outbox /\ records' = records /\ points' = points
           /\ \E y \in OutboxRow :
                /\ y.id = row.id /\ y.record = row.record /\ y.op = row.op
                /\ y.tenant = row.tenant
                /\ ChargeAttempt \/ DeadLetter => Outstanding(y)
                /\ outbox' = (outbox \ {row}) \cup {y}
<1> USE DEF IInv
<1>1. /\ row \in OutboxRow /\ row \in outbox /\ ~row.processed
      /\ row.attempts \in Nat
  BY NoOutboxRowAssumption
     DEF MarkProcessed, ChargeAttempt, DeadLetter, TypeOK, Snapshot, Pending,
         OutboxRow
<1>2. records' = records /\ points' = points
  BY DEF MarkProcessed, ChargeAttempt, DeadLetter, indexVars
<1>3. CASE MarkProcessed
  <2> DEFINE y == [row EXCEPT !.processed = TRUE]
  <2>1. /\ y \in OutboxRow /\ y.id = row.id /\ y.record = row.record
        /\ y.op = row.op /\ y.tenant = row.tenant
    BY <1>1 DEF OutboxRow
  <2>2. outbox' = (outbox \ {row}) \cup {y} /\ ~ChargeAttempt /\ ~DeadLetter
    BY <1>1, <1>3, UpdateOneRow DEF MarkProcessed, ChargeAttempt, DeadLetter
  <2> HIDE DEF y
  <2> QED BY <1>1, <1>2, <2>1, <2>2
<1>4. CASE ChargeAttempt
  <2> DEFINE y == [row EXCEPT !.attempts = row.attempts + 1]
  <2>1. /\ y \in OutboxRow /\ y.id = row.id /\ y.record = row.record
        /\ y.op = row.op /\ y.tenant = row.tenant
        /\ Outstanding(y)
    BY <1>1, <1>4 DEF OutboxRow, ChargeAttempt, Outstanding
  <2>2. outbox' = (outbox \ {row}) \cup {y}
    BY <1>1, <1>4, UpdateOneRow
  <2> HIDE DEF y
  <2> QED BY <1>1, <1>2, <2>1, <2>2
<1>5. CASE DeadLetter
  <2> DEFINE y == [row EXCEPT !.processed = TRUE, !.attempts = row.attempts + 1]
  <2>1. /\ y \in OutboxRow /\ y.id = row.id /\ y.record = row.record
        /\ y.op = row.op /\ y.tenant = row.tenant
        /\ y.processed /\ y.attempts >= MaxAttempts
    <3>1. row.attempts + 1 \in Nat
      BY <1>1
    <3>2. row.attempts + 1 >= MaxAttempts
      BY <1>5, Zenon DEF DeadLetter
    <3> QED BY <1>1, <3>1, <3>2 DEF OutboxRow
  <2>2. outbox' = (outbox \ {row}) \cup {y}
    BY <1>1, <1>5, UpdateOneRow
  <2> HIDE DEF y
  <2>3. Outstanding(y)
    BY <2>1 DEF Outstanding, DeadLettered
  <2> QED BY <1>1, <1>2, <2>1, <2>2, <2>3
<1> QED BY <1>3, <1>4, <1>5

\* The outbox goes on telling every record's story.
LEMMA JStep == JInv /\ [Next]_vars => OutboxStory'
<1> SUFFICES ASSUME JInv, [Next]_vars
             PROVE  OutboxStory'
  OBVIOUS
<1> USE DEF JInv
<1>1. CASE UNCHANGED Tables
  <2>1. /\ \A r : (Active(r)' <=> Active(r)) /\ (Exists(r)' <=> Exists(r))
        /\ \A r, op : OwnRows(r, op)' = OwnRows(r, op)
        /\ outbox' = outbox
    BY <1>1 DEF Tables, Active, Exists, OwnRows
  <2> QED BY <2>1 DEF OutboxStory, Story
<1>2. CASE StoreStep
  BY <1>2, StoryStep DEF StoreStep, StoreInv, IInv, TypeOK
<1>3. CASE MarkProcessed \/ ChargeAttempt \/ DeadLetter
  BY <1>3, UpdateShape, UpdateKeepsStory
<1>4. CASE UNCHANGED vars
  BY <1>1, <1>4 DEF vars, storeVars, Tables
<1>5. CASE Drain /\ ~(MarkProcessed \/ ChargeAttempt \/ DeadLetter)
  BY <1>1, <1>5 DEF Drain, Fetch, Defer, Begin, EndBatch, ProcessRow, ReadActive,
       SkipRetracted, ReadDelete, ReadFails, Take, UpdateFails, CallSucceeds,
       CallFails, storeVars, Tables
<1>6. CASE Environment
  BY <1>1, <1>6 DEF Environment, Crash, Restart, Park, QdrantFails,
       QdrantRecovers, storeVars, Tables
<1> QED BY <1>2, <1>3, <1>4, <1>5, <1>6 DEF Next

-----------------------------------------------------------------------------
\* What the drainer is done with is right: a record no outstanding row is about
\* has a point exactly if it is active.
DoneRight == \A r \in Record : (Exists(r) /\ r \notin Due) => (r \in points <=> Active(r))

\* A record with no row outstanding is found exactly if it is active.
LEMMA DoneIsRight == JInv => DoneRight
<1> SUFFICES ASSUME JInv, NEW r \in Record, Exists(r), r \notin Due
             PROVE  r \in points <=> Active(r)
  BY DEF DoneRight
<1> USE DEF JInv, IInv
<1>1. \A x \in outbox : x.record = r => ~Outstanding(x) /\ x.tenant = records[r].tenant
  BY DEF Due
<1>2. ASSUME Active(r) PROVE r \in points
  BY <1>1, <1>2 DEF NoSilentGap, OwnRows
<1>3. ASSUME ~Active(r) PROVE r \notin points
  <2>1. PICK d \in OwnRows(r, "delete") : TRUE
    BY <1>3 DEF OutboxStory, Story
  <2> QED BY <1>1, <2>1 DEF RetractionSticks, OwnRows
<1> QED BY <1>2, <1>3

\* A call works on the record of a row in the queue.
LEMMA CallIsWork ==
    ASSUME JInv, CallSucceeds \/ CallFails
    PROVE  Index!Next \/ UNCHANGED Index!searchVars
<1> USE DEF JInv, IInv
<1>1. /\ row \in outbox /\ ~row.processed
      /\ row.record \in Record
      /\ records' = records /\ outbox' = outbox
      /\ points' = points \/ points' = Applied
  BY NoOutboxRowAssumption
     DEF CallSucceeds, CallFails, Snapshot, Pending, TypeOK, OutboxRow, storeVars
<1>2. Live' = Live /\ Retracted' = Retracted /\ Due' = Due
  BY <1>1 DEF Live, Retracted, Due, Active, Exists, Outstanding, DeadLettered
<1>3. row.record \in Due
  BY <1>1 DEF Due, Outstanding
<1>4. CASE points' = points
  BY <1>2, <1>4 DEF Index!searchVars
<1>5. CASE points' = Applied
  <2>1. points' \in {points \cup {row.record}, points \ {row.record}}
    BY <1>5 DEF Applied
  <2> QED BY <1>2, <1>3, <2>1 DEF Index!Next, Index!Work
<1> QED BY <1>1, <1>4, <1>5

\* An update of a row leaves its record due, or is done with it.
LEMMA UpdateIsSettle ==
    ASSUME JInv, JInv', MarkProcessed \/ ChargeAttempt \/ DeadLetter
    PROVE  Index!Next \/ UNCHANGED Index!searchVars
<1>0. PICK r \in Record : r = row.record
  BY NoOutboxRowAssumption
     DEF JInv, IInv, TypeOK, OutboxRow, MarkProcessed, ChargeAttempt, DeadLetter
<1>1. PICK y \in OutboxRow :
        /\ y.record = r /\ y.tenant = row.tenant
        /\ outbox' = (outbox \ {row}) \cup {y}
  BY <1>0, UpdateShape DEF JInv
<1>2. row \in outbox /\ records' = records /\ points' = points
  BY UpdateShape DEF JInv
<1>3. Exists(r) /\ r \in Due
  BY <1>0, <1>2, NoOutboxRowAssumption
     DEF JInv, IInv, OutboxKeys, Snapshot, Pending, TypeOK, StoreTypeOK, OutboxRow,
         Due, Outstanding, MarkProcessed, ChargeAttempt, DeadLetter
<1>4. Live' = Live /\ Retracted' = Retracted
  BY <1>2 DEF Live, Retracted, Active, Exists
<1>5. \A q \in Record : q # r => (q \in Due' <=> q \in Due)
  BY <1>0, <1>1, <1>2 DEF Due, Outstanding, DeadLettered
<1>6. Due \subseteq Record /\ Due' \subseteq Record
  BY DEF Due
<1>7. CASE r \in Due'
  <2>1. Due' = Due
    BY <1>3, <1>5, <1>6, <1>7
  <2> QED BY <1>2, <1>4, <2>1 DEF Index!searchVars
<1>8. CASE r \notin Due'
  <2>1. Due' = Due \ {r}
    BY <1>3, <1>5, <1>6, <1>8
  <2>2. r \in points' <=> Active(r)'
    <3>1. DoneRight'
      BY DoneIsRight, PTL
    <3> QED BY <1>2, <1>3, <1>8, <3>1 DEF DoneRight, Exists
  <2>3. r \in points <=> r \in Live
    BY <1>2, <1>3, <2>2 DEF Live, Active, Exists
  <2> QED BY <1>2, <1>3, <1>4, <2>1, <2>3 DEF Index!Next, Index!Settle
<1> QED BY <1>7, <1>8

\* A record the store adds is active.
LEMMA NewIsActive ==
    ASSUME StoreInv, [StoreNext]_storeVars, NEW q \in Record, ~Exists(q), Exists(q)'
    PROVE  Active(q)'
<1> USE DEF StoreInv
<1>1. CASE UNCHANGED storeVars
  BY <1>1 DEF storeVars, Exists
<1>2. ASSUME NEW t \in Tenant, NEW w \in MemoryWrite, StoreInsert(t, w)
      PROVE  Active(q)'
  <2>1. PICK r \in Record, sup \in SUBSET Supersedable(t, w) :
          \E ids \in [sup \cup {r} -> OutboxId] : InsertRecord(t, w, r, sup, ids)
    BY <1>2, SupersededAreSupersedable DEF StoreInsert
  <2>2. q \notin sup
    BY DEF Supersedable, Active
  <2>3. q = r
    BY <2>1, <2>2 DEF InsertRecord, Exists
  <2> QED BY <2>1, <2>3 DEF InsertRecord, Active
<1>3. ASSUME NEW t \in Tenant, NEW r \in Record, Forget(t, r)
      PROVE  Active(q)'
  BY <1>3 DEF Forget, ForgetOwned, ForgetUnowned, Exists, StoreTypeOK
<1> QED BY <1>1, <1>2, <1>3 DEF StoreNext, Store, StoreDedup

\* A transaction of the store is a Commit: what is new or retracted is due.
LEMMA StoreIsCommit ==
    ASSUME JInv, JInv', StoreStep
    PROVE  Index!Next
<1> USE DEF JInv, IInv, TypeOK
<1> DEFINE new  == {r \in Record : ~Exists(r) /\ Exists(r)'}
           gone == {r \in Record : Active(r) /\ ~Active(r)'}
           more == {r \in Record : Exists(r) /\ r \in Due'}
<1>1. StoreEffect /\ points' = points
  BY StoreStepEffect DEF StoreStep, StoreInv, indexVars
<1>2. \A r \in new : Active(r)'
  BY NewIsActive DEF StoreStep, StoreInv
<1>3. \A r \in Record : Exists(r) => /\ Exists(r)'
                                     /\ records'[r].tenant = records[r].tenant
                                     /\ Active(r)' => Active(r)
  BY <1>1 DEF StoreEffect
<1>4. \A x \in outbox : x \in outbox' /\ x.record \in Record /\ Exists(x.record)
  BY <1>1 DEF StoreEffect, OutboxKeys, StoreTypeOK, OutboxRow
<1>5. \A x \in outbox' : x \notin outbox => ~x.processed
  BY <1>1 DEF StoreEffect
<1>6. Due \subseteq Due'
  BY <1>3, <1>4 DEF Due, Outstanding, DeadLettered
<1>7. new \subseteq Due'
  <2> SUFFICES ASSUME NEW r \in new
               PROVE  r \in Due'
    OBVIOUS
  <2>1. PICK u \in outbox' : u \in OwnRows(r, "upsert")'
    BY DEF OutboxStory, Story
  <2>2. u \notin outbox /\ u.record = r
    BY <1>4, <2>1 DEF OwnRows
  <2> QED BY <1>5, <2>2 DEF Due, Outstanding
<1>8. gone \subseteq Due'
  <2> SUFFICES ASSUME NEW r \in gone
               PROVE  r \in Due'
    OBVIOUS
  <2>1. Exists(r) /\ Exists(r)' /\ Active(r) /\ ~Active(r)'
    BY <1>3 DEF Active
  <2>2. PICK d \in OwnRows(r, "delete")' : TRUE
    BY <2>1 DEF OutboxStory, Story
  <2>3. d \in outbox' /\ d.record = r /\ d.op = "delete" /\ d.tenant = records[r].tenant
    BY <1>3, <2>1, <2>2 DEF OwnRows
  <2>4. d \notin outbox
    BY <2>1, <2>3 DEF OutboxOwners
  <2> QED BY <1>5, <2>3, <2>4 DEF Due, Outstanding
<1>9. Due' = Due \cup new \cup gone \cup more
  <2>1. Due' \subseteq {r \in Record : Exists(r)'}
    BY DEF OutboxKeys, Due
  <2>2. Due' \subseteq new \cup more
    BY <2>1
  <2> QED BY <1>6, <1>7, <1>8, <2>2
<1>10. new \cap (Live \cup Retracted) = {} /\ gone \subseteq Live
       /\ more \subseteq Live \cup Retracted
  BY DEF Live, Retracted, Active
<1>11. Live' = (Live \cup new) \ gone
  BY <1>2, <1>3 DEF Live, Active
<1>12. Retracted' = Retracted \cup gone
  BY <1>2, <1>3 DEF Retracted, Active
<1>13. new \in SUBSET Record /\ gone \in SUBSET Record /\ more \in SUBSET Record
  OBVIOUS
<1> HIDE DEF new, gone, more
<1>14. Index!Commit(new, gone, more)
  BY <1>1, <1>9, <1>10, <1>11, <1>12 DEF Index!Commit
<1> QED BY <1>13, <1>14 DEF Index!Next

-----------------------------------------------------------------------------
\* An update charges the row in hand and no other, and that row is not processed.
LEMMA UpdateKeepsRows ==
    ASSUME IInv, MarkProcessed \/ ChargeAttempt \/ DeadLetter
    PROVE  \A x \in outbox : \E y \in outbox' :
             /\ y.id = x.id /\ y.record = x.record /\ y.op = x.op
             /\ y.attempts >= x.attempts
             /\ x.processed => y = x
<1>1. /\ row \in OutboxRow /\ row \in outbox /\ ~row.processed
      /\ row.attempts \in Nat
  BY NoOutboxRowAssumption
     DEF IInv, MarkProcessed, ChargeAttempt, DeadLetter, TypeOK, Snapshot, Pending,
         OutboxRow
<1>2. \E y \in outbox' : /\ y.id = row.id /\ y.record = row.record /\ y.op = row.op
                         /\ y.attempts \in {row.attempts, row.attempts + 1}
                         /\ outbox' = (outbox \ {row}) \cup {y}
  <2>1. CASE MarkProcessed
    BY <1>1, <2>1, UpdateOneRow DEF IInv, OutboxRow
  <2>2. CASE ChargeAttempt
    BY <1>1, <2>2, UpdateOneRow DEF IInv, OutboxRow
  <2>3. CASE DeadLetter
    BY <1>1, <2>3, UpdateOneRow DEF IInv, OutboxRow
  <2> QED BY <2>1, <2>2, <2>3
<1> SUFFICES ASSUME NEW x \in outbox
             PROVE  \E y \in outbox' :
                      /\ y.id = x.id /\ y.record = x.record /\ y.op = x.op
                      /\ y.attempts >= x.attempts
                      /\ x.processed => y = x
  OBVIOUS
<1>3. x.attempts \in Nat
  BY DEF IInv, TypeOK, StoreTypeOK, OutboxRow
<1>4. CASE x = row
  BY <1>1, <1>2, <1>4
<1>5. CASE x # row
  BY <1>2, <1>3, <1>5
<1> QED BY <1>4, <1>5

\* What was processed is final, no row loses an attempt, and no row is moved to
\* another record or operation.
THEOREM ProcessedStays == Spec => ProcessedIsFinal
<1> DEFINE Kept == \A x \in outbox : \E y \in outbox' :
                     /\ y.id = x.id /\ y.record = x.record /\ y.op = x.op
                     /\ y.attempts >= x.attempts
                     /\ x.processed => y = x
<1>1. IInv /\ [Next]_vars => Kept
  <2> SUFFICES ASSUME IInv, [Next]_vars
               PROVE  Kept
    OBVIOUS
  <2>1. CASE outbox \subseteq outbox'
    <3>1. \A x \in outbox : x \in outbox' /\ x.attempts \in Nat
      BY <2>1 DEF IInv, TypeOK, StoreTypeOK, OutboxRow
    <3>2. \A x \in outbox : x.attempts >= x.attempts
      BY <3>1
    <3> QED BY <3>1, <3>2
  <2>2. CASE MarkProcessed \/ ChargeAttempt \/ DeadLetter
    BY <2>2, UpdateKeepsRows
  <2>3. CASE StoreStep
    BY <2>1, <2>3, StoreStepEffect
       DEF StoreStep, StoreEffect, StoreInv, IInv, TypeOK
  <2>4. CASE Drain /\ ~(MarkProcessed \/ ChargeAttempt \/ DeadLetter)
    BY <2>1, <2>4 DEF Drain, Fetch, Defer, Begin, EndBatch, ProcessRow, ReadActive,
         SkipRetracted, ReadDelete, ReadFails, Take, UpdateFails, CallSucceeds,
         CallFails, storeVars
  <2>5. CASE Environment \/ UNCHANGED vars
    BY <2>1, <2>5 DEF Environment, Crash, Restart, Park, QdrantFails,
         QdrantRecovers, vars, storeVars
  <2> QED BY <2>2, <2>3, <2>4, <2>5 DEF Next
<1> QED BY <1>1, Invariance, PTL DEF Spec, ProcessedIsFinal

-----------------------------------------------------------------------------
\* Every step of the store, the drainer and their environment is a step of
\* SearchIndex or changes nothing a reader of the index can see.
LEMMA StepRefines ==
    ASSUME JInv, JInv', [Next]_vars
    PROVE  [Index!Next]_Index!searchVars
<1>1. CASE UNCHANGED Tables /\ UNCHANGED points
  BY <1>1 DEF Tables, Index!searchVars, Live, Retracted, Due, Active, Exists,
              Outstanding, DeadLettered
<1>2. CASE StoreStep
  BY <1>2, StoreIsCommit
<1>3. CASE CallSucceeds \/ CallFails
  BY <1>3, CallIsWork
<1>4. CASE MarkProcessed \/ ChargeAttempt \/ DeadLetter
  BY <1>4, UpdateIsSettle
<1>5. CASE Fetch \/ Defer \/ Begin \/ EndBatch \/ ProcessRow \/ UpdateFails
  BY <1>1, <1>5 DEF Fetch, Defer, Begin, EndBatch, ProcessRow, ReadActive,
       SkipRetracted, ReadDelete, ReadFails, Take, UpdateFails, storeVars,
       indexVars, Tables
<1>6. CASE Environment \/ UNCHANGED vars
  BY <1>1, <1>6 DEF Environment, Crash, Restart, Park, QdrantFails,
       QdrantRecovers, vars, storeVars, indexVars, Tables
<1> QED BY <1>2, <1>3, <1>4, <1>5, <1>6 DEF Next, Drain

\* The store and its drainer are, to a reader of the index, an index that is
\* wrong about a record only while it is due to look at it.
THEOREM Implementation == Spec => ImplementsIndex
<1>1. Init => JInv /\ Index!Init
  <2>1. Init => OutboxStory
    BY DEF Init, StoreInit, OutboxStory, Exists
  <2>2. Init => Index!Init
    BY DEF Init, StoreInit, Index!Init, Live, Retracted, Due, Active, Exists
  <2>3. Init => IInv
    BY NoOutboxRowAssumption
       DEF Init, StoreInit, IInv, TypeOK, StoreTypeOK, Phase, OutboxKeys,
           OutboxOwners, Snapshot, CallIsCovered, MarkIsEarned, CapEndsRetries,
           RetractionSticks, NoSilentGap, OwnRows, Active, Exists
  <2> QED BY <2>1, <2>2, <2>3 DEF JInv
<1>2. Spec => []IInv
  BY Invariance
<1>3. IInv /\ OutboxStory /\ [Next]_vars => OutboxStory'
  BY JStep DEF JInv
<1>4. IInv /\ OutboxStory /\ IInv' /\ OutboxStory' /\ [Next]_vars
        => [Index!Next]_Index!searchVars
  BY StepRefines DEF JInv
<1> QED BY <1>1, <1>2, <1>3, <1>4, PTL DEF Spec, ImplementsIndex, Index!Spec, JInv

\* SearchIndex keeps its promise: what is not due is found exactly if it is live.
THEOREM IndexIsFaithful == Index!Spec => []Index!Faithful
<1>1. Index!Init => Index!Faithful
  BY DEF Index!Init, Index!Faithful
<1>2. Index!Faithful /\ [Index!Next]_Index!searchVars => Index!Faithful'
  <2> SUFFICES ASSUME Index!Faithful, [Index!Next]_Index!searchVars
               PROVE  Index!Faithful'
    OBVIOUS
  <2>1. ASSUME NEW new \in SUBSET Record, NEW gone \in SUBSET Record,
               NEW more \in SUBSET Record, Index!Commit(new, gone, more)
        PROVE  Index!Faithful'
    BY <2>1 DEF Index!Commit, Index!Faithful
  <2>2. ASSUME NEW r \in Due, Index!Work(r) PROVE Index!Faithful'
    BY <2>2 DEF Index!Work, Index!Faithful
  <2>3. ASSUME NEW r \in Due, Index!Settle(r) PROVE Index!Faithful'
    BY <2>3 DEF Index!Settle, Index!Faithful
  <2>4. CASE UNCHANGED Index!searchVars
    BY <2>4 DEF Index!searchVars, Index!Faithful
  <2> QED BY <2>1, <2>2, <2>3, <2>4 DEF Index!Next
<1> QED BY <1>1, <1>2, PTL DEF Index!Spec

\* So does the drainer beside the store.
THEOREM FoundIsRight == Spec => []Index!Faithful
  BY Implementation, IndexIsFaithful, PTL DEF ImplementsIndex
=============================================================================
