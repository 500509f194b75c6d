----------------------------- MODULE ToolsProofs -----------------------------
(***************************************************************************)
(* Theorems about what clients ask of daimon-mcp, for every value of the   *)
(* constants: the write contract, addresses and recall.                    *)
(***************************************************************************)
EXTENDS Tools, MemoryStoreProofs, FusionProofs, SequenceTheorems

\* What a full address reads back as.
LEMMA FullRoundTrip ==
    ASSUME NEW t \in Uuid, NEW ns \in Seq(Component), IsNamespace(ns),
           NEW k \in MemoryKind, NEW r \in Uuid, NEW x \in Tier \cup {"none"}
    PROVE  ParseUri([scheme |-> TRUE, tier |-> x, path |-> <<t>> \o ns \o <<k, r>>])
             = [tenant |-> t, namespace |-> ns, kind |-> k, id |-> r,
                tier |-> IF x = "none" THEN "L1" ELSE x]
<1> DEFINE p == <<t>> \o ns \o <<k, r>>
           n == Len(p)
<1>1. t \in Component /\ k \in Component /\ r \in Component
  BY SegmentAssumption
<1>2. Len(ns) \in Nat /\ Len(ns) >= 2
  BY DEF IsNamespace
<1>3. /\ p \in Seq(Component) /\ n = Len(ns) + 3
      /\ p[1] = t /\ p[n] = r /\ p[n - 1] = k
      /\ \A i \in 1..Len(ns) : p[i + 1] = ns[i]
  BY <1>1, <1>2
<1>4. SubSeq(p, 2, n - 2) = ns
  <2>1. SubSeq(p, 2, n - 2) = [i \in 1..Len(ns) |-> p[i + 1]]
    BY <1>2, <1>3
  <2>2. ns = [i \in 1..Len(ns) |-> ns[i]]
    OBVIOUS
  <2> QED BY <2>1, <2>2, <1>3
<1>5. x # "other"
  BY DEF Tier
<1> HIDE DEF p
<1> DEFINE s == [scheme |-> TRUE, tier |-> x, path |-> p]
<1>6. s.scheme /\ s.tier = x /\ s.path = p
  OBVIOUS
<1>7. n >= 5
  BY <1>2, <1>3
<1>8. IsNamespace(SubSeq(p, 2, n - 2))
  BY <1>4, Zenon
<1> HIDE DEF s
<1>9. ParseUri(s) = [tenant |-> t, namespace |-> ns, kind |-> k, id |-> r,
                     tier |-> IF x = "none" THEN "L1" ELSE x]
  BY <1>3, <1>4, <1>5, <1>6, <1>7, <1>8, Zenon DEF ParseUri
<1> QED BY <1>9 DEF p, s

\* The components of the full and of the relative form.
LEMMA Forms ==
    ASSUME NEW t \in Uuid, NEW ns \in Seq(Component), IsNamespace(ns),
           NEW k \in MemoryKind, NEW r \in Uuid
    PROVE  /\ (<<t>> \o ns \o <<k, r>>)[1] = t
           /\ Len(<<t>> \o ns \o <<k, r>>) >= 2
           /\ (ns \o <<k, r>>)[1] \notin Uuid
           /\ Tail(<<t>> \o ns \o <<k, r>>) = ns \o <<k, r>>
           /\ <<t>> \o (ns \o <<k, r>>) = <<t>> \o ns \o <<k, r>>
<1> DEFINE full == <<t>> \o ns \o <<k, r>>
           relative == ns \o <<k, r>>
<1>1. t \in Component /\ k \in Component /\ r \in Component
  BY SegmentAssumption
<1>2. Len(ns) \in Nat /\ Len(ns) >= 2 /\ ns[1] \in Root
  BY DEF IsNamespace
<1>3. full \in Seq(Component) /\ Len(full) = Len(ns) + 3 /\ full[1] = t
  BY <1>1, <1>2
<1>4. /\ relative \in Seq(Component) /\ Len(relative) = Len(ns) + 2
      /\ relative[1] = ns[1]
  BY <1>1, <1>2
<1>5. relative[1] \notin Uuid
  BY <1>2, <1>4, SegmentAssumption
<1>6. <<t>> \o relative = full
  BY <1>1, ConcatAssociative
<1>7. Tail(full) = relative
  <2>1. \A i \in 1..Len(relative) : full[i + 1] = relative[i]
    BY <1>1, <1>2, <1>3, <1>4
  <2>2. Tail(full) = [i \in 1..Len(relative) |-> full[i + 1]]
    BY <1>2, <1>3, <1>4
  <2>3. relative = [i \in 1..Len(relative) |-> relative[i]]
    BY <1>4
  <2> QED BY <2>1, <2>2, <2>3
<1> QED BY <1>2, <1>3, <1>5, <1>6, <1>7

-----------------------------------------------------------------------------
\* What the write contract leaves behind: stored namespaces and kinds are ones
\* the parsers accept.
Placed ==
    \A r \in Record : Exists(r) =>
      IsNamespace(records[r].namespace) /\ KindOf(r) \in MemoryKind

IInv == StoreTypeOK /\ Placed

\* What is known of a stored record, in the terms of the lemmas above.
LEMMA StoredParts ==
    ASSUME IInv, NEW r \in Record, Exists(r)
    PROVE  /\ records[r].tenant \in Uuid /\ r \in Uuid
           /\ records[r].namespace \in Seq(Component)
           /\ IsNamespace(records[r].namespace)
           /\ KindOf(r) \in MemoryKind
BY UuidAssumption, NamespaceAssumption
   DEF IInv, Placed, StoreTypeOK, RecordRow, Exists

\* A stored record's address leads back, in each of its forms.
LEMMA LeadBack ==
    ASSUME IInv
    PROVE  AddressesLeadBack
<1> SUFFICES ASSUME NEW r \in Record, Exists(r)
             PROVE  LET u == ParseUri(PathOf(r)) IN
                    /\ u = [tenant |-> records[r].tenant,
                            namespace |-> records[r].namespace,
                            kind |-> KindOf(r), id |-> r, tier |-> "L1"]
                    /\ \A s \in {Display(u), DisplayRelative(u), StripTenant(PathOf(r))} :
                         /\ ParseScoped(s, records[r].tenant) = u
                         /\ StripTenant(StripTenant(s)) = StripTenant(s)
                         /\ records[r].status # "forgotten" =>
                              Readable(records[r].tenant, s) = {r}
  BY DEF AddressesLeadBack
<1> DEFINE t == records[r].tenant
           ns == records[r].namespace
           k == KindOf(r)
           full == <<t>> \o ns \o <<k, r>>
           relative == ns \o <<k, r>>
           u == [tenant |-> t, namespace |-> ns, kind |-> k, id |-> r, tier |-> "L1"]
           text(x, p) == [scheme |-> TRUE, tier |-> x, path |-> p]
<1>1. /\ t \in Uuid /\ ns \in Seq(Component) /\ IsNamespace(ns)
      /\ k \in MemoryKind /\ r \in Uuid
  BY StoredParts
<1> HIDE DEF t, ns, k
<1>2. ASSUME NEW x \in {"L1", "none"} PROVE ParseUri(text(x, full)) = u
  <2>1. x \in Tier \cup {"none"} /\ (IF x = "none" THEN "L1" ELSE x) = "L1"
    BY DEF Tier
  <2>2. ParseUri(text(x, full))
          = [tenant |-> t, namespace |-> ns, kind |-> k, id |-> r,
             tier |-> IF x = "none" THEN "L1" ELSE x]
    BY <1>1, <2>1, FullRoundTrip, Zenon
  <2> QED BY <2>1, <2>2, Zenon
<1>3. /\ full[1] = t /\ Len(full) >= 2 /\ relative[1] \notin Uuid
      /\ Tail(full) = relative /\ <<t>> \o relative = full
  <2>1. full[1] = t /\ Len(full) >= 2
    BY <1>1, Forms, Zenon
  <2>2. relative[1] \notin Uuid
    BY <1>1, Forms, Zenon
  <2>3. Tail(full) = relative
    BY <1>1, Forms, Zenon
  <2>4. <<t>> \o relative = full
    BY <1>1, Forms, Zenon
  <2> QED BY <2>1, <2>2, <2>3, <2>4
<1>4. PathOf(r) = text("none", full)
  BY DEF PathOf, UriPath, t, ns, k
<1>5. /\ Display(u) = text("L1", full)
      /\ DisplayRelative(u) = text("L1", relative)
  BY DEF Display, DisplayRelative
<1>6. u.id = r /\ u # Rejected
  BY DEF Rejected
<1> HIDE DEF u, full, relative
<1>7. ASSUME NEW x, NEW p, NEW q
      PROVE  /\ text(x, p).path = p /\ text(x, p).scheme
             /\ WithPath(text(x, p), q) = text(x, q)
  BY DEF WithPath
<1> HIDE DEF text
<1>8. ASSUME NEW x \in {"L1", "none"}
      PROVE  /\ ParseScoped(text(x, full), t) = u
             /\ ParseScoped(text(x, relative), t) = u
  <2>1. text(x, full).path = full /\ text(x, relative).path = relative
    BY <1>7
  <2>2. WithPath(text(x, relative), full) = text(x, full)
    BY <1>7
  <2>3. ParseScoped(text(x, full), t) = ParseUri(text(x, full))
    BY <1>1, <1>3, <2>1 DEF ParseScoped
  <2>4. ParseScoped(text(x, relative), t) = ParseUri(text(x, full))
    BY <1>3, <2>1, <2>2, Zenon DEF ParseScoped
  <2> QED BY <1>2, <2>3, <2>4, Zenon
<1>9. ASSUME NEW x \in {"L1", "none"}
      PROVE  /\ StripTenant(text(x, full)) = text(x, relative)
             /\ StripTenant(text(x, relative)) = text(x, relative)
  <2>1. /\ text(x, full).path = full /\ text(x, full).scheme
        /\ text(x, relative).path = relative
        /\ WithPath(text(x, full), relative) = text(x, relative)
    BY <1>7
  <2>2. StripTenant(text(x, full)) = text(x, relative)
    BY <1>1, <1>3, <2>1, Zenon DEF StripTenant
  <2>3. StripTenant(text(x, relative)) = text(x, relative)
    BY <1>3, <2>1, Zenon DEF StripTenant
  <2> QED BY <2>2, <2>3
<1>10. ASSUME NEW s, ParseScoped(s, t) = u, records[r].status # "forgotten"
       PROVE  Readable(t, s) = {r}
  BY <1>6, <1>10 DEF Readable, t
<1>11. ASSUME NEW s \in {text("L1", full), text("L1", relative), text("none", relative)}
       PROVE  /\ ParseScoped(s, t) = u
              /\ StripTenant(StripTenant(s)) = StripTenant(s)
  BY <1>8, <1>9
<1>12. ParseUri(PathOf(r)) = u /\ StripTenant(PathOf(r)) = text("none", relative)
  BY <1>2, <1>4, <1>9
<1>13. ASSUME NEW s \in {Display(u), DisplayRelative(u), StripTenant(PathOf(r))}
       PROVE  /\ ParseScoped(s, t) = u
              /\ StripTenant(StripTenant(s)) = StripTenant(s)
              /\ records[r].status # "forgotten" => Readable(t, s) = {r}
  BY <1>5, <1>10, <1>11, <1>12
<1> QED BY <1>12, <1>13 DEF u, t, ns, k

\* Every write that Remember stores was accepted, of a kind there is.
LEMMA AcceptedIsPlaced ==
    ASSUME NEW q \in Request, Decoded(q), Accepted(WriteOf(q))
    PROVE  /\ StoredAs(WriteOf(q)).namespace = WriteOf(q).namespace
           /\ StoredAs(WriteOf(q)).title[1] = WriteOf(q).kind
           /\ IsNamespace(WriteOf(q).namespace)
           /\ WriteOf(q).kind \in MemoryKind
<1>1. CASE q.tool \in GuidedTool
  <2>1. WriteOf(q).kind = GuidedKind[q.tool]
    BY <1>1 DEF WriteOf, GuidedWrite
  <2>2. GuidedKind[q.tool] \in MemoryKind
    BY <1>1 DEF GuidedTool, GuidedKind, MemoryKind, AppendKind
  <2> QED BY <2>1, <2>2 DEF StoredAs, Accepted
<1>2. CASE q.tool \in OwnClient
  <2>1. WriteOf(q).kind = OwnKind[q.tool]
    BY <1>2 DEF WriteOf, OwnWrite, OwnClient, GuidedTool
  <2>2. OwnKind[q.tool] \in MemoryKind
    BY <1>2 DEF OwnClient, OwnKind, MemoryKind, AppendKind, UpdateKind
  <2> QED BY <2>1, <2>2 DEF StoredAs, Accepted
<1>3. CASE q.tool \notin GuidedTool \cup OwnClient
  <2>1. WriteOf(q).kind = q.kind /\ q.kind \in MemoryKind
    BY <1>3 DEF WriteOf, Decoded
  <2> QED BY <2>1 DEF StoredAs, Accepted
<1> QED BY <1>1, <1>2, <1>3

\* An attempt at row x leaves a row y in its place that differs in its marks
\* alone, and y is done only if the attempt had its effect.
LEMMA AttemptShape ==
    ASSUME StoreTypeOK, NEW x \in Unprocessed, IndexRow(x)
    PROVE  \E y \in OutboxRow :
             /\ outbox' = (outbox \ {x}) \cup {y}
             /\ y.id = x.id /\ y.record = x.record /\ y.op = x.op
             /\ y.tenant = x.tenant
             /\ Done(y) => points' \in Effects(x)
             /\ points' \in Effects(x) \cup {points}
<1>1. x \in OutboxRow /\ x \in outbox /\ ~x.processed /\ x.attempts \in Nat
  BY DEF Unprocessed, StoreTypeOK, OutboxRow
<1>2. CASE points' \in Effects(x) /\ outbox' =
             (outbox \ {x}) \cup {[x EXCEPT !.processed = TRUE]}
  <2> DEFINE y == [x EXCEPT !.processed = TRUE]
  <2>1. /\ y \in OutboxRow /\ y.id = x.id /\ y.record = x.record /\ y.op = x.op
        /\ y.tenant = x.tenant
    BY <1>1 DEF OutboxRow
  <2> HIDE DEF y
  <2> QED BY <1>2, <2>1 DEF y
<1>3. CASE points' \in Effects(x) \cup {points} /\ outbox' =
             (outbox \ {x}) \cup
               {[x EXCEPT !.attempts = @ + 1, !.processed = x.attempts + 1 >= MaxAttempts]}
  <2> DEFINE y == [x EXCEPT !.attempts = @ + 1,
                            !.processed = x.attempts + 1 >= MaxAttempts]
  <2>1. x.attempts + 1 \in Nat /\ (x.attempts + 1 >= MaxAttempts) \in BOOLEAN
    BY <1>1, MaxAttemptsAssumption
  <2>2. /\ y \in OutboxRow /\ y.id = x.id /\ y.record = x.record /\ y.op = x.op
        /\ y.tenant = x.tenant
        /\ y.attempts = x.attempts + 1
        /\ y.processed = (x.attempts + 1 >= MaxAttempts)
    BY <1>1, <2>1, Zenon DEF OutboxRow
  <2> HIDE DEF y
  <2>3. x.attempts + 1 >= MaxAttempts => ~Done(y)
    BY <1>1, <2>2, MaxAttemptsAssumption DEF Done
  <2>4. ~(x.attempts + 1 >= MaxAttempts) => ~Done(y)
    BY <2>2, Zenon DEF Done
  <2>5. ~Done(y)
    BY <2>3, <2>4
  <2> QED BY <1>3, <2>2, <2>5 DEF y
<1>4. CASE points' \in Effects(x) /\ UNCHANGED outbox
  <2>1. outbox' = (outbox \ {x}) \cup {x}
    BY <1>1, <1>4
  <2> QED BY <1>1, <1>4, <2>1
<1> QED BY <1>2, <1>3, <1>4 DEF IndexRow

\* To the store's tables a step of the tools is a step of the store, an attempt
\* of the drainer at a row, or none.
LEMMA StepKinds ==
    ASSUME [Next]_vars
    PROVE  \/ /\ StoreNext
              /\ UNCHANGED indexVars /\ recall' = Returned
              /\ \/ \E q \in Request : Remember(q)
                 \/ \E t \in Tenant, c \in BOOLEAN : \E s : ForgetTool(t, s, c)
           \/ \E x \in Unprocessed : IndexRow(x)
           \/ ReindexDrops \/ \E r \in Record : ReindexPuts(r)
           \/ \E q \in Query : KeywordArm(q)
           \/ SemanticArm
           \/ UNCHANGED vars
<1>1. ASSUME NEW q \in Request, Remember(q)
      PROVE  StoreNext /\ UNCHANGED indexVars /\ recall' = Returned
  <2>1. /\ StoreInsert(q.tenant, StoredAs(WriteOf(q)))
        /\ Decoded(q) /\ Accepted(WriteOf(q))
        /\ UNCHANGED indexVars /\ recall' = Returned
    BY <1>1 DEF Remember, Answered
  <2>2. q.tenant \in Tenant /\ StoredAs(WriteOf(q)) \in MemoryWrite
    BY <2>1, RequestAssumption
  <2> QED BY <2>1, <2>2 DEF StoreNext, Store
<1>2. ASSUME NEW t \in Tenant, NEW s, NEW c, ForgetTool(t, s, c)
      PROVE  StoreNext /\ UNCHANGED indexVars /\ recall' = Returned
  BY <1>2 DEF ForgetTool, StoreNext
<1>3. ASSUME NEW r \in Record, NEW s \in Addressing(r), NEW t \in Tenant,
             NEW c \in BOOLEAN, ForgetTool(t, s, c)
      PROVE  \E u \in Tenant, b \in BOOLEAN : \E v : ForgetTool(u, v, b)
  BY <1>3
<1>4. (\E q \in Request : Remember(q)) => StoreNext /\ UNCHANGED indexVars /\ recall' = Returned
  BY <1>1
<1>5. (\E t \in Tenant, c \in BOOLEAN : \E s : ForgetTool(t, s, c))
        => StoreNext /\ UNCHANGED indexVars /\ recall' = Returned
  BY <1>2
<1> QED BY <1>3, <1>4, <1>5, Zenon DEF Next

\* Only Remember places records, and it stores what validate_write accepted.
LEMMA PlacedStep ==
    ASSUME IInv, [Next]_vars
    PROVE  IInv'
<1> USE DEF IInv
<1>1. CASE UNCHANGED <<records, namespaces, outbox>>
  BY <1>1 DEF StoreTypeOK, Placed, Exists, KindOf
<1>2. ASSUME NEW q \in Request, Remember(q)
      PROVE  IInv'
  <2> DEFINE w == StoredAs(WriteOf(q))
  <2>1. Decoded(q) /\ Accepted(WriteOf(q)) /\ StoreInsert(q.tenant, w)
    BY <1>2 DEF Remember
  <2>2. q.tenant \in Tenant /\ w \in MemoryWrite
    BY <2>1, RequestAssumption
  <2>3. IsNamespace(w.namespace) /\ w.title[1] \in MemoryKind
    BY <2>1, AcceptedIsPlaced
  <2> HIDE DEF w
  <2>4. PICK r \in Record, sup \in SUBSET Supersedable(q.tenant, w) :
          \E ids \in [sup \cup {r} -> OutboxId] :
            InsertRecord(q.tenant, w, r, sup, ids)
    BY <2>1, SupersededAreSupersedable DEF StoreInsert
  <2>5. StoreTypeOK'
    BY <2>2, <2>4, InsertTypeCorrect
  <2>6. \A p \in sup : p \in Record /\ Exists(p) /\ records[p] \in RecordRow
    BY DEF Supersedable, Active, Exists, StoreTypeOK
  <2>7. ASSUME NEW p \in Record, Exists(p)'
        PROVE  IsNamespace(records'[p].namespace) /\ records'[p].title[1] \in MemoryKind
    <3>1. CASE p = r
      BY <2>3, <2>4, <3>1 DEF InsertRecord
    <3>2. CASE p # r /\ p \in sup
      BY <2>4, <2>6, <3>2 DEF InsertRecord, Placed, KindOf, RecordRow
    <3>3. CASE p # r /\ p \notin sup
      BY <2>4, <2>7, <3>3 DEF InsertRecord, Placed, KindOf, Exists
    <3> QED BY <3>1, <3>2, <3>3
  <2> QED BY <2>5, <2>7 DEF Placed, KindOf
<1>3. ASSUME NEW t \in Tenant, NEW r \in Record, Forget(t, r)
      PROVE  IInv'
  <2>1. StoreTypeOK'
    BY <1>3, ForgetTypeCorrect
  <2>2. ASSUME NEW p \in Record
        PROVE  \/ records'[p] = records[p]
               \/ /\ Exists(p) /\ records[p] \in RecordRow
                  /\ records'[p] = [records[p] EXCEPT !.status = "forgotten"]
    BY <1>3 DEF Forget, ForgetOwned, ForgetUnowned, StoreTypeOK, Exists
  <2>3. ASSUME NEW p \in Record, Exists(p)'
        PROVE  /\ Exists(p)
               /\ records'[p].namespace = records[p].namespace
               /\ records'[p].title = records[p].title
    BY <2>2, <2>3 DEF Exists, RecordRow
  <2> QED BY <2>1, <2>3 DEF Placed, KindOf
<1>4. ASSUME NEW x \in Unprocessed, IndexRow(x)
      PROVE  IInv'
  <2>1. PICK y \in OutboxRow : outbox' = (outbox \ {x}) \cup {y}
    BY <1>4, AttemptShape
  <2> QED BY <1>4, <2>1 DEF IndexRow, StoreTypeOK, Placed, Exists, KindOf
<1>8. CASE ReindexDrops \/ \E r \in Record : ReindexPuts(r)
  BY <1>1, <1>8 DEF ReindexDrops, ReindexPuts
<1>5. ASSUME NEW q \in Query, KeywordArm(q)
      PROVE  IInv'
  BY <1>1, <1>5 DEF KeywordArm
<1>6. CASE SemanticArm
  BY <1>1, <1>6 DEF SemanticArm
<1>7. CASE UNCHANGED vars
  BY <1>1, <1>7 DEF vars
<1> QED BY <1>2, <1>3, <1>4, <1>5, <1>6, <1>7, <1>8, Zenon DEF Next, ForgetTool

\* Every address the server gives out leads back to its record, in each form,
\* for as long as the record exists.
THEOREM AddressRoundTrip == Spec => []AddressesLeadBack
<1>1. Init => IInv
  BY DEF Init, IInv, StoreInit, StoreTypeOK, Placed, Exists
<1>2. IInv /\ [Next]_vars => IInv'
  BY PlacedStep
<1>3. IInv => AddressesLeadBack
  BY LeadBack
<1> QED BY <1>1, <1>2, <1>3, PTL DEF Spec

-----------------------------------------------------------------------------
\* An address that parses to a durable namespace shows its root to the gate.
LEMMA DurableShows ==
    ASSUME NEW s, s.path \in Seq(Component), NEW t \in Uuid,
           ParseScoped(s, t) # Rejected,
           ParseScoped(s, t).namespace[1] \in {"agent", "resources"}
    PROVE  Durable(s)
<1> DEFINE parsed(x) == /\ x.scheme
                        /\ Len(x.path) >= 5
                        /\ ParseUri(x).namespace[1] = x.path[2]
<1>1. ASSUME NEW x, x.path \in Seq(Component), ParseUri(x) # Rejected
      PROVE  parsed(x)
  <2>1. x.scheme /\ Len(x.path) >= 5
    BY <1>1 DEF ParseUri
  <2>2. ParseUri(x).namespace = SubSeq(x.path, 2, Len(x.path) - 2)
    BY <1>1 DEF ParseUri
  <2>3. SubSeq(x.path, 2, Len(x.path) - 2)[1] = x.path[2]
    BY <1>1, <2>1
  <2> QED BY <2>1, <2>2, <2>3
<1>2. CASE s.path[1] \in Uuid
  <2>1. ParseScoped(s, t) = ParseUri(s)
    BY <1>2 DEF ParseScoped
  <2>2. parsed(s)
    BY <1>1, <2>1
  <2>3. 2 \in 1..(Len(s.path) - 1)
    BY <2>2
  <2> QED BY <2>1, <2>2, <2>3 DEF Durable
<1>3. CASE s.path[1] \notin Uuid
  <2> DEFINE x == WithPath(s, <<t>> \o s.path)
  <2>1. ParseScoped(s, t) = ParseUri(x)
    BY <1>3 DEF ParseScoped
  <2>2. x.path = <<t>> \o s.path /\ x.scheme = s.scheme
    BY DEF WithPath
  <2>3. t \in Component
    BY SegmentAssumption
  <2>4. /\ x.path \in Seq(Component) /\ Len(x.path) = Len(s.path) + 1
        /\ Len(s.path) >= 1 => x.path[2] = s.path[1]
    <3>1. ASSUME NEW p \in Seq(Component)
          PROVE  /\ <<t>> \o p \in Seq(Component) /\ Len(<<t>> \o p) = Len(p) + 1
                 /\ Len(p) >= 1 => (<<t>> \o p)[2] = p[1]
      BY <2>3
    <3> QED BY <2>2, <3>1
  <2> HIDE DEF x
  <2>5. parsed(x)
    BY <1>1, <2>1, <2>4
  <2>6. 1 \in 1..(Len(s.path) - 1)
    BY <2>4, <2>5
  <2>7. s.scheme /\ s.path[1] \in {"agent", "resources"}
    BY <2>1, <2>2, <2>4, <2>5
  <2> QED BY <2>6, <2>7 DEF Durable
<1> QED BY <1>2, <1>3

\* What clients send has the shape of an address.
LEMMA AddressingPaths ==
    ASSUME IInv, NEW r \in Record, Exists(r), NEW s \in Addressing(r)
    PROVE  s.path \in Seq(Component)
<1> DEFINE t == records[r].tenant
           ns == records[r].namespace
           k == KindOf(r)
           u == ParseUri(PathOf(r))
           full == <<t>> \o ns \o <<k, r>>
<1>1. /\ t \in Uuid /\ ns \in Seq(Component) /\ IsNamespace(ns)
      /\ k \in MemoryKind /\ r \in Uuid
  BY StoredParts
<1>2. t \in Component /\ k \in Component /\ r \in Component
  BY <1>1, SegmentAssumption
<1>3. u = [tenant |-> t, namespace |-> ns, kind |-> k, id |-> r, tier |-> "L1"]
  BY LeadBack DEF AddressesLeadBack
<1>4. PathOf(r).path = full
  BY DEF PathOf, UriPath
<1> HIDE DEF t, ns, k, u
<1>5. full \in Seq(Component) /\ Len(full) >= 2
  BY <1>1, <1>2 DEF IsNamespace
<1>6. Display(u).path \in Seq(Component) /\ DisplayRelative(u).path \in Seq(Component)
  BY <1>1, <1>2, <1>3 DEF Display, DisplayRelative
<1>7. StripTenant(PathOf(r)).path \in Seq(Component)
  <2>1. Tail(full) \in Seq(Component)
    BY <1>5
  <2> QED BY <1>4, <1>5, <2>1 DEF StripTenant, WithPath
<1>8. ASSUME NEW p \in Namespace
      PROVE  DisplayRelative([u EXCEPT !.namespace = p]).path \in Seq(Component)
  <2>1. p \in Seq(Component)
    BY NamespaceAssumption
  <2>2. /\ [u EXCEPT !.namespace = p].namespace = p
        /\ [u EXCEPT !.namespace = p].kind = k
        /\ [u EXCEPT !.namespace = p].id = r
    BY <1>3
  <2> QED BY <1>2, <2>1, <2>2 DEF DisplayRelative
<1> QED BY <1>6, <1>7, <1>8 DEF Addressing, u

\* An agent/ or resources/ record whose namespace the caller named right is
\* forgotten only by a confirmed call.
THEOREM ConfirmGate == Spec => UnconfirmedForgetSparesDurable
<1> DEFINE Gated(r) ==
             (/\ Exists(r) /\ records[r].status # "forgotten"
              /\ records'[r].status = "forgotten"
              /\ records[r].namespace[1] \in {"agent", "resources"}
              /\ answer'.named = records[r].namespace) => answer'.confirm
<1>1. Init => IInv
  BY DEF Init, IInv, StoreInit, StoreTypeOK, Placed, Exists
<1>2. IInv /\ [Next]_vars => IInv'
  BY PlacedStep
<1>3. IInv /\ [Next]_vars => [\A r \in Record : Gated(r)]_vars
  <2> SUFFICES ASSUME IInv, Next, NEW r \in Record, Exists(r),
                      records[r].status # "forgotten",
                      records'[r].status = "forgotten",
                      records[r].namespace[1] \in {"agent", "resources"},
                      answer'.named = records[r].namespace
               PROVE  answer'.confirm
    OBVIOUS
  <2>1. records'[r] # records[r]
    OBVIOUS
  <2>2. ~\E q \in Request : Remember(q)
    <3> SUFFICES ASSUME NEW q \in Request, Remember(q) PROVE FALSE
      OBVIOUS
    <3> DEFINE w == StoredAs(WriteOf(q))
    <3>0. StoreInsert(q.tenant, w)
      BY DEF Remember
    <3> HIDE DEF w
    <3>1. PICK o \in Record, sup \in SUBSET Supersedable(q.tenant, w) :
            \E ids \in [sup \cup {o} -> OutboxId] :
              InsertRecord(q.tenant, w, o, sup, ids)
      BY <3>0, SupersededAreSupersedable DEF StoreInsert
    <3>2. o # r
      BY <3>1 DEF InsertRecord
    <3>3. r \in sup => records'[r].status = "superseded"
      BY <3>1, <3>2 DEF InsertRecord, IInv, StoreTypeOK, RecordRow, Exists
    <3>4. r \notin sup => records'[r] = records[r]
      BY <3>1, <3>2 DEF InsertRecord
    <3> QED BY <2>1, <3>3, <3>4
  <2>3. PICK t \in Tenant, o \in Record, confirm \in BOOLEAN :
          Exists(o) /\ \E s \in Addressing(o) : ForgetTool(t, s, confirm)
    BY <2>1, <2>2, Zenon DEF Next, IndexRow, ReindexDrops, ReindexPuts, KeywordArm, SemanticArm
  <2>4. PICK s \in Addressing(o) : ForgetTool(t, s, confirm)
    BY <2>3
  <2> DEFINE v == ParseScoped(s, t)
  <2>5. /\ Durable(s) => confirm
        /\ v # Rejected /\ v.id \in Record /\ Forget(t, v.id)
        /\ answer' = [confirm |-> confirm, named |-> v.namespace]
    BY <2>4 DEF ForgetTool
  <2>6. v.namespace[1] \in {"agent", "resources"}
    BY <2>5
  <2>7. t \in Uuid /\ s.path \in Seq(Component)
    BY <2>3, <2>4, AddressingPaths, UuidAssumption
  <2>8. Durable(s)
    BY <2>5, <2>6, <2>7, DurableShows
  <2> QED BY <2>5, <2>8
<1> QED BY <1>1, <1>2, <1>3, PTL DEF Spec, UnconfirmedForgetSparesDurable

-----------------------------------------------------------------------------
(***************************************************************************)
(* What both arms of a recall owe the caller of a retraction.  A delete    *)
(* row that is done is done for good, and so is the retraction before it;  *)
(* from then on only a reindex can put the record's point back, since an   *)
(* upsert row adds no point behind it.  So a recall that begins later      *)
(* meets the record in neither store.                                      *)
(***************************************************************************)

\* A point of a record whose retraction has reached the index is reindex's.
PointsAnswered == \A r \in points : r \in Retracted => r \in restored

\* What had been retracted when the recall began stays so.
RetractedStays == recall.stage # "idle" => recall.retracted \subseteq Retracted

\* No hit of either arm was retracted, and known to be, when the recall began.
ArmsSpareRetracted ==
    /\ recall.stage # "idle" =>
         \A i \in DOMAIN recall.keyword : recall.keyword[i].id \notin recall.retracted
    /\ recall.stage = "done" =>
         \A i \in DOMAIN recall.semantic : recall.semantic[i].id \notin recall.retracted

RecallInv == PointsAnswered /\ RetractedStays /\ ArmsSpareRetracted

\* A step other than an arm's leaves the recall, and takes no retraction back.
LEMMA RecallKept ==
    ASSUME RecallInv, PointsAnswered', Retracted \subseteq Retracted',
           recall' = Returned \/ recall' = recall
    PROVE  RecallInv'
<1>1. CASE recall' = recall
  BY <1>1 DEF RecallInv, RetractedStays, ArmsSpareRetracted
<1>2. CASE recall' # recall
  <2>1. recall'.stage = "idle"
    BY <1>2 DEF Returned, NoRecall
  <2> QED BY <2>1 DEF RecallInv, RetractedStays, ArmsSpareRetracted
<1> QED BY <1>1, <1>2

\* A commit between the two arms, or before or after them: its rows are not done
\* yet, and an own delete row that is done is about a record retracted before.
LEMMA CommitSpares ==
    ASSUME StoreInv, RecallInv, points \subseteq Record, StoreNext,
           UNCHANGED indexVars, recall' = Returned
    PROVE  RecallInv'
<1>1. StoreEffect
  BY StoreStepEffect
<1>2. Retracted \subseteq Retracted'
  BY <1>1 DEF StoreEffect, Retracted, DeletesOf
<1>3. PointsAnswered'
  <2> SUFFICES ASSUME NEW r \in points, r \in Retracted'
               PROVE  r \in Retracted
    BY DEF indexVars, RecallInv, PointsAnswered
  <2>1. PICK d \in outbox' : /\ d.record = r /\ d.op = "delete" /\ Done(d)
                             /\ d.tenant = records'[r].tenant
    BY DEF Retracted, DeletesOf
  <2>2. d \in outbox
    BY <1>1, <2>1 DEF StoreEffect, Done
  <2>3. Exists(r) /\ records'[r].tenant = records[r].tenant
    BY <1>1, <2>1, <2>2 DEF StoreEffect, StoreInv, OutboxKeys
  <2>4. ~Active(r)
    BY <2>1, <2>2, <2>3 DEF StoreInv, OutboxOwners
  <2> QED BY <2>1, <2>2, <2>3, <2>4 DEF Retracted, DeletesOf
<1> QED BY <1>2, <1>3, RecallKept

\* An attempt changes no row but its marks.
LEMMA AttemptKeepsStore ==
    ASSUME StoreInv, NEW x \in Unprocessed, IndexRow(x)
    PROVE  StoreInv'
<1> USE DEF StoreInv
<1>1. PICK y \in OutboxRow :
        /\ outbox' = (outbox \ {x}) \cup {y}
        /\ y.id = x.id /\ y.record = x.record /\ y.op = x.op /\ y.tenant = x.tenant
  BY AttemptShape
<1>2. /\ x \in outbox /\ records' = records /\ namespaces' = namespaces
      /\ \A r : (Active(r)' <=> Active(r)) /\ (Exists(r)' <=> Exists(r))
  BY DEF IndexRow, Unprocessed, Active, Exists
<1>3. StoreTypeOK'
  BY <1>1, <1>2 DEF StoreTypeOK
<1>4. OutboxKeys'
  BY <1>1, <1>2 DEF OutboxKeys
<1>5. OutboxOwners'
  BY <1>1, <1>2 DEF OutboxOwners
<1> QED BY <1>3, <1>4, <1>5

\* What the store's invariant says of the tables holds beside the rest.
LEMMA StoreInvStep ==
    ASSUME StoreInv, [Next]_vars
    PROVE  StoreInv'
<1>1. CASE [StoreNext]_storeVars
  BY <1>1, StoreStepEffect
<1>2. ASSUME NEW x \in Unprocessed, IndexRow(x) PROVE StoreInv'
  BY <1>2, AttemptKeepsStore
<1> QED BY <1>1, <1>2, StepKinds
           DEF ReindexDrops, ReindexPuts, KeywordArm, SemanticArm, vars, storeVars

\* The drainer's attempt at a row: a delete row is done with its point gone, and
\* behind a done delete row an upsert adds no point.
LEMMA AttemptSpares ==
    ASSUME StoreInv, RecallInv, points \subseteq Record,
           NEW x \in Unprocessed, IndexRow(x)
    PROVE  RecallInv' /\ points' \subseteq Record
<1> USE DEF StoreInv
<1>1. PICK y \in OutboxRow :
        /\ outbox' = (outbox \ {x}) \cup {y}
        /\ y.id = x.id /\ y.record = x.record /\ y.op = x.op /\ y.tenant = x.tenant
        /\ Done(y) => points' \in Effects(x)
        /\ points' \in Effects(x) \cup {points}
  BY AttemptShape
<1>2. /\ x.record \in Record /\ x \in outbox /\ ~Done(x)
      /\ records' = records /\ recall' = Returned
      /\ restored' = restored \cap points'
  BY DEF IndexRow, Answered, Unprocessed, StoreTypeOK, OutboxRow, Done
<1>3. \A r : (Active(r)' <=> Active(r)) /\ (Exists(r)' <=> Exists(r))
  BY <1>2 DEF Active, Exists
<1>5. points' \subseteq points \cup {x.record}
  BY <1>1 DEF Effects
<1>6. ASSUME x.record \in points' \ points
      PROVE  x.op # "delete" /\ \A d \in DeletesOf(x.record) : ~d.processed
  BY <1>1, <1>6 DEF Effects
<1>7. Retracted \subseteq Retracted'
  <2> SUFFICES ASSUME NEW r \in Retracted PROVE r \in Retracted'
    OBVIOUS
  <2>1. PICK d \in DeletesOf(r) : Done(d)
    BY DEF Retracted
  <2>2. d \in DeletesOf(r)'
    BY <1>1, <1>2, <2>1 DEF DeletesOf
  <2> QED BY <1>3, <2>1, <2>2 DEF Retracted
<1>8. PointsAnswered'
  <2> SUFFICES ASSUME NEW r \in points', r \in Retracted' PROVE r \in restored
    BY <1>2 DEF PointsAnswered
  <2>1. PICK d \in DeletesOf(r)' : Done(d)
    BY DEF Retracted, Done
  <2>2. CASE d = y
    <3>1. x.op = "delete" /\ x.record = r /\ points' = points \ {r}
      BY <1>1, <2>1, <2>2 DEF DeletesOf, Effects
    <3> QED BY <3>1
  <2>3. CASE d # y
    <3>1. d \in DeletesOf(r)
      BY <1>1, <1>2, <2>1, <2>3 DEF DeletesOf
    <3>2. r \in points
      BY <1>5, <1>6, <2>1, <3>1 DEF Done
    <3>3. r \in Retracted
      BY <1>3, <2>1, <3>1 DEF Retracted
    <3> QED BY <3>2, <3>3 DEF RecallInv, PointsAnswered
  <2> QED BY <2>2, <2>3
<1> QED BY <1>2, <1>5, <1>7, <1>8, RecallKept

\* A rebuild: a point it puts in is an active record's, or noted.
LEMMA ReindexSpares ==
    ASSUME RecallInv, points \subseteq Record,
           ReindexDrops \/ \E r \in Record : ReindexPuts(r)
    PROVE  RecallInv' /\ points' \subseteq Record
<1>1. records' = records /\ outbox' = outbox /\ recall' = Returned
  BY DEF ReindexDrops, ReindexPuts, Answered
<1>2. Retracted' = Retracted
  BY <1>1 DEF Retracted, DeletesOf, Active, Exists
<1>3. PointsAnswered' /\ points' \subseteq Record
  <2>1. CASE ReindexDrops
    BY <2>1 DEF ReindexDrops, PointsAnswered
  <2>2. ASSUME NEW r \in Record, ReindexPuts(r)
        PROVE  PointsAnswered' /\ points' \subseteq Record
    <3>1. Active(r) => r \notin Retracted
      BY DEF Retracted
    <3> QED BY <1>2, <2>2, <3>1 DEF ReindexPuts, RecallInv, PointsAnswered
  <2> QED BY <2>1, <2>2
<1> QED BY <1>1, <1>2, <1>3, RecallKept

\* A ranking lists elements of its set.
LEMMA RankingsList ==
    ASSUME NEW S, NEW k, NEW f \in Rankings(S, k), NEW i \in DOMAIN f
    PROVE  f[i] \in S
BY DEF Rankings

\* The keyword arm finds active records, and what was retracted is not.
LEMMA KeywordArmSpares ==
    ASSUME RecallInv, NEW q \in Query, KeywordArm(q)
    PROVE  RecallInv'
<1>1. PICK f \in KeywordRankings(q) \cup {<<>>} :
        recall' = [stage |-> "keyword", query |-> q, retracted |-> Retracted,
                   keyword |-> [i \in DOMAIN f |-> Hit(f[i])]]
  BY DEF KeywordArm
<1>2. UNCHANGED <<records, outbox, points, restored>>
  BY DEF KeywordArm, indexVars
<1>3. \A i \in DOMAIN f : f[i] \in Matching(q)
  <2> SUFFICES ASSUME NEW i \in DOMAIN f PROVE f[i] \in Matching(q)
    OBVIOUS
  <2>1. f \in KeywordRankings(q)
    BY <1>1
  <2>2. PICK S \in SUBSET Matching(q) : f \in Rankings(S, Clamp(q.limit))
    BY <2>1, Zenon DEF KeywordRankings
  <2> QED BY <2>2, RankingsList
<1>4. Retracted' = Retracted
  BY <1>2 DEF Retracted, DeletesOf, Active, Exists
<1>5. PointsAnswered'
  BY <1>2, <1>4 DEF RecallInv, PointsAnswered
<1>6. RetractedStays'
  BY <1>1, <1>4 DEF RetractedStays
<1>7. ArmsSpareRetracted'
  <2>1. recall'.stage = "keyword" /\ recall'.retracted = Retracted
    BY <1>1
  <2>2. recall'.keyword = [i \in DOMAIN f |-> Hit(f[i])]
    BY <1>1
  <2>3. \A i \in DOMAIN f : Hit(f[i]).id = f[i] /\ f[i] \notin Retracted
    BY <1>3 DEF Hit, Matching, Retracted
  <2> QED BY <2>1, <2>2, <2>3 DEF ArmsSpareRetracted
<1> QED BY <1>5, <1>6, <1>7 DEF RecallInv

\* The semantic arm finds points, and what was retracted has none but reindex's.
LEMMA SemanticArmSpares ==
    ASSUME RecallInv, SemanticArm
    PROVE  RecallInv'
<1> DEFINE q == recall.query
           semantic(f) == [i \in DOMAIN f |-> Hit(f[i])]
<1>1. PICK f \in {<<>>} \cup (IF q.query = "blank" THEN {}
                              ELSE Rankings(Searchable(q), FetchK(q))) :
        /\ recall'.stage = "done" /\ recall'.retracted = recall.retracted \ restored
        /\ recall'.keyword = recall.keyword /\ recall'.semantic = semantic(f)
  BY DEF SemanticArm
<1>2. recall.stage = "keyword" /\ UNCHANGED <<records, outbox, points, restored>>
  BY DEF SemanticArm, indexVars
<1>3. \A i \in DOMAIN f : f[i] \in points
  <2> SUFFICES ASSUME NEW i \in DOMAIN f PROVE f[i] \in points
    OBVIOUS
  <2>1. f \in Rankings(Searchable(q), FetchK(q))
    BY <1>1
  <2> QED BY <2>1, RankingsList DEF Searchable
<1>4. \A i \in DOMAIN f :
        Hit(f[i]).id = f[i] /\ f[i] \notin recall.retracted \ restored
  BY <1>2, <1>3 DEF Hit, RecallInv, RetractedStays, PointsAnswered
<1>5. Retracted' = Retracted
  BY <1>2 DEF Retracted, DeletesOf, Active, Exists
<1>6. PointsAnswered' /\ RetractedStays'
  BY <1>1, <1>2, <1>5 DEF RecallInv, PointsAnswered, RetractedStays
<1>7. ArmsSpareRetracted'
  BY <1>1, <1>2, <1>4 DEF RecallInv, ArmsSpareRetracted
<1> QED BY <1>6, <1>7 DEF RecallInv

\* Once a retraction has reached the index, no recall that begins later gets the
\* record from either store, whatever else is stored, retracted, indexed, given
\* up or rebuilt between its two arms; unless a reindex put the point back.
THEOREM RetractionReachesBothArms == Spec => []ArmsSpareRetracted
<1> DEFINE Inv == StoreInv /\ RecallInv /\ points \subseteq Record
<1>1. Init => Inv
  <2> SUFFICES ASSUME Init PROVE Inv
    OBVIOUS
  <2>1. StoreInv
    BY DEF Init, StoreInv, StoreInit, StoreTypeOK, OutboxKeys, OutboxOwners
  <2>2. recall.stage = "idle" /\ points = {}
    BY DEF Init, NoRecall
  <2> QED
    BY <2>1, <2>2 DEF RecallInv, PointsAnswered, RetractedStays, ArmsSpareRetracted
<1>2. Inv /\ [Next]_vars => Inv'
  <2> SUFFICES ASSUME Inv, [Next]_vars PROVE RecallInv' /\ points' \subseteq Record
    BY StoreInvStep
  <2>2. CASE StoreNext /\ UNCHANGED indexVars /\ recall' = Returned
    BY <2>2, CommitSpares DEF indexVars
  <2>3. ASSUME NEW x \in Unprocessed, IndexRow(x)
        PROVE  RecallInv' /\ points' \subseteq Record
    BY <2>3, AttemptSpares
  <2>4. CASE ReindexDrops \/ \E r \in Record : ReindexPuts(r)
    BY <2>4, ReindexSpares
  <2>5. ASSUME NEW q \in Query, KeywordArm(q)
        PROVE  RecallInv' /\ points' \subseteq Record
    BY <2>5, KeywordArmSpares DEF KeywordArm, indexVars
  <2>6. CASE SemanticArm
    BY <2>6, SemanticArmSpares DEF SemanticArm, indexVars
  <2>7. CASE UNCHANGED vars
    <3>1. Retracted' = Retracted
      BY <2>7 DEF vars, Retracted, DeletesOf, Active, Exists
    <3> QED BY <2>7, <3>1 DEF vars, indexVars, RecallInv, PointsAnswered,
                              RetractedStays, ArmsSpareRetracted
  <2> QED BY <2>2, <2>3, <2>4, <2>5, <2>6, <2>7, StepKinds
<1>3. Inv => ArmsSpareRetracted
  BY DEF RecallInv
<1> QED BY <1>1, <1>2, <1>3, PTL DEF Spec

-----------------------------------------------------------------------------
(***************************************************************************)
(* What a recall is made of: two arms of hits of records, no longer than   *)
(* was asked for, of records recent enough for the clock of their store,   *)
(* and the fusion of the two.                                              *)
(***************************************************************************)
IsHitList(arm) == IsArm(arm, Record, Seq(Component))

KeywordMade ==
    recall.stage # "idle" =>
      /\ recall.query \in Query
      /\ IsHitList(recall.keyword)
      /\ Len(recall.keyword) <= Clamp(recall.query.limit)
      /\ \A r \in Found(recall.keyword) : CreatedAt[r] >= recall.query.since

AnswerMade ==
    recall.stage = "done" =>
      /\ IsHitList(recall.semantic)
      /\ Len(recall.semantic) <= FetchK(recall.query)
      /\ \A r \in Found(recall.semantic) : CreatedEpoch(r) >= SinceEpoch(recall.query)
      /\ recall.hits = Fuse(recall.keyword, recall.semantic, recall.query.prefix,
                            Clamp(recall.query.limit), UriOrder)

RecallMade ==
    /\ recall.stage \in {"idle", "keyword", "done"}
    /\ KeywordMade
    /\ AnswerMade

\* The tables besides the store's.
ColumnsTyped == columns \in [Record -> [importance : 0..100, confidence : 0..100]]

TablesTyped ==
    /\ ColumnsTyped
    /\ points \subseteq {r \in Record : Exists(r)}
    /\ restored \subseteq points
    /\ answer.confirm \in BOOLEAN

TInv == StoreInv /\ IInv /\ TablesTyped /\ RecallMade

\* A limit, clamped, and what a scoped recall fetches.
LEMMA Fetched ==
    ASSUME NEW q \in Query
    PROVE  Clamp(q.limit) \in Nat /\ FetchK(q) \in Nat
<1>1. Clamp(q.limit) \in Nat
  BY QueryAssumption DEF Clamp
<1> QED BY <1>1 DEF FetchK

\* A ranking of stored records, made into an arm.
ArmOf(f) == [i \in DOMAIN f |-> Hit(f[i])]

\* It is a list of hits, as long as the ranking.
LEMMA RankingToArm ==
    ASSUME StoreTypeOK, ColumnsTyped, NEW k \in Nat,
           NEW S \in SUBSET Record, \A r \in S : Exists(r),
           NEW f, f \in Rankings(S, k) \/ f = <<>>
    PROVE  /\ IsHitList(ArmOf(f))
           /\ Len(ArmOf(f)) <= k
           /\ Found(ArmOf(f)) \subseteq S
           /\ \A i \in 1..Len(ArmOf(f)) :
                ArmOf(f)[i].namespace = records[ArmOf(f)[i].id].namespace
<1>1. PICK arm : arm = ArmOf(f)
  OBVIOUS
<1>2. ASSUME NEW r \in S
      PROVE  Hit(r) \in ArmHit(Record, Seq(Component)) /\ Hit(r).id = r
  <2>1. records[r].namespace \in Seq(Component)
    BY NamespaceAssumption DEF StoreTypeOK, RecordRow, Exists
  <2>2. columns[r].importance \in 0..100
    BY DEF ColumnsTyped
  <2> QED BY <2>1, <2>2 DEF Hit, ArmHit
<1>3. PICK n \in Nat : n <= k /\ DOMAIN f = 1..n /\ \A i \in 1..n : f[i] \in S
  <2>1. CASE f = <<>>
    <3>1. DOMAIN f = 1..0 /\ 0 \in Nat /\ 0 <= k
      BY <2>1
    <3> QED BY <3>1
  <2>2. CASE f \in Rankings(S, k)
    <3>1. Cardinality(S) \in Nat
      BY RecordAssumption, FS_Subset, FS_CardinalityType
    <3>2. PICK m : /\ m = IF k < Cardinality(S) THEN k ELSE Cardinality(S)
                   /\ f \in [1..m -> S]
      BY <2>2 DEF Rankings
    <3>3. m \in Nat /\ m <= k
      BY <3>1, <3>2
    <3> QED BY <3>2, <3>3
  <2> QED BY <2>1, <2>2
<1>4. arm = [i \in 1..n |-> Hit(f[i])]
  BY <1>1, <1>3 DEF ArmOf
<1>5. ASSUME NEW i \in 1..n
      PROVE  Hit(f[i]) \in ArmHit(Record, Seq(Component)) /\ Hit(f[i]).id \in S
  BY <1>2, <1>3
<1>6. arm \in Seq(ArmHit(Record, Seq(Component))) /\ Len(arm) = n
  BY <1>4, <1>5
<1>7. Found(arm) \subseteq S
  BY <1>4, <1>5, <1>6 DEF Found
<1>8. \A i \in 1..Len(arm) : arm[i].namespace = records[arm[i].id].namespace
  BY <1>4, <1>6 DEF Hit
<1> QED BY <1>1, <1>3, <1>6, <1>7, <1>8 DEF IsHitList, IsArm

\* The keyword arm.
LEMMA KeywordArmMade ==
    ASSUME IInv, TablesTyped, NEW q \in Query, KeywordArm(q)
    PROVE  RecallMade'
<1>1. PICK f \in KeywordRankings(q) \cup {<<>>} :
        recall' = [stage |-> "keyword", query |-> q, retracted |-> Retracted,
                   keyword |-> ArmOf(f)]
  BY DEF KeywordArm, ArmOf
<1>2. PICK S \in SUBSET Matching(q) : f \in Rankings(S, Clamp(q.limit)) \/ f = <<>>
  BY Zenon DEF KeywordRankings
<1>3. S \in SUBSET Record /\ \A r \in S : Exists(r) /\ CreatedAt[r] >= q.since
  BY DEF Matching, Active
<1>4. Clamp(q.limit) \in Nat
  BY Fetched
<1>5. PICK arm : arm = ArmOf(f)
  OBVIOUS
<1>6. StoreTypeOK /\ ColumnsTyped
  BY DEF IInv, TablesTyped
<1>7. IsHitList(arm) /\ Len(arm) <= Clamp(q.limit) /\ Found(arm) \subseteq S
  <2>1. \A r \in S : Exists(r)
    BY <1>3
  <2> QED BY <1>2, <1>3, <1>4, <1>5, <1>6, <2>1, RankingToArm
<1>8. recall'.stage = "keyword" /\ recall'.query = q /\ recall'.keyword = arm
  BY <1>1, <1>5
<1> QED BY <1>3, <1>7, <1>8 DEF RecallMade, KeywordMade, AnswerMade

\* The semantic arm and the answer.
LEMMA SemanticArmMade ==
    ASSUME IInv, TablesTyped, RecallMade, SemanticArm
    PROVE  RecallMade'
<1>1. PICK q : q = recall.query
  OBVIOUS
<1>2. recall.stage = "keyword" /\ q \in Query
  BY <1>1 DEF SemanticArm, RecallMade, KeywordMade
<1>3. PICK f : /\ f \in Rankings(Searchable(q), FetchK(q)) \/ f = <<>>
               /\ recall' = [stage |-> "done", query |-> q,
                             retracted |-> recall.retracted \ restored,
                             keyword |-> recall.keyword,
                             semantic |-> ArmOf(f),
                             hits |-> Fuse(recall.keyword, ArmOf(f), q.prefix,
                                           Clamp(q.limit), UriOrder)]
  BY <1>1, Zenon DEF SemanticArm, ArmOf
<1>4. PICK arm : arm = ArmOf(f)
  OBVIOUS
<1>5. /\ Searchable(q) \in SUBSET Record
      /\ \A r \in Searchable(q) : Exists(r) /\ CreatedEpoch(r) >= SinceEpoch(q)
  BY DEF Searchable, TablesTyped
<1>6. StoreTypeOK /\ ColumnsTyped
  BY DEF IInv, TablesTyped
<1>7. /\ IsHitList(arm) /\ Len(arm) <= FetchK(q)
      /\ Found(arm) \subseteq Searchable(q)
  <2>1. FetchK(q) \in Nat /\ \A r \in Searchable(q) : Exists(r)
    BY <1>2, <1>5, Fetched
  <2> QED BY <1>3, <1>4, <1>5, <1>6, <2>1, RankingToArm
<1>8. /\ recall'.stage = "done" /\ recall'.query = recall.query
      /\ recall'.keyword = recall.keyword /\ recall'.semantic = arm
      /\ recall'.hits = Fuse(recall.keyword, arm, q.prefix, Clamp(q.limit), UriOrder)
  BY <1>1, <1>3, <1>4
<1>9. KeywordMade'
  BY <1>2, <1>8 DEF RecallMade, KeywordMade
<1>10. \A r \in Found(arm) : CreatedEpoch(r) >= SinceEpoch(q)
  BY <1>5, <1>7
<1>11. AnswerMade'
  BY <1>1, <1>7, <1>8, <1>10 DEF AnswerMade
<1> QED BY <1>8, <1>9, <1>11 DEF RecallMade

\* Every other step leaves the recall in progress as it is.
LEMMA ReturnedMade ==
    ASSUME RecallMade, recall' = Returned
    PROVE  RecallMade'
<1>1. CASE recall.stage = "done"
  <2>1. recall'.stage = "idle"
    BY <1>1 DEF Returned, NoRecall
  <2> QED BY <2>1 DEF RecallMade, KeywordMade, AnswerMade
<1>2. CASE recall.stage # "done"
  <2>1. recall' = recall
    BY <1>2 DEF Returned
  <2> QED BY <2>1 DEF RecallMade, KeywordMade, AnswerMade
<1> QED BY <1>1, <1>2

\* The numbers that validate_write lets through.
LEMMA AcceptedNumbers ==
    ASSUME NEW q \in Request, Decoded(q), Accepted(WriteOf(q))
    PROVE  WriteOf(q).importance \in 0..100 /\ WriteOf(q).confidence \in 0..100
<1> DEFINE w == WriteOf(q)
<1>1. w.confidence \in 0..100 /\ w.importance <= 100
  BY DEF Accepted
<1>2. ASSUME NEW n \in Int PROVE AsU8(n) \in Nat
  BY DEF AsU8
<1>3. w.importance \in Nat
  <2>1. CASE q.tool \in GuidedTool
    <3>1. q.tool \notin OwnClient
      BY <2>1 DEF GuidedTool, OwnClient
    <3>2. w.importance = AsU8(q.importance)
      BY <2>1 DEF WriteOf, GuidedWrite
    <3> QED BY <1>2, <3>1, <3>2, RequestAssumption
  <2>2. CASE q.tool \in OwnClient
    BY <2>2 DEF WriteOf, OwnWrite, OwnClient, GuidedTool
  <2>3. CASE q.tool \notin GuidedTool \cup OwnClient
    <3>1. w.importance = IF q.tool = "post" THEN q.importance ELSE AsU8(q.importance)
      BY <2>3 DEF WriteOf
    <3>2. q.tool = "post" => q.importance \in 0..255
      BY DEF Decoded
    <3>3. q.importance \in Int
      BY <2>3, RequestAssumption
    <3> HIDE DEF w
    <3> QED BY <1>2, <3>1, <3>2, <3>3
  <2> QED BY <2>1, <2>2, <2>3
<1> HIDE DEF w
<1>4. w.importance \in 0..100
  BY <1>1, <1>3
<1> QED BY <1>1, <1>4 DEF w

\* The drainer, the rebuild and the recalls leave the records alone.
LEMMA StoresOnly ==
    ASSUME [Next]_vars
    PROVE  StoreNext \/ UNCHANGED records
BY StepKinds DEF IndexRow, ReindexDrops, ReindexPuts, KeywordArm, SemanticArm, vars

\* What is stored stays stored.
LEMMA StoredStays ==
    ASSUME StoreTypeOK, [Next]_vars, NEW r \in Record, Exists(r)
    PROVE  Exists(r)'
<1>1. CASE UNCHANGED records
  BY <1>1 DEF Exists
<1>2. CASE StoreNext
  <2>1. PICK s \in RecordStatus : records'[r] = [records[r] EXCEPT !.status = s]
    BY <1>2, OneWayStep DEF LifeStep
  <2>2. records[r] \in RecordRow
    BY DEF StoreTypeOK, Exists
  <2>3. records'[r] \in RecordRow
    BY <2>1, <2>2 DEF RecordRow
  <2> QED BY <2>3, NoRowAssumption DEF Exists
<1> QED BY <1>1, <1>2, StoresOnly

\* A write gives a new record its numbers, and only it.
LEMMA RememberTables ==
    ASSUME IInv, TablesTyped, [Next]_vars, NEW q \in Request, Remember(q)
    PROVE  TablesTyped'
<1>1. PICK w : w = WriteOf(q)
  OBVIOUS
<1>2. w.importance \in 0..100 /\ w.confidence \in 0..100
  BY <1>1, AcceptedNumbers DEF Remember
<1>3. columns' = [r \in Record |->
         IF ~Exists(r) /\ records'[r] # NoRow
           THEN [importance |-> w.importance, confidence |-> w.confidence]
           ELSE columns[r]]
  BY <1>1 DEF Remember
<1>4. ColumnsTyped'
  BY <1>2, <1>3 DEF TablesTyped, ColumnsTyped
<1>5. UNCHANGED <<points, restored>> /\ answer' = NoAnswer
  BY DEF Remember, Answered, indexVars
<1>6. \A r \in points : r \in Record /\ Exists(r)'
  BY StoredStays DEF TablesTyped, IInv
<1> QED BY <1>4, <1>5, <1>6 DEF TablesTyped, NoAnswer

\* A row that is indexed, or a point put in by a rebuild, is about a record there
\* is.
LEMMA IndexTables ==
    ASSUME StoreInv, IInv, TablesTyped,
           \/ \E x \in Unprocessed : IndexRow(x)
           \/ ReindexDrops \/ \E r \in Record : ReindexPuts(r)
    PROVE  TablesTyped'
<1>1. records' = records /\ columns' = columns /\ answer' = NoAnswer
  BY DEF IndexRow, ReindexDrops, ReindexPuts, Answered
<1>2. \A r \in points' : r \in Record /\ Exists(r)
  <2>1. ASSUME NEW x \in Unprocessed, IndexRow(x)
        PROVE  \A r \in points' : r \in Record /\ Exists(r)
    <3>1. x.record \in Record /\ x \in outbox
      BY DEF Unprocessed, IInv, StoreTypeOK, OutboxRow
    <3>2. Exists(x.record)
      BY <3>1 DEF StoreInv, OutboxKeys
    <3>3. points' \in Effects(x) \cup {points}
      BY <2>1, AttemptShape DEF IInv
    <3> QED BY <3>1, <3>2, <3>3 DEF Effects, TablesTyped
  <2> QED BY <2>1 DEF ReindexDrops, ReindexPuts, TablesTyped
<1>3. restored' \subseteq points'
  BY DEF IndexRow, ReindexDrops, ReindexPuts, TablesTyped
<1>4. \A r \in points' : r \in Record /\ Exists(r)'
  BY <1>1, <1>2 DEF Exists
<1> QED BY <1>1, <1>3, <1>4 DEF TablesTyped, ColumnsTyped, NoAnswer

\* The tables and the recall keep their shape, whatever is called.
LEMMA ToolsInductive ==
    ASSUME TInv, [Next]_vars
    PROVE  TInv'
<1>1. StoreInv' /\ IInv'
  BY StoreInvStep, PlacedStep DEF TInv
<1> SUFFICES TablesTyped' /\ RecallMade'
  BY <1>1 DEF TInv
<1>2. ASSUME NEW q \in Request, Remember(q)
      PROVE  TablesTyped' /\ RecallMade'
  BY <1>2, RememberTables, ReturnedMade DEF TInv, Remember, Answered
<1>3. ASSUME NEW t \in Tenant, NEW s, NEW c \in BOOLEAN, ForgetTool(t, s, c)
      PROVE  TablesTyped' /\ RecallMade'
  <2>1. RecallMade'
    BY <1>3, ReturnedMade DEF TInv, ForgetTool
  <2>2. UNCHANGED <<columns, points, restored>> /\ answer'.confirm = c
    BY <1>3 DEF ForgetTool, indexVars
  <2>3. \A r \in points : r \in Record /\ Exists(r)'
    BY StoredStays DEF TInv, TablesTyped, IInv
  <2> QED BY <2>1, <2>2, <2>3 DEF TInv, TablesTyped, ColumnsTyped
<1>4. CASE \/ \E x \in Unprocessed : IndexRow(x)
           \/ ReindexDrops \/ \E r \in Record : ReindexPuts(r)
  <2>1. recall' = Returned
    BY <1>4 DEF IndexRow, ReindexDrops, ReindexPuts, Answered
  <2> QED BY <1>4, <2>1, IndexTables, ReturnedMade DEF TInv
<1>5. ASSUME NEW q \in Query, KeywordArm(q)
      PROVE  TablesTyped' /\ RecallMade'
  <2>1. RecallMade'
    BY <1>5, KeywordArmMade DEF TInv
  <2>2. UNCHANGED <<records, columns, points, restored>> /\ answer' = NoAnswer
    BY <1>5 DEF KeywordArm, indexVars
  <2> QED BY <2>1, <2>2 DEF TInv, TablesTyped, ColumnsTyped, Exists, NoAnswer
<1>6. CASE SemanticArm
  <2>1. RecallMade'
    BY <1>6, SemanticArmMade DEF TInv
  <2>2. UNCHANGED <<records, columns, points, restored>> /\ answer' = NoAnswer
    BY <1>6 DEF SemanticArm, indexVars
  <2> QED BY <2>1, <2>2 DEF TInv, TablesTyped, ColumnsTyped, Exists, NoAnswer
<1>7. CASE UNCHANGED vars
  BY <1>7 DEF vars, indexVars, TInv, TablesTyped, ColumnsTyped, Exists, RecallMade,
              KeywordMade, AnswerMade
<1> QED BY <1>2, <1>3, <1>4, <1>5, <1>6, <1>7, StepKinds

\* Initially there is nothing.
LEMMA ToolsInitially ==
    ASSUME Init
    PROVE  TInv
<1>1. IInv
  BY DEF Init, IInv, StoreInit, StoreTypeOK, Placed, Exists
<1>2. TablesTyped
  BY DEF Init, TablesTyped, ColumnsTyped, NoColumns, NoAnswer
<1>3. RecallMade
  BY DEF Init, RecallMade, KeywordMade, AnswerMade, NoRecall
<1>4. StoreInv
  BY DEF Init, StoreInv, StoreInit, StoreTypeOK, OutboxKeys, OutboxOwners
<1> QED BY <1>1, <1>2, <1>3, <1>4 DEF TInv

\* Types: whatever number a client sent, a record in the table has the
\* importance and the confidence the CHECK constraints ask for.
THEOREM ToolsTypeCorrect == Spec => []TypeOK
<1>1. Init => TInv
  BY ToolsInitially
<1>2. TInv /\ [Next]_vars => TInv'
  BY ToolsInductive
<1>3. TInv => TypeOK
  <2> SUFFICES ASSUME TInv PROVE TypeOK
    OBVIOUS
  <2>1. StoreTypeOK
    BY DEF TInv, IInv
  <2>2. recall.stage # "idle" =>
          recall.query \in Query /\ Found(recall.keyword) \subseteq Record
    BY FoundFinite DEF TInv, RecallMade, KeywordMade, IsHitList
  <2> QED BY <2>1, <2>2 DEF TypeOK, TInv, TablesTyped, ColumnsTyped, RecallMade
<1> QED BY <1>1, <1>2, <1>3, PTL DEF Spec

\* The invariant of the recall holds.
LEMMA ToolsInvariant == Spec => []TInv
<1>1. Init => TInv
  BY ToolsInitially
<1>2. TInv /\ [Next]_vars => TInv'
  BY ToolsInductive
<1> QED BY <1>1, <1>2, PTL DEF Spec

-----------------------------------------------------------------------------
(* What recall answers.                                                      *)

\* What the lemmas about Fuse ask of the two arms of a recall that is over.
LEMMA AnswerParts ==
    ASSUME TInv, recall.stage = "done"
    PROVE  /\ IsArm(recall.keyword, Record, Seq(Component))
           /\ IsArm(recall.semantic, Record, Seq(Component))
           /\ Clamp(recall.query.limit) \in Nat
           /\ IsOrder(UriOrder, Record)
           /\ recall.hits = Fuse(recall.keyword, recall.semantic, recall.query.prefix,
                                 Clamp(recall.query.limit), UriOrder)
<1>1. recall.query \in Query
  BY DEF TInv, RecallMade, KeywordMade
<1>2. Clamp(recall.query.limit) \in Nat
  BY <1>1, Fetched
<1>3. IsOrder(UriOrder, Record)
  BY UriOrderAssumption DEF IsOrder
<1> QED BY <1>2, <1>3 DEF TInv, RecallMade, KeywordMade, AnswerMade, IsHitList

\* What was answered was found by the keyword arm, or by the semantic arm and
\* under the prefix.
LEMMA AnswerFound ==
    ASSUME TInv, recall.stage = "done", NEW r \in Found(recall.hits)
    PROVE  r \in Record /\ (r \in Found(recall.keyword) \/ r \in Found(recall.semantic))
<1>1. PICK q : q = recall.query
  OBVIOUS
<1>2. /\ IsArm(recall.keyword, Record, Seq(Component))
      /\ IsArm(recall.semantic, Record, Seq(Component))
      /\ Clamp(q.limit) \in Nat /\ IsOrder(UriOrder, Record)
      /\ recall.hits = Fuse(recall.keyword, recall.semantic, q.prefix,
                            Clamp(q.limit), UriOrder)
  BY <1>1, AnswerParts
<1>3. r \in Found(recall.keyword) \/ r \in Found(InScope(recall.semantic, q.prefix))
  BY <1>2, AnsweredIsFound
<1>4. r \in Found(InScope(recall.semantic, q.prefix)) => r \in Found(recall.semantic)
  <2> SUFFICES ASSUME r \in Found(InScope(recall.semantic, q.prefix))
               PROVE  r \in Found(recall.semantic)
    OBVIOUS
  <2>1. PICK i \in 1..Len(recall.semantic) : recall.semantic[i].id = r
    BY <1>2, FoundInScope
  <2> QED BY <2>1 DEF Found
<1>5. Found(recall.keyword) \subseteq Record /\ Found(recall.semantic) \subseteq Record
  BY <1>2, FoundFinite
<1> QED BY <1>3, <1>4, <1>5

\* The answer of recall is a ranking: one hit for each record found, in the order
\* of score, importance and address, cut at the limit, and nothing left out that
\* should have come before what was kept.
AnswerIsRanked ==
    recall.stage = "done" =>
      IsHead(recall.hits,
             AllFused(recall.keyword, InScope(recall.semantic, recall.query.prefix)),
             Clamp(recall.query.limit), UriOrder)

\* However the two arms were filled, and whatever happened between them, recall
\* answers with the head of the ranking of all they found.
THEOREM RecallRanks == Spec => []AnswerIsRanked
<1>1. TInv => AnswerIsRanked
  <2> SUFFICES ASSUME TInv, recall.stage = "done"
               PROVE  IsHead(recall.hits,
                             AllFused(recall.keyword,
                                      InScope(recall.semantic, recall.query.prefix)),
                             Clamp(recall.query.limit), UriOrder)
    BY DEF AnswerIsRanked
  <2>1. /\ IsArm(recall.keyword, Record, Seq(Component))
        /\ IsArm(recall.semantic, Record, Seq(Component))
        /\ Clamp(recall.query.limit) \in Nat /\ IsOrder(UriOrder, Record)
        /\ recall.hits = Fuse(recall.keyword, recall.semantic, recall.query.prefix,
                              Clamp(recall.query.limit), UriOrder)
    BY AnswerParts
  <2> QED BY <2>1, FuseRanks
<1> QED BY <1>1, ToolsInvariant, PTL

\* Once a delete row of a retracted record is processed, and not given up, no
\* recall that begins later serves the record, unless a reindex put it back.
THEOREM RetractionReachesRecall == Spec => []RetractedIsNotServed
<1>1. TInv /\ ArmsSpareRetracted => RetractedIsNotServed
  <2> SUFFICES ASSUME TInv, ArmsSpareRetracted, recall.stage = "done",
                      NEW r \in Found(recall.hits)
               PROVE  r \notin recall.retracted
    BY DEF RetractedIsNotServed
  <2>1. r \in Found(recall.keyword) \/ r \in Found(recall.semantic)
    BY AnswerFound
  <2>2. /\ Len(recall.keyword) \in Nat /\ DOMAIN recall.keyword = 1..Len(recall.keyword)
        /\ Len(recall.semantic) \in Nat /\ DOMAIN recall.semantic = 1..Len(recall.semantic)
    BY AnswerParts DEF IsArm
  <2>3. CASE r \in Found(recall.keyword)
    <3>1. PICK i \in 1..Len(recall.keyword) : recall.keyword[i].id = r
      BY <2>3 DEF Found
    <3> QED BY <2>2, <3>1 DEF ArmsSpareRetracted
  <2>4. CASE r \in Found(recall.semantic)
    <3>1. PICK i \in 1..Len(recall.semantic) : recall.semantic[i].id = r
      BY <2>4 DEF Found
    <3> QED BY <2>2, <3>1 DEF ArmsSpareRetracted
  <2> QED BY <2>1, <2>3, <2>4
<1> QED BY <1>1, ToolsInvariant, RetractionReachesBothArms, PTL

\* Rounding to whole seconds up on one side and down on the other.
LEMMA Rounding ==
    ASSUME NEW c \in Nat, NEW since \in Int
    PROVE  /\ c >= since => (c + 5) \div 10 >= since \div 10
           /\ (c + 5) \div 10 >= since \div 10 => c + 15 > since
OBVIOUS

\* The two arms agree on "since" up to a second and a half: what the keyword arm
\* would show is not hidden from the semantic arm once it has its point, and no
\* recall serves a record much older than asked for.
THEOREM SinceAgrees == Spec => []ArmsAgreeOnSince
<1>1. ASSUME NEW q \in Query
      PROVE  points \cap Matching(q) \subseteq Searchable(q)
  <2> SUFFICES ASSUME NEW r \in points, r \in Matching(q)
               PROVE  CreatedEpoch(r) >= SinceEpoch(q)
    BY DEF Matching, Searchable
  <2>1. CreatedAt[r] \in Nat /\ q.since \in Int /\ CreatedAt[r] >= q.since
    BY CreatedAtAssumption, QueryAssumption DEF Matching
  <2>2. (CreatedAt[r] + 5) \div 10 >= q.since \div 10
    BY <2>1, Rounding
  <2> QED BY <2>2 DEF CreatedEpoch, SinceEpoch
<1>2. TInv => ArmsAgreeOnSince
  <2> SUFFICES ASSUME TInv, recall.stage = "done", NEW r \in Found(recall.hits)
               PROVE  CreatedAt[r] + 15 > recall.query.since
    BY <1>1 DEF ArmsAgreeOnSince
  <2>1. r \in Record /\ (r \in Found(recall.keyword) \/ r \in Found(recall.semantic))
    BY AnswerFound
  <2>2. recall.query \in Query
    BY DEF TInv, RecallMade, KeywordMade
  <2>3. CreatedAt[r] \in Nat /\ recall.query.since \in Int
    BY <2>1, <2>2, CreatedAtAssumption, QueryAssumption
  <2>4. CASE r \in Found(recall.keyword)
    <3>1. CreatedAt[r] >= recall.query.since
      BY <2>4 DEF TInv, RecallMade, KeywordMade
    <3> QED BY <2>3, <3>1
  <2>5. CASE r \in Found(recall.semantic)
    <3>1. CreatedEpoch(r) >= SinceEpoch(recall.query)
      BY <2>5 DEF TInv, RecallMade, AnswerMade
    <3>2. (CreatedAt[r] + 5) \div 10 >= recall.query.since \div 10
      BY <3>1 DEF CreatedEpoch, SinceEpoch
    <3> QED BY <2>3, <3>2, Rounding
  <2> QED BY <2>1, <2>4, <2>5
<1> QED BY <1>2, ToolsInvariant, PTL

\* A semantic hit dropped for its namespace leaves no trace in any answer.
THEOREM DropsLeaveNoTrace == Spec => []DroppedHitsLeaveNoTrace
<1>1. TInv => DroppedHitsLeaveNoTrace
  BY AnswerParts, DroppedHitsDoNotCount DEF DroppedHitsLeaveNoTrace
<1> QED BY <1>1, ToolsInvariant, PTL

\* Whatever the limits asked for, a record found by one shallow arm alone is not
\* ranked above one found by both.
THEOREM BoostIsAdvisory == Spec => []BothArmsFirst
<1>1. TInv => BothArmsFirst
  <2> SUFFICES ASSUME TInv, recall.stage = "done",
                      Len(recall.keyword) <= 54, Len(recall.semantic) <= 54,
                      NEW i \in 1..Len(recall.hits), NEW j \in 1..Len(recall.hits),
                      Cardinality(recall.hits[i].arms) = 1,
                      Cardinality(recall.hits[j].arms) = 2
               PROVE  j < i
    BY DEF BothArmsFirst
  <2>1. PICK q : q = recall.query
    OBVIOUS
  <2>2. /\ IsArm(recall.keyword, Record, Seq(Component))
        /\ IsArm(recall.semantic, Record, Seq(Component))
        /\ Clamp(q.limit) \in Nat /\ IsOrder(UriOrder, Record)
        /\ recall.hits = Fuse(recall.keyword, recall.semantic, q.prefix,
                              Clamp(q.limit), UriOrder)
    BY <2>1, AnswerParts
  <2>3. /\ IsShallow(recall.keyword, Record, Seq(Component))
        /\ IsShallow(recall.semantic, Record, Seq(Component))
    BY <2>2 DEF IsShallow
  <2> QED BY <2>2, <2>3, BothArmsLead
<1> QED BY <1>1, ToolsInvariant, PTL

-----------------------------------------------------------------------------
(***************************************************************************)
(* Whose records recall answers with.  A record's tenant, namespace and    *)
(* kind never change, so what a store filtered on when it was asked still  *)
(* holds when the answer is made, whatever was written in between.         *)
(***************************************************************************)

\* A record that answers q.
Fits(q, r) ==
    /\ r \in Record /\ Exists(r)
    /\ records[r].tenant = q.tenant
    /\ KindFits(q, r)

ArmsFit ==
    /\ recall.stage # "idle" =>
         \A r \in Found(recall.keyword) :
           /\ Fits(recall.query, r)
           /\ StartsWith(records[r].namespace, recall.query.prefix)
    /\ recall.stage = "done" =>
         \A i \in 1..Len(recall.semantic) :
           /\ Fits(recall.query, recall.semantic[i].id)
           /\ recall.semantic[i].namespace = records[recall.semantic[i].id].namespace

\* No recall serves a record of another tenant, of another kind than asked for, or
\* from outside the namespace asked for.
AnswerInScope ==
    recall.stage = "done" =>
      \A r \in Found(recall.hits) :
        /\ Fits(recall.query, r)
        /\ StartsWith(records[r].namespace, recall.query.prefix)

\* What identifies a stored record stays.
LEMMA IdentityStays ==
    ASSUME StoreTypeOK, [Next]_vars, NEW r \in Record, Exists(r)
    PROVE  /\ Exists(r)'
           /\ records'[r].tenant = records[r].tenant
           /\ records'[r].namespace = records[r].namespace
           /\ KindOf(r)' = KindOf(r)
<1>1. Exists(r)'
  BY StoredStays
<1>2. CASE UNCHANGED records
  BY <1>1, <1>2 DEF KindOf
<1>3. CASE StoreNext
  <2>1. PICK s \in RecordStatus : records'[r] = [records[r] EXCEPT !.status = s]
    BY <1>3, OneWayStep DEF LifeStep
  <2>2. records[r] \in RecordRow
    BY DEF StoreTypeOK, Exists
  <2>3. /\ records'[r].tenant = records[r].tenant
        /\ records'[r].namespace = records[r].namespace
        /\ records'[r].title = records[r].title
    BY <2>1, <2>2 DEF RecordRow
  <2> QED BY <1>1, <2>3 DEF KindOf
<1> QED BY <1>2, <1>3, StoresOnly

\* So does whether it answers.
LEMMA FitStays ==
    ASSUME StoreTypeOK, [Next]_vars, NEW q, NEW r, Fits(q, r)
    PROVE  Fits(q, r)' /\ records'[r].namespace = records[r].namespace
<1>1. r \in Record /\ Exists(r)
  BY DEF Fits
<1>2. /\ Exists(r)' /\ records'[r].tenant = records[r].tenant
      /\ records'[r].namespace = records[r].namespace /\ KindOf(r)' = KindOf(r)
  BY <1>1, IdentityStays
<1> QED BY <1>1, <1>2 DEF Fits, KindFits

\* The arms of a recall that goes on, or of the answer that was given.
LEMMA ReturnedFits ==
    ASSUME TInv, ArmsFit, [Next]_vars, recall' = Returned \/ recall' = recall
    PROVE  ArmsFit'
<1>1. StoreTypeOK
  BY DEF TInv, IInv
<1>2. CASE recall' = recall
  <2>1. ASSUME recall.stage # "idle", NEW r \in Found(recall.keyword)
        PROVE  /\ Fits(recall.query, r)'
               /\ StartsWith(records'[r].namespace, recall.query.prefix)
    <3>1. Fits(recall.query, r) /\ StartsWith(records[r].namespace, recall.query.prefix)
      BY <2>1 DEF ArmsFit
    <3>2. PICK q : q = recall.query
      OBVIOUS
    <3>3. Fits(q, r)' /\ records'[r].namespace = records[r].namespace
      BY <1>1, <3>1, <3>2, FitStays
    <3> QED BY <1>2, <3>1, <3>2, <3>3 DEF Fits, KindFits
  <2>2. ASSUME recall.stage = "done", NEW i \in 1..Len(recall.semantic)
        PROVE  /\ Fits(recall.query, recall.semantic[i].id)'
               /\ recall.semantic[i].namespace
                    = records'[recall.semantic[i].id].namespace
    <3>1. /\ Fits(recall.query, recall.semantic[i].id)
          /\ recall.semantic[i].namespace = records[recall.semantic[i].id].namespace
      BY <2>2 DEF ArmsFit
    <3>2. PICK q, r : q = recall.query /\ r = recall.semantic[i].id
      OBVIOUS
    <3>3. Fits(q, r)' /\ records'[r].namespace = records[r].namespace
      BY <1>1, <3>1, <3>2, FitStays
    <3> QED BY <1>2, <3>1, <3>2, <3>3 DEF Fits, KindFits
  <2> QED BY <1>2, <2>1, <2>2 DEF ArmsFit
<1>3. CASE recall' = Returned /\ recall.stage = "done"
  <2>1. recall'.stage = "idle"
    BY <1>3 DEF Returned, NoRecall
  <2> QED BY <2>1 DEF ArmsFit
<1>4. CASE recall' = Returned /\ recall.stage # "done"
  BY <1>2, <1>4 DEF Returned
<1> QED BY <1>2, <1>3, <1>4

\* The keyword arm finds records that fit.
LEMMA KeywordArmFits ==
    ASSUME TInv, NEW q \in Query, KeywordArm(q)
    PROVE  ArmsFit'
<1>1. PICK f \in KeywordRankings(q) \cup {<<>>} :
        recall' = [stage |-> "keyword", query |-> q, retracted |-> Retracted,
                   keyword |-> ArmOf(f)]
  BY DEF KeywordArm, ArmOf
<1>2. PICK S \in SUBSET Matching(q) : f \in Rankings(S, Clamp(q.limit)) \/ f = <<>>
  BY Zenon DEF KeywordRankings
<1>3. \A r \in S : Fits(q, r) /\ StartsWith(records[r].namespace, q.prefix)
  BY DEF Matching, Active, Fits
<1>4. PICK arm : arm = ArmOf(f)
  OBVIOUS
<1>5. Found(arm) \subseteq S
  <2>1. S \in SUBSET Record /\ \A r \in S : Exists(r)
    BY <1>3 DEF Fits
  <2>2. StoreTypeOK /\ ColumnsTyped
    BY DEF TInv, IInv, TablesTyped
  <2> QED BY <1>2, <1>4, <2>1, <2>2, Fetched, RankingToArm
<1>6. recall'.stage = "keyword" /\ recall'.query = q /\ recall'.keyword = arm
  BY <1>1, <1>4
<1>7. UNCHANGED records
  BY DEF KeywordArm
<1>8. \A r \in S : Fits(q, r)' /\ StartsWith(records'[r].namespace, q.prefix)
  BY <1>3, <1>7 DEF Fits, KindFits, KindOf, Exists
<1>9. \A r \in Found(arm) : Fits(q, r)' /\ StartsWith(records'[r].namespace, q.prefix)
  BY <1>5, <1>8
<1> QED BY <1>6, <1>9 DEF ArmsFit, Fits, KindFits

\* So does the semantic arm, the namespace aside.
LEMMA SemanticArmFits ==
    ASSUME TInv, ArmsFit, SemanticArm
    PROVE  ArmsFit'
<1>1. PICK q : q = recall.query
  OBVIOUS
<1>2. recall.stage = "keyword" /\ q \in Query
  BY <1>1 DEF SemanticArm, TInv, RecallMade, KeywordMade
<1>3. PICK f : /\ f \in Rankings(Searchable(q), FetchK(q)) \/ f = <<>>
               /\ recall' = [stage |-> "done", query |-> q,
                             retracted |-> recall.retracted \ restored,
                             keyword |-> recall.keyword,
                             semantic |-> ArmOf(f),
                             hits |-> Fuse(recall.keyword, ArmOf(f), q.prefix,
                                           Clamp(q.limit), UriOrder)]
  BY <1>1, Zenon DEF SemanticArm, ArmOf
<1>4. \A r \in Searchable(q) : Fits(q, r)
  BY DEF Searchable, TInv, TablesTyped, Fits
<1>5. PICK arm : arm = ArmOf(f)
  OBVIOUS
<1>6. /\ Found(arm) \subseteq Searchable(q)
      /\ \A i \in 1..Len(arm) : arm[i].namespace = records[arm[i].id].namespace
  <2>1. Searchable(q) \in SUBSET Record /\ \A r \in Searchable(q) : Exists(r)
    BY <1>4 DEF Fits
  <2>2. StoreTypeOK /\ ColumnsTyped /\ FetchK(q) \in Nat
    BY <1>2, Fetched DEF TInv, IInv, TablesTyped
  <2>3. f \in Rankings(Searchable(q), FetchK(q)) \/ f = <<>>
    BY <1>3
  <2>4. PICK S, k : S = Searchable(q) /\ k = FetchK(q)
    OBVIOUS
  <2> QED BY <1>5, <2>1, <2>2, <2>3, <2>4, RankingToArm
<1>7. UNCHANGED records
  BY DEF SemanticArm
<1>8. \A r : Fits(q, r) => Fits(q, r)'
  BY <1>7 DEF Fits, KindFits, KindOf, Exists
<1>9. ASSUME NEW r \in Found(recall.keyword)
      PROVE  Fits(q, r)' /\ StartsWith(records'[r].namespace, q.prefix)
  BY <1>1, <1>2, <1>7, <1>8 DEF ArmsFit
<1>10. ASSUME NEW i \in 1..Len(arm)
       PROVE  /\ Fits(q, arm[i].id)'
              /\ arm[i].namespace = records'[arm[i].id].namespace
  <2>1. arm[i].id \in Found(arm)
    BY DEF Found
  <2> QED BY <1>4, <1>6, <1>7, <1>8, <2>1
<1>11. /\ recall'.stage = "done" /\ recall'.query = q
       /\ recall'.keyword = recall.keyword /\ recall'.semantic = arm
  BY <1>3, <1>5
<1> QED BY <1>9, <1>10, <1>11 DEF ArmsFit, Fits, KindFits

\* Recall answers with records of the caller's tenant, of the kind and under the
\* namespace asked for, though the two stores are asked at different times and
\* Qdrant knows nothing of namespaces.
THEOREM RecallStaysInScope == Spec => []AnswerInScope
<1>1. Init => ArmsFit
  BY DEF Init, NoRecall, ArmsFit
<1>2. TInv /\ ArmsFit /\ [Next]_vars => ArmsFit'
  <2> SUFFICES ASSUME TInv, ArmsFit, [Next]_vars PROVE ArmsFit'
    OBVIOUS
  <2>1. ASSUME NEW q \in Query, KeywordArm(q) PROVE ArmsFit'
    BY <2>1, KeywordArmFits
  <2>2. CASE SemanticArm
    BY <2>2, SemanticArmFits
  <2>3. CASE recall' = Returned \/ recall' = recall
    BY <2>3, ReturnedFits
  <2> QED BY <2>1, <2>2, <2>3, Zenon
          DEF Next, vars, Remember, ForgetTool, IndexRow, ReindexDrops, ReindexPuts, Answered
<1>3. TInv /\ ArmsFit => AnswerInScope
  <2> SUFFICES ASSUME TInv, ArmsFit, recall.stage = "done", NEW r \in Found(recall.hits)
               PROVE  /\ Fits(recall.query, r)
                      /\ StartsWith(records[r].namespace, recall.query.prefix)
    BY DEF AnswerInScope
  <2>1. PICK q : q = recall.query
    OBVIOUS
  <2>2. /\ IsArm(recall.keyword, Record, Seq(Component))
        /\ IsArm(recall.semantic, Record, Seq(Component))
        /\ Clamp(q.limit) \in Nat /\ IsOrder(UriOrder, Record)
        /\ recall.hits = Fuse(recall.keyword, recall.semantic, q.prefix,
                              Clamp(q.limit), UriOrder)
    BY <2>1, AnswerParts
  <2>3. r \in Found(recall.keyword) \/ r \in Found(InScope(recall.semantic, q.prefix))
    BY <2>2, AnsweredIsFound
  <2>4. CASE r \in Found(recall.keyword)
    BY <2>4 DEF ArmsFit
  <2>5. CASE r \in Found(InScope(recall.semantic, q.prefix))
    <3>1. PICK i \in 1..Len(recall.semantic) :
            /\ recall.semantic[i].id = r
            /\ StartsWith(recall.semantic[i].namespace, q.prefix)
      BY <2>2, <2>5, FoundInScope
    <3>2. Fits(q, r) /\ recall.semantic[i].namespace = records[r].namespace
      BY <2>1, <3>1 DEF ArmsFit
    <3> QED BY <2>1, <3>1, <3>2
  <2> QED BY <2>3, <2>4, <2>5
<1> QED BY <1>1, <1>2, <1>3, ToolsInvariant, PTL DEF Spec

-----------------------------------------------------------------------------
(* What the tools and the repository's own clients write is accepted.        *)

\* Short namespaces that parse: of components the addresses know, and not of one.
LEMMA ShortNamespaces ==
    ASSUME NEW a, NEW b
    PROVE  /\ ~IsNamespace(<<a>>)
           /\ IsNamespace(<<a, b>>) => <<a, b>> \in Seq(Component)
<1>1. ~IsNamespace(<<a>>)
  BY DEF IsNamespace
<1>2. IsNamespace(<<a, b>>) => a \in Root /\ b \in Segment
  BY DEF IsNamespace
<1>3. Root \subseteq Component /\ Segment \subseteq Component
  BY SegmentAssumption
<1>4. a \in Component /\ b \in Component => <<a, b>> \in Seq(Component)
  OBVIOUS
<1> QED BY <1>1, <1>2, <1>3, <1>4

\* What is accepted gets an address that parses.
LEMMA AcceptedIsAddressed ==
    ASSUME NEW w, Accepted(w), w.namespace \in Seq(Component), w.kind \in MemoryKind
    PROVE  Addressable(w.namespace, w.kind)
<1> SUFFICES ASSUME NEW t \in Tenant, NEW r \in Record
             PROVE  ParseUri(UriPath(t, w.namespace, w.kind, r)) # Rejected
  BY DEF Addressable
<1>1. PICK ns : ns = w.namespace
  OBVIOUS
<1>2. IsNamespace(ns) /\ ns \in Seq(Component)
  BY <1>1 DEF Accepted
<1>3. t \in Uuid /\ r \in Uuid /\ w.kind \in MemoryKind /\ "none" \in Tier \cup {"none"}
  BY UuidAssumption
<1>4. ParseUri([scheme |-> TRUE, tier |-> "none", path |-> <<t>> \o ns \o <<w.kind, r>>])
        = [tenant |-> t, namespace |-> ns, kind |-> w.kind, id |-> r,
           tier |-> IF "none" = "none" THEN "L1" ELSE "none"]
  BY <1>2, <1>3, FullRoundTrip, Zenon
<1>5. ParseUri(UriPath(t, ns, w.kind, r)).id = r
  BY <1>4 DEF UriPath
<1>6. ParseUri(UriPath(t, ns, w.kind, r))
        = [tenant |-> t, namespace |-> ns, kind |-> w.kind, id |-> r, tier |-> "L1"]
  BY <1>4 DEF UriPath
<1>7. [tenant |-> t, namespace |-> ns, kind |-> w.kind, id |-> r, tier |-> "L1"] # Rejected
  BY DEF Rejected
<1> QED BY <1>1, <1>6, <1>7

\* The namespaces that the tools and the clients fall back on.
LEMMA OwnNamespaces ==
    /\ \A t \in GuidedTool : /\ DefaultNamespace[t] \in Seq(Component)
                            /\ IsNamespace(DefaultNamespace[t])
    /\ \A t \in OwnClient : /\ OwnNamespace[t] \in Seq(Component)
                           /\ IsNamespace(OwnNamespace[t])
<1> DEFINE good(p) == p \in Seq(Component) /\ IsNamespace(p)
<1>1. {"coding", "decisions", "lessons", "incidents", "workstream", "persona",
       "protocol", "preferences"} \subseteq Segment
  BY WordAssumption
<1>2. Root \subseteq Component /\ Segment \subseteq Component
  BY SegmentAssumption
<1>3. ASSUME NEW a \in Root, NEW b \in Segment PROVE good(<<a, b>>)
  BY <1>2 DEF IsNamespace
<1>4. ASSUME NEW a \in Root, NEW b \in Segment, NEW c \in Segment
      PROVE  good(<<a, b, c>>)
  <2>1. <<a, b, c>> \in Seq(Component)
    BY <1>2
  <2>2. IsNamespace(<<a, b, c>>)
    BY DEF IsNamespace
  <2> QED BY <2>1, <2>2
<1> HIDE DEF good
<1>5. /\ good(<<"resources", "coding", "decisions">>)
      /\ good(<<"agent", "lessons">>) /\ good(<<"resources", "incidents">>)
      /\ good(<<"agent", "workstream">>) /\ good(<<"agent", "persona">>)
      /\ good(<<"agent", "protocol">>) /\ good(<<"user", "preferences">>)
  BY <1>1, <1>3, <1>4 DEF Root
<1>6. ASSUME NEW t \in GuidedTool PROVE good(DefaultNamespace[t])
  BY <1>5 DEF GuidedTool, DefaultNamespace
<1>7. ASSUME NEW t \in OwnClient PROVE good(OwnNamespace[t])
  BY <1>5 DEF OwnClient, OwnNamespace
<1> QED BY <1>6, <1>7 DEF good

\* The arguments a guided tool's schema requires are the fields its kind needs,
\* and all of them are passed on.
LEMMA SchemaFits ==
    ASSUME NEW t \in GuidedTool
    PROVE  /\ GuidedKind[t] \in MemoryKind
           /\ RequiredFields[GuidedKind[t]] \subseteq SchemaRequires[t]
           /\ SchemaRequires[t] \subseteq GuidedFields[t]
           /\ SchemaRequires[t] \cap RequiredFields[GuidedKind[t]] # {}
<1> USE DEF RequiredFields, GuidedKind, SchemaRequires, GuidedFields, MemoryKind, AppendKind
<1>1. CASE t = "log_decision"
  BY <1>1
<1>2. CASE t = "log_lesson"
  BY <1>2
<1>3. CASE t = "log_incident"
  BY <1>3
<1>4. CASE t = "add_reminder"
  BY <1>4
<1> QED BY <1>1, <1>2, <1>3, <1>4 DEF GuidedTool

\* A guided call with the arguments its schema requires: no tool leaves out a
\* field its kind needs, or makes an empty body.
LEMMA GuidedStorable ==
    ASSUME NEW q \in WellFormedCall
    PROVE  Accepted(WriteOf(q)) /\ Addressable(WriteOf(q).namespace, WriteOf(q).kind)
<1>1. PICK t \in GuidedTool :
        q \in [tool : {t}, title : {"", "title"}, body : Blank \cup {"given"},
              args : {{}, SchemaRequires[t], GuidedFields[t]}, importance : {100, 300},
              namespace : {<<"">>, <<"user">>, <<"user", "notes">>}]
  BY DEF WellFormedCall, GuidedCall
<1>2. FollowsSchema(q) /\ q.tool = t
  BY <1>1 DEF WellFormedCall
<1>3. q.namespace \in {<<"">>, <<"user">>, <<"user", "notes">>}
  BY <1>1
<1>4. PICK w : w = GuidedWrite(q)
  OBVIOUS
<1>5. w = WriteOf(q)
  BY <1>2, <1>4 DEF WriteOf
<1>6. w.kind = GuidedKind[t] /\ w.kind \in MemoryKind
  BY <1>2, <1>4, SchemaFits DEF GuidedWrite
<1>7. RequiredFields[w.kind] \subseteq w.fields
  <2>1. w.fields = q.args \cap GuidedFields[t]
    BY <1>2, <1>4 DEF GuidedWrite
  <2>2. SchemaRequires[t] \subseteq q.args
    BY <1>2 DEF FollowsSchema
  <2> QED BY <1>6, <2>1, <2>2, SchemaFits
<1>8. w.title \notin Blank
  BY <1>2, <1>4 DEF GuidedWrite, FollowsSchema
<1>9. w.body \notin Blank
  <2>1. w.body = IF q.body = "" THEN DefaultBody(q) ELSE q.body
    BY <1>4 DEF GuidedWrite
  <2>2. q.title \notin Blank /\ q.body # "blank" /\ SchemaRequires[t] \subseteq q.args
    BY <1>2 DEF FollowsSchema
  <2>3. q.args \cap RequiredFields[GuidedKind[q.tool]] # {}
    BY <1>2, <2>2, SchemaFits
  <2>4. DefaultBody(q) \in {q.title, "derived"}
    BY <2>3, Zenon DEF DefaultBody
  <2> QED BY <2>1, <2>2, <2>4 DEF Blank
<1>10. w.namespace \in Seq(Component) /\ IsNamespace(w.namespace)
  <2>1. w.namespace = IF q.namespace = <<"">> THEN DefaultNamespace[t] ELSE q.namespace
    BY <1>2, <1>4 DEF GuidedWrite
  <2>2. DefaultNamespace[t] \in Seq(Component) /\ IsNamespace(DefaultNamespace[t])
    BY OwnNamespaces
  <2>3. q.namespace # <<"">> => IsNamespace(q.namespace)
    BY <1>2 DEF FollowsSchema
  <2>4. q.namespace # <<"">> => q.namespace = <<"user", "notes">>
    BY <1>3, <2>3, ShortNamespaces, Zenon
  <2>5. q.namespace # <<"">> => q.namespace \in Seq(Component)
    BY <2>3, <2>4, ShortNamespaces, Zenon
  <2> QED BY <2>1, <2>2, <2>3, <2>5, Zenon
<1>11. w.importance <= 100 /\ w.confidence \in 0..100
  <2>1. w.importance = AsU8(q.importance) /\ w.confidence = 100
    BY <1>4 DEF GuidedWrite
  <2>2. q.importance \in 0..100
    BY <1>2 DEF FollowsSchema
  <2>3. \A n \in 0..100 : AsU8(n) = n
    BY DEF AsU8
  <2>4. w.importance = q.importance
    BY <2>1, <2>2, <2>3, Zenon
  <2> QED BY <2>1, <2>2, <2>4
<1>12. Accepted(w)
  BY <1>7, <1>8, <1>9, <1>10, <1>11, Zenon DEF Accepted
<1> QED BY <1>5, <1>6, <1>10, <1>12, AcceptedIsAddressed

\* A guided call that follows the schema its tool advertises is never refused, in
\* any state.
THEOREM SchemaIsEnough == Spec => []GuidedCallsAreStored
<1>1. GuidedCallsAreStored
  BY GuidedStorable DEF GuidedCallsAreStored, GuidedWrites, AllStorable
<1> QED BY <1>1, PTL

\* The clients fill in the fields of their kinds.
LEMMA OwnFieldsFit ==
    ASSUME NEW q, q.tool \in OwnClient
    PROVE  OwnKind[q.tool] \in MemoryKind /\ RequiredFields[OwnKind[q.tool]] \subseteq OwnFields(q)
<1> USE DEF OwnKind, OwnFields, RequiredFields, MemoryKind, AppendKind, UpdateKind
<1>1. CASE q.tool = "persona"
  BY <1>1
<1>2. CASE q.tool = "protocol"
  BY <1>2
<1>3. CASE q.tool = "mirror_user"
  BY <1>3
<1>4. CASE q.tool = "mirror_memory"
  BY <1>4
<1> QED BY <1>1, <1>2, <1>3, <1>4 DEF OwnClient

\* Nor is what the wizard, a protocol file or Hermes's mirror composes.
LEMMA OwnStorable ==
    ASSUME NEW q \in CompleteCall
    PROVE  Accepted(WriteOf(q)) /\ Addressable(WriteOf(q).namespace, WriteOf(q).kind)
<1>1. q.tool \in OwnClient /\ q.tool \notin GuidedTool
  BY DEF CompleteCall, OwnCall, OwnClient, GuidedTool
<1>2. q.namespace \in {<<"">>, <<"agent">>, <<"agent", "notes">>}
  BY DEF CompleteCall, OwnCall
<1>3. /\ q.tool # "persona" => q.title \notin Blank /\ q.body \notin Blank
      /\ q.namespace # <<"">> => IsNamespace(q.namespace)
  BY DEF CompleteCall
<1>4. PICK w : w = OwnWrite(q)
  OBVIOUS
<1>5. w = WriteOf(q)
  BY <1>1, <1>4 DEF WriteOf
<1>6. w.kind \in MemoryKind /\ RequiredFields[w.kind] \subseteq w.fields
  <2>1. w.kind = OwnKind[q.tool] /\ w.fields = OwnFields(q)
    BY <1>4 DEF OwnWrite
  <2> QED BY <1>1, <2>1, OwnFieldsFit, Zenon
<1>7. w.title \notin Blank /\ w.body \notin Blank
  <2>1. /\ w.title = IF q.tool = "persona" THEN "Operator Persona" ELSE q.title
        /\ w.body = IF q.tool = "persona" THEN "answers" ELSE q.body
    BY <1>4 DEF OwnWrite
  <2> QED BY <1>3, <2>1 DEF Blank
<1>8. w.namespace \in Seq(Component) /\ IsNamespace(w.namespace)
  <2>1. w.namespace = IF q.tool = "protocol" /\ q.namespace # <<"">> THEN q.namespace
                      ELSE OwnNamespace[q.tool]
    BY <1>4 DEF OwnWrite
  <2>2. OwnNamespace[q.tool] \in Seq(Component) /\ IsNamespace(OwnNamespace[q.tool])
    BY <1>1, OwnNamespaces
  <2>3. q.namespace # <<"">> => q.namespace = <<"agent", "notes">>
    BY <1>2, <1>3, ShortNamespaces, Zenon
  <2>4. q.namespace # <<"">> => q.namespace \in Seq(Component)
    BY <1>3, <2>3, ShortNamespaces, Zenon
  <2> QED BY <1>3, <2>1, <2>2, <2>4, Zenon
<1>9. w.importance <= 100 /\ w.confidence \in 0..100
  <2>1. w.importance \in {95, 40} /\ w.confidence = 100
    BY <1>4, Zenon DEF OwnWrite
  <2> QED BY <2>1
<1>10. Accepted(w)
  BY <1>6, <1>7, <1>8, <1>9, Zenon DEF Accepted
<1> QED BY <1>5, <1>6, <1>8, <1>10, AcceptedIsAddressed

\* The repository's own clients compose nothing the server refuses, in any state.
THEOREM OwnClientsFit == Spec => []OwnClientsAreStored
<1>1. OwnClientsAreStored
  BY OwnStorable DEF OwnClientsAreStored, OwnWrites, AllStorable
<1> QED BY <1>1, PTL

=============================================================================
