-------------------------------- MODULE Tools --------------------------------
(***************************************************************************)
(* What clients can ask of daimon-mcp (the MCP tools in mcp.rs and the     *)
(* REST handlers in main.rs): validated writes, addresses in and out,      *)
(* confirmed retraction, and hybrid recall, which reads PostgreSQL first   *)
(* and Qdrant later, while other calls commit and the index follows.       *)
(*                                                                         *)
(* The tables are those of MemoryStore; a title is a pair <<kind, title>>, *)
(* a namespace is its components.  The drainer takes one step per attempt  *)
(* at a row here, and reindex one per record: their own interleavings are  *)
(* the modules Indexer's and Reindex's.                                    *)
(***************************************************************************)
EXTENDS Integers, MemoryStore, Addresses, Fusion

CONSTANTS
    Request,    \* writes that clients send
    Query,      \* recalls that clients send
    MaxAttempts, \* MAX_ATTEMPTS (10)
    UriOrder,   \* record ids as their addresses sort
    CreatedAt   \* created_at of each record, in tenths of a second

ASSUME MaxAttemptsAssumption == MaxAttempts \in Nat \ {0}
ASSUME UuidAssumption == Tenant \cup Record \subseteq Uuid
ASSUME WordAssumption ==
    {"coding", "decisions", "lessons", "incidents", "workstream", "persona",
     "protocol", "preferences"} \subseteq Segment
ASSUME NamespaceAssumption == Namespace \subseteq Seq(Component)
ASSUME CreatedAtAssumption == CreatedAt \in [Record -> Nat]
ASSUME RecordAssumption == IsFiniteSet(Record)   \* a UUID has 128 bits
ASSUME UriOrderAssumption ==                      \* no two addresses are equal
    /\ UriOrder \in [Record -> Nat]
    /\ \A p, r \in Record : UriOrder[p] = UriOrder[r] => p = r
ASSUME QueryAssumption == \A q \in Query : q.limit \in Nat /\ q.since \in Int
ASSUME TitleAssumption == UpdateTitle = {t \in Title : t[1] \in UpdateKind}

VARIABLES
    columns,    \* importance and confidence (in hundredths) of each record
    points,     \* records with a point in Qdrant
    restored,   \* history: those reindex put there after their retraction
    recall,     \* the recall in progress, or the last one
    answer      \* what the last retraction was asked

indexVars == <<points, restored>>
vars == <<records, namespaces, outbox, columns, indexVars, recall, answer>>

NoColumns == [importance |-> 0, confidence |-> 100]
NoRecall == [stage |-> "idle"]
NoAnswer == [confirm |-> FALSE, named |-> <<>>]

Init ==
    /\ StoreInit
    /\ columns = [r \in Record |-> NoColumns]
    /\ points = {}
    /\ restored = {}
    /\ recall = NoRecall
    /\ answer = NoAnswer

\* An answer that was given is kept for the properties until the next step.
Returned == IF recall.stage = "done" THEN NoRecall ELSE recall
Answered == recall' = Returned /\ answer' = NoAnswer

-----------------------------------------------------------------------------
(* The write contract (kind.rs, validate.rs) and the tools that write.       *)

RequiredFields ==
    [decision |-> {"context", "rationale"}, runbook |-> {"steps"},
     incident_summary |-> {"impact", "resolution"},
     service_topology |-> {"service", "dependencies"},
     known_failure_mode |-> {"symptom", "cause"},
     remediation_pattern |-> {"problem", "fix"},
     project_convention |-> {"rule"}, agent_lesson |-> {"lesson"},
     resource_summary |-> {"source"},
     persona |-> {"identity", "voice", "boundaries"},
     protocol |-> {"scope", "rules"}, reminder |-> {"due"}]

\* A text that is not given counts as empty.
Blank == {"", "blank"}

\* MUTANT of Accepted: the range of importance is not checked.
Accepted_AnyImportance(w) ==
    /\ IsNamespace(w.namespace)
    /\ w.title \notin Blank /\ w.body \notin Blank
    /\ RequiredFields[w.kind] \subseteq w.fields
    /\ w.confidence \in 0..100

\* validate_write.  w.fields are the names of the fields that are there and not
\* blank.
Accepted(w) ==
    /\ IsNamespace(w.namespace)
    /\ w.title \notin Blank /\ w.body \notin Blank
    /\ RequiredFields[w.kind] \subseteq w.fields
    /\ w.importance <= 100
    /\ w.confidence \in 0..100

GuidedTool == {"log_decision", "log_lesson", "log_incident", "add_reminder"}

GuidedKind == [log_decision |-> "decision", log_lesson |-> "agent_lesson",
               log_incident |-> "incident_summary", add_reminder |-> "reminder"]

DefaultNamespace ==
    [log_decision |-> <<"resources", "coding", "decisions">>,
     log_lesson   |-> <<"agent", "lessons">>,
     log_incident |-> <<"resources", "incidents">>,
     add_reminder |-> <<"agent", "workstream">>]

\* The arguments a guided tool passes on as fields.
GuidedFields ==
    [log_decision |-> {"context", "rationale"}, log_lesson |-> {"lesson"},
     log_incident |-> {"impact", "resolution", "severity", "prevention"},
     add_reminder |-> {"due"}]

\* The body of a guided call that gives none: its title, or the texts of its
\* required fields, as far as they are given.
DefaultBody(q) ==
    IF q.tool = "add_reminder" THEN q.title
    ELSE IF q.args \cap RequiredFields[GuidedKind[q.tool]] # {} THEN "derived" ELSE ""

\* as_u64, then the cast to u8.
AsU8(n) == IF n < 0 THEN 0 ELSE n % 256

\* What the repository's own clients compose and POST: daimon persona, daimon
\* protocol seed and import, and Hermes's mirror of its built-in memory.
OwnClient == {"persona", "protocol", "mirror_user", "mirror_memory"}

OwnKind == [persona |-> "persona", protocol |-> "protocol",
            mirror_user |-> "agent_lesson", mirror_memory |-> "agent_lesson"]

OwnNamespace ==
    [persona |-> <<"agent", "persona">>, protocol |-> <<"agent", "protocol">>,
     mirror_user |-> <<"user", "preferences">>, mirror_memory |-> <<"agent", "lessons">>]

\* MUTANT of OwnFields: rules is what the file's frontmatter says, or nothing.
OwnFields_RulesAsGiven(q) ==
    CASE q.tool = "persona"  -> {"identity", "voice", "boundaries"}
      [] q.tool = "protocol" -> {"scope"} \cup (q.args \cap {"rules"})
      [] OTHER -> {"lesson"}

\* The fields they fill in.  An answer left out of the wizard has a default, or
\* text around it; a scope or rules that a protocol file leaves out becomes "see
\* body", or the body's first line.
OwnFields(q) ==
    CASE q.tool = "persona"  -> {"identity", "voice", "boundaries"}
      [] q.tool = "protocol" -> {"scope", "rules"}
      [] OTHER -> {"lesson"}

\* q.namespace is that of a protocol file's frontmatter, <<"">> if it has none;
\* the wizard's title and body are its own.
OwnWrite(q) ==
    [kind |-> OwnKind[q.tool],
     namespace |-> IF q.tool = "protocol" /\ q.namespace # <<"">> THEN q.namespace
                   ELSE OwnNamespace[q.tool],
     title |-> IF q.tool = "persona" THEN "Operator Persona" ELSE q.title,
     body |-> IF q.tool = "persona" THEN "answers" ELSE q.body,
     fields |-> OwnFields(q),
     importance |-> IF q.tool \in {"persona", "protocol"} THEN 95 ELSE 40,
     confidence |-> 100]

GuidedWrite(q) ==
    [kind |-> GuidedKind[q.tool],
     namespace |-> IF q.namespace = <<"">> THEN DefaultNamespace[q.tool]
                   ELSE q.namespace,
     title |-> q.title,
     body |-> IF q.body = "" THEN DefaultBody(q) ELSE q.body,
     fields |-> q.args \cap GuidedFields[q.tool],
     importance |-> AsU8(q.importance), confidence |-> 100]

\* The MemoryWrite a request becomes.  q.args are the names of the arguments
\* (of fields, for remember and POST /v1/memory) that are given and not blank.
WriteOf(q) ==
    IF q.tool \in GuidedTool THEN GuidedWrite(q)
    ELSE IF q.tool \in OwnClient THEN OwnWrite(q)
    ELSE [kind |-> q.kind, namespace |-> q.namespace, title |-> q.title,
          body |-> q.body, fields |-> q.args,
          importance |-> IF q.tool = "post" THEN q.importance
                         ELSE AsU8(q.importance),
          confidence |-> IF q.tool = "post" THEN q.confidence ELSE 100]

\* A kind there is not, and for POST a number that is no u8, fail before store().
Decoded(q) ==
    /\ q.tool \notin GuidedTool \cup OwnClient => q.kind \in MemoryKind
    /\ q.tool = "post" => q.importance \in 0..255

StoredAs(w) ==
    [namespace |-> w.namespace, title |-> <<w.kind, w.title>>, body |-> w.body]

\* Whatever is accepted is a write MemoryStore knows.
ASSUME RequestAssumption ==
    \A q \in Request :
      /\ q.tenant \in Tenant
      /\ q.tool \notin OwnClient => q.importance \in Int
      /\ Decoded(q) /\ Accepted(WriteOf(q)) => StoredAs(WriteOf(q)) \in MemoryWrite

\* remember, the guided tools and POST /v1/memory, whoever sends it.  What is refused, and what is
\* stored already (StoreDedup), changes nothing and is no step.
Remember(q) ==
    LET w == WriteOf(q) IN
    /\ Decoded(q)
    /\ Accepted(w)
    /\ StoreInsert(q.tenant, StoredAs(w))
    /\ columns' = [r \in Record |->
         IF ~Exists(r) /\ records'[r] # NoRow
           THEN [importance |-> w.importance, confidence |-> w.confidence]
           ELSE columns[r]]
    /\ UNCHANGED indexVars
    /\ Answered

-----------------------------------------------------------------------------
(* Addresses that leave the server, and those that come back.                *)

KindOf(r) == records[r].title[1]
PathOf(r) == UriPath(records[r].tenant, records[r].namespace, KindOf(r), r)

\* read: the record a text addresses for a caller of tenant t, or none.
Readable(t, s) ==
    LET u == ParseScoped(s, t) IN
    {r \in Record : /\ u # Rejected
                    /\ r = u.id
                    /\ Exists(r)
                    /\ records[r].tenant = t
                    /\ records[r].status # "forgotten"}

\* What a client may send for record r: the address it was given, in any of its
\* forms, or one whose namespace it got wrong.
Addressing(r) ==
    LET u == ParseUri(PathOf(r)) IN
    {Display(u), DisplayRelative(u), StripTenant(PathOf(r))}
      \cup {DisplayRelative([u EXCEPT !.namespace = p]) : p \in Namespace}

\* The forget tool: gate, parse, retract by record id.  (A call that is refused,
\* whose address does not parse or whose id no row has changes nothing.)
ForgetTool(t, s, confirm) ==
    LET u == ParseScoped(s, t) IN
    /\ Durable(s) => confirm
    /\ u # Rejected
    /\ u.id \in Record
    /\ Forget(t, u.id)
    /\ answer' = [confirm |-> confirm, named |-> u.namespace]
    /\ recall' = Returned
    /\ UNCHANGED <<columns, indexVars>>

-----------------------------------------------------------------------------
(* The index, and hybrid recall over the two stores.                         *)

Unprocessed == {x \in outbox : ~x.processed}

\* A row that took its effect; one that was given up has the mark, but not this.
Done(x) == x.processed /\ x.attempts < MaxAttempts

DeletesOf(r) ==
    {x \in outbox : x.record = r /\ x.op = "delete" /\ x.tenant = records[r].tenant}

\* MUTANT of Effects: an upsert row is indexed whatever became of its record.
Effects_AnyStatus(x) ==
    {IF x.op = "delete" THEN points \ {x.record} ELSE points \cup {x.record}}

\* What row x may leave in the collection, if it takes effect.  An upsert skips a
\* record that is not active; but it may come of a read made before the record
\* was retracted, and then no delete row of the record has been processed since
\* (CallIsCovered in the module IndexerProofs).
Effects(x) ==
    LET with == points \cup {x.record} IN
    IF x.op = "delete" THEN {points \ {x.record}}
    ELSE {p \in {points, with} :
            /\ Active(x.record) => p = with
            /\ p # points => \A d \in DeletesOf(x.record) : ~d.processed}

\* The drainer's attempt at row x.  It may have its effect and be marked; fail,
\* before or after the effect, and be charged, which takes it out of the queue
\* at the cap; or be cut off, by a crash or a failed UPDATE, with nothing
\* written.  Failed rows are retried later: the order of the ids is not kept.
IndexRow(x) ==
    /\ \/ points' \in Effects(x) /\ outbox' =
            (outbox \ {x}) \cup {[x EXCEPT !.processed = TRUE]}
       \/ points' \in Effects(x) \cup {points} /\ outbox' =
            (outbox \ {x}) \cup
              {[x EXCEPT !.attempts = @ + 1, !.processed = x.attempts + 1 >= MaxAttempts]}
       \/ points' \in Effects(x) /\ UNCHANGED outbox
    /\ restored' = restored \cap points'
    /\ UNCHANGED <<records, namespaces, columns>>
    /\ Answered

\* `daimon reindex`, which may be under way at any time: it begins by dropping
\* the collection, ...
ReindexDrops ==
    /\ points' = {}
    /\ restored' = {}
    /\ UNCHANGED <<records, namespaces, outbox, columns>>
    /\ Answered

\* ... and upserts the records it has read as active, of which some may have
\* been retracted since.
ReindexPuts(r) ==
    /\ Exists(r)
    /\ points' = points \cup {r}
    /\ restored' = IF Active(r) THEN restored ELSE restored \cup {r}
    /\ UNCHANGED <<records, namespaces, outbox, columns>>
    /\ Answered

\* The sequences that list k elements of S, or all there are.
Rankings(S, k) ==
    LET n == IF k < Cardinality(S) THEN k ELSE Cardinality(S)
    IN  {f \in [1..n -> S] : \A i, j \in 1..n : f[i] = f[j] => i = j}

KindFits(q, r) == q.kind \in {"any", KindOf(r)}

\* The WHERE clause of find(), the text search aside.
Matching(q) ==
    {r \in Record : /\ Active(r)
                    /\ records[r].tenant = q.tenant
                    /\ KindFits(q, r)
                    /\ StartsWith(records[r].namespace, q.prefix)
                    /\ CreatedAt[r] >= q.since}

Clamp(limit) == IF limit < 1 THEN 1 ELSE IF limit > 200 THEN 200 ELSE limit

\* find(): a blank query matches everything, best importance first; another
\* matches some records in some order.
KeywordRankings(q) ==
    IF q.query = "blank"
      THEN {f \in Rankings(Matching(q), Clamp(q.limit)) :
              \A i \in DOMAIN f, r \in Matching(q) :
                (\A j \in 1..i : f[j] # r)
                  => columns[f[i]].importance >= columns[r].importance}
      ELSE UNION {Rankings(S, Clamp(q.limit)) : S \in SUBSET Matching(q)}

\* A point's created_at is in whole seconds: the cast to bigint rounds.
CreatedEpoch(r) == (CreatedAt[r] + 5) \div 10

\* MUTANT of SinceEpoch: the time asked for is rounded up.
SinceEpoch_Up(q) == (q.since + 9) \div 10

\* DateTime::timestamp() truncates.
SinceEpoch(q) == q.since \div 10

\* Qdrant's filter: tenant, kind and time, not the namespace.
Searchable(q) ==
    {r \in points : /\ records[r].tenant = q.tenant
                    /\ KindFits(q, r)
                    /\ CreatedEpoch(r) >= SinceEpoch(q)}

\* A scoped recall fetches more: the prefix is applied later.
FetchK(q) ==
    LET limit == Clamp(q.limit) IN
    IF q.prefix = <<>> THEN limit
    ELSE IF limit * 5 > 200 THEN 200 ELSE limit * 5

Hit(r) == [id |-> r, importance |-> columns[r].importance,
           namespace |-> records[r].namespace]

\* Records whose retraction has reached the index: a delete row is done.
Retracted ==
    {r \in Record : Exists(r) /\ ~Active(r) /\ \E d \in DeletesOf(r) : Done(d)}

\* The first await of hybrid_recall: the keyword arm.  An error leaves it empty.
KeywordArm(q) ==
    /\ \E f \in KeywordRankings(q) \cup {<<>>} :
         recall' = [stage |-> "keyword", query |-> q, retracted |-> Retracted,
                    keyword |-> [i \in DOMAIN f |-> Hit(f[i])]]
    /\ answer' = NoAnswer
    /\ UNCHANGED <<records, namespaces, outbox, columns, indexVars>>

\* The second: the semantic arm, skipped for a blank query or without an
\* embedder, empty after an error; then the fusion.
SemanticArm ==
    /\ recall.stage = "keyword"
    /\ LET q == recall.query IN
       \E f \in {<<>>} \cup (IF q.query = "blank" THEN {}
                             ELSE Rankings(Searchable(q), FetchK(q))) :
         LET semantic == [i \in DOMAIN f |-> Hit(f[i])] IN
         recall' = [stage |-> "done", query |-> q,
                    retracted |-> recall.retracted \ restored,
                    keyword |-> recall.keyword, semantic |-> semantic,
                    hits |-> Fuse(recall.keyword, semantic, q.prefix,
                                  Clamp(q.limit), UriOrder)]
    /\ answer' = NoAnswer
    /\ UNCHANGED <<records, namespaces, outbox, columns, indexVars>>

Next ==
    \/ \E q \in Request : Remember(q)
    \/ /\ OutboxId \ UsedIds # {}     \* or Forget has no row left to add
       /\ \E r \in Record :
            Exists(r) /\ \E s \in Addressing(r), t \in Tenant, confirm \in BOOLEAN :
                           ForgetTool(t, s, confirm)
    \/ \E x \in Unprocessed : IndexRow(x)
    \/ ReindexDrops
    \/ \E r \in Record : ReindexPuts(r)
    \/ \E q \in Query : recall.stage # "keyword" /\ KeywordArm(q)
    \/ SemanticArm

Spec == Init /\ [][Next]_vars

-----------------------------------------------------------------------------
\* Types.  A record in the table has the importance and the confidence the
\* table's CHECK constraints ask for, whatever number the client sent.
TypeOK ==
    /\ StoreTypeOK
    /\ columns \in [Record -> [importance : 0..100, confidence : 0..100]]
    /\ points \subseteq {r \in Record : Exists(r)}
    /\ restored \subseteq points
    /\ recall.stage \in {"idle", "keyword", "done"}
    /\ recall.stage # "idle" =>
         recall.query \in Query /\ Found(recall.keyword) \subseteq Record
    /\ answer.confirm \in BOOLEAN

\* Every address the server gives out leads back: the uri_path of a stored
\* record parses (store() does that after its commit, when it is too late to
\* refuse), and its full, relative and stripped forms, sent by a client of the
\* record's tenant, name that tenant, namespace, kind and id, and read the
\* record unless it was forgotten (namespace.rs, store_h, read_h, browse).
AddressesLeadBack ==
    \A r \in Record : Exists(r) =>
      LET u == ParseUri(PathOf(r)) IN
      /\ u = [tenant |-> records[r].tenant, namespace |-> records[r].namespace,
              kind |-> KindOf(r), id |-> r, tier |-> "L1"]
      /\ \A s \in {Display(u), DisplayRelative(u), StripTenant(PathOf(r))} :
           /\ ParseScoped(s, records[r].tenant) = u
           /\ StripTenant(StripTenant(s)) = StripTenant(s)
           /\ records[r].status # "forgotten" => Readable(records[r].tenant, s) = {r}

\* No durable record is forgotten without confirmation: if the caller named its
\* namespace right, in whatever form, an agent/ or resources/ record is
\* retracted only by a call that confirms (the gate in mcp.rs, which looks at
\* text while forget() looks at the id).
UnconfirmedForgetSparesDurable ==
    [][\A r \in Record :
         (/\ Exists(r) /\ records[r].status # "forgotten"
          /\ records'[r].status = "forgotten"
          /\ records[r].namespace[1] \in {"agent", "resources"}
          /\ answer'.named = records[r].namespace) => answer'.confirm]_vars

\* What the schema of a guided tool requires of its caller.
SchemaRequires ==
    [log_decision |-> {"context", "rationale"}, log_lesson |-> {"lesson"},
     log_incident |-> {"impact", "resolution"}, add_reminder |-> {"due"}]

GuidedCall ==
    UNION {[tool : {t}, title : {"", "title"}, body : Blank \cup {"given"},
            args : {{}, SchemaRequires[t], GuidedFields[t]}, importance : {100, 300},
            namespace : {<<"">>, <<"user">>, <<"user", "notes">>}] : t \in GuidedTool}

FollowsSchema(q) ==
    /\ q.title \notin Blank
    /\ q.body # "blank"
    /\ SchemaRequires[q.tool] \subseteq q.args
    /\ q.importance \in 0..100
    /\ q.namespace = <<"">> \/ IsNamespace(q.namespace)

WellFormedCall == {q \in GuidedCall : FollowsSchema(q)}

GuidedWrites == {WriteOf(q) : q \in WellFormedCall}

\* The address of a record with this namespace and kind parses, for any tenant
\* and whatever id is still free.
Addressable(namespace, kind) ==
    \A t \in Tenant, r \in Record :
      ~Exists(r) => ParseUri(UriPath(t, namespace, kind, r)) # Rejected

\* Each of these writes meets the contract of its kind, and will have an address.
AllStorable(writes) ==
    /\ \A w \in writes : Accepted(w)
    /\ \A p \in {<<w.namespace, w.kind>> : w \in writes} : Addressable(p[1], p[2])

\* A guided call that follows the schema its tool advertises, with texts that are
\* not blank, is never refused: the write the tool makes of it, with the fields,
\* namespace and body it fills in, is storable (call_tool against
\* required_fields and validate_write).
GuidedCallsAreStored ==
    AllStorable(GuidedWrites)

OwnCall ==
    [tool : {"persona", "mirror_user", "mirror_memory"}, title : {"", "title"},
     body : {"", "given"}, args : {{}}, namespace : {<<"">>}]
      \cup [tool : {"protocol"}, title : {"", "title"}, body : {"", "given"},
            args : SUBSET {"scope", "rules"},
            namespace : {<<"">>, <<"agent">>, <<"agent", "notes">>}]

\* The wizard takes any answers; a file needs a title, a body, and a namespace
\* that parses if it names one; an empty note is not mirrored.
CompleteCall ==
    {q \in OwnCall :
      /\ q.tool # "persona" => q.title \notin Blank /\ q.body \notin Blank
      /\ q.namespace = <<"">> \/ IsNamespace(q.namespace)}

OwnWrites == {WriteOf(q) : q \in CompleteCall}

\* The repository's own clients compose nothing the server refuses: whatever
\* the wizard is answered, and whatever a protocol file leaves out besides its
\* title and its body, the write is storable (persona, parse_protocol_md,
\* on_memory_write).
OwnClientsAreStored ==
    AllStorable(OwnWrites)

\* Retraction reaches recall through both stores: once a delete row of a
\* retracted record is processed, and not given up, no recall that begins later
\* serves the record, from PostgreSQL or from Qdrant, whatever upsert rows are
\* retried, replayed or cut off behind it; unless a reindex that had read the
\* record before its retraction put the point back (that race is the module
\* Reindex's).
RetractedIsNotServed ==
    recall.stage = "done" => Found(recall.hits) \cap recall.retracted = {}

\* The two arms take "since" in different units and round differently, yet agree
\* up to a second and a half: no record the keyword arm would show is hidden from
\* the semantic arm once it has its point, and no recall serves a record much
\* older than asked for (the comment on VectorStore::search).
ArmsAgreeOnSince ==
    /\ \A q \in Query : points \cap Matching(q) \subseteq Searchable(q)
    /\ recall.stage = "done" =>
         \A r \in Found(recall.hits) : CreatedAt[r] + 15 > recall.query.since

\* The importance boost is advisory at shallow ranks (the comment on
\* IMPORTANCE_BOOST_MAX): with no more than 54 hits in either arm, a record found
\* by one of them alone, however important, is not ranked above one found by both.
BothArmsFirst ==
    (recall.stage = "done" /\ Len(recall.keyword) <= 54 /\ Len(recall.semantic) <= 54) =>
      \A i, j \in 1..Len(recall.hits) :
        (Cardinality(recall.hits[i].arms) = 1 /\ Cardinality(recall.hits[j].arms) = 2)
          => j < i

\* A semantic hit dropped for its namespace leaves no trace: the answer is the
\* one Qdrant would have led to had it filtered namespaces itself.
DroppedHitsLeaveNoTrace ==
    recall.stage = "done" =>
      recall.hits = Fuse(recall.keyword,
                         InScope(recall.semantic, recall.query.prefix), <<>>,
                         Clamp(recall.query.limit), UriOrder)

=============================================================================
