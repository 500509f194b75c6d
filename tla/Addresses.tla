------------------------------ MODULE Addresses ------------------------------
(***************************************************************************)
(* Namespaces and addresses (crates/daimon-memory-core/src/namespace.rs)   *)
(* and the taxonomy of kinds (kind.rs) that ends an address.               *)
(*                                                                         *)
(* A text "daimon://a/b/c#t" is a record: does it begin with the scheme,   *)
(* the components between its slashes, and what follows its '#'.  The      *)
(* grammar of one component is the constant Segment; a Uuid is written in  *)
(* one way, the one Display writes, and is a legal segment.                *)
(***************************************************************************)
EXTENDS Naturals, Sequences

CONSTANTS
    Segment,   \* components of the form [a-z0-9][a-z0-9-]*
    Component, \* every component considered, illegal ones included
    Uuid       \* components that parse as a UUID

Root == {"user", "agent", "resources", "session"}

\* Kinds whose new write supersedes (WriteMode::Update), and those that append.
UpdateKind == {"runbook", "service_topology", "project_convention",
               "resource_summary", "persona", "protocol"}
AppendKind == {"decision", "incident_summary", "known_failure_mode",
               "remediation_pattern", "agent_lesson", "reminder"}
MemoryKind == UpdateKind \cup AppendKind

ASSUME SegmentAssumption ==
    /\ Root \cup Uuid \subseteq Segment
    /\ Segment \cup MemoryKind \subseteq Component
    /\ (Root \cup MemoryKind) \cap Uuid = {}

Tier == {"L0", "L1", "L2"}

\* What may follow '#': nothing at all, a tier, or something else.
TierText == Tier \cup {"none", "other"}

Text == [scheme : BOOLEAN, path : Seq(Component) \ {<<>>}, tier : TierText]

WithPath(s, p) == [scheme |-> s.scheme, path |-> p, tier |-> s.tier]

\* MUTANT of IsNamespace: a root alone is a namespace.
IsNamespace_RootAlone(p) ==
    /\ Len(p) >= 1
    /\ p[1] \in Root
    /\ \A i \in 2..Len(p) : p[i] \in Segment

\* Namespace::parse accepts the components p.  A namespace is these components:
\* parsing and printing one only splits and joins them.
IsNamespace(p) ==
    /\ Len(p) >= 2
    /\ p[1] \in Root
    /\ \A i \in 2..Len(p) : p[i] \in Segment

MemoryUri == [tenant : Uuid, namespace : {p \in Seq(Component) : IsNamespace(p)},
              kind : MemoryKind, id : Uuid, tier : Tier]

Rejected == [err |-> "InvalidUri"]   \* an Err of the parsers

\* MemoryUri::parse: tenant, namespace, kind and record id, read from both ends.
ParseUri(s) ==
    LET n == Len(s.path) IN
    IF /\ s.scheme
       /\ s.tier # "other"
       /\ n >= 5
       /\ s.path[1] \in Uuid
       /\ s.path[n] \in Uuid
       /\ s.path[n - 1] \in MemoryKind
       /\ IsNamespace(SubSeq(s.path, 2, n - 2))
      THEN [tenant |-> s.path[1], namespace |-> SubSeq(s.path, 2, n - 2),
            kind |-> s.path[n - 1], id |-> s.path[n],
            tier |-> IF s.tier = "none" THEN "L1" ELSE s.tier]
      ELSE Rejected

\* Display: the full form.
Display(m) ==
    [scheme |-> TRUE, tier |-> m.tier,
     path |-> <<m.tenant>> \o m.namespace \o <<m.kind, m.id>>]

\* display_relative: the form clients see, without the tenant.
DisplayRelative(m) ==
    [scheme |-> TRUE, tier |-> m.tier, path |-> m.namespace \o <<m.kind, m.id>>]

\* MUTANT of ParseScoped: five components are taken for a full address.
ParseScoped_ByLength(s, t) ==
    IF Len(s.path) >= 5 THEN ParseUri(s)
    ELSE ParseUri(WithPath(s, <<t>> \o s.path))

\* parse_scoped: an address whose first component is a UUID is full; any other
\* is taken to be relative to tenant t.
ParseScoped(s, t) ==
    IF s.path[1] \in Uuid THEN ParseUri(s)
    ELSE ParseUri(WithPath(s, <<t>> \o s.path))

\* strip_tenant_segment.
StripTenant(s) ==
    IF s.scheme /\ Len(s.path) >= 2 /\ s.path[1] \in Uuid
      THEN WithPath(s, Tail(s.path))
      ELSE s

\* uri_of (daimon-pg): the column uri_path, an address without a tier.
UriPath(t, ns, kind, r) ==
    [scheme |-> TRUE, tier |-> "none", path |-> <<t>> \o ns \o <<kind, r>>]

\* MUTANT of Durable: only the relative form is looked at.
Durable_RelativeOnly(s) == s.path[1] \in {"agent", "resources"}

\* The confirm gate of the forget tool: the text has "/agent/" or
\* "/resources/" in it, wherever.
Durable(s) ==
    \E i \in 1..(Len(s.path) - 1) :
      s.path[i] \in {"agent", "resources"} /\ (s.scheme \/ i > 1)

=============================================================================
