-------------------------------- MODULE Fusion --------------------------------
(***************************************************************************)
(* Reciprocal-rank fusion (crates/daimon-mcp/src/fusion.rs) of the keyword *)
(* arm and the semantic arm of recall, as a pure function of their hits.   *)
(*                                                                         *)
(* A hit of an arm is its record's id, which stands for its address, with  *)
(* the importance that arm reports; a semantic hit also carries a          *)
(* namespace.  A record is at most once in an arm.  Scores are scaled to   *)
(* integers: Scale is one.  The division rounds below what f32 tells apart *)
(* and, as in f32, equal ranks give equal scores.                          *)
(***************************************************************************)
EXTENDS Naturals, Sequences, FiniteSets

Scale == 100000000
K == 60

\* What a hit at a rank (from 0) adds to its record's score.
Rrf(rank) == Scale \div (K + rank + 1)

\* MUTANT of Boost: a tenth instead of a thousandth.
Boost_Tenth(importance) == importance * 100000

\* importance / 100 * IMPORTANCE_BOOST_MAX, which is a thousandth.
Boost(importance) == importance * 1000

\* namespace.starts_with(prefix), and LIKE 'prefix%': prefixes end where a
\* component ends.  The empty prefix stands for no prefix.
StartsWith(namespace, prefix) ==
    /\ Len(prefix) <= Len(namespace)
    /\ \A i \in 1..Len(prefix) : namespace[i] = prefix[i]

\* The elements of S in the order of R, the pairs of a strict total order on S.
InOrder(S, R) ==
    [n \in 1..Cardinality(S) |->
       CHOOSE x \in S : Cardinality({y \in S : <<y, x>> \in R}) = n - 1]

\* The semantic hits under the prefix, in their order: a dropped hit does not
\* count for the ranks of those behind it.
InScope(semantic, prefix) ==
    LET kept  == {i \in 1..Len(semantic) : StartsWith(semantic[i].namespace, prefix)}
        ranks == InOrder(kept, {p \in kept \X kept : p[1] < p[2]})
    IN  [n \in DOMAIN ranks |-> semantic[ranks[n]]]

Found(arm) == {arm[i].id : i \in 1..Len(arm)}

\* The hit of record r in an arm, and its rank.
HitOf(arm, r) == CHOOSE h \in {arm[i] : i \in 1..Len(arm)} : h.id = r
RankOf(arm, r) == (CHOOSE i \in 1..Len(arm) : arm[i].id = r) - 1

ArmScore(arm, r) == IF r \in Found(arm) THEN Rrf(RankOf(arm, r)) ELSE 0

ArmImportance(arm, r) == IF r \in Found(arm) THEN HitOf(arm, r).importance ELSE 0

\* The first importance reported that is not zero.
FusedImportance(keyword, kept, r) ==
    IF ArmImportance(keyword, r) # 0 THEN ArmImportance(keyword, r)
    ELSE ArmImportance(kept, r)

Fused(keyword, kept, r) ==
    [id |-> r,
     arms |-> {a \in {"keyword", "semantic"} :
                 r \in Found(IF a = "keyword" THEN keyword ELSE kept)},
     importance |-> FusedImportance(keyword, kept, r),
     score |-> ArmScore(keyword, r) + ArmScore(kept, r)
                 + Boost(FusedImportance(keyword, kept, r))]

\* Score, then importance, then the address, which order ranks.
Before(g, h, order) ==
    \/ g.score > h.score
    \/ g.score = h.score /\ g.importance > h.importance
    \/ g.score = h.score /\ g.importance = h.importance /\ order[g.id] < order[h.id]

\* At least one hit is kept.
Truncate(s, limit) ==
    LET n == IF limit = 0 THEN 1 ELSE limit
    IN  SubSeq(s, 1, IF n < Len(s) THEN n ELSE Len(s))

Sorted(hits, order) ==
    InOrder(hits, {p \in hits \X hits : Before(p[1], p[2], order)})

\* MUTANT of Fuse: a semantic hit keeps the rank it had before the filter.
Fuse_ShiftedRanks(keyword, semantic, prefix, limit, order) ==
    LET found == Found(keyword) \cup Found(InScope(semantic, prefix))
    IN  Truncate(Sorted({Fused(keyword, semantic, r) : r \in found}, order), limit)

Fuse(keyword, semantic, prefix, limit, order) ==
    LET kept  == InScope(semantic, prefix)
        found == Found(keyword) \cup Found(kept)
    IN  Truncate(Sorted({Fused(keyword, kept, r) : r \in found}, order), limit)

=============================================================================
