----------------------------- MODULE FusionProofs -----------------------------
(***************************************************************************)
(* That Fuse ranks: what sort_by and truncate leave of the fused hits, for *)
(* arms of any length, any prefix and any limit.                           *)
(***************************************************************************)
EXTENDS Fusion, Integers, FiniteSetTheorems, TLAPS

\* R orders the elements of S, strictly and totally.
StrictOrder(S, R) ==
    /\ \A x \in S : <<x, x>> \notin R
    /\ \A x, y, z \in S : <<x, y>> \in R /\ <<y, z>> \in R => <<x, z>> \in R
    /\ \A x, y \in S : x # y => <<x, y>> \in R \/ <<y, x>> \in R

\* InOrder lists every element, and in the order.  (Counting what is below an
\* element is injective into as many numbers as there are elements, so every
\* place is taken.)
LEMMA InOrderEnumerates ==
    ASSUME NEW S, IsFiniteSet(S), NEW R, StrictOrder(S, R)
    PROVE  /\ Cardinality(S) \in Nat
           /\ InOrder(S, R) \in [1..Cardinality(S) -> S]
           /\ \A x \in S : \E i \in 1..Cardinality(S) : InOrder(S, R)[i] = x
           /\ \A i, j \in 1..Cardinality(S) :
                i < j => <<InOrder(S, R)[i], InOrder(S, R)[j]>> \in R
<1> DEFINE n == Cardinality(S)
           below(x) == {y \in S : <<y, x>> \in R}
           rank == [x \in S |-> Cardinality(below(x))]
           s == InOrder(S, R)
<1>1. n \in Nat
  BY FS_CardinalityType
<1>2. ASSUME NEW x \in S PROVE IsFiniteSet(below(x)) /\ Cardinality(below(x)) \in 0..(n - 1)
  <2>1. below(x) \in SUBSET S /\ below(x) # S
    BY DEF StrictOrder
  <2> HIDE DEF below
  <2>2. /\ IsFiniteSet(below(x)) /\ Cardinality(below(x)) <= n
        /\ n = Cardinality(below(x)) => S = below(x)
    BY <2>1, FS_Subset
  <2>3. Cardinality(below(x)) \in Nat
    BY <2>2, FS_CardinalityType
  <2> QED BY <1>1, <2>1, <2>2, <2>3
<1>3. ASSUME NEW x \in S, NEW y \in S, <<x, y>> \in R
      PROVE  rank[x] < rank[y]
  <2>1. below(x) \in SUBSET below(y) /\ x \in below(y) /\ x \notin below(x)
    BY <1>3 DEF StrictOrder
  <2>2. rank[x] = Cardinality(below(x)) /\ rank[y] = Cardinality(below(y))
    OBVIOUS
  <2>3. /\ IsFiniteSet(below(y))
        /\ Cardinality(below(x)) \in 0..(n - 1) /\ Cardinality(below(y)) \in 0..(n - 1)
    BY <1>2
  <2> HIDE DEF below, rank
  <2>4. /\ Cardinality(below(x)) <= Cardinality(below(y))
        /\ Cardinality(below(y)) = Cardinality(below(x)) => below(y) = below(x)
    BY <2>1, <2>3, FS_Subset
  <2> QED BY <1>1, <2>1, <2>2, <2>3, <2>4
<1>4. rank \in [S -> 0..(n - 1)]
  BY <1>2
<1> HIDE DEF rank, below
<1>5. ASSUME NEW x \in S, NEW y \in S, rank[x] = rank[y] PROVE x = y
  <2>1. ~(rank[x] < rank[y]) /\ ~(rank[y] < rank[x])
    BY <1>1, <1>4, <1>5
  <2> QED BY <1>3, <2>1 DEF StrictOrder
<1>6. rank \in Surjection(S, 0..(n - 1))
  <2>1. rank \in Injection(S, 0..(n - 1))
    BY <1>4, <1>5, Zenon DEF Injection, IsInjective
  <2>2. IsFiniteSet(0..(n - 1)) /\ Cardinality(0..(n - 1)) = n
    <3>1. 0 \in Int /\ n - 1 \in Int
      BY <1>1
    <3>2. /\ IsFiniteSet(0..(n - 1))
          /\ Cardinality(0..(n - 1)) = IF 0 > n - 1 THEN 0 ELSE (n - 1) - 0 + 1
      BY <3>1, FS_Interval
    <3> QED BY <1>1, <3>2
  <2> QED BY <2>1, <2>2, FS_Injection
<1>7. ASSUME NEW i \in 1..n PROVE s[i] \in S /\ rank[s[i]] = i - 1
  <2>1. i - 1 \in 0..(n - 1)
    BY <1>1
  <2>2. PICK x \in S : rank[x] = i - 1
    BY <1>6, <2>1, Zenon DEF Surjection
  <2>3. Cardinality({y \in S : <<y, x>> \in R}) = i - 1
    BY <2>2 DEF rank, below
  <2>4. s[i] = CHOOSE z \in S : Cardinality({y \in S : <<y, z>> \in R}) = i - 1
    BY DEF InOrder
  <2>5. s[i] \in S /\ Cardinality({y \in S : <<y, s[i]>> \in R}) = i - 1
    BY <2>3, <2>4, Zenon
  <2> QED BY <2>5 DEF rank, below
<1>8. s \in [1..n -> S]
  BY <1>7 DEF InOrder
<1>9. ASSUME NEW x \in S PROVE \E i \in 1..n : s[i] = x
  <2>1. rank[x] + 1 \in 1..n /\ (rank[x] + 1) - 1 = rank[x]
    BY <1>1, <1>4
  <2> QED BY <1>5, <1>7, <2>1
<1>10. ASSUME NEW i \in 1..n, NEW j \in 1..n, i < j PROVE <<s[i], s[j]>> \in R
  <2>1. rank[s[i]] < rank[s[j]]
    BY <1>1, <1>7, <1>10
  <2>2. s[i] # s[j] /\ ~(rank[s[j]] < rank[s[i]])
    BY <1>1, <1>4, <1>7, <2>1
  <2> QED BY <1>3, <1>7, <2>2 DEF StrictOrder
<1> HIDE DEF s
<1> QED BY <1>1, <1>8, <1>9, <1>10 DEF s

-----------------------------------------------------------------------------
(* The arms.                                                                 *)

\* The places of the hits under the prefix.
InScopeAt(arm, prefix) == {i \in 1..Len(arm) : StartsWith(arm[i].namespace, prefix)}

Less(S) == {p \in S \X S : p[1] < p[2]}

\* Numbers are ordered.
LEMMA NumbersOrdered ==
    ASSUME NEW S \in SUBSET Int
    PROVE  StrictOrder(S, Less(S))
BY DEF StrictOrder, Less

\* The filter keeps the hits under the prefix, all of them, and their order.
LEMMA InScopeKeeps ==
    ASSUME NEW H, NEW arm \in Seq(H), NEW prefix
    PROVE  /\ InScope(arm, prefix) \in Seq(H)
           /\ Len(InScope(arm, prefix)) = Cardinality(InScopeAt(arm, prefix))
           /\ Len(InScope(arm, prefix)) <= Len(arm)
           /\ \E at \in [1..Len(InScope(arm, prefix)) -> InScopeAt(arm, prefix)] :
                /\ \A n \in DOMAIN at : InScope(arm, prefix)[n] = arm[at[n]]
                /\ \A m, n \in DOMAIN at : m < n => at[m] < at[n]
                /\ \A i \in InScopeAt(arm, prefix) : \E n \in DOMAIN at : at[n] = i
<1> DEFINE kept == InScopeAt(arm, prefix)
           size == Cardinality(kept)
           at == InOrder(kept, Less(kept))
           s == InScope(arm, prefix)
<1>1. Len(arm) \in Nat /\ kept \in SUBSET (1..Len(arm)) /\ kept \in SUBSET Int
  BY DEF InScopeAt
<1>2. IsFiniteSet(1..Len(arm)) /\ Cardinality(1..Len(arm)) = Len(arm)
  <2>1. 1 \in Int /\ Len(arm) \in Int
    BY <1>1
  <2>2. /\ IsFiniteSet(1..Len(arm))
        /\ Cardinality(1..Len(arm)) = IF 1 > Len(arm) THEN 0 ELSE Len(arm) - 1 + 1
    BY <2>1, FS_Interval
  <2> QED BY <1>1, <2>2
<1>3. IsFiniteSet(kept) /\ size <= Len(arm)
  BY <1>1, <1>2, FS_Subset
<1>4. StrictOrder(kept, Less(kept))
  BY <1>1, NumbersOrdered
<1>5. /\ size \in Nat /\ at \in [1..size -> kept]
      /\ \A x \in kept : \E i \in 1..size : at[i] = x
      /\ \A i, j \in 1..size : i < j => <<at[i], at[j]>> \in Less(kept)
  BY <1>3, <1>4, InOrderEnumerates
<1>6. DOMAIN at = 1..size
  BY <1>5
<1>7. s = [n \in 1..size |-> arm[at[n]]]
  <2>1. s = [n \in DOMAIN at |-> arm[at[n]]]
    BY Zenon DEF InScope, InScopeAt, Less
  <2> HIDE DEF at, s
  <2> QED BY <1>6, <2>1
<1> HIDE DEF at, kept, s, size
<1>8. ASSUME NEW n \in 1..size PROVE arm[at[n]] \in H
  <2>1. at[n] \in kept
    BY <1>5
  <2>2. at[n] \in 1..Len(arm)
    BY <1>1, <2>1
  <2> HIDE DEF at
  <2> QED BY <2>2
<1>9. s \in Seq(H) /\ Len(s) = size
  BY <1>5, <1>7, <1>8
<1>10. \A m, n \in DOMAIN at : m < n => at[m] < at[n]
  BY <1>5, <1>6 DEF Less
<1> QED BY <1>3, <1>5, <1>6, <1>7, <1>9, <1>10 DEF kept, s, size

\* Places counted from one are their own ranks.
LEMMA OwnRanks ==
    ASSUME NEW n \in Nat
    PROVE  InOrder(1..n, Less(1..n)) = [i \in 1..n |-> i]
<1> DEFINE below(x) == {y \in 1..n : <<y, x>> \in Less(1..n)}
<1>1. Cardinality(1..n) = n
  <2>1. 1 \in Int /\ n \in Int
    OBVIOUS
  <2>2. Cardinality(1..n) = IF 1 > n THEN 0 ELSE n - 1 + 1
    BY <2>1, FS_Interval
  <2> QED BY <2>2
<1>2. ASSUME NEW x \in 1..n PROVE Cardinality(below(x)) = x - 1
  <2>1. below(x) = 1..(x - 1)
    BY DEF Less
  <2>2. 1 \in Int /\ x - 1 \in Int
    OBVIOUS
  <2>3. Cardinality(1..(x - 1)) = IF 1 > x - 1 THEN 0 ELSE (x - 1) - 1 + 1
    BY <2>2, FS_Interval
  <2> HIDE DEF below
  <2> QED BY <2>1, <2>3
<1>3. ASSUME NEW i \in 1..n
      PROVE  (CHOOSE x \in 1..n : Cardinality(below(x)) = i - 1) = i
  <2> HIDE DEF below
  <2> DEFINE x == CHOOSE x \in 1..n : Cardinality(below(x)) = i - 1
  <2>1. x \in 1..n /\ Cardinality(below(x)) = i - 1
    BY <1>2
  <2> HIDE DEF x
  <2> QED BY <1>2, <2>1
<1> QED BY <1>1, <1>3 DEF InOrder

\* What is under the prefix already, the filter leaves as it is.
LEMMA AllInScope ==
    ASSUME NEW H, NEW arm \in Seq(H), NEW prefix,
           \A i \in 1..Len(arm) : StartsWith(arm[i].namespace, prefix)
    PROVE  InScope(arm, prefix) = arm
<1> DEFINE n == Len(arm)
<1>1. n \in Nat /\ arm = [i \in 1..n |-> arm[i]]
  OBVIOUS
<1>2. {i \in 1..Len(arm) : StartsWith(arm[i].namespace, prefix)} = 1..n
  OBVIOUS
<1>3. InOrder(1..n, Less(1..n)) = [i \in 1..n |-> i]
  BY <1>1, OwnRanks
<1> HIDE DEF n
<1>4. InScope(arm, prefix) = [i \in 1..n |-> arm[i]]
  BY <1>2, <1>3 DEF InScope, Less
<1> QED BY <1>1, <1>4

\* Everything is under the empty prefix.
LEMMA EmptyPrefix ==
    ASSUME NEW C, NEW namespace \in Seq(C)
    PROVE  StartsWith(namespace, <<>>)
BY DEF StartsWith

-----------------------------------------------------------------------------
(* The fused hits.                                                           *)

\* The hits of the two stores, and what Fuse makes of them.
ArmHit(Id, Space) == [id : Id, importance : 0..100, namespace : Space]
IsArm(arm, Id, Space) == arm \in Seq(ArmHit(Id, Space))

\* No two addresses sort alike.
IsOrder(order, Id) ==
    /\ order \in [Id -> Nat]
    /\ \A x, y \in Id : order[x] = order[y] => x = y

FusedHit(Id) == [id : Id, arms : SUBSET {"keyword", "semantic"},
                 importance : 0..100, score : Nat]

AllFused(keyword, kept) ==
    {Fused(keyword, kept, r) : r \in Found(keyword) \cup Found(kept)}

\* The order of the list.
Ranked(hits, order) == {p \in hits \X hits : Before(p[1], p[2], order)}

\* The rank of a record that is in an arm.
LEMMA RankOfFound ==
    ASSUME NEW arm, Len(arm) \in Nat, NEW r \in Found(arm)
    PROVE  RankOf(arm, r) \in Nat /\ RankOf(arm, r) < Len(arm)
<1>1. \E i \in 1..Len(arm) : arm[i].id = r
  BY DEF Found
<1> DEFINE i == CHOOSE i \in 1..Len(arm) : arm[i].id = r
<1>2. i \in 1..Len(arm)
  BY <1>1
<1>3. RankOf(arm, r) = i - 1
  BY DEF RankOf
<1> HIDE DEF i
<1> QED BY <1>2, <1>3

\* A rank's worth is a number.
LEMMA RrfNatural ==
    ASSUME NEW m \in Nat
    PROVE  Rrf(m) \in Nat
BY DEF Rrf, Scale, K

\* The boost is a number, a thousandth at most.
LEMMA BoostNatural ==
    ASSUME NEW importance \in 0..100
    PROVE  Boost(importance) \in Nat /\ Boost(importance) <= 100000
BY DEF Boost

\* What an arm says of a record.
LEMMA ArmValues ==
    ASSUME NEW Id, NEW Space, NEW arm, IsArm(arm, Id, Space), NEW r
    PROVE  /\ ArmImportance(arm, r) \in 0..100
           /\ ArmScore(arm, r) \in Nat
<1>1. Len(arm) \in Nat
  BY DEF IsArm
<1>2. CASE r \in Found(arm)
  <2>1. ArmScore(arm, r) \in Nat
    <3>1. RankOf(arm, r) \in Nat
      BY <1>1, <1>2, RankOfFound
    <3> QED BY <1>2, <3>1, RrfNatural DEF ArmScore
  <2>2. \E h \in {arm[i] : i \in 1..Len(arm)} : h.id = r
    BY <1>2 DEF Found
  <2>3. HitOf(arm, r) \in {arm[i] : i \in 1..Len(arm)}
    BY <2>2 DEF HitOf
  <2>4. \A i \in 1..Len(arm) : arm[i] \in ArmHit(Id, Space)
    BY DEF IsArm
  <2>5. \A h \in ArmHit(Id, Space) : h.importance \in 0..100
    BY DEF ArmHit
  <2>6. ArmImportance(arm, r) = HitOf(arm, r).importance
    BY <1>2 DEF ArmImportance
  <2> QED BY <2>1, <2>3, <2>4, <2>5, <2>6
<1>3. CASE r \notin Found(arm)
  BY <1>3 DEF ArmImportance, ArmScore
<1> QED BY <1>2, <1>3

\* An arm finds finitely many records.
LEMMA FoundFinite ==
    ASSUME NEW Id, NEW Space, NEW arm, IsArm(arm, Id, Space)
    PROVE  IsFiniteSet(Found(arm)) /\ Found(arm) \in SUBSET Id
<1> DEFINE D == 1..Len(arm)
           f == [i \in D |-> arm[i].id]
<1>1. Len(arm) \in Nat /\ \A i \in D : arm[i] \in ArmHit(Id, Space)
  BY DEF IsArm
<1>2. Found(arm) \in SUBSET Id
  BY <1>1 DEF Found, ArmHit
<1>3. IsFiniteSet(D)
  <2>1. 1 \in Int /\ Len(arm) \in Int
    BY <1>1
  <2> QED BY <2>1, FS_Interval
<1>4. f \in Surjection(D, Found(arm))
  <2>1. f \in [D -> Found(arm)]
    BY DEF Found
  <2>2. \A r \in Found(arm) : \E i \in D : f[i] = r
    BY DEF Found
  <2> HIDE DEF f
  <2> QED BY <2>1, <2>2, Zenon DEF Surjection
<1> QED BY <1>2, <1>3, <1>4, FS_Surjection

\* The fields of a fused hit.
LEMMA FusedType ==
    ASSUME NEW Id, NEW Space, NEW keyword, IsArm(keyword, Id, Space),
           NEW kept, IsArm(kept, Id, Space), NEW r \in Id
    PROVE  /\ Fused(keyword, kept, r) \in FusedHit(Id)
           /\ Fused(keyword, kept, r).id = r
<1>1. /\ ArmImportance(keyword, r) \in 0..100 /\ ArmScore(keyword, r) \in Nat
      /\ ArmImportance(kept, r) \in 0..100 /\ ArmScore(kept, r) \in Nat
  BY ArmValues
<1>2. FusedImportance(keyword, kept, r) \in 0..100
  BY <1>1 DEF FusedImportance
<1>3. ArmScore(keyword, r) + ArmScore(kept, r)
        + Boost(FusedImportance(keyword, kept, r)) \in Nat
  <2>1. Boost(FusedImportance(keyword, kept, r)) \in Nat
    BY <1>2, BoostNatural
  <2> QED BY <1>1, <2>1
<1> QED BY <1>2, <1>3 DEF Fused, FusedHit

\* Score, importance and address together leave no tie between two records.
LEMMA FusedOrdered ==
    ASSUME NEW Id, NEW Space, NEW keyword, IsArm(keyword, Id, Space),
           NEW kept, IsArm(kept, Id, Space),
           NEW order, IsOrder(order, Id)
    PROVE  /\ StrictOrder(AllFused(keyword, kept), Ranked(AllFused(keyword, kept), order))
           /\ IsFiniteSet(AllFused(keyword, kept))
           /\ Cardinality(AllFused(keyword, kept))
                = Cardinality(Found(keyword) \cup Found(kept))
           /\ AllFused(keyword, kept) \in SUBSET FusedHit(Id)
<1> DEFINE hits == AllFused(keyword, kept)
           found == Found(keyword) \cup Found(kept)
           f == [r \in found |-> Fused(keyword, kept, r)]
<1>1. IsFiniteSet(found) /\ found \in SUBSET Id
  BY FoundFinite, FS_Union
<1>2. \A r \in found : /\ Fused(keyword, kept, r) \in FusedHit(Id)
                       /\ Fused(keyword, kept, r).id = r
  BY <1>1, FusedType
<1>3. hits \in SUBSET FusedHit(Id) /\ \A g, h \in hits : g.id = h.id => g = h
  BY <1>2 DEF AllFused
<1>4. f \in Surjection(found, hits) /\ f \in Injection(found, hits)
  <2>1. f \in [found -> hits] /\ \A h \in hits : \E r \in found : f[r] = h
    BY DEF AllFused
  <2>2. \A x, y \in found : f[x] = f[y] => x = y
    BY <1>2
  <2> HIDE DEF f
  <2> QED BY <2>1, <2>2, Zenon DEF Surjection, Injection, IsInjective
<1> HIDE DEF f
<1>5. IsFiniteSet(hits) /\ Cardinality(hits) = Cardinality(found)
  BY <1>1, <1>4, FS_Surjection
<1>6. ASSUME NEW g \in hits, NEW h \in hits, NEW i \in hits
      PROVE  /\ ~Before(g, g, order)
             /\ Before(g, h, order) /\ Before(h, i, order) => Before(g, i, order)
             /\ g # h => Before(g, h, order) \/ Before(h, g, order)
  <2>1. \A x \in hits : /\ x.score \in Nat /\ x.importance \in Nat
                        /\ order[x.id] \in Nat /\ x.id \in Id
    <3>1. \A x \in FusedHit(Id) : /\ x.score \in Nat /\ x.importance \in 0..100
                                 /\ x.id \in Id
      BY DEF FusedHit
    <3>2. \A x \in Id : order[x] \in Nat
      BY DEF IsOrder
    <3>3. \A n \in 0..100 : n \in Nat
      OBVIOUS
    <3> QED BY <1>3, <3>1, <3>2, <3>3, Zenon
  <2>2. g # h => order[g.id] # order[h.id]
    BY <1>3, <2>1 DEF IsOrder
  <2> QED BY <2>1, <2>2 DEF Before
<1>7. \A p : p \in Ranked(hits, order) <=> p \in hits \X hits /\ Before(p[1], p[2], order)
  BY DEF Ranked
<1>8. StrictOrder(hits, Ranked(hits, order))
  BY <1>6, <1>7 DEF StrictOrder
<1> QED BY <1>3, <1>5, <1>8

\* What sort_by and truncate leave of the fused hits: as many as asked for (one
\* at least), or all there are; each before the next by score, then importance,
\* then address; and each before whatever is left out.
IsHead(hits, fused, limit, order) ==
    /\ hits \in Seq(fused)
    /\ limit = 0 => Len(hits) = (IF 1 < Cardinality(fused) THEN 1 ELSE Cardinality(fused))
    /\ limit # 0 =>
         Len(hits) = (IF limit < Cardinality(fused) THEN limit ELSE Cardinality(fused))
    /\ \A i, j \in 1..Len(hits) : i < j => Before(hits[i], hits[j], order)
    /\ \A h \in fused : \/ \E i \in 1..Len(hits) : hits[i] = h
                       \/ \A i \in 1..Len(hits) : Before(hits[i], h, order)

\* The head of a ranking.
LEMMA HeadOfRanking ==
    ASSUME NEW fused, IsFiniteSet(fused), NEW limit \in Nat, NEW order,
           StrictOrder(fused, Ranked(fused, order))
    PROVE  IsHead(Truncate(Sorted(fused, order), limit), fused, limit, order)
<1>1. PICK all, sorted :
        /\ all = Cardinality(fused) /\ sorted = Sorted(fused, order)
  OBVIOUS
<1>2. sorted = InOrder(fused, Ranked(fused, order))
  BY <1>1 DEF Sorted, Ranked
<1>3. /\ all \in Nat /\ sorted \in [1..all -> fused]
      /\ \A h \in fused : \E i \in 1..all : sorted[i] = h
      /\ \A i, j \in 1..all : i < j => <<sorted[i], sorted[j]>> \in Ranked(fused, order)
  BY <1>1, <1>2, InOrderEnumerates
<1>4. sorted \in Seq(fused) /\ Len(sorted) = all
  BY <1>3
<1>5. PICK wanted : wanted = IF limit = 0 THEN 1 ELSE limit
  OBVIOUS
<1>6. PICK n : n = IF wanted < all THEN wanted ELSE all
  OBVIOUS
<1>7. n \in Nat /\ n <= all /\ (n < all => n = wanted)
  BY <1>3, <1>5, <1>6
<1>8. PICK hits : hits = Truncate(sorted, limit)
  OBVIOUS
<1>9. hits = SubSeq(sorted, 1, n)
  BY <1>4, <1>5, <1>6, <1>8 DEF Truncate
<1>10. hits \in Seq(fused) /\ Len(hits) = n /\ \A i \in 1..n : hits[i] = sorted[i]
  BY <1>3, <1>4, <1>7, <1>9
<1>11. \A i, j \in 1..all : i < j => Before(sorted[i], sorted[j], order)
  BY <1>3 DEF Ranked
<1>12. \A i, j \in 1..Len(hits) : i < j => Before(hits[i], hits[j], order)
  BY <1>3, <1>7, <1>10, <1>11
<1>13. ASSUME NEW h \in fused
       PROVE  \/ \E i \in 1..Len(hits) : hits[i] = h
              \/ \A i \in 1..Len(hits) : Before(hits[i], h, order)
  <2>1. PICK j \in 1..all : sorted[j] = h
    BY <1>3
  <2>2. CASE j \in 1..n
    BY <1>10, <2>1, <2>2
  <2>3. CASE j \notin 1..n
    <3>1. \A i \in 1..n : i \in 1..all /\ i < j
      BY <1>3, <1>7, <2>3
    <3> QED BY <1>10, <1>11, <2>1, <3>1
  <2> QED BY <2>2, <2>3
<1>14. Len(hits) = IF wanted < all THEN wanted ELSE all
  BY <1>6, <1>10
<1>15. IsHead(hits, fused, limit, order)
  BY <1>1, <1>5, <1>10, <1>12, <1>13, <1>14, Zenon DEF IsHead
<1> QED BY <1>1, <1>8, <1>15

\* The answer of recall is a ranking of all that was found: what Fuse returns is
\* the head of the fused hits in their order, one hit for each record found.
THEOREM FuseRanks ==
    ASSUME NEW Id, NEW Space, NEW keyword, IsArm(keyword, Id, Space),
           NEW semantic, IsArm(semantic, Id, Space), NEW prefix, NEW limit \in Nat,
           NEW order, IsOrder(order, Id)
    PROVE  /\ IsHead(Fuse(keyword, semantic, prefix, limit, order),
                     AllFused(keyword, InScope(semantic, prefix)), limit, order)
           /\ Cardinality(AllFused(keyword, InScope(semantic, prefix)))
                = Cardinality(Found(keyword) \cup Found(InScope(semantic, prefix)))
<1>1. PICK kept : kept = InScope(semantic, prefix)
  OBVIOUS
<1>2. IsArm(kept, Id, Space)
  BY <1>1, InScopeKeeps DEF IsArm
<1>3. PICK fused : fused = AllFused(keyword, kept)
  OBVIOUS
<1>4. /\ StrictOrder(fused, Ranked(fused, order)) /\ IsFiniteSet(fused)
      /\ Cardinality(fused) = Cardinality(Found(keyword) \cup Found(kept))
  BY <1>2, <1>3, FusedOrdered
<1>5. Fuse(keyword, semantic, prefix, limit, order)
        = Truncate(Sorted(fused, order), limit)
  BY <1>1, <1>3 DEF Fuse, AllFused
<1>6. IsHead(Truncate(Sorted(fused, order), limit), fused, limit, order)
  BY <1>4, HeadOfRanking
<1> QED BY <1>1, <1>3, <1>4, <1>5, <1>6

\* What the prefix keeps is found in the arm, and under the prefix.
LEMMA FoundInScope ==
    ASSUME NEW Id, NEW Space, NEW arm, IsArm(arm, Id, Space), NEW prefix,
           NEW r \in Found(InScope(arm, prefix))
    PROVE  \E i \in 1..Len(arm) : /\ arm[i].id = r
                                 /\ StartsWith(arm[i].namespace, prefix)
<1>1. PICK kept : kept = InScope(arm, prefix)
  OBVIOUS
<1>2. PICK at \in [1..Len(kept) -> InScopeAt(arm, prefix)] :
        \A n \in DOMAIN at : kept[n] = arm[at[n]]
  BY <1>1, InScopeKeeps DEF IsArm
<1>3. PICK n \in 1..Len(kept) : kept[n].id = r
  BY <1>1 DEF Found
<1>4. at[n] \in InScopeAt(arm, prefix) /\ arm[at[n]].id = r
  BY <1>2, <1>3
<1> QED BY <1>4 DEF InScopeAt

\* Nothing is answered that neither arm found.
LEMMA AnsweredIsFound ==
    ASSUME NEW Id, NEW Space, NEW keyword, IsArm(keyword, Id, Space),
           NEW semantic, IsArm(semantic, Id, Space), NEW prefix, NEW limit \in Nat,
           NEW order, IsOrder(order, Id)
    PROVE  /\ Found(Fuse(keyword, semantic, prefix, limit, order))
                \subseteq Found(keyword) \cup Found(InScope(semantic, prefix))
           /\ \A i \in 1..Len(Fuse(keyword, semantic, prefix, limit, order)) :
                \E r \in Found(keyword) \cup Found(InScope(semantic, prefix)) :
                  Fuse(keyword, semantic, prefix, limit, order)[i]
                    = Fused(keyword, InScope(semantic, prefix), r)
<1>1. PICK kept : kept = InScope(semantic, prefix)
  OBVIOUS
<1>2. PICK fused : fused = AllFused(keyword, kept)
  OBVIOUS
<1>3. PICK hits : hits = Fuse(keyword, semantic, prefix, limit, order)
  OBVIOUS
<1>4. hits \in Seq(fused)
  BY <1>1, <1>2, <1>3, FuseRanks DEF IsHead
<1>5. \A i \in 1..Len(hits) : hits[i] \in fused
  BY <1>4
<1>6. \A h \in fused : \E r \in Found(keyword) \cup Found(kept) :
        h = Fused(keyword, kept, r) /\ h.id = r
  BY <1>2 DEF AllFused, Fused
<1>7. Found(hits) \subseteq Found(keyword) \cup Found(kept)
  BY <1>5, <1>6 DEF Found
<1> QED BY <1>1, <1>3, <1>5, <1>6, <1>7

\* A semantic hit dropped for its namespace leaves no trace in the answer.
THEOREM DroppedHitsDoNotCount ==
    ASSUME NEW Id, NEW C, NEW keyword, NEW semantic, IsArm(semantic, Id, Seq(C)),
           NEW prefix, NEW limit, NEW order
    PROVE  Fuse(keyword, semantic, prefix, limit, order)
             = Fuse(keyword, InScope(semantic, prefix), <<>>, limit, order)
<1>1. PICK kept : kept = InScope(semantic, prefix)
  OBVIOUS
<1>2. kept \in Seq(ArmHit(Id, Seq(C)))
  BY <1>1, InScopeKeeps DEF IsArm
<1>3. ASSUME NEW i \in 1..Len(kept) PROVE StartsWith(kept[i].namespace, <<>>)
  <2>1. kept[i] \in ArmHit(Id, Seq(C))
    BY <1>2
  <2>2. kept[i].namespace \in Seq(C)
    BY <2>1 DEF ArmHit
  <2> QED BY <2>2, EmptyPrefix
<1>4. InScope(kept, <<>>) = kept
  BY <1>2, <1>3, AllInScope
<1> QED BY <1>1, <1>4 DEF Fuse

-----------------------------------------------------------------------------
(* The boost.                                                                *)

\* An arm short enough for "the common (shallow-rank) case".
IsShallow(arm, Id, Space) == IsArm(arm, Id, Space) /\ Len(arm) <= 54

\* With ranks up to 53, being found by both arms is worth more than any single
\* rank with any importance.  (K is 60, the boost at most Scale / 1000.)
LEMMA ShallowRank ==
    ASSUME NEW m \in 0..53
    PROVE  Rrf(m) \in Nat /\ 877192 <= Rrf(m) /\ Rrf(m) <= 1639344
BY DEF Rrf, Scale, K

\* No further: the 55th of both arms is behind the first of one, if that is
\* important enough.
LEMMA ShallowIsTight == Rrf(54) + Rrf(54) < Rrf(0) + Boost(100)
BY DEF Rrf, Scale, K, Boost

\* The scores one arm of at most 54 hits can give.
LEMMA ArmBounds ==
    ASSUME NEW Id, NEW Space, NEW arm, IsShallow(arm, Id, Space), NEW r
    PROVE  /\ r \in Found(arm) =>
                /\ ArmScore(arm, r) \in Nat
                /\ 877192 <= ArmScore(arm, r) /\ ArmScore(arm, r) <= 1639344
           /\ r \notin Found(arm) => ArmScore(arm, r) = 0
<1>1. Len(arm) \in Nat /\ Len(arm) <= 54
  BY DEF IsShallow, IsArm
<1>2. CASE r \in Found(arm)
  <2>1. RankOf(arm, r) \in Nat /\ RankOf(arm, r) < Len(arm)
    BY <1>1, <1>2, RankOfFound
  <2>2. \A n, m \in Nat : m < n /\ n <= 54 => m \in 0..53
    OBVIOUS
  <2>3. RankOf(arm, r) \in 0..53
    BY <1>1, <2>1, <2>2, Zenon
  <2>4. ArmScore(arm, r) = Rrf(RankOf(arm, r))
    BY <1>2 DEF ArmScore
  <2> QED BY <1>2, <2>3, <2>4, ShallowRank
<1>3. CASE r \notin Found(arm)
  BY <1>3 DEF ArmScore
<1> QED BY <1>2, <1>3

\* The importance boost is advisory: with arms of at most 54 hits, a record
\* found by both has a higher score than any record found by one alone,
\* whatever their ranks and importances.  This is how far "shallow rank" goes in
\* the comment on IMPORTANCE_BOOST_MAX.
THEOREM BothArmsOutrank ==
    ASSUME NEW Id, NEW Space, NEW keyword, IsShallow(keyword, Id, Space),
           NEW kept, IsShallow(kept, Id, Space),
           NEW r \in Found(keyword), r \in Found(kept),
           NEW s, ~(s \in Found(keyword) /\ s \in Found(kept))
    PROVE  Fused(keyword, kept, r).score > Fused(keyword, kept, s).score
<1> DEFINE importance(x) == FusedImportance(keyword, kept, x)
           score(x) == ArmScore(keyword, x) + ArmScore(kept, x) + Boost(importance(x))
<1>1. ASSUME NEW x PROVE Fused(keyword, kept, x).score = score(x)
  BY DEF Fused
<1>2. ASSUME NEW x
      PROVE  Boost(importance(x)) \in Nat /\ Boost(importance(x)) <= 100000
  <2>1. ArmImportance(keyword, x) \in 0..100 /\ ArmImportance(kept, x) \in 0..100
    BY ArmValues DEF IsShallow
  <2>2. importance(x) \in 0..100
    BY <2>1 DEF FusedImportance
  <2> HIDE DEF importance
  <2> QED BY <2>2 DEF Boost
<1> HIDE DEF importance
<1>3. /\ ArmScore(keyword, r) \in Nat /\ 877192 <= ArmScore(keyword, r)
      /\ ArmScore(kept, r) \in Nat /\ 877192 <= ArmScore(kept, r)
  BY ArmBounds
<1>4. score(r) >= 1754384
  BY <1>2, <1>3
<1>5. /\ ArmScore(keyword, s) \in Nat /\ ArmScore(kept, s) \in Nat
      /\ ArmScore(keyword, s) + ArmScore(kept, s) <= 1639344
  <2>1. s \notin Found(keyword) => ArmScore(keyword, s) = 0
    BY ArmBounds
  <2>2. s \notin Found(kept) => ArmScore(kept, s) = 0
    BY ArmBounds
  <2>3. s \in Found(keyword) =>
          ArmScore(keyword, s) \in Nat /\ ArmScore(keyword, s) <= 1639344
    BY ArmBounds
  <2>4. s \in Found(kept) =>
          ArmScore(kept, s) \in Nat /\ ArmScore(kept, s) <= 1639344
    BY ArmBounds
  <2> QED BY <2>1, <2>2, <2>3, <2>4
<1>6. score(s) <= 1739344 /\ score(s) \in Nat /\ score(r) \in Nat
  BY <1>2, <1>3, <1>5
<1> HIDE DEF score
<1> QED BY <1>1, <1>4, <1>6

\* A hit names one arm or both.
LEMMA ArmsCounted ==
    ASSUME NEW keyword, NEW kept, NEW r
    PROVE  /\ Cardinality(Fused(keyword, kept, r).arms) = 2
                => r \in Found(keyword) /\ r \in Found(kept)
           /\ Cardinality(Fused(keyword, kept, r).arms) = 1
                => ~(r \in Found(keyword) /\ r \in Found(kept))
<1> DEFINE arms == Fused(keyword, kept, r).arms
<1>1. /\ arms \in SUBSET {"keyword", "semantic"}
      /\ "keyword" \in arms <=> r \in Found(keyword)
      /\ "semantic" \in arms <=> r \in Found(kept)
  BY DEF Fused
<1> HIDE DEF arms
<1>2. arms \in {{}, {"keyword"}, {"semantic"}, {"keyword", "semantic"}}
  BY <1>1
<1>3. Cardinality({}) = 0 /\ \A a : Cardinality({a}) = 1 /\ IsFiniteSet({a})
  BY FS_EmptySet, FS_Singleton
<1>4. Cardinality({"keyword"} \cup {"semantic"}) = 2
  <2>1. /\ IsFiniteSet({"keyword"}) /\ Cardinality({"keyword"}) = 1
        /\ "semantic" \notin {"keyword"}
    BY <1>3
  <2>2. Cardinality({"keyword"} \cup {"semantic"})
          = IF "semantic" \in {"keyword"} THEN 1 ELSE 1 + 1
    BY <2>1, FS_AddElement
  <2> QED BY <2>1, <2>2
<1>5. {"keyword"} \cup {"semantic"} = {"keyword", "semantic"}
  OBVIOUS
<1>6. Cardinality(arms) = 2 => arms = {"keyword", "semantic"}
  <2>1. arms = {} => Cardinality(arms) = 0
    BY <1>3
  <2>2. arms = {"keyword"} => Cardinality(arms) = 1
    BY <1>3
  <2>3. arms = {"semantic"} => Cardinality(arms) = 1
    BY <1>3
  <2> QED BY <1>2, <2>1, <2>2, <2>3
<1>7. Cardinality(arms) = 1 => arms # {"keyword", "semantic"}
  BY <1>4, <1>5
<1> QED BY <1>1, <1>6, <1>7 DEF arms

\* So it is in the answer: of two shallow arms, whatever both found comes before
\* whatever only one did.
THEOREM BothArmsLead ==
    ASSUME NEW Id, NEW Space, NEW keyword, IsShallow(keyword, Id, Space),
           NEW semantic, IsShallow(semantic, Id, Space), NEW prefix,
           NEW limit \in Nat, NEW order, IsOrder(order, Id),
           NEW i \in 1..Len(Fuse(keyword, semantic, prefix, limit, order)),
           NEW j \in 1..Len(Fuse(keyword, semantic, prefix, limit, order)),
           Cardinality(Fuse(keyword, semantic, prefix, limit, order)[i].arms) = 1,
           Cardinality(Fuse(keyword, semantic, prefix, limit, order)[j].arms) = 2
    PROVE  j < i
<1>1. PICK kept : kept = InScope(semantic, prefix)
  OBVIOUS
<1>2. IsShallow(kept, Id, Space)
  <2>1. Len(semantic) \in Nat /\ Len(semantic) <= 54 /\ semantic \in Seq(ArmHit(Id, Space))
    BY DEF IsShallow, IsArm
  <2>2. kept \in Seq(ArmHit(Id, Space)) /\ Len(kept) <= Len(semantic)
    BY <1>1, <2>1, InScopeKeeps
  <2>3. Len(kept) \in Nat
    BY <2>2
  <2>4. Len(kept) <= 54
    BY <2>1, <2>2, <2>3
  <2> QED BY <2>2, <2>4 DEF IsShallow, IsArm
<1>3. PICK hits : hits = Fuse(keyword, semantic, prefix, limit, order)
  OBVIOUS
<1>4. IsArm(keyword, Id, Space) /\ IsArm(semantic, Id, Space)
  BY DEF IsShallow
<1>5. \A m, n \in 1..Len(hits) : m < n => Before(hits[m], hits[n], order)
  BY <1>3, <1>4, FuseRanks DEF IsHead
<1>6. PICK r \in Found(keyword) \cup Found(kept) : hits[j] = Fused(keyword, kept, r)
  BY <1>1, <1>3, <1>4, AnsweredIsFound
<1>7. PICK s \in Found(keyword) \cup Found(kept) : hits[i] = Fused(keyword, kept, s)
  BY <1>1, <1>3, <1>4, AnsweredIsFound
<1>8. r \in Found(keyword) /\ r \in Found(kept)
  BY <1>3, <1>6, ArmsCounted
<1>9. ~(s \in Found(keyword) /\ s \in Found(kept))
  BY <1>3, <1>7, ArmsCounted
<1>10. hits[j].score > hits[i].score
  BY <1>2, <1>6, <1>7, <1>8, <1>9, BothArmsOutrank
<1>11. hits[i].score \in Nat /\ hits[j].score \in Nat
  <2>1. IsArm(kept, Id, Space)
    BY <1>2 DEF IsShallow
  <2>2. r \in Id /\ s \in Id
    BY <1>4, <2>1, FoundFinite
  <2> QED BY <1>4, <1>6, <1>7, <2>1, <2>2, FusedType DEF FusedHit
<1>12. ~Before(hits[i], hits[j], order) /\ i # j
  BY <1>10, <1>11 DEF Before
<1>13. ~(i < j)
  BY <1>3, <1>5, <1>12
<1> QED BY <1>3, <1>12, <1>13

=============================================================================
