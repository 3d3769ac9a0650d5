----------------------- MODULE SourceWorkQueueProofs -----------------------
(***************************************************************************)
(* Proofs about SourceWorkQueue, for any requests, attempts and bounds, as *)
(* long as no two items are created within one second: nothing runs that   *)
(* no worker attends to, starts are capped, and what is over stays over.   *)
(***************************************************************************)
EXTENDS SourceWorkQueue, FiniteSetTheorems, SequenceTheorems, TLAPS

----------------------------------------------------------------------------
(* The order of positions.                                                 *)

IsOrder(S, R) ==
    /\ \A k \in S : <<k, k>> \notin R
    /\ \A i, j, k \in S : <<i, j>> \in R /\ <<j, k>> \in R => <<i, k>> \in R
    /\ \A i, j \in S : i = j \/ <<i, j>> \in R \/ <<j, i>> \in R

\* Of a finite set in order, some element has n below it, for every n that fits.
LEMMA EveryRankIsTaken ==
  ASSUME NEW S, IsFiniteSet(S), NEW R, IsOrder(S, R), NEW n \in 1 .. Cardinality(S)
  PROVE  \E k \in S : Cardinality({j \in S : <<j, k>> \in R}) = n - 1
  <1> DEFINE Below(k) == {j \in S : <<j, k>> \in R}
             N == Cardinality(S)
             rank == [k \in S |-> Cardinality(Below(k))]
             ranks == 0 .. (N - 1)
  <1>1. N \in Nat
    BY FS_CardinalityType
  <1>2. ASSUME NEW k \in S
        PROVE  /\ IsFiniteSet(Below(k)) /\ Cardinality(Below(k)) \in Nat
               /\ Cardinality(Below(k)) < N
    <2>1. Below(k) \subseteq S /\ k \notin Below(k)
      BY DEF IsOrder
    <2> HIDE DEF Below
    <2>2. /\ IsFiniteSet(Below(k)) /\ Cardinality(Below(k)) <= N
          /\ N = Cardinality(Below(k)) => S = Below(k)
      BY <2>1, FS_Subset
    <2>3. Cardinality(Below(k)) \in Nat
      BY <2>2, FS_CardinalityType
    <2>4. N # Cardinality(Below(k))
      BY <2>1, <2>2
    <2> HIDE DEF N
    <2> QED
      BY <1>1, <2>2, <2>3, <2>4
  <1>3. ASSUME NEW i \in S, NEW j \in S, <<i, j>> \in R
        PROVE  Cardinality(Below(i)) < Cardinality(Below(j))
    <2>1. Below(i) \subseteq Below(j)
      BY <1>3 DEF IsOrder
    <2>2. i \in Below(j) /\ i \notin Below(i)
      BY <1>3 DEF IsOrder
    <2>3. IsFiniteSet(Below(j)) /\ Cardinality(Below(j)) \in Nat /\ Cardinality(Below(i)) \in Nat
      BY <1>2
    <2> HIDE DEF Below
    <2>4. /\ Cardinality(Below(i)) <= Cardinality(Below(j))
          /\ Cardinality(Below(j)) = Cardinality(Below(i)) => Below(j) = Below(i)
      BY <2>1, <2>3, FS_Subset
    <2>5. Cardinality(Below(j)) # Cardinality(Below(i))
      BY <2>2, <2>4
    <2> QED
      BY <2>3, <2>4, <2>5
  <1>4. rank \in [S -> ranks]
    <2> HIDE DEF Below, N
    <2> QED
      BY <1>1, <1>2
  <1>5. \A i, j \in S : rank[i] = rank[j] => i = j
    <2> SUFFICES ASSUME NEW i \in S, NEW j \in S, rank[i] = rank[j], i # j PROVE FALSE
      OBVIOUS
    <2>1. <<i, j>> \in R \/ <<j, i>> \in R
      BY DEF IsOrder
    <2>2. Cardinality(Below(i)) = Cardinality(Below(j)) /\ Cardinality(Below(i)) \in Nat
      BY <1>2
    <2>3. Cardinality(Below(i)) < Cardinality(Below(j)) \/ Cardinality(Below(j)) < Cardinality(Below(i))
      BY <1>3, <2>1
    <2> HIDE DEF Below
    <2> QED
      BY <2>2, <2>3
  <1>6. IsFiniteSet(ranks) /\ Cardinality(ranks) = N
    <2>1. 0 \in Int /\ N - 1 \in Int
      BY <1>1
    <2>2. IsFiniteSet(ranks) /\ Cardinality(ranks) = IF 0 > N - 1 THEN 0 ELSE (N - 1) - 0 + 1
      BY <2>1, FS_Interval
    <2> HIDE DEF N, ranks
    <2> QED
      BY <1>1, <2>2
  <1>7. rank \in Injection(S, ranks)
    <2> HIDE DEF rank, ranks
    <2> QED
      BY <1>4, <1>5 DEF Injection, IsInjective
  <1>8. rank \in Surjection(S, ranks)
    <2> HIDE DEF rank, ranks
    <2> QED
      BY <1>6, <1>7, FS_Injection
  <1>9. n - 1 \in ranks
    <2> HIDE DEF N
    <2>1. n \in 1 .. N
      BY DEF N
    <2> QED
      BY <1>1, <2>1
  <1>10. \E k \in S : rank[k] = n - 1
    <2> HIDE DEF rank, ranks
    <2> QED
      BY <1>8, <1>9 DEF Surjection
  <1> QED
    BY <1>10

\* The items arranged are items of the file, each position once.
LEMMA ArrangedAreItems ==
  ASSUME NEW its, NEW S, IsFiniteSet(S), NEW R, IsOrder(S, R)
  PROVE  /\ DOMAIN Arranged(its, S, R) = 1 .. Cardinality(S)
         /\ \A n \in 1 .. Cardinality(S) : /\ InOrder(S, R)[n] \in S
                                           /\ Arranged(its, S, R)[n] = its[InOrder(S, R)[n]]
         /\ \A m, n \in 1 .. Cardinality(S) : InOrder(S, R)[m] = InOrder(S, R)[n] => m = n
  <1>1. ASSUME NEW n \in 1 .. Cardinality(S)
        PROVE  /\ InOrder(S, R)[n] \in S
               /\ Cardinality({j \in S : <<j, InOrder(S, R)[n]>> \in R}) = n - 1
    <2>1. \E k \in S : Cardinality({j \in S : <<j, k>> \in R}) = n - 1
      BY EveryRankIsTaken
    <2> QED
      BY <2>1 DEF InOrder
  <1>2. ASSUME NEW m \in 1 .. Cardinality(S), NEW n \in 1 .. Cardinality(S),
               InOrder(S, R)[m] = InOrder(S, R)[n]
        PROVE  m = n
    <2>1. m - 1 = n - 1
      BY <1>1, <1>2
    <2>2. m \in Int /\ n \in Int
      BY FS_CardinalityType
    <2> QED
      BY <2>1, <2>2
  <1> QED
    BY <1>1, <1>2 DEF Arranged

----------------------------------------------------------------------------
(* What is rearranged is a part of the queue, each item as it was.         *)

Unique(its) == \A k, n \in DOMAIN its : its[k].id = its[n].id => k = n
PartOf(new, its) == \A n \in DOMAIN new : \E k \in DOMAIN its : new[n] = its[k]

LEMMA PositionsAreFinite ==
  ASSUME NEW its \in Seq(Items), NEW S \in SUBSET DOMAIN its
  PROVE  S \subseteq Nat /\ IsFiniteSet(S)
  <1>1. DOMAIN its = 1 .. Len(its) /\ Len(its) \in Nat
    BY LenProperties
  <1>2. 1 \in Int /\ Len(its) \in Int
    BY <1>1
  <1>3. IsFiniteSet(DOMAIN its)
    BY <1>1, <1>2, FS_Interval
  <1>4. DOMAIN its \subseteq Nat
    BY <1>1
  <1>5. IsFiniteSet(S)
    BY <1>3, FS_Subset
  <1> QED
    BY <1>4, <1>5

LEMMA ArrangedIsPart ==
  ASSUME NEW its \in Seq(Items), Unique(its),
         NEW S \in SUBSET DOMAIN its, NEW R, IsOrder(S, R)
  PROVE  LET new == Arranged(its, S, R)
         IN  new \in Seq(Items) /\ Unique(new) /\ PartOf(new, its)
  <1> DEFINE new == Arranged(its, S, R)
             N == Cardinality(S)
  <1>1. N \in Nat
    BY PositionsAreFinite, FS_CardinalityType
  <1>2. /\ DOMAIN new = 1 .. N
        /\ \A n \in 1 .. N : InOrder(S, R)[n] \in S /\ new[n] = its[InOrder(S, R)[n]]
        /\ \A m, n \in 1 .. N : InOrder(S, R)[m] = InOrder(S, R)[n] => m = n
    <2>1. IsFiniteSet(S)
      BY PositionsAreFinite
    <2> HIDE DEF new
    <2>2. /\ DOMAIN new = 1 .. Cardinality(S)
          /\ \A n \in 1 .. Cardinality(S) : /\ InOrder(S, R)[n] \in S
                                             /\ new[n] = its[InOrder(S, R)[n]]
          /\ \A m, n \in 1 .. Cardinality(S) : InOrder(S, R)[m] = InOrder(S, R)[n] => m = n
      BY <2>1, ArrangedAreItems DEF new
    <2> QED
      BY <2>2
  <1>3. \A k \in DOMAIN its : its[k] \in Items
    BY ElementOfSeq
  <1>4. new = [n \in 1 .. N |-> its[InOrder(S, R)[n]]]
    BY DEF Arranged
  <1> HIDE DEF new, N
  <1>5. new \in [1 .. N -> Items]
    BY <1>2, <1>3, <1>4
  <1>6. new \in Seq(Items)
    BY <1>1, <1>5
  <1>7. Unique(new)
    BY <1>2 DEF Unique
  <1>8. PartOf(new, its)
    BY <1>2 DEF PartOf
  <1> QED
    BY <1>6, <1>7, <1>8 DEF new

LEMMA FileOrderIsOrder ==
  ASSUME NEW its \in Seq(Items), NEW S \in SUBSET DOMAIN its
  PROVE  IsOrder(S, FileOrder(its))
  <1>1. S \subseteq Nat
    BY PositionsAreFinite
  <1>2. \A i, j \in S : <<i, j>> \in FileOrder(its) <=> i < j
    BY DEF FileOrder, Pairs
  <1> HIDE DEF FileOrder
  <1>3. \A k \in S : <<k, k>> \notin FileOrder(its)
    BY <1>1, <1>2
  <1>4. \A i, j, k \in S : i < j /\ j < k => i < k
    BY <1>1
  <1>5. \A i, j \in S : i = j \/ i < j \/ j < i
    BY <1>1
  <1> QED
    BY <1>2, <1>3, <1>4, <1>5 DEF IsOrder

LEMMA SectionsAreOrdered ==
  ASSUME NEW its \in Seq(Items), NEW Q, IsOrder(DOMAIN its, Q), NEW S \in SUBSET DOMAIN its
  PROVE  IsOrder(S, InSections(its, Q))
  <1> DEFINE R == InSections(its, Q)
             s(k) == Section(its[k])
  <1>1. DOMAIN its \subseteq Nat
    BY PositionsAreFinite
  <1>2. \A k \in DOMAIN its : s(k) \in 0 .. 2
    BY DEF Section
  <1>3. \A i, j \in DOMAIN its :
           <<i, j>> \in R <=> \/ s(i) < s(j)
                              \/ s(i) = s(j) /\ IF IsQueued(its[i]) THEN <<i, j>> \in Q ELSE i < j
    BY DEF InSections, Pairs
  <1>4. \A i, j \in DOMAIN its : s(i) = s(j) => (IsQueued(its[i]) <=> IsQueued(its[j]))
    BY DEF Section, IsRunning, IsQueued
  <1> HIDE DEF R, s
  <1>5. ASSUME NEW k \in S PROVE <<k, k>> \notin R
    <2>1. k \in Nat /\ k \in DOMAIN its /\ s(k) \in 0 .. 2
      BY <1>1, <1>2
    <2>2. ~(s(k) < s(k)) /\ ~(k < k)
      BY <2>1
    <2>3. <<k, k>> \notin Q
      BY <2>1 DEF IsOrder
    <2> QED
      BY <1>3, <2>1, <2>2, <2>3
  <1>6. ASSUME NEW i \in S, NEW j \in S, NEW k \in S, <<i, j>> \in R, <<j, k>> \in R
        PROVE  <<i, k>> \in R
    <2>1. i \in Nat /\ j \in Nat /\ k \in Nat /\ s(i) \in 0 .. 2 /\ s(j) \in 0 .. 2 /\ s(k) \in 0 .. 2
      BY <1>1, <1>2
    <2>2. CASE s(i) < s(j) \/ s(j) < s(k)
      BY <1>3, <1>6, <2>1, <2>2
    <2>3. CASE s(i) = s(j) /\ s(j) = s(k)
      BY <1>3, <1>4, <1>6, <2>1, <2>3 DEF IsOrder
    <2> QED
      BY <1>3, <1>6, <2>1, <2>2, <2>3
  <1>7. ASSUME NEW i \in S, NEW j \in S, i # j PROVE <<i, j>> \in R \/ <<j, i>> \in R
    <2>1. i \in Nat /\ j \in Nat /\ s(i) \in 0 .. 2 /\ s(j) \in 0 .. 2
      BY <1>1, <1>2
    <2>2. CASE s(i) # s(j)
      BY <1>3, <2>1, <2>2
    <2>3. CASE s(i) = s(j) /\ IsQueued(its[i])
      BY <1>3, <1>4, <1>7, <2>3 DEF IsOrder
    <2>4. CASE s(i) = s(j) /\ ~IsQueued(its[i])
      BY <1>3, <1>4, <1>7, <2>1, <2>4
    <2> QED
      BY <2>2, <2>3, <2>4
  <1> QED
    BY <1>5, <1>6, <1>7 DEF IsOrder, R

LEMMA UrgencyIsOrder ==
  ASSUME NEW its \in Seq(Items)
  PROVE  IsOrder(DOMAIN its, Urgency(its))
  <1> DEFINE R == Urgency(its)
             p(k) == its[k].priority
             c(k) == its[k].created
  <1>1. DOMAIN its \subseteq Nat
    BY PositionsAreFinite
  <1>2. ASSUME NEW k \in DOMAIN its PROVE p(k) \in Nat /\ c(k) \in Nat
    <2>1. its[k] \in Items
      BY ElementOfSeq
    <2> QED
      BY <2>1 DEF Items
  <1>3. \A i, j \in DOMAIN its :
           <<i, j>> \in R <=> \/ p(i) > p(j) \/ (p(i) = p(j) /\ c(i) < c(j))
                              \/ ~(p(j) > p(i) \/ (p(j) = p(i) /\ c(j) < c(i))) /\ i < j
    BY DEF Urgency, Pairs, Sooner
  <1> HIDE DEF R, p, c
  <1>4. ASSUME NEW i \in DOMAIN its, NEW j \in DOMAIN its, NEW k \in DOMAIN its,
               <<i, j>> \in R, <<j, k>> \in R
        PROVE  <<i, k>> \in R
    <2>1. /\ i \in Nat /\ j \in Nat /\ k \in Nat
          /\ p(i) \in Nat /\ p(j) \in Nat /\ p(k) \in Nat
          /\ c(i) \in Nat /\ c(j) \in Nat /\ c(k) \in Nat
      BY <1>1, <1>2
    <2>2. /\ p(i) > p(j) \/ p(i) = p(j)
          /\ p(i) = p(j) => c(i) < c(j) \/ (c(i) = c(j) /\ i < j)
      BY SMTT(30), <1>3, <1>4, <2>1
    <2>3. /\ p(j) > p(k) \/ p(j) = p(k)
          /\ p(j) = p(k) => c(j) < c(k) \/ (c(j) = c(k) /\ j < k)
      BY <1>3, <1>4, <2>1
    <2>4. /\ p(i) > p(k) \/ p(i) = p(k)
          /\ p(i) = p(k) => c(i) < c(k) \/ (c(i) = c(k) /\ i < k)
      BY <2>1, <2>2, <2>3
    <2> QED
      BY <1>3, <2>1, <2>4
  <1>5. ASSUME NEW k \in DOMAIN its PROVE <<k, k>> \notin R
    <2>1. k \in Nat /\ p(k) \in Nat /\ c(k) \in Nat
      BY <1>1, <1>2
    <2> QED
      BY <1>3, <2>1
  <1>6. ASSUME NEW i \in DOMAIN its, NEW j \in DOMAIN its, i # j
        PROVE  <<i, j>> \in R \/ <<j, i>> \in R
    <2>1. /\ i \in Nat /\ j \in Nat /\ p(i) \in Nat /\ p(j) \in Nat
          /\ c(i) \in Nat /\ c(j) \in Nat
      BY <1>1, <1>2
    <2> QED
      BY <1>3, <1>6, <2>1
  <1> QED
    BY <1>4, <1>5, <1>6 DEF IsOrder, R

LEMMA PartOfPart ==
  ASSUME NEW its, NEW mid, NEW new, PartOf(mid, its), PartOf(new, mid)
  PROVE  PartOf(new, its)
  BY DEF PartOf

LEMMA ResortedIsPart ==
  ASSUME NEW its \in Seq(Items), Unique(its)
  PROVE  Resorted(its) \in Seq(Items) /\ Unique(Resorted(its)) /\ PartOf(Resorted(its), its)
  <1>1. IsOrder(DOMAIN its, InSections(its, Urgency(its)))
    BY UrgencyIsOrder, SectionsAreOrdered
  <1> QED
    BY <1>1, ArrangedIsPart DEF Resorted

LEMMA PrunedIsPart ==
  ASSUME NEW its \in Seq(Items), Unique(its)
  PROVE  Pruned(its) \in Seq(Items) /\ Unique(Pruned(its)) /\ PartOf(Pruned(its), its)
  <1>1. PICK S \in SUBSET DOMAIN its : Pruned(its) = Arranged(its, S, FileOrder(its))
    BY DEF Pruned
  <1>2. IsOrder(S, FileOrder(its))
    BY FileOrderIsOrder
  <1> QED
    BY <1>1, <1>2, ArrangedIsPart

LEMMA AppendedIsUnique ==
  ASSUME NEW its \in Seq(Items), Unique(its), NEW v \in Items, \A k \in DOMAIN its : its[k].id # v.id
  PROVE  /\ Append(its, v) \in Seq(Items) /\ Unique(Append(its, v))
         /\ \A n \in DOMAIN Append(its, v) :
               Append(its, v)[n] = v \/ \E k \in DOMAIN its : Append(its, v)[n] = its[k]
  <1> DEFINE new == Append(its, v)
  <1>1. /\ new \in Seq(Items) /\ Len(its) \in Nat /\ DOMAIN its = 1 .. Len(its)
        /\ DOMAIN new = 1 .. Len(its) + 1
        /\ \A k \in 1 .. Len(its) : new[k] = its[k]
        /\ new[Len(its) + 1] = v
    BY AppendProperties, LenProperties
  <1> HIDE DEF new
  <1>2. \A n \in DOMAIN new : n \in DOMAIN its \/ n = Len(its) + 1
    BY <1>1
  <1>3. Unique(new)
    BY <1>1, <1>2 DEF Unique
  <1> QED
    BY <1>1, <1>2, <1>3 DEF new

\* The operations find the item of an id, and change no other.
LEMMA AtIsTheItem ==
  ASSUME NEW its \in Seq(Items), Unique(its), NEW id, Has(its, id)
  PROVE  /\ At(its, id) \in DOMAIN its /\ its[At(its, id)].id = id
         /\ \A k \in DOMAIN its : its[k].id = id <=> k = At(its, id)
  <1>1. PICK k \in DOMAIN its : its[k].id = id
    BY DEF Has
  <1>2. {n \in DOMAIN its : its[n].id = id} = {k}
    BY <1>1 DEF Unique
  <1>3. k \in Nat
    BY PositionsAreFinite
  <1>4. Min({k}) = k
    BY <1>3 DEF Min
  <1> QED
    BY <1>1, <1>2, <1>4 DEF At, Unique

LEMMA OneIsChanged ==
  ASSUME NEW its \in Seq(Items), Unique(its), NEW id, Has(its, id), NEW v \in Items, v.id = id
  PROVE  LET new == [its EXCEPT ![At(its, id)] = v]
         IN  /\ new \in Seq(Items) /\ Unique(new) /\ DOMAIN new = DOMAIN its
             /\ \A k \in DOMAIN its : new[k] = IF its[k].id = id THEN v ELSE its[k]
  <1> DEFINE new == [its EXCEPT ![At(its, id)] = v]
  <1>1. /\ At(its, id) \in DOMAIN its
        /\ \A k \in DOMAIN its : its[k].id = id <=> k = At(its, id)
    BY AtIsTheItem
  <1>2. DOMAIN new = DOMAIN its
    OBVIOUS
  <1>3. \A k \in DOMAIN its : new[k] = IF its[k].id = id THEN v ELSE its[k]
    BY <1>1
  <1>4. new \in Seq(Items)
    BY <1>1, ExceptSeq
  <1> HIDE DEF new
  <1>5. Unique(new)
    BY <1>2, <1>3 DEF Unique
  <1> QED
    BY <1>2, <1>3, <1>4, <1>5 DEF new

----------------------------------------------------------------------------
(* A step of the queue: each item comes from one of the same id, with its  *)
(* results, or is new.                                                     *)

Keeps(i, j) == j.id = i.id /\ \A t \in Tasks : Is(i, t, "done") => Is(j, t, "done")
Follows(new, its) ==
    \A n \in DOMAIN new : \/ \E k \in DOMAIN its : Keeps(its[k], new[n])
                          \/ \A k \in DOMAIN its : its[k].id # new[n].id
ItemsStep ==
    /\ items' \in Seq(Items) /\ Unique(items') /\ Follows(items', items)
    /\ \A k \in DOMAIN items' : ItemInv(items[k])'

LEMMA ItemsOfTheQueue ==
  ASSUME QueueInv
  PROVE  /\ items \in Seq(Items) /\ Unique(items)
         /\ \A k \in DOMAIN items : items[k] \in Items /\ ItemInv(items[k])
  <1>1. items \in Seq(Items) /\ Unique(items) /\ \A k \in DOMAIN items : ItemInv(items[k])
    BY DEF QueueInv, TypeOK, OneOfEach, Unique
  <1>2. \A k \in DOMAIN items : items[k] \in Items
    BY <1>1, ElementOfSeq
  <1> QED
    BY <1>1, <1>2

LEMMA KeepsItself == ASSUME NEW i PROVE Keeps(i, i)
  BY DEF Keeps

LEMMA PartsStep ==
  ASSUME QueueInv, items' \in Seq(Items), Unique(items'), PartOf(items', items),
         \A i \in Items : ItemInv(i) => ItemInv(i)'
  PROVE  ItemsStep
  <1>1. \A k \in DOMAIN items : items[k] \in Items /\ ItemInv(items[k])
    BY ItemsOfTheQueue
  <1>2. ASSUME NEW n \in DOMAIN items'
        PROVE  ItemInv(items[n])' /\ \E k \in DOMAIN items : Keeps(items[k], items'[n])
    <2>1. PICK k \in DOMAIN items : items'[n] = items[k]
      BY DEF PartOf
    <2> QED
      BY <1>1, <2>1, KeepsItself
  <1> QED
    BY <1>2 DEF ItemsStep, Follows

LEMMA SameItemsStep ==
  ASSUME QueueInv, items' = items, \A i \in Items : ItemInv(i) => ItemInv(i)'
  PROVE  ItemsStep
  <1>1. items' \in Seq(Items) /\ Unique(items') /\ PartOf(items', items)
    BY ItemsOfTheQueue DEF Unique, PartOf
  <1> QED
    BY <1>1, PartsStep

LEMMA ChangeStep ==
  ASSUME QueueInv, NEW id, NEW v,
         items' = IF Has(items, id) THEN [items EXCEPT ![At(items, id)] = v] ELSE items,
         Has(items, id) => v \in Items /\ Keeps(items[At(items, id)], v) /\ ItemInv(v)',
         \A i \in Items : i.id # id /\ ItemInv(i) => ItemInv(i)'
  PROVE  ItemsStep
  <1>1. /\ items \in Seq(Items) /\ Unique(items)
        /\ \A k \in DOMAIN items : items[k] \in Items /\ ItemInv(items[k])
    BY ItemsOfTheQueue
  <1>2. CASE Has(items, id)
    <2>1. At(items, id) \in DOMAIN items /\ items[At(items, id)].id = id
      BY <1>1, <1>2, AtIsTheItem
    <2>2. v \in Items /\ v.id = id /\ ItemInv(v)' /\ Keeps(items[At(items, id)], v)
      BY <1>2, <2>1 DEF Keeps
    <2>3. /\ items' \in Seq(Items) /\ Unique(items') /\ DOMAIN items' = DOMAIN items
          /\ \A k \in DOMAIN items : items'[k] = IF items[k].id = id THEN v ELSE items[k]
      BY <1>1, <1>2, <2>2, OneIsChanged
    <2>4. ASSUME NEW n \in DOMAIN items'
          PROVE  ItemInv(items[n])' /\ \E k \in DOMAIN items : Keeps(items[k], items'[n])
      <3>1. CASE items[n].id = id
        BY <2>1, <2>2, <2>3, <3>1
      <3>2. CASE items[n].id # id
        BY <1>1, <2>3, <3>2, KeepsItself
      <3> QED
        BY <3>1, <3>2
    <2> QED
      BY <2>3, <2>4 DEF ItemsStep, Follows
  <1>3. CASE ~Has(items, id)
    <2>1. \A k \in DOMAIN items : items[k].id # id
      BY <1>3 DEF Has
    <2>2. \A k \in DOMAIN items' : ItemInv(items[k])'
      BY <1>1, <1>3, <2>1
    <2> QED
      BY <1>1, <1>3, <2>2, KeepsItself DEF ItemsStep, Follows, Unique
  <1> QED
    BY <1>2, <1>3

LEMMA EachChangesStep ==
  ASSUME QueueInv, DOMAIN items' = DOMAIN items, items' = [k \in DOMAIN items |-> items'[k]],
         \A k \in DOMAIN items : items'[k] \in Items /\ Keeps(items[k], items'[k]),
         \A k \in DOMAIN items : ItemInv(items[k])'
  PROVE  ItemsStep
  <1>1. items \in Seq(Items) /\ Unique(items)
    BY ItemsOfTheQueue
  <1>2. DOMAIN items = 1 .. Len(items) /\ Len(items) \in Nat
    BY <1>1, LenProperties
  <1>3. items' \in [1 .. Len(items) -> Items]
    BY <1>2
  <1>4. items' \in Seq(Items)
    BY <1>2, <1>3
  <1>5. Unique(items')
    BY <1>1 DEF Unique, Keeps
  <1> QED
    BY <1>4, <1>5 DEF ItemsStep, Follows

----------------------------------------------------------------------------
(* Items that a step leaves alone.                                         *)

\* While the worker stays where it is.
Quiet ==
    /\ UNCHANGED <<pc, token, job, thread>>
    /\ made \subseteq made' /\ faults \in Nat /\ faults' \in Nat /\ faults <= faults'
    /\ clock \in Nat /\ clock' \in Nat /\ clock <= clock'

LEMMA ItemFields ==
  ASSUME NEW i \in Items
  PROVE  /\ i.created \in Nat /\ i.token \in Nat /\ i.sha \in Shas
         /\ i.status \in {"queued", "running", "done", "failed", "cancelled"}
         /\ \A t \in Tasks : /\ i.task[t] \in TaskStates
                             /\ i.task[t].starts \in Nat /\ i.task[t].attempts \in Nat
  <1>1. ASSUME NEW t \in Tasks PROVE i.task[t] \in TaskStates
    BY DEF Items
  <1>2. ASSUME NEW x \in TaskStates PROVE x.starts \in Nat /\ x.attempts \in Nat
    BY DEF TaskStates
  <1>3. /\ i.created \in Nat /\ i.token \in Nat /\ i.sha \in Shas
        /\ i.status \in {"queued", "running", "done", "failed", "cancelled"}
    BY DEF Items, Over
  <1> QED
    BY <1>1, <1>2, <1>3

LEMMA QuietItems ==
  ASSUME Quiet, NEW i \in Items, ItemInv(i)
  PROVE  ItemInv(i)'
  <1>1. \A t \in Tasks : i.task[t].starts \in Nat /\ i.task[t].attempts \in Nat
    BY ItemFields
  <1>2. ASSUME NEW t \in Tasks PROVE TaskInv(i, t)'
    <2>1. TaskInv(i, t)
      BY DEF ItemInv
    <2>2. Unpaid(i, t)' = Unpaid(i, t) /\ Unpaid(i, t) \in {0, 1}
      BY DEF Unpaid, Quiet
    <2>3. (i.task[t].starts <= i.task[t].attempts + faults + Unpaid(i, t))'
      BY <1>1, <2>1, <2>2 DEF TaskInv, Quiet
    <2> QED
      BY <2>1, <2>3 DEF TaskInv, Held, Quiet, Is
  <1>3. i.created \in Nat
    BY ItemFields
  <1> QED
    BY <1>2, <1>3 DEF ItemInv, Quiet, TasksTerminal, IsOver, IsRunning, Is

\* While the worker is at work on another one.
LEMMA OtherItems ==
  ASSUME NEW i \in Items, ItemInv(i), pc # "down", i.id # job.id, i.id # job'.id,
         UNCHANGED <<token, clock>>, made \subseteq made',
         faults \in Nat, faults' \in Nat, faults <= faults'
  PROVE  ItemInv(i)'
  <1>1. \A t \in Tasks : i.task[t].starts \in Nat /\ i.task[t].attempts \in Nat
    BY ItemFields
  <1>2. ASSUME NEW t \in Tasks PROVE TaskInv(i, t)'
    <2>1. TaskInv(i, t)
      BY DEF ItemInv
    <2>2. Unpaid(i, t)' = Unpaid(i, t) /\ Unpaid(i, t) \in {0, 1}
      BY DEF Unpaid
    <2>3. (i.task[t].starts <= i.task[t].attempts + faults + Unpaid(i, t))'
      BY <1>1, <2>1, <2>2 DEF TaskInv
    <2> QED
      BY <2>1, <2>3 DEF TaskInv, Is
  <1> QED
    BY <1>2 DEF ItemInv, TasksTerminal, IsOver, IsRunning, Is

----------------------------------------------------------------------------
(* The clients                                                             *)

LEMMA RearrangedStep ==
  ASSUME QueueInv, NEW mid \in Seq(Items), Unique(mid),
         \A m \in DOMAIN mid :
            /\ ItemInv(mid[m])'
            /\ \/ \E k \in DOMAIN items : Keeps(items[k], mid[m])
               \/ \A k \in DOMAIN items : items[k].id # mid[m].id,
         items' \in Seq(Items), Unique(items'), PartOf(items', mid)
  PROVE  ItemsStep
  <1>1. ASSUME NEW n \in DOMAIN items'
        PROVE  /\ ItemInv(items[n])'
               /\ \/ \E k \in DOMAIN items : Keeps(items[k], items'[n])
                  \/ \A k \in DOMAIN items : items[k].id # items'[n].id
    <2>1. PICK m \in DOMAIN mid : items'[n] = mid[m]
      BY DEF PartOf
    <2> QED
      BY <2>1
  <1> QED
    BY <1>1 DEF ItemsStep, Follows

LEMMA RequestFields ==
  ASSUME NEW r \in Requests
  PROVE  r.sha \in Shas /\ r.wants \in SUBSET Tasks /\ r.notify \in BOOLEAN /\ r.priority \in Nat
  BY QueueConstants DEF Shas

LEMMA LargerOfTwo ==
  ASSUME NEW a \in Nat, NEW b \in Nat
  PROVE  Max({a, b}) \in Nat
  <1>1. \E x \in {a, b} : \A y \in {a, b} : x >= y
    OBVIOUS
  <1>2. Max({a, b}) \in {a, b}
    BY <1>1 DEF Max
  <1> QED
    BY <1>2

LEMMA IdleIsState ==
  ASSUME NEW wanted \in BOOLEAN
  PROVE  Idle(wanted) \in TaskStates
  <1>1. 0 \in 0 .. MAX_TASK_ATTEMPTS - 1
    BY QueueConstants
  <1> QED
    BY <1>1 DEF Idle, TaskStates

LEMMA NothingIsOwed ==
  ASSUME NEW f \in Nat, NEW u \in {0, 1}
  PROVE  0 <= 0 + f + u
OBVIOUS

LEMMA MergingIsSound ==
  ASSUME QueueInv, Quiet, NEW r \in Requests, NEW i \in Items, ItemInv(i), IsQueued(i),
         NEW j, j = Merged(i, r)
  PROVE  j \in Items /\ Keeps(i, j) /\ ItemInv(j)'
  <1>1. ASSUME NEW t \in Tasks PROVE Rearmed(i.task[t]) \in TaskStates
    <2>1. i.task[t] \in TaskStates
      BY ItemFields
    <2>2. [i.task[t] EXCEPT !.wanted = TRUE] \in TaskStates
      BY <2>1 DEF TaskStates
    <2> QED
      BY <2>2, IdleIsState DEF Rearmed
  <1>2. /\ j.id = i.id /\ j.sha = i.sha /\ j.status = "queued" /\ j.created = i.created
        /\ j.token = i.token /\ j.sent = i.sent
        /\ \A t \in Tasks : j.task[t] = IF t \in r.wants THEN Rearmed(i.task[t]) ELSE i.task[t]
    BY DEF Merged, Items, IsQueued
  <1>3. j \in Items
    <2>1. Max({i.priority, r.priority}) \in Nat /\ (i.notify \/ r.notify) \in BOOLEAN
      BY RequestFields, LargerOfTwo DEF Items
    <2>2. [t \in Tasks |-> IF t \in r.wants THEN Rearmed(i.task[t]) ELSE i.task[t]] \in [Tasks -> TaskStates]
      BY <1>1, ItemFields
    <2> HIDE DEF TaskStates
    <2> QED
      BY <2>1, <2>2 DEF Merged, Items
  <1>4. ItemInv(i)'
    BY QuietItems
  <1>5. ASSUME NEW t \in Tasks PROVE (Is(i, t, "done") => Is(j, t, "done")) /\ TaskInv(j, t)'
    <2>1. TaskInv(i, t)'
      BY <1>4 DEF ItemInv
    <2>2. CASE j.task[t] = i.task[t]
      BY <1>2, <2>1, <2>2 DEF TaskInv, Is, Unpaid
    <2>3. CASE i.task[t].status \in {"skipped", "cancelled", "failed"} /\ j.task[t] = Idle(TRUE)
      <3>1. /\ j.task[t].wanted = TRUE /\ j.task[t].status = "queued"
            /\ j.task[t].starts = 0 /\ j.task[t].attempts = 0
        BY <2>3 DEF Idle
      <3>2. ~(i.id = job'.id /\ Held(t)')
        BY <2>1, <2>3 DEF TaskInv
      <3>3. Unpaid(j, t)' \in {0, 1}
        BY DEF Unpaid
      <3>4. (j.task[t].starts <= j.task[t].attempts + faults + Unpaid(j, t))'
        <4>1. faults' \in Nat
          BY DEF Quiet
        <4> QED
          BY <3>1, <3>3, <4>1, NothingIsOwed
      <3> QED
        BY <1>2, <2>3, <3>1, <3>2, <3>4 DEF TaskInv, Is
    <2>4. CASE j.task[t] = [i.task[t] EXCEPT !.wanted = TRUE]
               /\ i.task[t].status \notin {"skipped", "cancelled", "failed"}
      <3>1. i.task[t] \in TaskStates
        BY ItemFields
      <3>2. /\ j.task[t].wanted = TRUE /\ j.task[t].status = i.task[t].status
            /\ j.task[t].starts = i.task[t].starts /\ j.task[t].attempts = i.task[t].attempts
        BY <2>4, <3>1 DEF TaskStates
      <3>3. i.task[t].wanted
        BY <2>1, <2>4, <3>1 DEF TaskInv, TaskStates
      <3> QED
        BY <1>2, <2>1, <3>2, <3>3 DEF TaskInv, Is, Unpaid
    <2> QED
      BY <1>2, <2>2, <2>3, <2>4 DEF Rearmed
  <1>6. ~i.sent
    BY DEF ItemInv, IsQueued, IsOver, Over
  <1> QED
    BY <1>2, <1>3, <1>4, <1>5, <1>6 DEF Keeps, ItemInv, IsRunning

LEMMA NewItemIsSound ==
  ASSUME QueueInv, Quiet, clock < clock', NEW r \in Requests,
         NEW v, v = [id |-> <<clock', r.sha>>, sha |-> r.sha, status |-> "queued",
                     task |-> [t \in Tasks |-> Idle(t \in r.wants)],
                     created |-> clock', token |-> 0, notify |-> r.notify, sent |-> FALSE,
                     priority |-> r.priority]
  PROVE  v \in Items /\ ItemInv(v)' /\ \A k \in DOMAIN items : items[k].id # v.id
  <1>1. clock' \in Nat /\ clock \in Nat /\ token \in Nat /\ token' = token
    BY DEF Quiet, QueueInv, TypeOK
  <1>2. v \in Items
    <2>1. ASSUME NEW t \in Tasks PROVE Idle(t \in r.wants) \in TaskStates
      <3>1. 0 \in 0 .. MAX_TASK_ATTEMPTS - 1
        BY QueueConstants
      <3> QED
        BY <3>1 DEF Idle, TaskStates
    <2>2. <<clock', r.sha>> \in Nat \X Shas
      BY <1>1, RequestFields
    <2> HIDE DEF TaskStates
    <2>3. [t \in Tasks |-> Idle(t \in r.wants)] \in [Tasks -> TaskStates]
      BY <2>1
    <2> QED
      BY <1>1, <2>2, <2>3, RequestFields DEF Items
  <1>3. v.id # job'.id
    <2>1. job = NoJob => v.id # job.id
      BY DEF NoJob
    <2>2. job # NoJob => job.id \in Nat \X Shas /\ job.id[1] <= clock
      BY DEF QueueInv, TypeOK, WorkerInv
    <2>3. job # NoJob => v.id # job.id
      <3>1. v.id[1] = clock'
        OBVIOUS
      <3> QED
        BY <1>1, <2>2, <3>1
    <2> QED
      BY <2>1, <2>3 DEF Quiet
  <1>4. ASSUME NEW t \in Tasks PROVE TaskInv(v, t)'
    <2>1. /\ v.task[t] = Idle(t \in r.wants)
          /\ v.task[t].starts = 0 /\ v.task[t].attempts = 0
          /\ v.task[t].wanted = (t \in r.wants)
          /\ v.task[t].status = IF t \in r.wants THEN "queued" ELSE "skipped"
      BY DEF Idle
    <2>2. (v.task[t].starts <= v.task[t].attempts + faults + Unpaid(v, t))'
      BY <2>1 DEF Unpaid, Quiet
    <2> QED
      BY <1>3, <2>1, <2>2 DEF TaskInv, Is
  <1>5. ASSUME NEW k \in DOMAIN items PROVE items[k].id # v.id
    <2>1. items[k].id = <<items[k].created, items[k].sha>> /\ items[k].created <= clock
      BY ItemsOfTheQueue DEF ItemInv
    <2>2. items[k].created \in Nat
      BY ItemsOfTheQueue, ItemFields
    <2>3. items[k].created # clock'
      BY <1>1, <2>1, <2>2
    <2> QED
      BY <2>1, <2>3
  <1>6. v.id = <<v.created, v.sha>> /\ v.created <= clock' /\ v.token <= token'
    BY <1>1
  <1> QED
    BY <1>2, <1>3, <1>4, <1>5, <1>6 DEF ItemInv, IsRunning

LEMMA EnqueueKeepsItems ==
  ASSUME QueueInv, SameSecond = FALSE, NEW r \in Requests, Enqueue(r)
  PROVE  ItemsStep
  <1> USE ItemsOfTheQueue
  <1>1. Quiet
    BY DEF Enqueue, Quiet, QueueInv, TypeOK
  <1>2. ASSUME NEW k \in DOMAIN items, IsQueued(items[k]),
               items' = Resorted([items EXCEPT ![k] = Merged(@, r)])
        PROVE  ItemsStep
    <2>1. PICK v : v = Merged(items[k], r)
      OBVIOUS
    <2>2. v \in Items /\ Keeps(items[k], v) /\ ItemInv(v)'
      BY <1>1, <1>2, <2>1, MergingIsSound
    <2>3. PICK mid : mid = [items EXCEPT ![k] = v]
      OBVIOUS
    <2>4. Has(items, items[k].id) /\ At(items, items[k].id) = k /\ v.id = items[k].id
      <3>1. Has(items, items[k].id)
        BY DEF Has
      <3> QED
        BY <2>2, <3>1, AtIsTheItem DEF Keeps
    <2>5. /\ mid \in Seq(Items) /\ Unique(mid) /\ DOMAIN mid = DOMAIN items
          /\ \A n \in DOMAIN items : mid[n] = IF items[n].id = items[k].id THEN v ELSE items[n]
      <3>1. LET new == [items EXCEPT ![At(items, items[k].id)] = v]
            IN  /\ new \in Seq(Items) /\ Unique(new) /\ DOMAIN new = DOMAIN items
                /\ \A n \in DOMAIN items : new[n] = IF items[n].id = items[k].id THEN v ELSE items[n]
        BY <2>2, <2>4, OneIsChanged
      <3> QED
        BY <2>3, <2>4, <3>1
    <2>6. ASSUME NEW m \in DOMAIN mid
          PROVE  ItemInv(mid[m])' /\ \E n \in DOMAIN items : Keeps(items[n], mid[m])
      <3>1. CASE items[m].id = items[k].id
        BY <2>2, <2>5, <3>1
      <3>2. CASE items[m].id # items[k].id
        BY <1>1, <2>5, <3>2, KeepsItself, QuietItems
      <3> QED
        BY <3>1, <3>2
    <2>7. items' \in Seq(Items) /\ Unique(items') /\ PartOf(items', mid)
      BY <1>2, <2>1, <2>3, <2>5, ResortedIsPart
    <2> QED
      BY <2>5, <2>6, <2>7, RearrangedStep
  <1>3. ASSUME NEW v, v = [id |-> <<clock', r.sha>>, sha |-> r.sha, status |-> "queued",
                     task |-> [t \in Tasks |-> Idle(t \in r.wants)],
                     created |-> clock', token |-> 0, notify |-> r.notify, sent |-> FALSE,
                     priority |-> r.priority],
               clock < clock', items' = Pruned(Resorted(Append(items, v)))
        PROVE  ItemsStep
    <2>1. v \in Items /\ ItemInv(v)' /\ \A k \in DOMAIN items : items[k].id # v.id
      BY <1>1, <1>3, NewItemIsSound
    <2>2. PICK mid : mid = Append(items, v)
      OBVIOUS
    <2>3. /\ mid \in Seq(Items) /\ Unique(mid)
          /\ \A n \in DOMAIN mid : mid[n] = v \/ \E k \in DOMAIN items : mid[n] = items[k]
      BY <2>1, <2>2, AppendedIsUnique
    <2>4. ASSUME NEW m \in DOMAIN mid
          PROVE  /\ ItemInv(mid[m])'
                 /\ \/ \E k \in DOMAIN items : Keeps(items[k], mid[m])
                    \/ \A k \in DOMAIN items : items[k].id # mid[m].id
      <3>1. CASE mid[m] = v
        BY <2>1, <3>1
      <3>2. ASSUME NEW k \in DOMAIN items, mid[m] = items[k]
            PROVE  ItemInv(mid[m])' /\ Keeps(items[k], mid[m])
        BY <1>1, <3>2, KeepsItself, QuietItems
      <3> QED
        BY <2>3, <3>1, <3>2
    <2>5. items' \in Seq(Items) /\ Unique(items') /\ PartOf(items', mid)
      BY <1>3, <2>2, <2>3, ResortedIsPart, PrunedIsPart, PartOfPart
    <2> QED
      BY <2>3, <2>4, <2>5, RearrangedStep
  <1>4. clock' \in {clock + 1} \cup (IF SameSecond THEN {clock} ELSE {}) => clock < clock'
    BY DEF QueueInv, TypeOK
  <1> QED
    BY <1>2, <1>3, <1>4 DEF Enqueue

\* What the invariant asks of a task is a matter of five fields.
LEMMA TasksAlike ==
  ASSUME NEW i, NEW j, NEW t, TaskInv(i, t)', j.id = i.id, j.sha = i.sha,
         j.task[t].wanted = i.task[t].wanted, j.task[t].status = i.task[t].status,
         j.task[t].starts = i.task[t].starts, j.task[t].attempts = i.task[t].attempts
  PROVE  TaskInv(j, t)'
  BY DEF TaskInv, Is, Unpaid

LEMMA CancellingIsSound ==
  ASSUME Quiet, NEW i \in Items, ItemInv(i), ~IsOver(i), NEW j, j = Cancelled(i)
  PROVE  j \in Items /\ Keeps(i, j) /\ ItemInv(j)'
  <1>1. ItemInv(i)'
    BY QuietItems
  <1>2. ASSUME NEW t \in Tasks PROVE [i.task[t] EXCEPT !.status = "cancelled"] \in TaskStates
    <2>1. i.task[t] \in TaskStates
      BY ItemFields
    <2> QED
      BY <2>1 DEF TaskStates
  <1> DEFINE task == IF IsQueued(i)
                     THEN [t \in Tasks |-> IF Is(i, t, "queued")
                                           THEN [i.task[t] EXCEPT !.status = "cancelled"] ELSE i.task[t]]
                     ELSE i.task
  <1>3. task \in [Tasks -> TaskStates]
    <2>1. i.task \in [Tasks -> TaskStates]
      BY DEF Items
    <2> HIDE DEF TaskStates
    <2> QED
      BY <1>2, <2>1
  <1>4. j = [i EXCEPT !.status = "cancelled", !.task = task]
    BY DEF Cancelled
  <1>5. j \in Items
    <2> HIDE DEF task, TaskStates
    <2> QED
      BY <1>3, <1>4 DEF Items, Over
  <1>6. /\ j.id = i.id /\ j.sha = i.sha /\ j.status = "cancelled" /\ j.created = i.created
        /\ j.token = i.token /\ j.sent = i.sent /\ j.task = task
    BY <1>4 DEF Items
  <1>7. ASSUME NEW t \in Tasks PROVE (Is(i, t, "done") => Is(j, t, "done")) /\ TaskInv(j, t)'
    <2>1. TaskInv(i, t)'
      BY <1>1 DEF ItemInv
    <2>2. CASE task[t] = i.task[t]
      BY <1>6, <2>1, <2>2, TasksAlike DEF Is
    <2>3. CASE Is(i, t, "queued") /\ task[t] = [i.task[t] EXCEPT !.status = "cancelled"]
      <3>1. i.task[t] \in TaskStates
        BY ItemFields
      <3>2. /\ j.task[t].status = "cancelled" /\ j.task[t].wanted = i.task[t].wanted
            /\ j.task[t].starts = i.task[t].starts /\ j.task[t].attempts = i.task[t].attempts
            /\ i.task[t].starts \in Nat /\ i.task[t].attempts \in Nat
        BY <1>6, <2>3, <3>1 DEF TaskStates
      <3>3. Unpaid(j, t)' = 1 /\ Unpaid(i, t)' \in {0, 1} /\ faults' \in Nat
        BY <3>2 DEF Unpaid, Quiet
      <3>4. (j.task[t].starts <= j.task[t].attempts + faults + Unpaid(j, t))'
        <4>1. (i.task[t].starts <= i.task[t].attempts + faults + Unpaid(i, t))'
          BY <2>1 DEF TaskInv
        <4> QED
          BY <3>2, <3>3, <4>1
      <3>5. i.task[t].wanted /\ i.task[t].status = "queued"
        BY <2>3 DEF Is
      <3> QED
        BY <1>6, <2>1, <3>2, <3>4, <3>5 DEF TaskInv, Is
    <2> QED
      BY <1>3, <2>2, <2>3
  <1>8. ~i.sent
    BY DEF ItemInv
  <1> QED
    BY <1>1, <1>5, <1>6, <1>7, <1>8 DEF Keeps, ItemInv, IsRunning

LEMMA CancelKeepsItems ==
  ASSUME QueueInv, NEW id \in ItemIds, CancelItem(id)
  PROVE  ItemsStep
  <1>1. Quiet
    BY DEF CancelItem, Quiet, QueueInv, TypeOK
  <1>2. Has(items, id)
    BY DEF ItemIds, Has
  <1>3. PICK v : v = Cancelled(items[At(items, id)])
    OBVIOUS
  <1>4. At(items, id) \in DOMAIN items /\ items[At(items, id)] \in Items /\ ItemInv(items[At(items, id)])
    BY <1>2, ItemsOfTheQueue, AtIsTheItem
  <1>5. v \in Items /\ Keeps(items[At(items, id)], v) /\ ItemInv(v)'
    BY <1>1, <1>3, <1>4, CancellingIsSound DEF CancelItem
  <1>6. items' = IF Has(items, id) THEN [items EXCEPT ![At(items, id)] = v] ELSE items
    BY <1>3 DEF CancelItem, Change
  <1>7. \A i \in Items : i.id # id /\ ItemInv(i) => ItemInv(i)'
    BY <1>1, QuietItems
  <1> QED
    BY <1>5, <1>6, <1>7, ChangeStep

LEMMA RemoveKeepsItems ==
  ASSUME QueueInv, NEW id, RemoveItem(id)
  PROVE  ItemsStep
  <1>1. Quiet
    BY DEF RemoveItem, Quiet, QueueInv, TypeOK
  <1>2. items \in Seq(Items) /\ Unique(items)
    BY ItemsOfTheQueue
  <1>3. PICK S \in SUBSET DOMAIN items : items' = Arranged(items, S, FileOrder(items))
    BY DEF RemoveItem
  <1>4. items' \in Seq(Items) /\ Unique(items') /\ PartOf(items', items)
    BY <1>2, <1>3, FileOrderIsOrder, ArrangedIsPart
  <1> QED
    BY <1>1, <1>4, QuietItems, PartsStep

LEMMA ReorderKeepsItems ==
  ASSUME QueueInv, Reorder
  PROVE  ItemsStep
  <1>1. Quiet
    BY DEF Reorder, Quiet, QueueInv, TypeOK, bounds
  <1>2. items \in Seq(Items) /\ Unique(items)
    BY ItemsOfTheQueue
  <1>3. PICK S \in SUBSET DOMAIN items, rank \in Injection(DOMAIN items, DOMAIN items) :
           items' = Arranged(items, S, InSections(items,
                       {p \in Pairs(items) : rank[p[1]] < rank[p[2]]}))
    BY DEF Reorder
  <1> DEFINE liked == {p \in Pairs(items) : rank[p[1]] < rank[p[2]]}
  <1>4. IsOrder(DOMAIN items, liked)
    <2>1. rank \in [DOMAIN items -> DOMAIN items] /\ \A i, j \in DOMAIN items : rank[i] = rank[j] => i = j
      BY DEF Injection, IsInjective
    <2>2. \A i \in DOMAIN items : rank[i] \in Nat
      BY <1>2, <2>1, PositionsAreFinite
    <2>3. \A i, j \in DOMAIN items : <<i, j>> \in liked <=> rank[i] < rank[j]
      BY DEF Pairs
    <2> HIDE DEF liked
    <2>4. \A i \in DOMAIN items : <<i, i>> \notin liked
      BY <2>2, <2>3
    <2>5. \A i, j, k \in DOMAIN items : <<i, j>> \in liked /\ <<j, k>> \in liked => <<i, k>> \in liked
      BY <2>2, <2>3
    <2>6. ASSUME NEW i \in DOMAIN items, NEW j \in DOMAIN items, i # j
          PROVE  <<i, j>> \in liked \/ <<j, i>> \in liked
      <3>1. rank[i] \in Nat /\ rank[j] \in Nat /\ rank[i] # rank[j]
        BY <2>1, <2>2, <2>6
      <3> QED
        BY <2>3, <3>1
    <2> QED
      BY <2>4, <2>5, <2>6 DEF IsOrder
  <1>5. IsOrder(S, InSections(items, liked))
    <2> HIDE DEF liked
    <2> QED
      BY <1>2, <1>4, SectionsAreOrdered
  <1>6. items' \in Seq(Items) /\ Unique(items') /\ PartOf(items', items)
    <2>1. items' = Arranged(items, S, InSections(items, liked))
      BY <1>3
    <2> HIDE DEF liked
    <2> QED
      BY <1>2, <1>5, <2>1, ArrangedIsPart
  <1> QED
    BY <1>1, <1>6, QuietItems, PartsStep

LEMMA NotifyKeepsItems ==
  ASSUME QueueInv, TakeNotifyBatch
  PROVE  ItemsStep
  <1>1. Quiet
    BY DEF TakeNotifyBatch, Quiet, QueueInv, TypeOK, bounds
  <1>2. items' = [k \in DOMAIN items |-> [items[k] EXCEPT !.sent = @ \/ Notifiable(items[k])]]
    BY DEF TakeNotifyBatch
  <1>3. ASSUME NEW k \in DOMAIN items
        PROVE  items'[k] \in Items /\ Keeps(items[k], items'[k]) /\ ItemInv(items[k])'
    <2>1. PICK i : i = items[k]
      OBVIOUS
    <2>2. PICK j : j = items'[k]
      OBVIOUS
    <2>3. i \in Items /\ ItemInv(i)
      BY <2>1, ItemsOfTheQueue
    <2>4. ItemInv(i)'
      BY <1>1, <2>3, QuietItems
    <2>5. j = [i EXCEPT !.sent = @ \/ Notifiable(i)]
      BY <1>2, <2>1, <2>2
    <2>6. /\ j.id = i.id /\ j.sha = i.sha /\ j.status = i.status /\ j.created = i.created
          /\ j.token = i.token /\ j.task = i.task
      BY <2>3, <2>5 DEF Items
    <2>7. j \in Items /\ (j.sent => i.sent \/ Notifiable(i))
      <3>1. (i.sent \/ Notifiable(i)) \in BOOLEAN
        OBVIOUS
      <3> HIDE DEF TaskStates
      <3> QED
        BY <2>3, <2>5, <3>1 DEF Items
    <2>8. j.sent => IsOver(j) /\ TasksTerminal(j)
      BY <2>3, <2>6, <2>7 DEF ItemInv, Notifiable, IsOver, TasksTerminal, Is
    <2>9. \A t \in Tasks : TaskInv(j, t)'
      BY <2>4, <2>6, TasksAlike DEF ItemInv
    <2>10. ItemInv(j)'
      BY <2>4, <2>6, <2>8, <2>9 DEF ItemInv, IsRunning, IsOver, TasksTerminal, Is
    <2> QED
      BY <2>1, <2>2, <2>6, <2>7, <2>10 DEF Keeps, Is
  <1> QED
    BY <1>2, <1>3, EachChangesStep

LEMMA BackoffKeepsItems ==
  ASSUME QueueInv, NEW id \in ItemIds, NEW t \in Tasks, BackoffEnds(id, t)
  PROVE  ItemsStep
  <1>1. Quiet
    BY DEF BackoffEnds, Quiet, QueueInv, TypeOK, bounds
  <1>2. Has(items, id)
    BY DEF ItemIds, Has
  <1>3. PICK i : i = items[At(items, id)]
    OBVIOUS
  <1>4. PICK v : v = [i EXCEPT !.task[t].waits = FALSE]
    OBVIOUS
  <1>5. i \in Items /\ ItemInv(i) /\ ItemInv(i)'
    BY <1>1, <1>2, <1>3, ItemsOfTheQueue, AtIsTheItem, QuietItems
  <1>6. ASSUME NEW s \in Tasks
        PROVE  /\ v.task[s] \in TaskStates
               /\ v.task[s].wanted = i.task[s].wanted /\ v.task[s].status = i.task[s].status
               /\ v.task[s].starts = i.task[s].starts /\ v.task[s].attempts = i.task[s].attempts
    <2>1. i.task[s] \in TaskStates
      BY <1>5, ItemFields
    <2>2. i.task \in [Tasks -> TaskStates]
      BY <1>5 DEF Items
    <2>3. v.task = [i.task EXCEPT ![t].waits = FALSE]
      BY <1>4, <1>5 DEF Items
    <2>4. v.task[s] = IF s = t THEN [i.task[s] EXCEPT !.waits = FALSE] ELSE i.task[s]
      <3> HIDE DEF TaskStates
      <3> QED
        BY <2>2, <2>3
    <2>5. CASE s = t
      BY <2>1, <2>4, <2>5 DEF TaskStates
    <2>6. CASE s # t
      BY <2>1, <2>4, <2>6
    <2> QED
      BY <2>5, <2>6
  <1>7. /\ v.id = i.id /\ v.sha = i.sha /\ v.status = i.status /\ v.created = i.created
        /\ v.token = i.token /\ v.sent = i.sent
    BY <1>4, <1>5 DEF Items
  <1>8. v \in Items
    <2>1. v = [i EXCEPT !.task = v.task]
      BY <1>4, <1>5 DEF Items
    <2>2. v.task = [s \in Tasks |-> v.task[s]]
      BY <1>4, <1>5 DEF Items
    <2>3. v.task \in [Tasks -> TaskStates]
      <3> HIDE DEF TaskStates
      <3> QED
        BY <1>6, <2>2
    <2> HIDE DEF TaskStates
    <2> QED
      BY <1>5, <2>1, <2>3 DEF Items
  <1>9. \A s \in Tasks : TaskInv(v, s)'
    BY <1>5, <1>6, <1>7, TasksAlike DEF ItemInv
  <1>10. ItemInv(v)' /\ Keeps(i, v)
    BY <1>5, <1>6, <1>7, <1>9 DEF ItemInv, Keeps, IsRunning, IsOver, TasksTerminal, Is
  <1>11. items' = IF Has(items, id) THEN [items EXCEPT ![At(items, id)] = v] ELSE items
    BY <1>3, <1>4 DEF BackoffEnds, Change
  <1> QED
    BY <1>1, <1>3, <1>8, <1>10, <1>11, QuietItems, ChangeStep

----------------------------------------------------------------------------
(* The worker starts, dies and claims                                      *)

LEMMA IdsAreIds ==
  ASSUME NEW i \in Items
  PROVE  i.id # NoJob.id
  <1>1. i.id \in Nat \X Shas
    BY DEF Items
  <1> QED
    BY SMTT(30), <1>1 DEF NoJob

LEMMA StartKeepsItems ==
  ASSUME QueueInv, Start
  PROVE  ItemsStep
  <1>1. /\ job = NoJob /\ job' = NoJob /\ token \in Nat /\ token' = token + 1 /\ clock' = clock
        /\ thread' = thread /\ made' = made /\ faults' = faults
    BY DEF QueueInv, WorkerInv, TypeOK, Start, bounds
  <1>2. ASSUME NEW i \in Items, ItemInv(i) PROVE ItemInv(i)'
    <2>1. i.id # job.id /\ i.id # job'.id
      BY <1>1, IdsAreIds
    <2>2. i.token \in Nat /\ i.token <= token
      BY <1>2, ItemFields DEF ItemInv
    <2>3. i.token <= token' /\ i.token < token'
      BY <1>1, <2>2
    <2>4. \A t \in Tasks : TaskInv(i, t)'
      BY <1>1, <1>2, <2>1 DEF ItemInv, TaskInv, Unpaid, Is
    <2> QED
      BY <1>1, <1>2, <2>1, <2>3, <2>4 DEF ItemInv, TasksTerminal, IsOver, IsRunning, Is
  <1> QED
    BY <1>2, SameItemsStep DEF Start

LEMMA CrashKeepsItems ==
  ASSUME QueueInv, Crash
  PROVE  ItemsStep
  <1>1. /\ job' = NoJob /\ token \in Nat /\ token' = token /\ clock' = clock /\ pc' = "down"
        /\ made' = made /\ faults \in Nat /\ faults' = faults + 1
    BY DEF QueueInv, TypeOK, Crash
  <1>2. ASSUME NEW i \in Items, ItemInv(i) PROVE ItemInv(i)'
    <2>1. i.id # job'.id
      BY <1>1, IdsAreIds
    <2>2. ASSUME NEW t \in Tasks PROVE TaskInv(i, t)'
      <3>1. TaskInv(i, t) /\ i.task[t].starts \in Nat /\ i.task[t].attempts \in Nat
        BY <1>2, ItemFields DEF ItemInv
      <3>2. Unpaid(i, t) \in {0, 1} /\ Unpaid(i, t)' \in {0, 1}
        BY DEF Unpaid
      <3>3. i.task[t].starts <= i.task[t].attempts + faults + Unpaid(i, t)
        BY <3>1 DEF TaskInv
      <3>4. (i.task[t].starts <= i.task[t].attempts + faults + Unpaid(i, t))'
        BY <1>1, <3>1, <3>2, <3>3
      <3> QED
        BY <1>1, <2>1, <3>1, <3>4 DEF TaskInv, Is
    <2> QED
      BY <1>1, <1>2, <2>1, <2>2 DEF ItemInv, TasksTerminal, IsOver, IsRunning, Is
  <1> QED
    BY <1>2, SameItemsStep DEF Crash

LEMMA TaskSetTo ==
  ASSUME NEW i \in Items, NEW t \in Tasks,
         NEW s \in {"queued", "running", "done", "failed", "cancelled", "skipped"},
         NEW x, x = [i.task[t] EXCEPT !.status = s]
  PROVE  /\ x \in TaskStates /\ x.status = s /\ x.wanted = i.task[t].wanted
         /\ x.starts = i.task[t].starts /\ x.attempts = i.task[t].attempts
  <1>1. i.task[t] \in TaskStates
    BY ItemFields
  <1> QED
    BY <1>1 DEF TaskStates

LEMMA RecoveringIsSound ==
  ASSUME QueueInv, pc = "idle", NEW i \in Items, ItemInv(i), NEW j, j = RecoveredItem(i)
  PROVE  j \in Items /\ Keeps(i, j) /\ ItemInv(j) /\ ~IsRunning(j)
  <1>1. job = NoJob /\ i.id # job.id
    BY IdsAreIds DEF QueueInv, WorkerInv
  <1>2. CASE i.token = token
    <2>1. ~IsRunning(i)
      BY <1>1, <1>2, ItemFields DEF ItemInv
    <2> QED
      BY <1>2, <2>1, KeepsItself DEF RecoveredItem
  <1>3. CASE i.token # token
    <2> DEFINE r == [i EXCEPT !.task = [t \in Tasks |-> RecoveredTask(i, t)]]
    <2>1. ASSUME NEW t \in Tasks
          PROVE  /\ RecoveredTask(i, t) \in TaskStates
                 /\ RecoveredTask(i, t).wanted = i.task[t].wanted
                 /\ RecoveredTask(i, t).starts = i.task[t].starts
                 /\ RecoveredTask(i, t).attempts = i.task[t].attempts
                 /\ \/ i.task[t].status # "running" /\ RecoveredTask(i, t) = i.task[t]
                    \/ i.task[t].status = "running" /\
                          \/ RecoveredTask(i, t).status \in {"cancelled", "queued"}
                          \/ RecoveredTask(i, t).status = "done" /\ <<i.sha, t>> \in made
      <3>1. CASE i.task[t].status # "running"
        BY <3>1, ItemFields DEF RecoveredTask
      <3>2. CASE i.task[t].status = "running"
        <4>1. PICK s \in {"done", "cancelled", "queued"} :
                 /\ RecoveredTask(i, t) = [i.task[t] EXCEPT !.status = s]
                 /\ s = "done" => <<i.sha, t>> \in made
          BY <3>2 DEF RecoveredTask
        <4>2. s \in {"queued", "running", "done", "failed", "cancelled", "skipped"}
          OBVIOUS
        <4>3. /\ RecoveredTask(i, t) \in TaskStates /\ RecoveredTask(i, t).status = s
              /\ RecoveredTask(i, t).wanted = i.task[t].wanted
              /\ RecoveredTask(i, t).starts = i.task[t].starts
              /\ RecoveredTask(i, t).attempts = i.task[t].attempts
          BY <4>1, <4>2, TaskSetTo
        <4> QED
          BY <3>2, <4>1, <4>3
      <3> QED
        BY <3>1, <3>2
    <2>2. [t \in Tasks |-> RecoveredTask(i, t)] \in [Tasks -> TaskStates]
      BY <2>1
    <2>3. r \in Items
      <3> HIDE DEF TaskStates
      <3> QED
        BY <2>2 DEF Items
    <2>4. /\ r.id = i.id /\ r.sha = i.sha /\ r.status = i.status /\ r.created = i.created
          /\ r.token = i.token /\ r.sent = i.sent
          /\ \A t \in Tasks : r.task[t] = RecoveredTask(i, t)
      BY DEF Items
    <2>5. PICK st \in {"queued", "running", "done", "failed", "cancelled"} :
             /\ j = [r EXCEPT !.status = st] /\ st # "running"
             /\ ~IsRunning(i) => st = i.status
      <3>1. CASE ~IsRunning(i)
        <4>1. j = r
          BY <1>3, <3>1 DEF RecoveredItem
        <4>2. r = [r EXCEPT !.status = r.status]
          BY <2>3 DEF Items
        <4> QED
          BY <2>4, <3>1, <4>1, <4>2, ItemFields DEF IsRunning
      <3>2. CASE IsRunning(i) /\ TasksTerminal(r)
        <4>1. j = Recomputed(r)
          BY <1>3, <3>2 DEF RecoveredItem
        <4> QED
          BY <3>2, <4>1 DEF Recomputed
      <3>3. CASE IsRunning(i) /\ ~TasksTerminal(r)
        <4>1. j = [r EXCEPT !.status = "queued"]
          BY <1>3, <3>3 DEF RecoveredItem
        <4> QED
          BY <3>3, <4>1
      <3> QED
        BY <3>1, <3>2, <3>3
    <2>6. /\ j.id = i.id /\ j.sha = i.sha /\ j.status = st /\ j.created = i.created
          /\ j.token = i.token /\ j.sent = i.sent
          /\ \A t \in Tasks : j.task[t] = RecoveredTask(i, t)
      BY <2>3, <2>4, <2>5 DEF Items
    <2>7. j \in Items
      <3> HIDE DEF r, TaskStates
      <3> QED
        BY <2>3, <2>5 DEF Items, Over
    <2>8. ASSUME NEW t \in Tasks PROVE (Is(i, t, "done") => Is(j, t, "done")) /\ TaskInv(j, t)
      <3>1. TaskInv(i, t)
        BY DEF ItemInv
      <3>2. CASE i.task[t].status # "running"
        BY <2>1, <2>6, <3>1, <3>2 DEF TaskInv, Is, Unpaid
      <3>3. CASE i.task[t].status = "running"
        <4>1. Unpaid(i, t) = 0 /\ Unpaid(j, t) \in {0, 1} /\ faults \in Nat
          BY <1>1, <3>3 DEF Unpaid, QueueInv, TypeOK
        <4>2. /\ j.task[t].starts = i.task[t].starts /\ j.task[t].attempts = i.task[t].attempts
              /\ i.task[t].starts \in Nat /\ i.task[t].attempts \in Nat
          BY ZenonT(60), <2>1, <2>6, ItemFields
        <4>3. i.task[t].starts <= i.task[t].attempts + faults + 0
          BY <3>1, <4>1 DEF TaskInv
        <4>4. j.task[t].starts <= j.task[t].attempts + faults + Unpaid(j, t)
          BY <4>1, <4>2, <4>3
        <4>5. i.task[t].wanted /\ j.task[t].wanted
          BY <2>1, <2>6, <3>1, <3>3, ItemFields DEF TaskInv, TaskStates
        <4> QED
          BY <1>1, <2>1, <2>6, <3>3, <4>4, <4>5 DEF TaskInv, Is
      <3> QED
        BY <3>2, <3>3
    <2>9. j.sent => IsOver(j) /\ TasksTerminal(j)
      <3> SUFFICES ASSUME j.sent PROVE IsOver(j) /\ TasksTerminal(j)
        OBVIOUS
      <3>1. IsOver(i) /\ TasksTerminal(i)
        BY <2>6 DEF ItemInv
      <3>2. ASSUME NEW t \in Tasks PROVE j.task[t] = i.task[t]
        <4>1. i.task[t].status = "running" => i.task[t].wanted
          BY ItemFields DEF ItemInv, TaskInv, TaskStates
        <4>2. i.task[t].status # "running"
          BY <3>1, <4>1 DEF TasksTerminal, Is
        <4> QED
          BY <2>1, <2>6, <4>2
      <3>3. j.status = i.status
        BY <2>5, <2>6, <3>1 DEF IsRunning, IsOver, Over
      <3> QED
        BY <3>1, <3>2, <3>3 DEF IsOver, TasksTerminal, Is
    <2>10. ~IsRunning(j)
      BY <2>5, <2>6 DEF IsRunning
    <2> QED
      BY <1>1, <2>6, <2>7, <2>8, <2>9, <2>10 DEF ItemInv, Keeps
  <1> QED
    BY <1>2, <1>3

LEMMA ClaimingIsSound ==
  ASSUME QueueInv, pc = "idle", NEW i \in Items, ItemInv(i), Claimable(i), NEW j, j = Claimed(i),
         job' = [id |-> i.id, sha |-> i.sha, armed |-> {t \in Tasks : Is(i, t, "queued")}],
         pc' = "translate", UNCHANGED <<token, clock, made, faults, thread>>
  PROVE  j \in Items /\ Keeps(i, j) /\ ItemInv(j)'
  <1> DEFINE task == [t \in Tasks |-> IF Is(i, t, "queued")
                                      THEN [i.task[t] EXCEPT !.status = "running"] ELSE i.task[t]]
  <1>1. ASSUME NEW t \in Tasks
        PROVE  /\ task[t] \in TaskStates
               /\ task[t].wanted = i.task[t].wanted
               /\ task[t].starts = i.task[t].starts /\ task[t].attempts = i.task[t].attempts
               /\ Is(i, t, "queued") => task[t].status = "running"
               /\ ~Is(i, t, "queued") => task[t] = i.task[t]
    <2>1. CASE Is(i, t, "queued")
      <3>1. task[t] = [i.task[t] EXCEPT !.status = "running"]
        BY <2>1
      <3> HIDE DEF task
      <3> QED
        BY <2>1, <3>1, TaskSetTo
    <2>2. CASE ~Is(i, t, "queued")
      BY <2>2, ItemFields
    <2> QED
      BY <2>1, <2>2
  <1>2. task \in [Tasks -> TaskStates]
    BY <1>1
  <1>3. j = [i EXCEPT !.status = "running", !.token = token, !.task = task]
    BY DEF Claimed
  <1>4. token \in Nat /\ token' = token
    BY DEF QueueInv, TypeOK
  <1> HIDE DEF task
  <1>5. j \in Items
    <2> HIDE DEF TaskStates
    <2> QED
      BY <1>2, <1>3, <1>4 DEF Items, Over
  <1>6. /\ j.id = i.id /\ j.sha = i.sha /\ j.status = "running" /\ j.created = i.created
        /\ j.token = token /\ j.sent = i.sent /\ j.task = task
    BY <1>3 DEF Items
  <1>7. j.id = job'.id /\ i.id # job.id
    BY <1>6, IdsAreIds DEF QueueInv, WorkerInv
  <1>8. \A t \in Tasks : thread[t] = "none" /\ thread'[t] = "none"
    BY DEF QueueInv, WorkerInv
  <1>9. ASSUME NEW t \in Tasks PROVE (Is(i, t, "done") => Is(j, t, "done")) /\ TaskInv(j, t)'
    <2>1. TaskInv(i, t)
      BY DEF ItemInv
    <2>2. Unpaid(j, t)' = Unpaid(i, t)
      BY <1>1, <1>6, <1>7, <1>8 DEF Unpaid, Is
    <2>3. (j.task[t].starts <= j.task[t].attempts + faults + Unpaid(j, t))'
      BY <1>1, <1>6, <2>1, <2>2 DEF TaskInv
    <2>4. Held(t)' => j.task[t].status = "running"
      BY <1>1, <1>6, <1>8 DEF Held
    <2>5. ~j.task[t].wanted => j.task[t].status = "skipped"
      BY <1>1, <1>6, <2>1 DEF TaskInv, Is
    <2>6. Is(j, t, "done") <=> Is(i, t, "done")
      BY <1>1, <1>6 DEF Is
    <2>7. Is(i, t, "done") => <<i.sha, t>> \in made
      BY <2>1 DEF TaskInv
    <2> QED
      BY <1>6, <2>3, <2>4, <2>5, <2>6, <2>7 DEF TaskInv, Is
  <1>10. ~i.sent
    BY DEF ItemInv, Claimable, IsQueued, IsOver, Over
  <1>11. (j.created <= clock /\ j.id = <<j.created, j.sha>> /\ j.token <= token)'
    BY <1>4, <1>6 DEF ItemInv
  <1> QED
    BY <1>4, <1>5, <1>6, <1>7, <1>9, <1>10, <1>11 DEF Keeps, ItemInv

LEMMA KeepsOn == ASSUME NEW i, NEW j, NEW l, Keeps(i, j), Keeps(j, l) PROVE Keeps(i, l)
  BY DEF Keeps

LEMMA ClaimKeepsItems ==
  ASSUME QueueInv, ClaimNext
  PROVE  ItemsStep
  <1>1. /\ items \in Seq(Items) /\ Unique(items)
        /\ \A k \in DOMAIN items : items[k] \in Items /\ ItemInv(items[k])
    BY ItemsOfTheQueue
  <1>2. PICK its : its = Recovered(items)
    OBVIOUS
  <1>3. /\ its = [k \in DOMAIN items |-> its[k]] /\ DOMAIN its = DOMAIN items
        /\ \A k \in DOMAIN items : its[k] = RecoveredItem(items[k])
    BY <1>2 DEF Recovered
  <1>4. pc = "idle" /\ UNCHANGED <<made, clock, token, thread, faults>>
    BY DEF ClaimNext, bounds
  <1>5. ASSUME NEW k \in DOMAIN items
        PROVE  its[k] \in Items /\ Keeps(items[k], its[k]) /\ ItemInv(its[k]) /\ ~IsRunning(its[k])
    BY <1>1, <1>3, <1>4, RecoveringIsSound
  <1>6. CASE items' = its /\ UNCHANGED <<pc, job>>
    <2>1. Quiet
      BY <1>4, <1>6 DEF Quiet, QueueInv, TypeOK
    <2>2. ASSUME NEW k \in DOMAIN items
          PROVE  items'[k] \in Items /\ Keeps(items[k], items'[k]) /\ ItemInv(items[k])'
      <3>1. PICK j : j = its[k]
        OBVIOUS
      <3>2. ItemInv(j)'
        BY <1>5, <2>1, <3>1, QuietItems
      <3> QED
        BY <1>5, <1>6, <3>1, <3>2
    <2> QED
      BY <1>3, <1>6, <2>2, EachChangesStep
  <1>7. ASSUME NEW k \in DOMAIN its, IsNext(its, k), Claim(its, k)
        PROVE  ItemsStep
    <2>1. PICK i : i = its[k]
      OBVIOUS
    <2>2. PICK j : j = Claimed(i)
      OBVIOUS
    <2>3. /\ items' = [its EXCEPT ![k] = j]
          /\ job' = [id |-> i.id, sha |-> i.sha, armed |-> {t \in Tasks : Is(i, t, "queued")}]
          /\ pc' = "translate" /\ Claimable(i)
      BY <1>7, <2>1, <2>2 DEF Claim, IsNext
    <2>4. j \in Items /\ Keeps(i, j) /\ ItemInv(j)'
      BY <1>3, <1>4, <1>5, <2>1, <2>2, <2>3, ClaimingIsSound
    <2>5. ASSUME NEW n \in DOMAIN items
          PROVE  items'[n] \in Items /\ Keeps(items[n], items'[n]) /\ ItemInv(items[n])'
      <3>1. CASE n = k
        <4>1. items'[n] = j
          BY <1>3, <2>3, <3>1
        <4>2. Keeps(items[n], j)
          BY <1>5, <2>1, <2>4, <3>1, KeepsOn
        <4> QED
          BY <2>4, <4>1, <4>2
      <3>2. CASE n # k
        <4>1. PICK l : l = its[n]
          OBVIOUS
        <4>2. items'[n] = l
          BY <1>3, <2>3, <3>2, <4>1
        <4>3. l \in Items /\ Keeps(items[n], l) /\ ItemInv(l)
          BY <1>5, <4>1
        <4>4. items[k].id # items[n].id
          BY <1>1, <1>3, <3>2 DEF Unique
        <4>5. i.id = items[k].id /\ l.id = items[n].id
          BY <1>3, <1>5, <2>1, <4>3 DEF Keeps
        <4>6. l.id # job'.id
          BY <2>3, <4>4, <4>5
        <4>7. l.id # job.id /\ faults \in Nat /\ faults' = faults
          BY <1>4, <4>3, IdsAreIds DEF QueueInv, WorkerInv, TypeOK
        <4>8. ItemInv(l)'
          BY <1>4, <4>3, <4>6, <4>7, OtherItems
        <4> QED
          BY <4>2, <4>3, <4>8
      <3> QED
        BY <3>1, <3>2
    <2>6. items' = [n \in DOMAIN items |-> items'[n]]
      BY <1>3, <2>3
    <2> QED
      BY <1>3, <2>5, <2>6, EachChangesStep
  <1> QED
    BY <1>2, <1>6, <1>7 DEF ClaimNext

----------------------------------------------------------------------------
(* The worker and its threads work on one item                             *)

\* A step of the worker that leaves its own item, i, alone, or writes it as i.
AtWork ==
    /\ pc \notin {"down", "idle"} /\ UNCHANGED <<token, clock>>
    /\ made \subseteq made' /\ faults \in Nat /\ faults' \in Nat /\ faults <= faults'

LEMMA OwnItem ==
  ASSUME AtWork, job' = job, NEW i \in Items, ItemInv(i), i.id = job.id,
         \A t \in Tasks : Held(t)' => Held(t),
         \A t \in Tasks : i.task[t].starts <= i.task[t].attempts + faults' + Unpaid(i, t)'
  PROVE  ItemInv(i)'
  <1>1. ASSUME NEW t \in Tasks PROVE TaskInv(i, t)'
    <2>1. TaskInv(i, t)
      BY DEF ItemInv
    <2> QED
      BY <2>1 DEF TaskInv, Is, AtWork
  <1> QED
    BY <1>1 DEF ItemInv, AtWork, TasksTerminal, IsOver, IsRunning, Is

\* The same, when every thread goes on, or ends for the price of a fault.
LEMMA OwnItemLeftAlone ==
  ASSUME AtWork, job' = job, NEW i \in Items, ItemInv(i), i.id = job.id,
         \A t \in Tasks : Held(t)' => Held(t),
         \/ \A t \in Tasks : thread[t] \in {"works", "made"} => thread'[t] \in {"works", "made"}
         \/ faults' = faults + 1
  PROVE  ItemInv(i)'
  <1>1. ASSUME NEW t \in Tasks
        PROVE  i.task[t].starts <= i.task[t].attempts + faults' + Unpaid(i, t)'
    <2>1. i.task[t].starts \in Nat /\ i.task[t].attempts \in Nat
      BY ItemFields
    <2>2. i.task[t].starts <= i.task[t].attempts + faults + Unpaid(i, t)
      BY DEF ItemInv, TaskInv
    <2>3. Unpaid(i, t) \in {0, 1} /\ Unpaid(i, t)' \in {0, 1}
      BY DEF Unpaid
    <2>4. faults \in Nat /\ faults' \in Nat /\ faults <= faults'
      BY DEF AtWork
    <2>5. CASE thread[t] \in {"works", "made"} => thread'[t] \in {"works", "made"}
      <3>1. Unpaid(i, t) <= Unpaid(i, t)'
        BY <2>5 DEF Unpaid
      <3> QED
        BY <2>1, <2>2, <2>3, <2>4, <3>1
    <2>6. CASE faults' = faults + 1
      BY <2>1, <2>2, <2>3, <2>4, <2>6
    <2> QED
      BY <2>5, <2>6
  <1> QED
    BY <1>1, OwnItem

LEMMA OtherItemsAtWork ==
  ASSUME AtWork, job' \in {job, NoJob}, NEW i \in Items, ItemInv(i), i.id # job.id
  PROVE  ItemInv(i)'
  <1>1. i.id # job'.id
    BY IdsAreIds
  <1> QED
    BY <1>1, OtherItems DEF AtWork

\* Steps that do not write the queue.
LEMMA NoWriteStep ==
  ASSUME QueueInv, AtWork, UNCHANGED <<items, job>>,
         \A t \in Tasks : Held(t)' => Held(t),
         \/ \A t \in Tasks : thread[t] \in {"works", "made"} => thread'[t] \in {"works", "made"}
         \/ faults' = faults + 1
  PROVE  ItemsStep
  <1>1. \A i \in Items : ItemInv(i) => ItemInv(i)'
    BY OwnItemLeftAlone, OtherItemsAtWork
  <1> QED
    BY <1>1, SameItemsStep

LEMMA SetupKeepsItems ==
  ASSUME QueueInv, SetupFails
  PROVE  ItemsStep
  <1>1. AtWork
    BY DEF SetupFails, AtWork, QueueInv, TypeOK, bounds
  <1>2. \A t \in Tasks : thread[t] = "none"
    BY DEF QueueInv, WorkerInv, SetupFails
  <1>3. \A t \in Tasks : Held(t)' => Held(t)
    BY <1>2 DEF SetupFails, Held
  <1> QED
    BY <1>1, <1>2, <1>3, NoWriteStep DEF SetupFails

LEMMA ProduceKeepsItems ==
  ASSUME QueueInv, NEW t \in Tasks, Produce(t)
  PROVE  ItemsStep
  <1>1. pc \in {"summarize", "join"}
    BY DEF Produce, QueueInv, WorkerInv
  <1>2. AtWork
    BY <1>1 DEF Produce, AtWork, QueueInv, TypeOK, bounds
  <1>3. thread \in [Tasks -> {"none", "works", "made", "doomed"}]
    BY DEF QueueInv, TypeOK
  <1>4. \A s \in Tasks : /\ Held(s)' => Held(s)
                         /\ thread[s] \in {"works", "made"} => thread'[s] \in {"works", "made"}
    BY <1>3 DEF Produce, Held
  <1> QED
    BY <1>2, <1>4, NoWriteStep DEF Produce

LEMMA JoinKeepsItems ==
  ASSUME QueueInv, Join
  PROVE  ItemsStep
  <1>1. AtWork
    BY DEF Join, AtWork, QueueInv, TypeOK, bounds
  <1>2. \A s \in Tasks : /\ Held(s)' => Held(s)
                         /\ thread[s] \in {"works", "made"} => thread'[s] \in {"works", "made"}
    BY DEF Join, Held, Tasks
  <1> QED
    BY <1>1, <1>2, NoWriteStep DEF Join

\* What mark_task_skipped_if_not_wanted makes of an item is as good as the item.
LEMMA MarkingIsSound ==
  ASSUME NEW i \in Items, ItemInv(i), i.id = job.id, NEW j, j = Marked(i)
  PROVE  j \in Items /\ Keeps(i, j) /\ ItemInv(j)
  <1> DEFINE task == [t \in Tasks |-> IF i.task[t].wanted THEN i.task[t]
                                      ELSE [i.task[t] EXCEPT !.status = "skipped"]]
             m == [i EXCEPT !.task = task]
  <1>1. ASSUME NEW t \in Tasks PROVE task[t] = i.task[t]
    <2>1. i.task[t] \in TaskStates /\ (~i.task[t].wanted => i.task[t].status = "skipped")
      BY ItemFields DEF ItemInv, TaskInv
    <2> QED
      BY <2>1 DEF TaskStates
  <1>2. m = i
    <2>1. i.task \in [Tasks -> TaskStates]
      BY DEF Items
    <2>2. task = i.task
      <3> HIDE DEF TaskStates
      <3>1. task = [t \in Tasks |-> i.task[t]]
        BY <1>1
      <3> QED
        BY <2>1, <3>1
    <2> HIDE DEF task
    <2> QED
      BY <2>2 DEF Items
  <1>3. Skipped(i) = i
    BY <1>2 DEF Skipped
  <1>4. PICK st \in {"queued", "running", "done", "failed", "cancelled"} :
           /\ j = [i EXCEPT !.status = st]
           /\ i.sent => st \in Over
    <2>1. CASE IsQueued(i) /\ ~TasksTerminal(i)
      <3>1. j = i
        BY <1>3, <2>1 DEF Marked
      <3>2. i = [i EXCEPT !.status = "queued"] /\ ~i.sent
        BY <2>1 DEF Items, IsQueued, ItemInv, IsOver, Over
      <3> QED
        BY <3>1, <3>2
    <2>2. CASE ~(IsQueued(i) /\ ~TasksTerminal(i))
      <3>1. j = Recomputed(i)
        BY <1>3, <2>2 DEF Marked
      <3> QED
        BY <3>1 DEF Recomputed, ItemInv, Over
    <2> QED
      BY <2>1, <2>2
  <1>5. /\ j.id = i.id /\ j.sha = i.sha /\ j.status = st /\ j.created = i.created
        /\ j.token = i.token /\ j.sent = i.sent /\ j.task = i.task
    BY <1>4 DEF Items
  <1>6. j \in Items
    <2> HIDE DEF TaskStates
    <2> QED
      BY <1>4 DEF Items, Over
  <1>7. \A t \in Tasks : TaskInv(j, t) /\ (Is(i, t, "done") <=> Is(j, t, "done"))
    BY <1>5 DEF ItemInv, TaskInv, Is, Unpaid
  <1> QED
    BY <1>4, <1>5, <1>6, <1>7 DEF ItemInv, Keeps, IsOver, TasksTerminal, Is

\* An operation of the worker on its item, or its loss.
LEMMA WriteStep ==
  ASSUME QueueInv, AtWork, job' \in {job, NoJob}, NEW v,
         items' = IF Has(items, job.id) THEN [items EXCEPT ![At(items, job.id)] = v] ELSE items,
         \A i \in Items : i.id = job.id /\ ItemInv(i) /\ i = items[At(items, job.id)] =>
             v \in Items /\ Keeps(i, v) /\ ItemInv(v)'
  PROVE  ItemsStep
  <1>1. Has(items, job.id) => v \in Items /\ Keeps(items[At(items, job.id)], v) /\ ItemInv(v)'
    <2> SUFFICES ASSUME Has(items, job.id)
                 PROVE  v \in Items /\ Keeps(items[At(items, job.id)], v) /\ ItemInv(v)'
      OBVIOUS
    <2>1. PICK i : i = items[At(items, job.id)]
      OBVIOUS
    <2>2. i \in Items /\ ItemInv(i) /\ i.id = job.id
      BY <2>1, ItemsOfTheQueue, AtIsTheItem
    <2> QED
      BY <2>1, <2>2
  <1>2. \A i \in Items : i.id # job.id /\ ItemInv(i) => ItemInv(i)'
    BY OtherItemsAtWork
  <1> QED
    BY <1>1, <1>2, ChangeStep

\* The write of an item as good as the one in the queue, or its loss.
LEMMA MarkedStep ==
  ASSUME QueueInv, AtWork, job' = job, Write(Change(items, job.id, Marked)),
         \A t \in Tasks : Held(t)' => Held(t),
         thread' = thread
  PROVE  ItemsStep
  <1>1. CASE items' = items
    BY <1>1, NoWriteStep
  <1>2. CASE items' = Change(items, job.id, Marked)
    <2>1. PICK v : v = Marked(items[At(items, job.id)])
      OBVIOUS
    <2>2. items' = IF Has(items, job.id) THEN [items EXCEPT ![At(items, job.id)] = v] ELSE items
      BY <1>2, <2>1 DEF Change
    <2>3. ASSUME NEW i \in Items, i.id = job.id, ItemInv(i), i = items[At(items, job.id)]
          PROVE  v \in Items /\ Keeps(i, v) /\ ItemInv(v)'
      <3>1. v \in Items /\ Keeps(i, v) /\ ItemInv(v) /\ v.id = job.id
        BY <2>1, <2>3, MarkingIsSound DEF Keeps
      <3>2. ItemInv(v)'
        BY <3>1, OwnItemLeftAlone
      <3> QED
        BY <3>1, <3>2
    <2> QED
      BY <2>2, <2>3, WriteStep
  <1> QED
    BY <1>1, <1>2 DEF Write

LEMMA MarkKeepsItems ==
  ASSUME QueueInv, Mark
  PROVE  ItemsStep
  <1>1. AtWork
    BY DEF Mark, Write, AtWork, QueueInv, TypeOK
  <1>2. \A t \in Tasks : Held(t)' => Held(t)
    BY DEF Mark, Held, Tasks
  <1> QED
    BY <1>1, <1>2, MarkedStep DEF Mark

WithTask(i, t, x) == [i EXCEPT !.task = [@ EXCEPT ![t] = x]]

LEMMA TaskChange ==
  ASSUME NEW i \in Items, NEW t \in Tasks, NEW x \in TaskStates, NEW j, j = WithTask(i, t, x)
  PROVE  /\ j \in Items
         /\ j.id = i.id /\ j.sha = i.sha /\ j.status = i.status /\ j.created = i.created
         /\ j.token = i.token /\ j.sent = i.sent
         /\ \A s \in Tasks : j.task[s] = IF s = t THEN x ELSE i.task[s]
  <1>1. i.task \in [Tasks -> TaskStates]
    BY DEF Items
  <1>2. [i.task EXCEPT ![t] = x] \in [Tasks -> TaskStates]
    BY <1>1
  <1> HIDE DEF TaskStates
  <1>3. j = [i EXCEPT !.task = [i.task EXCEPT ![t] = x]]
    BY DEF WithTask, Items
  <1>4. j \in Items
    BY <1>2, <1>3 DEF Items
  <1>5. j.task = [i.task EXCEPT ![t] = x]
    BY <1>3 DEF Items
  <1>6. \A s \in Tasks : j.task[s] = IF s = t THEN x ELSE i.task[s]
    BY <1>1, <1>5
  <1>7. /\ j.id = i.id /\ j.sha = i.sha /\ j.status = i.status /\ j.created = i.created
        /\ j.token = i.token /\ j.sent = i.sent
    BY <1>3 DEF Items
  <1> QED
    BY <1>4, <1>6, <1>7

StartedOn(i, t) == [i EXCEPT !.task[t].starts = @ + 1]

\* A thread is started for a task that is running and has none.
LEMMA StartingIsSound ==
  ASSUME QueueInv, AtWork, job' = job, NEW t \in Tasks, pc = t, t \in job.armed,
         pc' = (IF t = "translate" THEN "summarize" ELSE "join"),
         thread' = [thread EXCEPT ![t] = "works"], faults' = faults,
         NEW i \in Items, i.id = job.id, ItemInv(i), NEW v, v = StartedOn(i, t)
  PROVE  v \in Items /\ Keeps(i, v) /\ ItemInv(v)'
  <1>1. PICK x : x = [i.task[t] EXCEPT !.starts = @ + 1]
    OBVIOUS
  <1>2. /\ x \in TaskStates /\ x.wanted = i.task[t].wanted /\ x.status = i.task[t].status
        /\ x.starts = i.task[t].starts + 1 /\ x.attempts = i.task[t].attempts
    <2>1. i.task[t] \in TaskStates
      BY ItemFields
    <2> QED
      BY <1>1, <2>1 DEF TaskStates
  <1>3. v = WithTask(i, t, x)
    BY <1>1 DEF StartedOn, WithTask, Items
  <1>4. /\ v \in Items
        /\ v.id = i.id /\ v.sha = i.sha /\ v.status = i.status /\ v.created = i.created
        /\ v.token = i.token /\ v.sent = i.sent
        /\ \A s \in Tasks : v.task[s] = IF s = t THEN x ELSE i.task[s]
    BY <1>2, <1>3, TaskChange
  <1>5. thread \in [Tasks -> {"none", "works", "made", "doomed"}] /\ thread[t] = "none"
    BY DEF QueueInv, TypeOK, WorkerInv, Tasks
  <1>6. \A s \in Tasks : Held(s)' => Held(s)
    BY <1>5 DEF Held, Tasks
  <1>7. ASSUME NEW s \in Tasks
        PROVE  TaskInv(v, s)' /\ (Is(i, s, "done") <=> Is(v, s, "done"))
               /\ v.task[s].wanted = i.task[s].wanted /\ v.task[s].status = i.task[s].status
    <2>1. /\ TaskInv(i, s) /\ i.task[s].starts \in Nat /\ i.task[s].attempts \in Nat
          /\ faults \in Nat
      BY ItemFields DEF ItemInv, AtWork
    <2>2. v.task[s].wanted = i.task[s].wanted /\ v.task[s].status = i.task[s].status
      BY <1>2, <1>4
    <2>3. (v.task[s].starts <= v.task[s].attempts + faults + Unpaid(v, s))'
      <3>1. CASE s = t
        <4>1. i.task[t].status = "running" /\ Unpaid(i, t) = 0
          BY <1>5, <2>1, <3>1 DEF TaskInv, Held, Unpaid
        <4>2. Unpaid(v, t)' = 1
          BY <1>4, <1>5 DEF Unpaid
        <4>3. i.task[t].starts <= i.task[t].attempts + faults + 0
          BY <2>1, <3>1, <4>1 DEF TaskInv
        <4>4. v.task[t].starts = i.task[t].starts + 1 /\ v.task[t].attempts = i.task[t].attempts
          BY <1>2, <1>4
        <4> QED
          BY <2>1, <3>1, <4>2, <4>3, <4>4
      <3>2. CASE s # t
        <4>1. v.task[s] = i.task[s] /\ Unpaid(v, s)' = Unpaid(i, s)
          BY <1>4, <1>5, <3>2 DEF Unpaid
        <4> QED
          BY <2>1, <4>1 DEF TaskInv
      <3> QED
        BY <3>1, <3>2
    <2> QED
      BY <1>4, <1>6, <2>1, <2>2, <2>3 DEF TaskInv, Is, AtWork
  <1> QED
    BY <1>4, <1>7 DEF Keeps, ItemInv, AtWork, IsRunning, IsOver, TasksTerminal, Is

LEMMA LaunchKeepsItems ==
  ASSUME QueueInv, NEW t \in Tasks, Launch(t)
  PROVE  ItemsStep
  <1>1. AtWork /\ job' = job
    <2>1. faults \in Nat /\ faults' \in {faults, faults + 1}
      BY DEF Launch, Write, QueueInv, TypeOK
    <2>2. faults' \in Nat /\ faults <= faults'
      BY <2>1
    <2>3. pc \notin {"down", "idle"}
      BY DEF Launch, Tasks
    <2> QED
      BY <2>1, <2>2, <2>3 DEF Launch, AtWork
  <1>2. CASE Launched(t) /\ thread' = [thread EXCEPT ![t] = "works"] /\ UNCHANGED faults
             /\ ~(~Launched(t))
    <2> DEFINE Started(i) == [i EXCEPT !.task[t].starts = @ + 1]
    <2>1. PICK v : v = Started(items[At(items, job.id)])
      OBVIOUS
    <2>2. items' = IF Has(items, job.id) THEN [items EXCEPT ![At(items, job.id)] = v] ELSE items
      BY <1>2, <2>1 DEF Launch, Change
    <2>3. ASSUME NEW i \in Items, i.id = job.id, ItemInv(i), i = items[At(items, job.id)]
          PROVE  v \in Items /\ Keeps(i, v) /\ ItemInv(v)'
      <3>1. v = StartedOn(i, t)
        BY <2>1, <2>3 DEF StartedOn
      <3> QED
        BY <1>1, <1>2, <2>3, <3>1, StartingIsSound DEF Launch, Launched
    <2> QED
      BY <1>1, <2>2, <2>3, WriteStep
  <1>3. CASE ~Launched(t)
    <2>1. thread' = thread /\ Write(Change(items, job.id, Marked))
      BY <1>3 DEF Launch
    <2>2. \A s \in Tasks : Held(s)' => Held(s)
      BY <1>1, <2>1 DEF Launch, Held, Tasks
    <2> QED
      BY <1>1, <2>1, <2>2, MarkedStep
  <1> QED
    BY <1>2, <1>3 DEF Launch

\* The result of a thread.
WithStatus(i, s) == [i EXCEPT !.status = s]

LEMMA StatusChange ==
  ASSUME NEW i \in Items, NEW s \in {"queued", "running", "done", "failed", "cancelled"},
         NEW j, j = WithStatus(i, s)
  PROVE  /\ j \in Items
         /\ j.id = i.id /\ j.sha = i.sha /\ j.status = s /\ j.created = i.created
         /\ j.token = i.token /\ j.sent = i.sent /\ j.task = i.task
  <1>1. /\ j.id = i.id /\ j.sha = i.sha /\ j.status = s /\ j.created = i.created
        /\ j.token = i.token /\ j.sent = i.sent /\ j.task = i.task
    BY DEF WithStatus, Items
  <1> HIDE DEF TaskStates
  <1>2. j \in Items
    BY DEF WithStatus, Items, Over
  <1> QED
    BY <1>1, <1>2

\* While a task has a thread, or is to get one, it runs and its item is not over.
LEMMA ThreadsAreInside ==
  ASSUME QueueInv, NEW t \in Tasks, FinishTask(t)
  PROVE  /\ AtWork /\ job' = job /\ pc' = pc /\ made' = made
         /\ thread \in [Tasks -> {"none", "works", "made", "doomed"}]
         /\ thread[t] # "none" /\ ~Held(t)' /\ \A s \in Tasks : Held(s)' => Held(s)
         /\ job.id[2] = job.sha /\ (thread[t] = "made" => <<job.sha, t>> \in made)
  <1>1. thread \in [Tasks -> {"none", "works", "made", "doomed"}] /\ faults \in Nat /\ WorkerInv
    BY DEF QueueInv, TypeOK
  <1>2. thread[t] # "none"
    BY DEF FinishTask, Results
  <1>3. /\ thread' = [thread EXCEPT ![t] = "none"] /\ faults' \in {faults, faults + 1}
        /\ UNCHANGED <<made, clock, pc, token, job>>
    BY DEF FinishTask, Write
  <1>4. pc \in {"summarize", "join"} /\ (t = "summarize" => pc # "summarize") /\ job # NoJob
    BY <1>1, <1>2 DEF WorkerInv
  <1>5. ~Held(t)' /\ \A s \in Tasks : Held(s)' => Held(s)
    BY <1>1, <1>3, <1>4 DEF Held, Tasks
  <1>6. faults' \in Nat /\ faults <= faults'
    BY <1>1, <1>3
  <1>7. AtWork
    BY <1>1, <1>3, <1>4, <1>6 DEF AtWork
  <1>8. job.id[2] = job.sha /\ (thread[t] = "made" => <<job.sha, t>> \in made)
    BY <1>1, <1>4 DEF WorkerInv
  <1> QED
    BY <1>1, <1>2, <1>3, <1>5, <1>7, <1>8

\* A task that has run is set to x, its item to a state that fits.
LEMMA FinishingIsSound ==
  ASSUME QueueInv, NEW t \in Tasks, FinishTask(t), faults' = faults,
         NEW i \in Items, i.id = job.id, ItemInv(i),
         NEW x \in TaskStates, x.wanted = i.task[t].wanted, x.starts = i.task[t].starts,
         \/ thread[t] = "works" /\ x.status = "queued" /\ x.attempts = i.task[t].attempts + 1
         \/ x.status = "failed" /\ x.attempts = i.task[t].attempts
         \/ x.status = "done" /\ x.attempts = i.task[t].attempts /\ thread[t] = "made",
         NEW v \in Items, v.id = i.id, v.sha = i.sha, v.created = i.created, v.token = i.token,
         v.sent = i.sent, \A s \in Tasks : v.task[s] = IF s = t THEN x ELSE i.task[s]
  PROVE  Keeps(i, v) /\ ItemInv(v)'
  <1>1. /\ AtWork /\ job' = job /\ pc' = pc /\ made' = made
        /\ thread \in [Tasks -> {"none", "works", "made", "doomed"}]
        /\ thread[t] # "none" /\ ~Held(t)' /\ \A s \in Tasks : Held(s)' => Held(s)
        /\ job.id[2] = job.sha /\ (thread[t] = "made" => <<job.sha, t>> \in made)
        /\ thread' = [thread EXCEPT ![t] = "none"]
    BY ThreadsAreInside DEF FinishTask
  <1>2. Held(t) /\ TaskInv(i, t)
    BY <1>1 DEF Held, ItemInv
  <1>3. i.task[t].status = "running" /\ i.task[t].wanted
    BY <1>2 DEF TaskInv
  <1>4. ~i.sent
    BY <1>3 DEF ItemInv, TasksTerminal, Is
  <1>5. i.sha = job.sha
    BY <1>1 DEF ItemInv
  <1>6. TaskInv(v, t)'
    <2>1. i.task[t].starts \in Nat /\ i.task[t].attempts \in Nat /\ faults \in Nat
      BY <1>1, ItemFields DEF AtWork
    <2>2. i.task[t].starts <= i.task[t].attempts + faults + 1
      BY <1>2, <2>1 DEF TaskInv, Unpaid
    <2>3. (v.task[t].starts <= v.task[t].attempts + faults + Unpaid(v, t))'
      <3>1. CASE x.status = "queued" /\ x.attempts = i.task[t].attempts + 1
        <4>1. Unpaid(v, t)' \in {0, 1}
          BY DEF Unpaid
        <4> QED
          BY <2>1, <2>2, <3>1, <4>1
      <3>2. CASE x.status \in {"failed", "done"} /\ x.attempts = i.task[t].attempts
        <4>1. Unpaid(v, t)' = 1
          BY <3>2 DEF Unpaid
        <4> QED
          BY <2>1, <2>2, <3>2, <4>1
      <3> QED
        BY <3>1, <3>2
    <2>4. (Is(v, t, "done") => <<v.sha, t>> \in made)'
      BY <1>1, <1>5 DEF Is
    <2> QED
      BY <1>1, <1>3, <2>3, <2>4 DEF TaskInv
  <1>7. ASSUME NEW s \in Tasks, s # t PROVE TaskInv(v, s)'
    <2>1. TaskInv(i, s) /\ v.task[s] = i.task[s] /\ Unpaid(v, s)' = Unpaid(i, s)
      BY <1>1, <1>7 DEF ItemInv, Unpaid
    <2> QED
      BY <1>1, <2>1 DEF TaskInv, Is
  <1>8. Keeps(i, v)
    BY <1>3 DEF Keeps, Is
  <1> QED
    BY <1>1, <1>4, <1>6, <1>7, <1>8 DEF ItemInv, AtWork

LEMMA ResultIsSound ==
  ASSUME QueueInv, NEW t \in Tasks, FinishTask(t), faults' = faults, NEW r \in Results(t),
         NEW i \in Items, i.id = job.id, ItemInv(i), NEW v, v = Finished(i, t, r)
  PROVE  v \in Items /\ Keeps(i, v) /\ ItemInv(v)'
  <1>1. /\ r \in {"ok", "transient", "permanent"}
        /\ r = "ok" => thread[t] = "made"
        /\ r = "transient" => thread[t] = "works"
    BY DEF Results
  <1>2. CASE Retries(i, t, r)
    <2>1. PICK x : x = Requeued(i.task[t])
      OBVIOUS
    <2>2. i.task[t] \in TaskStates /\ i.task[t].attempts + 1 < MAX_TASK_ATTEMPTS
      BY <1>2, ItemFields DEF Retries
    <2>3. /\ x \in TaskStates /\ x.wanted = i.task[t].wanted /\ x.starts = i.task[t].starts
          /\ x.status = "queued" /\ x.attempts = i.task[t].attempts + 1
      <3>1. i.task[t].attempts \in 0 .. MAX_TASK_ATTEMPTS - 1
        BY <2>2 DEF TaskStates
      <3>2. MAX_TASK_ATTEMPTS \in Nat
        BY QueueConstants
      <3>3. i.task[t].attempts + 1 \in 0 .. MAX_TASK_ATTEMPTS - 1
        BY <2>2, <3>1, <3>2
      <3> QED
        BY <2>1, <2>2, <3>3 DEF Requeued, TaskStates
    <2>4. PICK f : f = WithTask(i, t, x)
      OBVIOUS
    <2>5. v = WithStatus(f, "queued")
      <3>1. v = [i EXCEPT !.status = "queued", !.task[t] = Requeued(@)]
        BY <1>2 DEF Finished
      <3>2. v = [i EXCEPT !.status = "queued", !.task = [i.task EXCEPT ![t] = x]]
        BY <2>1, <3>1 DEF Items
      <3>3. f = [i EXCEPT !.task = [i.task EXCEPT ![t] = x]]
        BY <2>4 DEF WithTask, Items
      <3> QED
        BY <3>2, <3>3 DEF WithStatus, Items
    <2>6. /\ f \in Items
          /\ f.id = i.id /\ f.sha = i.sha /\ f.status = i.status /\ f.created = i.created
          /\ f.token = i.token /\ f.sent = i.sent
          /\ \A s \in Tasks : f.task[s] = IF s = t THEN x ELSE i.task[s]
      BY <2>3, <2>4, TaskChange
    <2>7. /\ v \in Items
          /\ v.id = f.id /\ v.sha = f.sha /\ v.created = f.created
          /\ v.token = f.token /\ v.sent = f.sent /\ v.task = f.task
      BY <2>5, <2>6, StatusChange
    <2>8. thread[t] = "works"
      BY <1>1, <1>2 DEF Retries
    <2>9. /\ v.id = i.id /\ v.sha = i.sha /\ v.created = i.created /\ v.token = i.token
          /\ v.sent = i.sent /\ \A s \in Tasks : v.task[s] = IF s = t THEN x ELSE i.task[s]
      BY <2>6, <2>7
    <2> QED
      BY <2>3, <2>7, <2>8, <2>9, FinishingIsSound
  <1>3. CASE ~Retries(i, t, r)
    <2>1. PICK st : st = IF r = "ok" THEN "done" ELSE "failed"
      OBVIOUS
    <2>2. PICK x : x = [i.task[t] EXCEPT !.status = st]
      OBVIOUS
    <2>3. st \in {"queued", "running", "done", "failed", "cancelled", "skipped"}
      BY <2>1
    <2>4. /\ x \in TaskStates /\ x.status = st /\ x.wanted = i.task[t].wanted
          /\ x.starts = i.task[t].starts /\ x.attempts = i.task[t].attempts
      BY <2>2, <2>3, TaskSetTo
    <2>5. PICK f : f = WithTask(i, t, x)
      OBVIOUS
    <2>6. /\ f \in Items
          /\ f.id = i.id /\ f.sha = i.sha /\ f.status = i.status /\ f.created = i.created
          /\ f.token = i.token /\ f.sent = i.sent
          /\ \A s \in Tasks : f.task[s] = IF s = t THEN x ELSE i.task[s]
      BY <2>4, <2>5, TaskChange
    <2>7. v = IF f.status # "cancelled" /\ TasksTerminal(f) THEN Recomputed(f) ELSE f
      <3>1. f = [i EXCEPT !.task[t].status = IF r = "ok" THEN "done" ELSE "failed"]
        BY <2>1, <2>2, <2>5 DEF WithTask, Items
      <3> QED
        BY <1>3, <3>1 DEF Finished
    <2>8. \E s \in {"queued", "running", "done", "failed", "cancelled"} : v = WithStatus(f, s) \/ v = f
      <3>1. CASE f.status # "cancelled" /\ TasksTerminal(f)
        BY <2>7, <3>1 DEF Recomputed, WithStatus
      <3>2. CASE ~(f.status # "cancelled" /\ TasksTerminal(f))
        BY <2>7, <3>2
      <3> QED
        BY <3>1, <3>2
    <2>9. /\ v \in Items
          /\ v.id = f.id /\ v.sha = f.sha /\ v.created = f.created
          /\ v.token = f.token /\ v.sent = f.sent /\ v.task = f.task
      BY <2>6, <2>8, StatusChange
    <2>10. /\ v.id = i.id /\ v.sha = i.sha /\ v.created = i.created /\ v.token = i.token
           /\ v.sent = i.sent /\ \A s \in Tasks : v.task[s] = IF s = t THEN x ELSE i.task[s]
      BY <2>6, <2>9
    <2>11. x.status = "failed" \/ (x.status = "done" /\ thread[t] = "made")
      BY <1>1, <2>1, <2>4
    <2> QED
      BY <2>4, <2>9, <2>10, <2>11, FinishingIsSound
  <1> QED
    BY <1>2, <1>3

LEMMA FinishTaskKeepsItems ==
  ASSUME QueueInv, NEW t \in Tasks, FinishTask(t)
  PROVE  ItemsStep
  <1>1. AtWork /\ job' = job /\ \A s \in Tasks : Held(s)' => Held(s)
    BY ThreadsAreInside
  <1>2. PICK r \in Results(t) :
           \/ items' = Change(items, job.id, LAMBDA i : Finished(i, t, r)) /\ faults' = faults
           \/ items' = items /\ faults' = faults + 1
    BY DEF FinishTask, Write
  <1>3. CASE items' = items /\ faults' = faults + 1
    BY <1>1, <1>3, NoWriteStep
  <1>4. CASE items' = Change(items, job.id, LAMBDA i : Finished(i, t, r)) /\ faults' = faults
    <2>1. PICK v : v = Finished(items[At(items, job.id)], t, r)
      OBVIOUS
    <2>2. items' = IF Has(items, job.id) THEN [items EXCEPT ![At(items, job.id)] = v] ELSE items
      BY <1>4, <2>1 DEF Change
    <2>3. ASSUME NEW i \in Items, i.id = job.id, ItemInv(i), i = items[At(items, job.id)]
          PROVE  v \in Items /\ Keeps(i, v) /\ ItemInv(v)'
      BY <1>2, <1>4, <2>1, <2>3, ResultIsSound
    <2> QED
      BY <1>1, <2>2, <2>3, WriteStep
  <1> QED
    BY <1>2, <1>3, <1>4

\* The worker lets go of its item: nothing of it runs any more.
LEMMA ClosingIsSound ==
  ASSUME QueueInv, Close, AtWork, NEW i \in Items, ItemInv(i), NEW v, v = Closed(i)
  PROVE  v \in Items /\ Keeps(i, v) /\ ItemInv(v)'
  <1> DEFINE task == [t \in Tasks |-> IF Is(i, t, "running")
                                      THEN [i.task[t] EXCEPT !.status = "failed"] ELSE i.task[t]]
             f == [i EXCEPT !.task = task]
  <1>1. \A t \in Tasks : thread[t] = "none" /\ thread'[t] = "none"
    BY DEF Close, QueueInv, WorkerInv
  <1>2. ASSUME NEW t \in Tasks
        PROVE  /\ task[t] \in TaskStates
               /\ task[t].wanted = i.task[t].wanted
               /\ task[t].starts = i.task[t].starts
               /\ task[t].attempts = i.task[t].attempts
               /\ \/ ~Is(i, t, "running") /\ task[t] = i.task[t]
                  \/ Is(i, t, "running") /\ task[t].status = "failed"
    <2>1. CASE Is(i, t, "running")
      <3>1. task[t] = [i.task[t] EXCEPT !.status = "failed"]
        BY <2>1
      <3>2. "failed" \in {"queued", "running", "done", "failed", "cancelled", "skipped"}
        OBVIOUS
      <3> HIDE DEF task
      <3>3. /\ task[t] \in TaskStates /\ task[t].status = "failed"
            /\ task[t].wanted = i.task[t].wanted
            /\ task[t].starts = i.task[t].starts
            /\ task[t].attempts = i.task[t].attempts
        BY <3>1, <3>2, TaskSetTo
      <3> QED
        BY <2>1, <3>3
    <2>2. CASE ~Is(i, t, "running")
      BY <2>2, ItemFields
    <2> QED
      BY <2>1, <2>2
  <1>3. task \in [Tasks -> TaskStates]
    BY <1>2
  <1>4. f \in Items
    <2> HIDE DEF TaskStates, task
    <2> QED
      BY <1>3 DEF Items
  <1>5. /\ f.id = i.id /\ f.sha = i.sha /\ f.status = i.status /\ f.created = i.created
        /\ f.token = i.token /\ f.sent = i.sent /\ f.task = task
    <2> HIDE DEF task
    <2> QED
      BY DEF Items
  <1>6. v = IF ~IsRunning(f) THEN f
            ELSE IF TasksTerminal(f) THEN Recomputed(f) ELSE [f EXCEPT !.status = "failed"]
    <2>1. f = [i EXCEPT !.task = [t \in Tasks |-> IF Is(i, t, "running")
                                                  THEN [i.task[t] EXCEPT !.status = "failed"]
                                                  ELSE i.task[t]]]
      OBVIOUS
    <2> HIDE DEF f
    <2> QED
      BY <2>1 DEF Closed
  <1> HIDE DEF f, task
  <1>7. \/ v = f /\ ~IsRunning(f)
        \/ IsRunning(f) /\ \E s \in {"done", "failed"} : v = WithStatus(f, s)
    BY <1>6 DEF Recomputed, WithStatus
  <1>8. /\ v \in Items /\ v.id = i.id /\ v.sha = i.sha /\ v.created = i.created
        /\ v.token = i.token /\ v.sent = i.sent /\ v.task = task /\ ~IsRunning(v)
        /\ ~IsRunning(i) => v.status = i.status
    <2>1. CASE v = f /\ ~IsRunning(f)
      BY <1>4, <1>5, <2>1
    <2>2. CASE IsRunning(f) /\ \E s \in {"done", "failed"} : v = WithStatus(f, s)
      <3>1. PICK s \in {"queued", "running", "done", "failed", "cancelled"} :
               v = WithStatus(f, s) /\ s # "running"
        BY <2>2
      <3>2. /\ v \in Items
            /\ v.id = f.id /\ v.sha = f.sha /\ v.status = s /\ v.created = f.created
            /\ v.token = f.token /\ v.sent = f.sent /\ v.task = f.task
        BY <1>4, <3>1, StatusChange
      <3> QED
        BY <1>5, <2>2, <3>1, <3>2 DEF IsRunning
    <2> QED
      BY <1>7, <2>1, <2>2
  <1>9. ASSUME NEW t \in Tasks
        PROVE  (Is(i, t, "done") => Is(v, t, "done")) /\ TaskInv(v, t)'
    <2>1. TaskInv(i, t) /\ v.task[t] = task[t]
      BY <1>8 DEF ItemInv
    <2>2. v.id # job'.id
      BY <1>8, IdsAreIds DEF Close
    <2>3. (v.task[t].starts <= v.task[t].attempts + faults + Unpaid(v, t))'
      <3>1. /\ i.task[t].starts \in Nat /\ i.task[t].attempts \in Nat
            /\ faults \in Nat /\ faults' = faults
        BY ItemFields DEF AtWork, Close, bounds
      <3>2. Unpaid(i, t) \in {0, 1} /\ Unpaid(v, t)' \in {0, 1}
        BY DEF Unpaid
      <3>3. Unpaid(i, t) = 1 => Unpaid(v, t)' = 1
        BY <1>1, <1>2, <2>1 DEF Unpaid, Is
      <3>4. i.task[t].starts <= i.task[t].attempts + faults + Unpaid(i, t)
        BY <2>1 DEF TaskInv
      <3>5. v.task[t].starts = i.task[t].starts /\ v.task[t].attempts = i.task[t].attempts
        BY <1>2, <2>1
      <3> QED
        BY <3>1, <3>2, <3>3, <3>4, <3>5
    <2>4. made' = made
      BY DEF Close
    <2>5. /\ Is(v, t, "done") <=> Is(i, t, "done")
          /\ v.task[t].wanted = i.task[t].wanted
          /\ ~i.task[t].wanted => v.task[t].status = i.task[t].status
      BY <1>2, <2>1 DEF Is
    <2> QED
      BY <1>8, <2>1, <2>2, <2>3, <2>4, <2>5 DEF TaskInv, Is
  <1>10. Keeps(i, v)
    BY <1>8, <1>9 DEF Keeps
  <1>11. i.sent => IsOver(v) /\ TasksTerminal(v)
    <2>1. i.sent => IsOver(i) /\ TasksTerminal(i)
      BY DEF ItemInv
    <2>2. IsOver(i) => ~IsRunning(i)
      BY DEF IsOver, IsRunning, Over
    <2> QED
      BY <1>2, <1>8, <2>1, <2>2 DEF IsOver, TasksTerminal, Is
  <1>12. v.id # job'.id
    BY <1>8, IdsAreIds DEF Close
  <1>13. clock' = clock /\ token' = token
    BY DEF Close
  <1> QED
    BY <1>8, <1>9, <1>10, <1>11, <1>12, <1>13 DEF ItemInv, IsRunning, IsOver, TasksTerminal, Is

LEMMA CloseKeepsItems ==
  ASSUME QueueInv, Close
  PROVE  ItemsStep
  <1>1. AtWork /\ job' \in {job, NoJob}
    BY DEF Close, AtWork, QueueInv, TypeOK, bounds
  <1>2. PICK v : v = Closed(items[At(items, job.id)])
    OBVIOUS
  <1>3. items' = IF Has(items, job.id) THEN [items EXCEPT ![At(items, job.id)] = v] ELSE items
    BY <1>2 DEF Close, Change
  <1>4. ASSUME NEW i \in Items, i.id = job.id, ItemInv(i), i = items[At(items, job.id)]
        PROVE  v \in Items /\ Keeps(i, v) /\ ItemInv(v)'
    BY <1>1, <1>2, <1>4, ClosingIsSound
  <1> QED
    BY <1>1, <1>3, <1>4, WriteStep

----------------------------------------------------------------------------
\* The invariant: every step keeps the items, and the worker its own state.
LEMMA NextKeepsItems ==
  ASSUME QueueInv, SameSecond = FALSE, [Next]_vars
  PROVE  ItemsStep
  <1>1. ASSUME NEW r \in Requests, Enqueue(r) PROVE ItemsStep
    BY <1>1, EnqueueKeepsItems
  <1>2. ASSUME NEW id \in ItemIds, CancelItem(id) PROVE ItemsStep
    BY <1>2, CancelKeepsItems
  <1>3. ASSUME NEW id \in ItemIds, RemoveItem(id) PROVE ItemsStep
    BY <1>3, RemoveKeepsItems
  <1>4. ASSUME NEW id \in ItemIds, NEW t \in Tasks, BackoffEnds(id, t) PROVE ItemsStep
    BY <1>4, BackoffKeepsItems
  <1>5. CASE Reorder
    BY <1>5, ReorderKeepsItems
  <1>6. CASE TakeNotifyBatch
    BY <1>6, NotifyKeepsItems
  <1>7. CASE Start
    BY <1>7, StartKeepsItems
  <1>8. CASE ClaimNext
    BY <1>8, ClaimKeepsItems
  <1>9. CASE SetupFails
    BY <1>9, SetupKeepsItems
  <1>10. ASSUME NEW t \in Tasks, Launch(t) PROVE ItemsStep
    BY <1>10, LaunchKeepsItems
  <1>11. CASE Join
    BY <1>11, JoinKeepsItems
  <1>12. CASE Mark
    BY <1>12, MarkKeepsItems
  <1>13. CASE Close
    BY <1>13, CloseKeepsItems
  <1>14. CASE Crash
    BY <1>14, CrashKeepsItems
  <1>15. ASSUME NEW t \in Tasks, Produce(t) PROVE ItemsStep
    BY <1>15, ProduceKeepsItems
  <1>16. ASSUME NEW t \in Tasks, FinishTask(t) PROVE ItemsStep
    BY <1>16, FinishTaskKeepsItems
  <1>17. CASE UNCHANGED vars
    <2>1. Quiet /\ items' = items
      BY <1>17 DEF Quiet, vars, QueueInv, TypeOK
    <2>2. \A i \in Items : ItemInv(i) => ItemInv(i)'
      BY <2>1, QuietItems
    <2> QED
      BY <2>1, <2>2, SameItemsStep
  <1> QED
    BY <1>1, <1>2, <1>3, <1>4, <1>5, <1>6, <1>7, <1>8, <1>9, <1>10, <1>11, <1>12, <1>13,
       <1>14, <1>15, <1>16, <1>17 DEF Next, WorkerStep, ThreadStep

Jobs == {NoJob} \cup [id : Nat \X Shas, sha : Shas, armed : SUBSET Tasks]
Threads == [Tasks -> {"none", "works", "made", "doomed"}]
WorkerType ==
    /\ made \subseteq Shas \X Tasks
    /\ clock \in Nat /\ token \in Nat
    /\ pc \in {"down", "idle", "translate", "summarize", "join", "mark", "close"}
    /\ job \in Jobs /\ thread \in Threads
    /\ asked \in 0 .. MaxRequests /\ withdrawn \in 0 .. MaxWithdrawals /\ faults \in 0 .. MaxFaults

LEMMA JobsHaveAnId ==
  ASSUME NEW j \in Jobs, j # NoJob
  PROVE  j.id \in Nat \X Shas /\ j.sha \in Shas
  BY DEF Jobs

WorkerState == WorkerType /\ WorkerInv

LEMMA BoundsAreNumbers == MaxRequests \in Nat /\ MaxWithdrawals \in Nat /\ MaxFaults \in Nat
  BY QueueConstants

LEMMA ClientsKeepTheWorker ==
  ASSUME WorkerState, UNCHANGED <<made, pc, token, job, thread, faults>>,
         clock' \in Nat, clock <= clock',
         asked' \in 0 .. MaxRequests, withdrawn' \in 0 .. MaxWithdrawals
  PROVE  WorkerState'
  <1>1. job # NoJob => job.id[1] \in Nat
    BY JobsHaveAnId DEF WorkerState, WorkerType
  <1>2. job # NoJob => job.id[1] <= clock'
    BY <1>1 DEF WorkerState, WorkerType, WorkerInv
  <1>3. WorkerInv'
    BY <1>2 DEF WorkerState, WorkerInv
  <1> QED
    BY <1>3 DEF WorkerState, WorkerType

LEMMA ClaimKeepsTheWorker ==
  ASSUME QueueInv, WorkerState, ClaimNext
  PROVE  WorkerState'
  <1>1. pc = "idle" /\ UNCHANGED <<made, clock, token, thread, asked, withdrawn, faults>>
    BY DEF ClaimNext, bounds
  <1>2. job = NoJob /\ \A t \in Tasks : thread[t] = "none"
    BY <1>1 DEF WorkerState, WorkerInv
  <1>3. CASE UNCHANGED <<pc, job>>
    BY <1>1, <1>3 DEF WorkerState, WorkerType, WorkerInv
  <1>4. ASSUME NEW k \in DOMAIN items, Claim(Recovered(items), k)
        PROVE  WorkerState'
    <2>1. PICK j : j = Recovered(items)[k]
      OBVIOUS
    <2>2. j = RecoveredItem(items[k])
      BY <2>1 DEF Recovered
    <2>3. j \in Items /\ ItemInv(j)
      BY <1>1, <2>2, ItemsOfTheQueue, RecoveringIsSound
    <2>4. /\ pc' = "translate"
          /\ job' = [id |-> j.id, sha |-> j.sha, armed |-> {t \in Tasks : Is(j, t, "queued")}]
      BY <1>4, <2>1 DEF Claim
    <2>5. j.id \in Nat \X Shas /\ j.sha \in Shas
      BY <2>3 DEF Items
    <2>6. job' \in Jobs
      BY <2>4, <2>5 DEF Jobs
    <2>7. /\ job'.id = j.id /\ job'.sha = j.sha
      BY <2>4
    <2>8. job' # NoJob
      BY <2>3, <2>7, IdsAreIds
    <2>9. j.id = <<j.created, j.sha>> /\ j.created <= clock
      BY <2>3 DEF ItemInv
    <2>10. job'.id[1] <= clock' /\ job'.id[2] = job'.sha
      BY <1>1, <2>7, <2>9
    <2>11. WorkerInv'
      BY <1>1, <1>2, <2>4, <2>8, <2>10 DEF WorkerInv
    <2> QED
      BY <1>1, <2>4, <2>6, <2>11 DEF WorkerState, WorkerType
  <1> QED
    <2>1. DOMAIN Recovered(items) = DOMAIN items
      BY DEF Recovered
    <2> QED
      BY <1>3, <1>4, <2>1 DEF ClaimNext

LEMMA ThreadsKeepTheWorker ==
  ASSUME QueueInv, WorkerState, NEW t \in Tasks, ThreadStep(t)
  PROVE  WorkerState'
  <1>1. CASE Produce(t)
    <2>1. /\ thread[t] = "works" /\ made' = made \cup {<<job.sha, t>>}
          /\ thread' = [thread EXCEPT ![t] = "made"]
          /\ UNCHANGED <<clock, pc, token, job, asked, withdrawn, faults>>
      BY <1>1 DEF Produce, bounds
    <2>2. thread' \in Threads /\ \A s \in Tasks : thread'[s] = IF s = t THEN "made" ELSE thread[s]
      BY <2>1 DEF WorkerState, WorkerType, Threads
    <2>3. pc \in {"summarize", "join"} /\ job # NoJob /\ (pc = "summarize" => t # "summarize")
      BY <2>1 DEF WorkerState, WorkerType, WorkerInv
    <2>4. made' \subseteq Shas \X Tasks
      BY <2>1, <2>3, JobsHaveAnId DEF WorkerState, WorkerType
    <2>5. WorkerInv'
      BY <2>1, <2>2, <2>3 DEF WorkerState, WorkerInv, Tasks
    <2> QED
      BY <2>1, <2>2, <2>4, <2>5 DEF WorkerState, WorkerType
  <1>2. CASE FinishTask(t)
    <2>1. /\ thread' = [thread EXCEPT ![t] = "none"]
          /\ UNCHANGED <<made, clock, pc, token, job, asked, withdrawn>>
          /\ faults' = faults \/ (faults < MaxFaults /\ faults' = faults + 1)
      BY <1>2 DEF FinishTask, Write
    <2>2. thread' \in Threads /\ \A s \in Tasks : thread'[s] = IF s = t THEN "none" ELSE thread[s]
      BY <2>1 DEF WorkerState, WorkerType, Threads
    <2>3. faults' \in 0 .. MaxFaults
      BY <2>1, BoundsAreNumbers DEF WorkerState, WorkerType
    <2>4. WorkerInv'
      BY <2>1, <2>2 DEF WorkerState, WorkerInv, Tasks
    <2> QED
      BY <2>1, <2>2, <2>3, <2>4 DEF WorkerState, WorkerType
  <1> QED
    BY <1>1, <1>2 DEF ThreadStep

LEMMA WorkerKeepsItsState ==
  ASSUME QueueInv, WorkerState, Start \/ WorkerStep \/ Crash
  PROVE  WorkerState'
  <1>1. CASE Start
    BY <1>1 DEF Start, WorkerState, WorkerType, WorkerInv, bounds
  <1>2. CASE ClaimNext
    BY <1>2, ClaimKeepsTheWorker
  <1>3. CASE SetupFails
    <2>1. /\ pc = "translate" /\ pc' \in {"join", "mark"} /\ (pc' = "mark" => thread' = thread)
          /\ UNCHANGED <<made, clock, token, job, asked, withdrawn, faults>>
      BY <1>3 DEF SetupFails, bounds
    <2>2. thread' \in Threads
          /\ \A s \in Tasks : thread'[s] = thread[s] \/ (pc' = "join" /\ thread'[s] \in {"doomed", "none"})
      BY <1>3 DEF SetupFails, WorkerState, WorkerType, Threads
    <2>3. WorkerInv'
      BY <2>1, <2>2 DEF WorkerState, WorkerInv, Tasks
    <2> QED
      BY <2>1, <2>2, <2>3 DEF WorkerState, WorkerType
  <1>4. ASSUME NEW t \in Tasks, Launch(t) PROVE WorkerState'
    <2>1. /\ pc = t /\ pc' = (IF t = "translate" THEN "summarize" ELSE "join")
          /\ thread' = thread \/ thread' = [thread EXCEPT ![t] = "works"]
          /\ UNCHANGED <<made, clock, token, job, asked, withdrawn>>
          /\ faults' = faults \/ (faults < MaxFaults /\ faults' = faults + 1)
      BY <1>4 DEF Launch, Write
    <2>2. /\ thread' \in Threads
          /\ \A s \in Tasks : thread'[s] = thread[s] \/ (s = t /\ thread'[s] = "works")
      BY <2>1 DEF WorkerState, WorkerType, Threads
    <2>3. faults' \in 0 .. MaxFaults
      BY <2>1, BoundsAreNumbers DEF WorkerState, WorkerType
    <2>4. WorkerInv'
      BY <2>1, <2>2 DEF WorkerState, WorkerInv, Tasks
    <2> QED
      BY <2>1, <2>2, <2>3, <2>4 DEF WorkerState, WorkerType, Tasks
  <1>5. CASE Join
    BY <1>5 DEF Join, WorkerState, WorkerType, WorkerInv, bounds
  <1>6. CASE Mark
    <2>1. /\ pc = "mark" /\ pc' = "close"
          /\ UNCHANGED <<made, clock, token, job, thread, asked, withdrawn>>
          /\ faults' = faults \/ (faults < MaxFaults /\ faults' = faults + 1)
      BY <1>6 DEF Mark, Write
    <2>2. faults' \in 0 .. MaxFaults
      BY <2>1, BoundsAreNumbers DEF WorkerState, WorkerType
    <2> QED
      BY <2>1, <2>2 DEF WorkerState, WorkerType, WorkerInv
  <1>7. CASE Close
    BY <1>7 DEF Close, WorkerState, WorkerType, WorkerInv, bounds, Jobs
  <1>8. CASE Crash
    <2>1. /\ pc' = "down" /\ job' = NoJob /\ thread' = [t \in Tasks |-> "none"]
          /\ UNCHANGED <<made, clock, token, asked, withdrawn>> /\ faults' = faults + 1
          /\ faults < MaxFaults
      BY <1>8 DEF Crash
    <2>2. thread' \in Threads /\ \A t \in Tasks : thread'[t] = "none"
      BY <2>1 DEF Threads
    <2>3. faults' \in 0 .. MaxFaults
      BY <2>1, BoundsAreNumbers DEF WorkerState, WorkerType
    <2>4. job' \in Jobs
      BY <2>1 DEF Jobs
    <2>5. WorkerInv'
      BY <2>1, <2>2 DEF WorkerInv
    <2> QED
      BY <2>1, <2>2, <2>3, <2>4, <2>5 DEF WorkerState, WorkerType
  <1> QED
    BY <1>1, <1>2, <1>3, <1>4, <1>5, <1>6, <1>7, <1>8 DEF WorkerStep

LEMMA NextKeepsTheWorker ==
  ASSUME QueueInv, WorkerState, [Next]_vars
  PROVE  WorkerState'
  <1>1. /\ clock \in Nat /\ asked \in 0 .. MaxRequests /\ withdrawn \in 0 .. MaxWithdrawals
        /\ clock <= clock /\ clock <= clock + 1 /\ clock + 1 \in Nat
    BY DEF WorkerState, WorkerType
  <1>2. ASSUME NEW r \in Requests, Enqueue(r) PROVE WorkerState'
    <2>1. /\ UNCHANGED <<made, pc, token, job, thread, withdrawn, faults>>
          /\ clock' \in {clock, clock + 1} /\ asked < MaxRequests /\ asked' = asked + 1
      BY <1>2 DEF Enqueue
    <2>2. asked' \in 0 .. MaxRequests
      BY <1>1, <2>1, BoundsAreNumbers
    <2> QED
      BY <1>1, <2>1, <2>2, ClientsKeepTheWorker
  <1>3. ASSUME NEW id, CancelItem(id) \/ RemoveItem(id) PROVE WorkerState'
    <2>1. /\ UNCHANGED <<made, clock, pc, token, job, thread, asked, faults>>
          /\ withdrawn < MaxWithdrawals /\ withdrawn' = withdrawn + 1
      BY <1>3 DEF CancelItem, RemoveItem, Withdraws
    <2>2. withdrawn' \in 0 .. MaxWithdrawals
      BY <1>1, <2>1, BoundsAreNumbers
    <2> QED
      BY <1>1, <2>1, <2>2, ClientsKeepTheWorker
  <1>4. ASSUME \/ \E id \in ItemIds : \E t \in Tasks : BackoffEnds(id, t)
               \/ Reorder \/ TakeNotifyBatch \/ UNCHANGED vars
        PROVE  WorkerState'
    <2>1. UNCHANGED <<made, clock, pc, token, job, thread, asked, withdrawn, faults>>
      BY <1>4 DEF BackoffEnds, Reorder, TakeNotifyBatch, vars, bounds
    <2> QED
      BY <1>1, <2>1, ClientsKeepTheWorker
  <1>5. CASE Start \/ WorkerStep \/ Crash
    BY <1>5, WorkerKeepsItsState
  <1>6. ASSUME NEW t \in Tasks, ThreadStep(t) PROVE WorkerState'
    BY <1>6, ThreadsKeepTheWorker
  <1> QED
    BY <1>2, <1>3, <1>4, <1>5, <1>6 DEF Next

LEMMA QueueInvParts ==
  QueueInv <=> /\ items \in Seq(Items) /\ Unique(items) /\ WorkerState
               /\ \A k \in DOMAIN items : ItemInv(items[k])
  BY DEF QueueInv, TypeOK, WorkerState, WorkerType, Jobs, Threads, OneOfEach, Unique

LEMMA QueueInvHoldsAtFirst == Init => QueueInv
  <1> SUFFICES ASSUME Init PROVE QueueInv
    OBVIOUS
  <1>1. items \in Seq(Items) /\ DOMAIN items = {}
    BY DEF Init
  <1>2. WorkerType
    BY BoundsAreNumbers DEF Init, WorkerType, Jobs, Threads
  <1>3. WorkerInv
    BY DEF Init, WorkerInv
  <1> QED
    BY <1>1, <1>2, <1>3, QueueInvParts DEF Unique, WorkerState

LEMMA QueueInvIsKept ==
  ASSUME QueueInv, SameSecond = FALSE, [Next]_vars
  PROVE  QueueInv'
  <1>1. ItemsStep
    BY NextKeepsItems
  <1>2. WorkerState'
    BY QueueInvParts, NextKeepsTheWorker
  <1>3. /\ items' \in Seq(Items) /\ Unique(items)'
        /\ (\A k \in DOMAIN items : ItemInv(items[k]))'
    BY <1>1 DEF ItemsStep, Unique
  <1> QED
    BY <1>2, <1>3 DEF QueueInv, TypeOK, WorkerState, WorkerType, Jobs, Threads, OneOfEach, Unique

\* The type of the state, what the worker holds, one item per id, and the
\* account of every item, while items created within one second are of different
\* articles (queue_clicks shows what two items with one id do).
THEOREM QueueInvariant ==
  ASSUME SameSecond = FALSE
  PROVE  Spec => []QueueInv
  <1>1. Init => QueueInv
    BY QueueInvHoldsAtFirst
  <1>2. QueueInv /\ [Next]_vars => QueueInv'
    BY QueueInvIsKept
  <1> QED
    BY <1>1, <1>2, PTL DEF Spec

\* An item that is running under the live worker's claim is the one the worker
\* runs, so the one-article gate never stays closed behind it.
THEOREM NothingRunsUnattended ==
  ASSUME SameSecond = FALSE
  PROVE  Spec => []RunningIsWorkedOn
  <1>1. QueueInv => RunningIsWorkedOn
    BY DEF QueueInv, ItemInv, RunningIsWorkedOn
  <1> QED
    BY <1>1, QueueInvariant, PTL

\* A task is started MAX_TASK_ATTEMPTS times at most, and once more for each
\* fault: each start is paid for by a failed attempt, by a fault, or is the last.
THEOREM EveryStartIsPaidFor ==
  ASSUME SameSecond = FALSE
  PROVE  Spec => []StartsAreCapped
  <1>1. QueueInv => StartsAreCapped
    <2> SUFFICES ASSUME QueueInv, NEW k \in DOMAIN items, NEW t \in Tasks
                 PROVE  items[k].task[t].starts <= MAX_TASK_ATTEMPTS + faults
      BY DEF StartsAreCapped
    <2>1. items[k] \in Items /\ ItemInv(items[k])
      BY ItemsOfTheQueue
    <2>2. items[k].task[t] \in TaskStates /\ items[k].task[t].starts \in Nat
      BY <2>1, ItemFields
    <2>3. items[k].task[t].attempts \in 0 .. MAX_TASK_ATTEMPTS - 1
      BY <2>2 DEF TaskStates
    <2>4. MAX_TASK_ATTEMPTS \in Nat /\ faults \in Nat
      BY QueueConstants DEF QueueInv, TypeOK
    <2>5. items[k].task[t].starts <= items[k].task[t].attempts + faults + Unpaid(items[k], t)
      BY <2>1 DEF ItemInv, TaskInv
    <2>6. Unpaid(items[k], t) \in {0, 1}
      BY DEF Unpaid
    <2> QED
      BY <2>2, <2>3, <2>4, <2>5, <2>6
  <1> QED
    BY <1>1, QueueInvariant, PTL

\* What is over is over: a client told so is told the truth for good, a task
\* shown as done has its artifact, and no step takes back a task that is done.
THEOREM WhatIsOverStaysOver ==
  ASSUME SameSecond = FALSE
  PROVE  Spec => FinalIsFinal
  <1> DEFINE Told == \A k \in DOMAIN items :
                        /\ items[k].sent => IsOver(items[k]) /\ TasksTerminal(items[k])
                        /\ \A t \in Tasks : Is(items[k], t, "done") => <<items[k].sha, t>> \in made
             Kept == \A id \in ItemIds : Has(items', id) =>
                        \A t \in Tasks : Is(items[At(items, id)], t, "done") =>
                                             Is(items'[At(items', id)], t, "done")
  <1>1. QueueInv => Told
    BY DEF QueueInv, ItemInv, TaskInv
  <1>2. QueueInv /\ [Next]_vars => Kept
    <2> SUFFICES ASSUME QueueInv, [Next]_vars, NEW id \in ItemIds, Has(items', id), NEW t \in Tasks,
                        Is(items[At(items, id)], t, "done")
                 PROVE  Is(items'[At(items', id)], t, "done")
      OBVIOUS
    <2>1. ItemsStep
      BY NextKeepsItems
    <2>2. At(items', id) \in DOMAIN items' /\ items'[At(items', id)].id = id
      BY <2>1, AtIsTheItem DEF ItemsStep
    <2>3. Has(items, id)
      BY DEF ItemIds, Has
    <2>4. /\ At(items, id) \in DOMAIN items /\ items[At(items, id)].id = id
          /\ \A k \in DOMAIN items : items[k].id = id <=> k = At(items, id)
      BY <2>3, ItemsOfTheQueue, AtIsTheItem
    <2>5. PICK k \in DOMAIN items : Keeps(items[k], items'[At(items', id)])
      BY <2>1, <2>2, <2>4 DEF ItemsStep, Follows
    <2>6. k = At(items, id)
      BY <2>2, <2>4, <2>5 DEF Keeps
    <2> QED
      BY <2>5, <2>6 DEF Keeps
  <1> HIDE DEF Told, Kept
  <1>3. Spec => []Told /\ [][Kept]_vars
    BY <1>1, <1>2, QueueInvariant, PTL DEF Spec
  <1> QED
    BY <1>3 DEF FinalIsFinal, Told, Kept

=============================================================================
