------------------------ MODULE CrystalStoreProofs ------------------------
(***************************************************************************)
(* Proofs about CrystalStore, for any claims, syntheses, revisions and     *)
(* bounds, with a command killed between any two of its writes: a          *)
(* retracted claim stays in the queue, its plan is saved, and a rollback   *)
(* takes back what its own run did and nothing else.                       *)
(***************************************************************************)
EXTENDS CrystalStore, FiniteSetTheorems, SequenceTheorems, TLAPS

----------------------------------------------------------------------------
(* Sets of positions, and sequences of sets.                               *)

LEMMA MaxIsGreatest ==
  ASSUME NEW S, NEW n \in Nat, S \subseteq 1..n, S # {}
  PROVE  Max(S) \in S /\ \A y \in S : y <= Max(S)
  <1> DEFINE Above(x) == {y \in S : y > x}
             Tails == {Above(x) : x \in S}
  <1>1. Tails \subseteq FiniteSubsetsOf(1..n)
    <2>1. \A x \in S : Above(x) \subseteq 1..n
      OBVIOUS
    <2>2. 0 \in Int /\ 1 \in Int /\ n \in Int
      OBVIOUS
    <2>3. IsFiniteSet(1..n)
      BY <2>2, FS_Interval
    <2>4. ASSUME NEW x \in S PROVE IsFiniteSet(Above(x))
      BY <2>1, <2>3, FS_Subset
    <2> QED
      BY <2>1, <2>4 DEF FiniteSubsetsOf
  <1>2. PICK U \in Tails : \A V \in Tails : <<V, U>> \notin StrictSubsetOrdering(1..n)
    <2>1. Tails # {}
      OBVIOUS
    <2> HIDE DEF Tails
    <2> QED
      BY <1>1, <2>1, WFMin, FS_StrictSubsetOrderingWellFounded
  <1>3. PICK x \in S : U = Above(x)
    OBVIOUS
  <1>4. ASSUME NEW y \in S, y > x PROVE FALSE
    <2>1. ASSUME NEW z \in S, z > y PROVE z > x
      <3>1. x \in Nat /\ y \in Nat /\ z \in Nat
        OBVIOUS
      <3> QED
        BY <1>4, <2>1, <3>1
    <2>5. ~(y > y)
      <3>1. y \in Nat
        OBVIOUS
      <3> QED
        BY <3>1
    <2>2. Above(x) \subseteq 1..n
      OBVIOUS
    <2>3. Above(y) \in Tails
      OBVIOUS
    <2> QED
      BY <1>2, <1>3, <1>4, <2>1, <2>2, <2>3, <2>5 DEF StrictSubsetOrdering
  <1>5. \A y \in S : x >= y
    BY <1>4
  <1>6. Max(S) \in S /\ \A y \in S : Max(S) >= y
    BY <1>5 DEF Max
  <1> QED
    BY <1>6

LEMMA MaxIsUnique ==
  ASSUME NEW S, NEW n \in Nat, S \subseteq 1..n, NEW m \in S, \A y \in S : y <= m
  PROVE  Max(S) = m
  <1>1. ASSUME NEW x \in S, \A y \in S : y <= x
        PROVE  x = m
    <2>1. x \in Nat /\ m \in Nat /\ x <= m /\ m <= x
      BY <1>1
    <2> QED
      BY <2>1
  <1> QED
    BY <1>1, MaxIsGreatest

LEMMA SetToSeqIsOf ==
  ASSUME NEW S, IsFiniteSet(S)
  PROVE  SetToSeq(S) \in Seq(S)
  <1>1. PICK f : f \in Bijection(1..Cardinality(S), S)
    BY FS_CardinalityType DEF ExistsBijection
  <1>2. f \in [1..Cardinality(S) -> S] /\ IsInjective(f)
    BY <1>1 DEF Bijection, Injection, IsInjective
  <1>3. SetToSeq(S) \in [1..Cardinality(S) -> S]
    BY <1>2 DEF SetToSeq
  <1> QED
    BY <1>3, FS_CardinalityType

----------------------------------------------------------------------------
(* What an append changes of the status and the last event of a claim.     *)

LEMMA TouchingIsBounded ==
  ASSUME NEW S, NEW s \in Seq(S), NEW c
  PROVE  Touching(s, c) \subseteq 1..Len(s) /\ OwnEvents(s, c) \subseteq 1..Len(s)
  BY DEF Touching, OwnEvents

\* Only a retraction of its own makes a claim retracted.
LEMMA ConcatRetracts ==
  ASSUME NEW S, NEW s \in Seq(S), NEW t \in Seq(S), NEW c \in Claims,
         Status(s \o t)[c] = "retracted",
         \A n \in DOMAIN t : ~(t[n].op = "retract" /\ t[n].key = c)
  PROVE  Status(s)[c] = "retracted"
  <1> DEFINE u == s \o t
             m == Max(Touching(u, c))
  <1>1. /\ u \in Seq(S) /\ Len(u) = Len(s) + Len(t)
        /\ \A i \in 1..Len(u) : u[i] = IF i <= Len(s) THEN s[i] ELSE t[i - Len(s)]
    BY ConcatProperties
  <1>2. Touching(u, c) # {} /\ Marks(u[m], c) = "retracted"
    <2>1. Status(u)[c] = IF Touching(u, c) = {} THEN "none" ELSE Marks(u[m], c)
      BY DEF Status
    <2> HIDE DEF m
    <2> QED
      BY <2>1
  <1>3. m \in Touching(u, c) /\ \A y \in Touching(u, c) : y <= m
    <2> HIDE DEF u
    <2>1. Touching(u, c) \subseteq 1..Len(u)
      BY <1>1, TouchingIsBounded
    <2>2. Len(u) \in Nat
      BY <1>1
    <2> QED
      BY <1>2, <2>1, <2>2, MaxIsGreatest
  <1>4. m \in 1..Len(u) /\ u[m].op = "retract" /\ u[m].key = c
    <2>1. u[m].op = "retract"
      BY <1>2 DEF Marks
    <2> QED
      BY <1>1, <1>3, <2>1, TouchingIsBounded DEF Touching
  <1> HIDE DEF u, m
  <1>5. m <= Len(s)
    <2>1. SUFFICES ASSUME ~(m <= Len(s)) PROVE FALSE
      OBVIOUS
    <2>2. m - Len(s) \in 1..Len(t) /\ u[m] = t[m - Len(s)]
      BY <1>1, <1>4, <2>1
    <2> QED
      BY <1>4, <2>2
  <1>6. m \in 1..Len(s) /\ u[m] = s[m]
    BY <1>1, <1>4, <1>5
  <1>7. m \in Touching(s, c)
    BY <1>4, <1>6 DEF Touching
  <1>8. ASSUME NEW y \in Touching(s, c) PROVE y <= m
    <2>1. y \in 1..Len(s) /\ y \in 1..Len(u) /\ u[y] = s[y]
      BY <1>1, TouchingIsBounded
    <2>2. \A i \in 1..y : i \in 1..Len(u) /\ u[i] = s[i]
      BY <1>1, <2>1
    <2>3. y \in Touching(u, c)
      BY <1>1, <2>1, <2>2 DEF Touching
    <2> QED
      BY <1>3, <2>3
  <1>9. Max(Touching(s, c)) = m
    BY <1>7, <1>8, TouchingIsBounded, MaxIsUnique
  <1> QED
    BY <1>2, <1>6, <1>7, <1>9 DEF Status

\* Events of other claims leave the last event of a claim alone.
LEMMA ConcatLast ==
  ASSUME NEW S, NEW s \in Seq(S), NEW t \in Seq(S), NEW c,
         \A n \in DOMAIN t : t[n].key # c
  PROVE  LastOf(s \o t, c) = LastOf(s, c)
  <1> DEFINE u == s \o t
  <1>1. /\ u \in Seq(S) /\ Len(u) = Len(s) + Len(t)
        /\ \A i \in 1..Len(u) : u[i] = IF i <= Len(s) THEN s[i] ELSE t[i - Len(s)]
    BY ConcatProperties
  <1> HIDE DEF u
  <1>2. ASSUME NEW i \in OwnEvents(u, c) PROVE i \in OwnEvents(s, c)
    <2>1. i \in 1..Len(u) /\ u[i].key = c
      BY <1>1, <1>2 DEF OwnEvents
    <2>2. CASE i <= Len(s)
      BY <1>1, <2>1, <2>2 DEF OwnEvents
    <2>3. CASE ~(i <= Len(s))
      <3>1. i - Len(s) \in 1..Len(t) /\ u[i] = t[i - Len(s)]
        BY <1>1, <2>1, <2>3
      <3> QED
        BY <2>1, <3>1
    <2> QED
      BY <2>2, <2>3
  <1>3. ASSUME NEW i \in OwnEvents(s, c) PROVE i \in OwnEvents(u, c)
    BY <1>1, <1>3 DEF OwnEvents
  <1>4. OwnEvents(u, c) = OwnEvents(s, c)
    BY <1>2, <1>3
  <1>5. CASE OwnEvents(s, c) = {}
    BY <1>4, <1>5 DEF LastOf, u
  <1>6. CASE OwnEvents(s, c) # {}
    <2>1. Max(OwnEvents(s, c)) \in 1..Len(s)
      BY <1>6, TouchingIsBounded, MaxIsGreatest
    <2>2. u[Max(OwnEvents(s, c))] = s[Max(OwnEvents(s, c))]
      BY <1>1, <2>1
    <2> QED
      BY <1>4, <1>6, <2>2 DEF LastOf, u
  <1> QED
    BY <1>5, <1>6

AllEvents == Events({"write", "supersede", "retract"})

LEMMA BatchIsOf ==
  ASSUME NEW K, K \subseteq Claims, NEW op, NEW by
  PROVE  /\ op \in {"write", "retract"} /\ by \in Nat => Batch(op, K, by) \in Seq(AllEvents)
         /\ \A n \in DOMAIN Batch(op, K, by) : LET e == Batch(op, K, by)[n] IN
               e.op = op /\ e.key \in K /\ e.by = by
  <1> DEFINE P == {Event(op, c, None, by) : c \in K}
  <1>1. IsFiniteSet(P)
    <2>1. IsFiniteSet(K)
      BY CrystalConstants, FS_Subset
    <2> DEFINE f == [c \in K |-> Event(op, c, None, by)]
    <2>2. f \in Surjection(K, P)
      BY DEF Surjection
    <2> QED
      BY <2>1, <2>2, FS_Surjection
  <1>2. Batch(op, K, by) \in Seq(P)
    BY <1>1, SetToSeqIsOf DEF Batch
  <1>3. \A e \in P : e.op = op /\ e.key \in K /\ e.by = by
    BY DEF Event
  <1>4. op \in {"write", "retract"} /\ by \in Nat => P \subseteq AllEvents
    BY DEF Event, AllEvents, Events
  <1> HIDE DEF P
  <1>5. \A n \in DOMAIN Batch(op, K, by) : Batch(op, K, by)[n] \in P
    BY <1>2
  <1>6. P \subseteq AllEvents => Batch(op, K, by) \in Seq(AllEvents)
    BY <1>2
  <1> QED
    BY <1>3, <1>4, <1>5, <1>6

\* A retracted claim has a retraction of its own.
LEMMA RetractedHasEvent ==
  ASSUME NEW S, NEW s \in Seq(S), NEW c \in Claims, Status(s)[c] = "retracted"
  PROVE  \E n \in DOMAIN s : s[n].op = "retract" /\ s[n].key = c
  <1>1. Touching(<<>>, c) = {}
    BY DEF Touching
  <1>2. Status(<<>>)[c] = "none"
    BY <1>1 DEF Status
  <1>3. <<>> \in Seq(S) /\ <<>> \o s = s
    BY ConcatEmptySeq
  <1> QED
    BY <1>2, <1>3, ConcatRetracts

----------------------------------------------------------------------------
(* The start of the commands.                                              *)

LEMMA InitEstablishesUndoInv == Init => UndoInv
  <1> SUFFICES ASSUME Init PROVE UndoInv
    OBVIOUS
  <1>1. ledger \in Seq(AllEvents) /\ \A n \in DOMAIN ledger : ledger[n].op = "write"
    BY BatchIsOf, CrystalConstants DEF Init
  <1>2. TypeOK
    BY <1>1 DEF Init, TypeOK, AllEvents, EmptyQueue, ClaimIds
  <1>3. \A c \in Claims : Status(ledger)[c] # "retracted"
    BY <1>1, RetractedHasEvent
  <1>4. PlansAreNamed /\ RetractionsAreNamed /\ StillHolds
    BY <1>1 DEF Init, PlansAreNamed, RetractionsAreNamed, StillHolds, Idle
  <1>5. KeyedEntriesAreTheirClaims /\ RetractedIsAccounted
    BY <1>3 DEF Init, KeyedEntriesAreTheirClaims, RetractedIsAccounted, EmptyQueue, ClaimIds
  <1> QED
    BY <1>2, <1>4, <1>5 DEF UndoInv

\* A step that leaves the store alone may only set a command that is well made.
LEMMA CommandKeepsUndoInv ==
  ASSUME UndoInv, UNCHANGED <<ledger, queue, plans, left>>,
         \/ command' = Idle
         \/ command' \in WriteCommands /\ DOMAIN command'.routes = DOMAIN command'.batch
         \/ command' \in PlanCommands
         \/ command' \in UndoCommands,
         StillHolds'
  PROVE  UndoInv'
  <1>1. TypeOK'
    BY DEF UndoInv, TypeOK, PlanCommands, UndoCommands, WriteCommands
  <1>2. PlansAreNamed'
    BY DEF UndoInv, PlansAreNamed, SamePlans
  <1>3. RetractionsAreNamed' /\ KeyedEntriesAreTheirClaims' /\ RetractedIsAccounted'
    BY DEF UndoInv, RetractionsAreNamed, KeyedEntriesAreTheirClaims, RetractedIsAccounted
  <1> QED
    BY <1>1, <1>2, <1>3 DEF UndoInv

LEMMA WriteIsMade ==
  ASSUME NEW batch \in Seq([id : Ids, claim : Claims]), NEW routes \in Routes(batch),
         NEW processed \in SUBSET ClaimIds, NEW over \in Claims \cup {None}
  PROVE  /\ Write(batch, routes, processed, <<>>, over) \in WriteCommands
         /\ DOMAIN routes = DOMAIN batch
  <1>1. routes \in [DOMAIN batch -> {"durable", "insight", "review"}] /\ DOMAIN batch \in SUBSET Nat
    BY DEF Routes
  <1>2. <<>> \in [{} -> {"demote", "defer"}] /\ {} \in SUBSET ClaimIds
    OBVIOUS
  <1>3. <<>> \in UNION {[I -> {"demote", "defer"}] : I \in SUBSET ClaimIds}
    BY <1>2
  <1>4. routes \in UNION {[D -> {"durable", "insight", "review"}] : D \in SUBSET Nat}
    BY <1>1
  <1>5. <<>> \in Seq(Events({"write", "supersede"})) /\ 1 \in Nat
    OBVIOUS
  <1> QED
    BY <1>1, <1>3, <1>4, <1>5 DEF Write, WriteCommands

LEMMA PlanIs ==
  ASSUME TypeOK, NEW i \in DOMAIN plans
  PROVE  /\ plans[i].keys \subseteq Claims /\ plans[i].who \in {"regate", "citations"}
         /\ plans[i].id[3] \in Nat
  <1> DEFINE Plans == [id : {"regate", "citations"} \X (SUBSET Claims) \X Nat,
                       who : {"regate", "citations"}, keys : SUBSET Claims]
  <1>1. \A p \in Plans : p.keys \subseteq Claims /\ p.who \in {"regate", "citations"} /\ p.id[3] \in Nat
    OBVIOUS
  <1>2. plans \in Seq(Plans)
    BY DEF TypeOK
  <1> HIDE DEF Plans
  <1>3. plans[i] \in Plans
    BY <1>2
  <1> QED
    BY <1>1, <1>3

LEMMA SynthesizeKeepsUndoInv == UndoInv /\ Synthesize => UndoInv'
  <1> SUFFICES ASSUME UndoInv, Synthesize PROVE UndoInv'
    OBVIOUS
  <1>0. PICK batch \in Candidates : \E routes \in Routes(batch) :
           command' = Write(batch, routes, {}, <<>>, None)
    BY DEF Synthesize, Begin
  <1>1. PICK routes \in Routes(batch) : command' = Write(batch, routes, {}, <<>>, None)
    BY <1>0
  <1>2. batch \in Seq([id : Ids, claim : Claims])
    BY CrystalConstants
  <1>3. command' \in WriteCommands /\ DOMAIN command'.routes = DOMAIN command'.batch
    BY <1>1, <1>2, WriteIsMade DEF Write
  <1>4. StillHolds'
    <2>1. command'.step = "append" /\ DOMAIN command'.edits = {}
      BY <1>1 DEF Write
    <2> QED
      BY <2>1 DEF StillHolds
  <1> QED
    BY <1>3, <1>4, CommandKeepsUndoInv DEF Synthesize

LEMMA DecideKeepsUndoInv == UndoInv /\ Decide => UndoInv'
  <1> SUFFICES ASSUME UndoInv, Decide PROVE UndoInv'
    OBVIOUS
  <1> USE DEF Begin
  <1>1. UNCHANGED <<ledger, queue, plans, left>> /\ queue # Torn
    BY DEF Decide
  <1>2. PICK id \in ClaimIds :
          /\ queue[id] # None
          /\ \/ command' = [Write(<<>>, <<>>, {id}, <<>>, None) EXCEPT !.step = "review"]
             \/ \E how \in {"demote", "defer"} :
                   command' = [Write(<<>>, <<>>, {}, [i \in {id} |-> how], None) EXCEPT !.step = "review"]
             \/ \E r \in Revisions : \E routes \in Routes(<<r>>) : \E over \in Claims \cup {None} :
                   command' = Write(<<r>>, routes, {id}, <<>>, over)
    BY DEF Decide
  <1>3. CASE command' = [Write(<<>>, <<>>, {id}, <<>>, None) EXCEPT !.step = "review"]
    <2>1. /\ <<>> \in Seq([id : Ids, claim : Claims]) /\ <<>> \in Routes(<<>>)
          /\ {id} \in SUBSET ClaimIds /\ None \in Claims \cup {None}
      BY DEF Routes
    <2>2. Write(<<>>, <<>>, {id}, <<>>, None) \in WriteCommands
      BY <2>1, WriteIsMade
    <2>3. command' \in WriteCommands /\ DOMAIN command'.routes = DOMAIN command'.batch
      BY <1>3, <2>2 DEF WriteCommands, Write
    <2>4. command'.step = "review" /\ DOMAIN command'.edits = {}
      BY <1>3 DEF Write
    <2>5. StillHolds'
      BY <2>4 DEF StillHolds
    <2> QED
      BY <1>1, <2>3, <2>5, CommandKeepsUndoInv
  <1>4. ASSUME NEW how \in {"demote", "defer"},
               command' = [Write(<<>>, <<>>, {}, [i \in {id} |-> how], None) EXCEPT !.step = "review"]
        PROVE  UndoInv'
    <2>1. [i \in {id} |-> how] \in UNION {[I -> {"demote", "defer"}] : I \in SUBSET ClaimIds}
      <3>1. [i \in {id} |-> how] \in [{id} -> {"demote", "defer"}] /\ {id} \in SUBSET ClaimIds
        OBVIOUS
      <3> QED
        BY <3>1
    <2>2. /\ <<>> \in Seq([id : Ids, claim : Claims]) /\ <<>> \in Seq(Events({"write", "supersede"}))
          /\ <<>> \in UNION {[D -> {"durable", "insight", "review"}] : D \in SUBSET Nat}
      <3>1. <<>> \in [{} -> {"durable", "insight", "review"}] /\ {} \in SUBSET Nat
        OBVIOUS
      <3> QED
        BY <3>1
    <2>3. command' \in WriteCommands /\ DOMAIN command'.routes = DOMAIN command'.batch
      BY <1>4, <2>1, <2>2 DEF WriteCommands, Write
    <2>4. /\ command'.step = "review" /\ DOMAIN command'.edits = {id}
          /\ command'.processed = {}
      BY <1>4 DEF Write
    <2>5. StillHolds'
      BY <1>1, <1>2, <2>4 DEF StillHolds
    <2> QED
      BY <1>1, <2>3, <2>5, CommandKeepsUndoInv
  <1>5. ASSUME NEW r \in Revisions, NEW routes \in Routes(<<r>>), NEW over \in Claims \cup {None},
               command' = Write(<<r>>, routes, {id}, <<>>, over)
        PROVE  UndoInv'
    <2>1. <<r>> \in Seq([id : Ids, claim : Claims]) /\ {id} \in SUBSET ClaimIds
      BY CrystalConstants
    <2>2. command' \in WriteCommands /\ DOMAIN command'.routes = DOMAIN command'.batch
      BY <1>5, <2>1, WriteIsMade DEF Write
    <2>3. command'.step = "append" /\ DOMAIN command'.edits = {}
      BY <1>5 DEF Write
    <2>4. StillHolds'
      BY <2>3 DEF StillHolds
    <2> QED
      BY <1>1, <2>2, <2>4, CommandKeepsUndoInv
  <1> QED
    BY <1>2, <1>3, <1>4, <1>5

LEMMA RollbackKeepsUndoInv ==
  ASSUME UndoInv, NEW i \in DOMAIN plans, RollbackRegate(i) \/ RollbackCitations(i)
  PROVE  UndoInv'
  <1> USE DEF Begin
  <1>1. plans[i].keys \subseteq Claims /\ plans[i].who \in {"regate", "citations"}
    BY PlanIs DEF UndoInv
  <1>2. UNCHANGED <<ledger, queue, plans, left>>
    BY DEF RollbackRegate, RollbackCitations
  <1>3. CASE RollbackRegate(i)
    <2>1. command' = [step |-> "unqueue", run |-> i, keys |-> Retracted(i), queued |-> Retracted(i)]
      BY <1>3 DEF RollbackRegate
    <2>2. Retracted(i) \subseteq Claims
      BY <1>1 DEF Retracted, LastRetracted
    <2>3. command' \in UndoCommands
      BY <2>1, <2>2 DEF UndoCommands
    <2>4. Retracted(i)' = Retracted(i) /\ plans'[i].who = "regate"
      BY <1>2, <1>3 DEF Retracted, LastRetracted, RollbackRegate
    <2>5. StillHolds'
      BY <2>1, <2>4 DEF StillHolds
    <2> QED
      BY <1>2, <2>3, <2>5, CommandKeepsUndoInv
  <1>4. CASE RollbackCitations(i)
    <2>1. command' = [step |-> "rewrite", run |-> i, keys |-> Untouched(i) \cap Retracted(i),
                      queued |-> ToUnqueue(i)]
      BY <1>4 DEF RollbackCitations
    <2>2. Untouched(i) \subseteq Claims /\ ToUnqueue(i) \subseteq Claims
      BY <1>1 DEF Untouched, ToUnqueue
    <2>3. command' \in UndoCommands
      BY <2>1, <2>2 DEF UndoCommands
    <2>4. Retracted(i)' = Retracted(i) /\ Untouched(i)' = Untouched(i) /\ ToUnqueue(i)' = ToUnqueue(i)
      BY <1>2 DEF Retracted, LastRetracted, Untouched, ToUnqueue, Rewritten, Queued
    <2>5. queue' # Torn
      BY <1>2, <1>4 DEF RollbackCitations
    <2>6. StillHolds'
      BY <2>1, <2>4, <2>5 DEF StillHolds
    <2> QED
      BY <1>2, <2>3, <2>6, CommandKeepsUndoInv
  <1> QED
    BY <1>3, <1>4

----------------------------------------------------------------------------
(* A new plan has an id of its own.                                        *)

LEMMA SamePlansAreFinite ==
  ASSUME TypeOK, NEW who, NEW keys
  PROVE  IsFiniteSet(SamePlans(who, keys)) /\ Cardinality(SamePlans(who, keys)) \in Nat
  <1>1. Len(plans) \in Nat /\ DOMAIN plans = 1..Len(plans)
    BY DEF TypeOK
  <1>2. IsFiniteSet(1..Len(plans))
    <2>1. 1 \in Int /\ Len(plans) \in Int
      BY <1>1
    <2> QED
      BY <2>1, FS_Interval
  <1>3. SamePlans(who, keys) \subseteq 1..Len(plans)
    BY <1>1 DEF SamePlans
  <1>4. IsFiniteSet(SamePlans(who, keys))
    BY <1>2, <1>3, FS_Subset
  <1> QED
    BY <1>4, FS_CardinalityType

LEMMA PlanIsOfClaims == ASSUME NEW who PROVE Plan(who) \subseteq Claims
  BY DEF Plan, Active

LEMMA NamedIsPlan ==
  ASSUME TypeOK, NEW who \in {"regate", "citations"}, NEW keys \in SUBSET Claims
  PROVE  Named(who, keys) \in [id : {"regate", "citations"} \X (SUBSET Claims) \X Nat,
                               who : {"regate", "citations"}, keys : SUBSET Claims]
  <1>1. Cardinality(SamePlans(who, keys)) + 1 \in Nat
    BY SamePlansAreFinite
  <1>2. <<who, keys, Cardinality(SamePlans(who, keys)) + 1>>
            \in {"regate", "citations"} \X (SUBSET Claims) \X Nat
    BY <1>1
  <1> QED
    BY <1>2 DEF Named

LEMMA PlansGrow ==
  ASSUME TypeOK, NEW who \in {"regate", "citations"}, NEW keys \in SUBSET Claims,
         plans' = Append(plans, Named(who, keys))
  PROVE  /\ Len(plans) \in Nat /\ DOMAIN plans = 1..Len(plans)
         /\ DOMAIN plans' = 1..(Len(plans) + 1) /\ plans'[Len(plans) + 1] = Named(who, keys)
         /\ \A i \in DOMAIN plans : plans'[i] = plans[i]
         /\ plans' \in Seq([id : {"regate", "citations"} \X (SUBSET Claims) \X Nat,
                           who : {"regate", "citations"}, keys : SUBSET Claims])
  <1> DEFINE P == [id : {"regate", "citations"} \X (SUBSET Claims) \X Nat,
                   who : {"regate", "citations"}, keys : SUBSET Claims]
             p == Named(who, keys)
  <1>1. plans \in Seq(P) /\ p \in P
    BY NamedIsPlan DEF TypeOK
  <1>2. plans' = Append(plans, p)
    OBVIOUS
  <1> HIDE DEF P, p
  <1>3. Append(plans, p) \in Seq(P) /\ Len(Append(plans, p)) = Len(plans) + 1
    BY <1>1, AppendProperties
  <1>4. \A i \in 1..Len(plans) : Append(plans, p)[i] = plans[i]
    BY <1>1, AppendProperties
  <1>5. Append(plans, p)[Len(plans) + 1] = p
    BY <1>1, AppendProperties
  <1>6. /\ Len(plans) \in Nat /\ DOMAIN plans = 1..Len(plans)
        /\ DOMAIN plans' = 1..(Len(plans) + 1) /\ plans'[Len(plans) + 1] = p
        /\ \A i \in DOMAIN plans : plans'[i] = plans[i]
    BY <1>1, <1>2, <1>3, <1>4, <1>5
  <1>7. plans' \in Seq(P)
    BY <1>2, <1>3
  <1> QED
    BY <1>6, <1>7 DEF P, p

LEMMA SavePlanKeepsPlans ==
  ASSUME UndoInv, NEW who \in {"regate", "citations"}, NEW keys \in SUBSET Claims,
         plans' = Append(plans, Named(who, keys))
  PROVE  PlansAreNamed'
  <1> DEFINE n == Len(plans) + 1
             p == Named(who, keys)
             same == SamePlans(who, keys)
             After(w, K) == {i \in DOMAIN plans' : plans'[i].who = w /\ plans'[i].keys = K}
  <1>1. /\ Len(plans) \in Nat /\ DOMAIN plans = 1..Len(plans)
        /\ DOMAIN plans' = 1..n /\ plans'[n] = p
        /\ \A i \in DOMAIN plans : plans'[i] = plans[i]
    BY PlansGrow DEF UndoInv
  <1>2. p.id = <<who, keys, Cardinality(same) + 1>> /\ p.who = who /\ p.keys = keys
    BY DEF Named
  <1> HIDE DEF p
  <1>3. n \notin DOMAIN plans /\ DOMAIN plans' = DOMAIN plans \cup {n}
    BY <1>1
  <1>4. ASSUME NEW w, NEW K PROVE SamePlans(w, K) \subseteq After(w, K)
    BY <1>1, <1>3 DEF SamePlans
  <1>5. After(who, keys) = same \cup {n} /\ n \notin same
    BY <1>1, <1>2, <1>3 DEF SamePlans
  <1>6. TypeOK
    BY DEF UndoInv
  <1>7. IsFiniteSet(same) /\ Cardinality(same) \in Nat
    BY <1>6, SamePlansAreFinite
  <1>8. Cardinality(After(who, keys)) = Cardinality(same) + 1
    <2> HIDE DEF same, After
    <2> QED
      BY <1>5, <1>7, FS_AddElement
  <1>9. ASSUME NEW w, NEW K
        PROVE  /\ Cardinality(SamePlans(w, K)) <= Cardinality(After(w, K))
               /\ Cardinality(After(w, K)) \in Nat
    <2>1. 1 \in Int /\ n \in Int /\ After(w, K) \subseteq 1..n
      BY <1>1
    <2>2. IsFiniteSet(1..n)
      BY <2>1, FS_Interval
    <2>3. IsFiniteSet(After(w, K))
      BY <2>1, <2>2, FS_Subset
    <2> HIDE DEF After
    <2> QED
      BY <1>4, <2>3, FS_Subset, FS_CardinalityType
  <1>10. ASSUME NEW i \in DOMAIN plans
         PROVE  /\ plans[i].id[1] = plans[i].who /\ plans[i].id[2] = plans[i].keys
                /\ plans[i].id[3] \in Nat
                /\ plans[i].id[3] <= Cardinality(SamePlans(plans[i].who, plans[i].keys))
                /\ Cardinality(SamePlans(plans[i].who, plans[i].keys)) \in Nat
                /\ plans[i].id # p.id
    <2>1. /\ plans[i].id[1] = plans[i].who /\ plans[i].id[2] = plans[i].keys
          /\ plans[i].id[3] <= Cardinality(SamePlans(plans[i].who, plans[i].keys))
      BY DEF UndoInv, PlansAreNamed
    <2>2. plans[i].id[3] \in Nat /\ Cardinality(SamePlans(plans[i].who, plans[i].keys)) \in Nat
      BY <1>6, PlanIs, SamePlansAreFinite
    <2>3. ASSUME plans[i].id = p.id PROVE FALSE
      <3>1. /\ plans[i].who = who /\ plans[i].keys = keys
            /\ plans[i].id[3] = Cardinality(same) + 1
        BY <1>2, <2>1, <2>3
      <3>2. Cardinality(same) + 1 <= Cardinality(same)
        BY <2>1, <3>1
      <3> QED
        BY <1>7, <3>2
    <2> QED
      BY <2>1, <2>2, <2>3
  <1>11. ASSUME NEW i \in DOMAIN plans'
         PROVE  /\ plans'[i].id[1] = plans'[i].who /\ plans'[i].id[2] = plans'[i].keys
                /\ plans'[i].id[3] <= Cardinality(After(plans'[i].who, plans'[i].keys))
                /\ \A j \in DOMAIN plans' : plans'[j].id = plans'[i].id => j = i
    <2>1. CASE i = n
      <3>1. plans'[i] = p
        BY <1>1, <2>1
      <3>2. p.id[3] <= Cardinality(After(who, keys))
        <4>1. p.id[3] = Cardinality(same) + 1
          BY <1>2
        <4> HIDE DEF same, After
        <4> QED
          BY <1>7, <1>8, <4>1
      <3>3. \A j \in DOMAIN plans' : plans'[j].id = p.id => j = n
        BY <1>1, <1>3, <1>10
      <3>4. p.id[1] = p.who /\ p.id[2] = p.keys /\ p.who = who /\ p.keys = keys
        BY <1>2
      <3> HIDE DEF After
      <3> QED
        BY <2>1, <3>1, <3>2, <3>3, <3>4
    <2>2. CASE i \in DOMAIN plans
      <3>1. plans'[i] = plans[i]
        BY <1>1, <2>2
      <3> DEFINE before == Cardinality(SamePlans(plans[i].who, plans[i].keys))
                 after  == Cardinality(After(plans[i].who, plans[i].keys))
      <3>2. plans[i].id[3] \in Nat /\ plans[i].id[3] <= before /\ before \in Nat
        BY <1>10, <2>2
      <3>3. before <= after /\ after \in Nat
        <4> HIDE DEF After
        <4> QED
          BY <1>9
      <3>4. plans[i].id[3] <= after
        <4> HIDE DEF before, after
        <4> QED
          BY <3>2, <3>3
      <3>5. \A j \in DOMAIN plans' : plans'[j].id = plans[i].id => j = i
        <4>1. \A j \in DOMAIN plans : plans[j].id = plans[i].id => j = i
          BY <2>2 DEF UndoInv, PlansAreNamed
        <4>2. plans'[n].id # plans[i].id
          BY <1>1, <1>10, <2>2
        <4> QED
          BY <1>1, <1>3, <4>1, <4>2
      <3> QED
        BY ZenonT(60), <1>10, <2>2, <3>1, <3>4, <3>5
    <2> QED
      BY <1>3, <2>1, <2>2
  <1> QED
    BY <1>11 DEF PlansAreNamed, SamePlans

LEMMA SavePlanKeepsUndoInv ==
  ASSUME UndoInv, NEW who \in {"regate", "citations"}, SavePlan(who)
  PROVE  UndoInv'
  <1>1. /\ plans' = Append(plans, Named(who, Plan(who)))
        /\ command' = [step |-> "queue", run |-> Len(plans) + 1]
        /\ UNCHANGED <<ledger, queue, left>>
    BY DEF SavePlan, Begin
  <1>2. Plan(who) \in SUBSET Claims /\ TypeOK
    BY PlanIsOfClaims DEF UndoInv
  <1>3. /\ Len(plans) \in Nat /\ DOMAIN plans = 1..Len(plans)
        /\ DOMAIN plans' = 1..(Len(plans) + 1)
        /\ \A i \in DOMAIN plans : plans'[i] = plans[i]
    BY <1>1, <1>2, PlansGrow
  <1>4. PlansAreNamed'
    BY <1>1, <1>2, SavePlanKeepsPlans
  <1>5. RetractionsAreNamed'
    <2>1. \A b \in DOMAIN plans : b \in DOMAIN plans' /\ plans'[b] = plans[b]
      BY <1>3
    <2> QED
      BY <1>1, <2>1 DEF UndoInv, RetractionsAreNamed
  <1>6. TypeOK'
    <2>1. Len(plans) + 1 \in DOMAIN plans'
      BY <1>3
    <2>2. command' \in PlanCommands'
      BY <1>1, <2>1 DEF PlanCommands
    <2>3. plans' \in Seq([id : {"regate", "citations"} \X (SUBSET Claims) \X Nat,
                          who : {"regate", "citations"}, keys : SUBSET Claims])
      BY <1>1, <1>2, PlansGrow
    <2> QED
      BY <1>1, <1>2, <2>2, <2>3 DEF TypeOK
  <1>7. KeyedEntriesAreTheirClaims' /\ RetractedIsAccounted'
    BY <1>1 DEF UndoInv, KeyedEntriesAreTheirClaims, RetractedIsAccounted
  <1>8. StillHolds'
    <2>1. command'.step = "queue"
      BY <1>1
    <2> QED
      BY <2>1 DEF StillHolds
  <1> QED
    BY <1>4, <1>5, <1>6, <1>7, <1>8 DEF UndoInv

----------------------------------------------------------------------------
(* The writes.                                                             *)

LEMMA CommandIs ==
  ASSUME TypeOK
  PROVE  /\ command.step \in {"append", "review"} =>
              command \in WriteCommands /\ DOMAIN command.routes = DOMAIN command.batch
         /\ command.step \in {"queue", "retract"} =>
              command \in PlanCommands /\ command.run \in DOMAIN plans
         /\ command.step \in {"unqueue", "rewrite"} =>
              /\ command \in UndoCommands /\ command.run \in DOMAIN plans
              /\ command.keys \subseteq Claims /\ command.queued \subseteq Claims
  BY DEF TypeOK, WriteCommands, PlanCommands, UndoCommands, Idle

LEMMA PlansStay == PlansAreNamed /\ UNCHANGED plans => PlansAreNamed'
  BY SMTT(30) DEF PlansAreNamed, SamePlans

LEMMA TypeFollows ==
  ASSUME TypeOK, plans' = plans, ledger' \in Seq(AllEvents),
         queue' = Torn \/ queue' \in [ClaimIds -> Entries \cup {None}],
         left' \in [Claims -> {"no", "collapsed", "decided", "unqueued"}],
         \/ command' = Idle
         \/ command' \in WriteCommands /\ DOMAIN command'.routes = DOMAIN command'.batch
         \/ command' \in PlanCommands
         \/ command' \in UndoCommands
  PROVE  TypeOK'
  <1>1. WriteCommands' = WriteCommands
    BY DEF WriteCommands
  <1>2. PlanCommands' = PlanCommands /\ UndoCommands' = UndoCommands
    BY DEF PlanCommands, UndoCommands
  <1>3. plans' \in Seq([id : {"regate", "citations"} \X (SUBSET Claims) \X Nat,
                        who : {"regate", "citations"}, keys : SUBSET Claims])
    BY DEF TypeOK
  <1>4. ledger' \in Seq(Events({"write", "supersede", "retract"}))
    BY DEF AllEvents
  <1> QED
    BY <1>1, <1>2, <1>3, <1>4 DEF TypeOK, Idle

LEMMA DecideClaimKeepsUndoInv == UndoInv /\ DecideClaim => UndoInv'
  <1> SUFFICES ASSUME UndoInv, DecideClaim PROVE UndoInv'
    OBVIOUS
  <1> DEFINE n == command.next
             W == Events({"write", "supersede"})
             c == command.batch[n].claim
             made == IF command.routes[n] = "durable" /\ c \notin AppendedKeys
                     THEN EventsFor(ledger \o command.events, c, command.over)
                     ELSE <<>>
  <1>1. /\ command.step = "append" /\ n \in DOMAIN command.batch
        /\ command' = [command EXCEPT !.next = n + 1, !.events = command.events \o made]
        /\ UNCHANGED <<ledger, queue, plans, left>>
    BY DEF DecideClaim
  <1>2. /\ command \in WriteCommands /\ DOMAIN command.routes = DOMAIN command.batch
        /\ DOMAIN command.edits = {}
    BY <1>1, CommandIs DEF UndoInv, StillHolds
  <1>3. n \in Nat /\ command.events \in Seq(W) /\ command.over \in Claims \cup {None}
        /\ command.batch \in Seq([id : Ids, claim : Claims])
    BY <1>2 DEF WriteCommands
  <1>4. c \in Claims
    <2> DEFINE R == [id : Ids, claim : Claims]
    <2>1. command.batch[n] \in R
      <3> HIDE DEF R
      <3>1. command.batch \in Seq(R)
        BY <1>3 DEF R
      <3> QED
        BY <1>1, <3>1
    <2> QED
      BY <2>1
  <1>5. made \in Seq(W)
    <2>1. \A d \in Claims : \A e \in Claims \cup {None} :
            /\ Event("supersede", d, e, 0) \in W
            /\ Event("write", d, None, 0) \in W
      BY DEF Event, Events
    <2>2. ASSUME NEW s, NEW d \in Claims, NEW over \in Claims \cup {None}
          PROVE  EventsFor(s, d, over) \in Seq(W)
      <3> DEFINE older == {old \in Active(s) : <<d, old>> \in Extends}
                 o == CHOOSE old \in older : TRUE
      <3>1. older # {} => o \in Claims
        BY DEF Active
      <3>2. \/ EventsFor(s, d, over) = <<>>
            \/ EventsFor(s, d, over) = <<Event("supersede", d, over, 0)>>
            \/ older # {} /\ EventsFor(s, d, over) = <<Event("supersede", d, o, 0)>>
            \/ EventsFor(s, d, over) = <<Event("write", d, None, 0)>>
        BY DEF EventsFor
      <3> HIDE DEF older, o, W
      <3>3. \A e \in W : <<e>> \in Seq(W)
        OBVIOUS
      <3>4. <<>> \in Seq(W)
        OBVIOUS
      <3>5. /\ Event("supersede", d, over, 0) \in W /\ Event("write", d, None, 0) \in W
            /\ older # {} => Event("supersede", d, o, 0) \in W
        BY <2>1, <3>1
      <3> QED
        BY <3>2, <3>3, <3>4, <3>5, Zenon
    <2> QED
      BY <1>3, <1>4, <2>2
  <1> HIDE DEF made
  <1>6. command.events \o made \in Seq(W)
    BY <1>3, <1>5
  <1>7. /\ command' \in WriteCommands /\ DOMAIN command'.routes = DOMAIN command'.batch
        /\ command'.step = "append" /\ DOMAIN command'.edits = {}
    <2> DEFINE B == Seq([id : Ids, claim : Claims])
               R == UNION {[D -> {"durable", "insight", "review"}] : D \in SUBSET Nat}
               E == UNION {[I -> {"demote", "defer"}] : I \in SUBSET ClaimIds}
    <2>1. WriteCommands = [step : {"append", "review"}, batch : B, routes : R,
                           processed : SUBSET ClaimIds, edits : E,
                           over : Claims \cup {None}, next : Nat, events : Seq(W)]
      BY DEF WriteCommands
    <2> HIDE DEF B, R, E, W
    <2>2. n + 1 \in Nat
      BY <1>3
    <2> QED
      BY <1>1, <1>2, <1>6, <2>1, <2>2
  <1>8. StillHolds'
    BY <1>7 DEF StillHolds
  <1> QED
    BY <1>1, <1>7, <1>8, CommandKeepsUndoInv

LEMMA AppendEventsKeepsUndoInv == UndoInv /\ AppendEvents => UndoInv'
  <1> SUFFICES ASSUME UndoInv, AppendEvents PROVE UndoInv'
    OBVIOUS
  <1>1. /\ command.step = "append" /\ ledger' = ledger \o command.events
        /\ command' = [command EXCEPT !.step = "review"]
        /\ UNCHANGED <<queue, plans, left>>
    BY DEF AppendEvents
  <1>2. /\ command \in WriteCommands /\ DOMAIN command.routes = DOMAIN command.batch
        /\ DOMAIN command.edits = {}
    BY <1>1, CommandIs DEF UndoInv, StillHolds
  <1>3. ledger \in Seq(AllEvents) /\ command.events \in Seq(AllEvents)
    <2>1. command.events \in Seq(Events({"write", "supersede"}))
      BY <1>2 DEF WriteCommands
    <2>2. Events({"write", "supersede"}) \subseteq AllEvents
      BY DEF Events, AllEvents
    <2> QED
      BY <2>1, <2>2 DEF UndoInv, TypeOK, AllEvents
  <1>4. \A n \in DOMAIN command.events : command.events[n].op # "retract"
    <2> DEFINE W == Events({"write", "supersede"})
    <2>1. \A e \in W : e.op # "retract"
      BY DEF Events
    <2>2. command.events \in Seq(W)
      BY <1>2 DEF WriteCommands
    <2> HIDE DEF W
    <2> QED
      BY <2>1, <2>2
  <1>5. RetractedIsAccounted'
    <2>1. \A c \in Claims : Status(ledger')[c] = "retracted" => Status(ledger)[c] = "retracted"
      BY <1>1, <1>3, <1>4, ConcatRetracts
    <2> QED
      BY <1>1, <2>1 DEF UndoInv, RetractedIsAccounted
  <1>6. RetractionsAreNamed'
    <2> DEFINE s == ledger
               t == command.events
    <2>1. /\ ledger' \in Seq(AllEvents) /\ Len(ledger') = Len(s) + Len(t)
          /\ \A i \in 1..Len(ledger') : ledger'[i] = IF i <= Len(s) THEN s[i] ELSE t[i - Len(s)]
      BY <1>1, <1>3, ConcatProperties
    <2>2. ASSUME NEW i \in DOMAIN ledger', ledger'[i].op = "retract"
          PROVE  i \in DOMAIN ledger /\ ledger'[i] = ledger[i]
      <3>1. i \in 1..Len(ledger') /\ Len(s) \in Nat /\ Len(t) \in Nat
        BY <1>3, <2>1
      <3>2. CASE i <= Len(s)
        BY <1>3, <2>1, <3>1, <3>2
      <3>3. CASE ~(i <= Len(s))
        <4>1. i - Len(s) \in 1..Len(t) /\ ledger'[i] = t[i - Len(s)]
          BY <2>1, <3>1, <3>3
        <4> QED
          BY <1>3, <1>4, <2>2, <4>1
      <3> QED
        BY <3>2, <3>3
    <2> QED
      BY <1>1, <2>2 DEF UndoInv, RetractionsAreNamed
  <1>7. TypeOK'
    <2>1. ledger' \in Seq(AllEvents)
      BY <1>1, <1>3
    <2>2. command' \in WriteCommands /\ DOMAIN command'.routes = DOMAIN command'.batch
      BY <1>1, <1>2 DEF WriteCommands
    <2>3. TypeOK
      BY DEF UndoInv
    <2>4. queue' = Torn \/ queue' \in [ClaimIds -> Entries \cup {None}]
      BY <1>1, <2>3 DEF TypeOK
    <2>5. left' \in [Claims -> {"no", "collapsed", "decided", "unqueued"}]
      BY <1>1, <2>3 DEF TypeOK
    <2> QED
      BY <1>1, <2>1, <2>2, <2>3, <2>4, <2>5, TypeFollows
  <1>8. PlansAreNamed' /\ KeyedEntriesAreTheirClaims'
    <2>1. PlansAreNamed'
      BY <1>1, PlansStay DEF UndoInv
    <2>2. KeyedEntriesAreTheirClaims'
      BY <1>1 DEF UndoInv, KeyedEntriesAreTheirClaims
    <2> QED
      BY <2>1, <2>2
  <1>9. StillHolds'
    <2>1. command'.step = "review" /\ DOMAIN command'.edits = {}
      BY <1>1, <1>2 DEF WriteCommands
    <2> QED
      BY <2>1 DEF StillHolds
  <1> QED
    BY <1>5, <1>6, <1>7, <1>8, <1>9 DEF UndoInv

\* A new entry has the short id of its claim, never a claim's key.
LEMMA NewEntriesAreShort ==
  ASSUME command \in WriteCommands, DOMAIN command.routes = DOMAIN command.batch
  PROVE  /\ NewEntries \in [ClaimIds -> Entries \cup {None}]
         /\ \A c \in Claims : NewEntries[c] = None
         /\ command.batch = <<>> => \A i \in ClaimIds : NewEntries[i] = None
  <1> DEFINE R == [id : Ids, claim : Claims]
             b == command.batch
             r == command.routes
             parked(i) == {n \in DOMAIN b : b[n].id = i /\ r[n] # "durable"}
  <1>1. b \in Seq(R) /\ DOMAIN r = DOMAIN b
        /\ \A n \in DOMAIN r : r[n] \in {"durable", "insight", "review"}
    BY DEF WriteCommands
  <1>2. \A n \in DOMAIN b : b[n].id \in Ids /\ b[n].claim \in Claims
    <2>1. \A x \in R : x.id \in Ids /\ x.claim \in Claims
      OBVIOUS
    <2> HIDE DEF R, b
    <2>2. \A n \in DOMAIN b : b[n] \in R
      BY <1>1
    <2> QED
      BY <2>1, <2>2
  <1>3. Len(b) \in Nat /\ DOMAIN b = 1..Len(b)
    <2> HIDE DEF R, b, r
    <2> QED
      BY <1>1
  <1>4. \A i \in ClaimIds : NewEntries[i] = IF parked(i) = {} THEN None
                                            ELSE Entry(b[Max(parked(i))].claim, r[Max(parked(i))])
    BY DEF NewEntries
  <1>5. NewEntries = [i \in ClaimIds |-> NewEntries[i]]
    BY DEF NewEntries
  <1>6. ASSUME NEW i \in ClaimIds, parked(i) # {}
        PROVE  Entry(b[Max(parked(i))].claim, r[Max(parked(i))]) \in Entries /\ i \in Ids
    <2>1. parked(i) \subseteq 1..Len(b)
      BY <1>3
    <2>2. Max(parked(i)) \in parked(i)
      <3> HIDE DEF parked, b
      <3> QED
        BY <1>3, <1>6, <2>1, MaxIsGreatest
    <2>3. /\ Max(parked(i)) \in DOMAIN b /\ b[Max(parked(i))].id = i
          /\ r[Max(parked(i))] # "durable"
      BY <2>2
    <2> DEFINE m == Max(parked(i))
    <2> HIDE DEF parked, b, r, m
    <2>4. b[m].claim \in Claims /\ r[m] \in {"insight", "review"} /\ i \in Ids
      BY <1>1, <1>2, <2>3 DEF m
    <2> QED
      BY <2>4 DEF Entry, Entries, m
  <1> HIDE DEF parked
  <1>7. \A i \in ClaimIds : NewEntries[i] \in Entries \cup {None}
    BY <1>4, <1>6
  <1>8. \A c \in Claims : NewEntries[c] = None
    BY <1>4, <1>6, CrystalConstants DEF ClaimIds
  <1>9. b = <<>> => \A i \in ClaimIds : parked(i) = {}
    BY DEF parked
  <1> QED
    BY <1>4, <1>5, <1>7, <1>8, <1>9

\* A session may take the entry of a claim's key out or change it, and no more.
LEMMA NextQueueIs ==
  ASSUME UndoInv, command.step = "review", queue # Torn
  PROVE  /\ NextQueue \in [ClaimIds -> Entries \cup {None}]
         /\ \A c \in Claims : NextQueue[c] = None
                              \/ (queue[c] # None /\ NextQueue[c].claim = queue[c].claim)
  <1> DEFINE kept == Merged(queue, command.processed, NewEntries)
  <1>1. /\ command \in WriteCommands /\ DOMAIN command.routes = DOMAIN command.batch
        /\ queue \in [ClaimIds -> Entries \cup {None}]
    <2>1. TypeOK
      BY DEF UndoInv
    <2> QED
      BY <2>1, CommandIs DEF TypeOK
  <1>2. /\ NewEntries \in [ClaimIds -> Entries \cup {None}]
        /\ \A c \in Claims : NewEntries[c] = None
        /\ command.batch = <<>> => \A i \in ClaimIds : NewEntries[i] = None
    BY <1>1, NewEntriesAreShort
  <1>3. kept \in [ClaimIds -> Entries \cup {None}]
    BY <1>1, <1>2 DEF Merged
  <1>4. \A i \in ClaimIds : NewEntries[i] = None =>
            kept[i] = IF i \in command.processed THEN None ELSE queue[i]
    BY <1>2 DEF Merged
  <1>5. Claims \subseteq ClaimIds
    BY DEF ClaimIds
  <1>6. CASE command.batch # <<>>
    <2>1. NextQueue = Collapsed(kept)
      BY <1>6 DEF NextQueue
    <2>2. /\ Collapsed(kept) \in [ClaimIds -> Entries \cup {None}]
          /\ \A i \in ClaimIds : Collapsed(kept)[i] \in {kept[i], None}
      BY <1>3 DEF Collapsed
    <2> HIDE DEF kept
    <2>3. ASSUME NEW c \in Claims, NextQueue[c] # None
          PROVE  queue[c] # None /\ NextQueue[c] = queue[c]
      BY <1>2, <1>4, <1>5, <2>1, <2>2, <2>3
    <2>4. NextQueue \in [ClaimIds -> Entries \cup {None}]
      BY <2>1, <2>2
    <2>5. \A c \in Claims : NextQueue[c] = None
                              \/ (queue[c] # None /\ NextQueue[c].claim = queue[c].claim)
      BY <2>3
    <2> QED
      BY <2>4, <2>5
  <1>7. CASE command.batch = <<>>
    <2>1. NextQueue = [i \in ClaimIds |-> IF i \in DOMAIN command.edits
                                          THEN Changed(kept[i], command.edits[i]) ELSE kept[i]]
      BY <1>7 DEF NextQueue
    <2>2. \A i \in DOMAIN command.edits : queue[i] # None /\ i \notin command.processed
      BY <1>7 DEF UndoInv, StillHolds
    <2>3. \A e \in Entries : \A how : Changed(e, how) \in Entries /\ Changed(e, how).claim = e.claim
      BY DEF Entries, Changed
    <2> HIDE DEF kept
    <2>4. \A i \in ClaimIds : i \in DOMAIN command.edits =>
              kept[i] = queue[i] /\ queue[i] \in Entries
      BY <1>1, <1>2, <1>4, <1>7, <2>2
    <2>5. ASSUME NEW i \in ClaimIds
          PROVE  /\ NextQueue[i] \in Entries \cup {None}
                 /\ NextQueue[i] = None \/ (queue[i] # None /\ NextQueue[i].claim = queue[i].claim)
      <3>1. CASE i \in DOMAIN command.edits
        <4>1. NextQueue[i] = Changed(queue[i], command.edits[i]) /\ queue[i] \in Entries
          BY <2>1, <2>4, <3>1
        <4>2. NextQueue[i] \in Entries /\ NextQueue[i].claim = queue[i].claim
          BY <2>3, <4>1
        <4> QED
          BY <2>2, <3>1, <4>2
      <3>2. CASE i \notin DOMAIN command.edits
        <4>1. NextQueue[i] = kept[i]
          BY <2>1, <3>2
        <4>2. kept[i] \in Entries \cup {None}
          BY <1>3
        <4>3. kept[i] = None \/ kept[i] = queue[i]
          BY <1>2, <1>4, <1>7
        <4> QED
          BY <4>1, <4>2, <4>3
      <3> QED
        BY <3>1, <3>2
    <2> QED
      BY <1>5, <2>1, <2>5
  <1> QED
    BY <1>6, <1>7

LEMMA WriteReviewKeepsUndoInv == UndoInv /\ WriteReview => UndoInv'
  <1> SUFFICES ASSUME UndoInv, WriteReview PROVE UndoInv'
    OBVIOUS
  <1>1. command.step = "review" /\ command' = Idle /\ UNCHANGED <<ledger, plans>>
    BY DEF WriteReview
  <1>2. StillHolds'
    BY <1>1 DEF StillHolds, Idle
  <1>3. CASE queue = Torn
    <2>1. UNCHANGED <<queue, left>>
      BY <1>3 DEF WriteReview
    <2> QED
      BY <1>1, <1>2, <2>1, CommandKeepsUndoInv
  <1>4. CASE queue # Torn
    <2> DEFINE how == IF command.processed = {} THEN "collapsed" ELSE "decided"
    <2>1. /\ queue' = NextQueue
          /\ left' = [c \in Claims |-> IF c \in Dropped(queue, queue') THEN how ELSE left[c]]
      BY <1>4 DEF WriteReview, Leaves
    <2>2. /\ queue' \in [ClaimIds -> Entries \cup {None}]
          /\ \A c \in Claims : queue'[c] = None
                               \/ (queue[c] # None /\ queue'[c].claim = queue[c].claim)
      BY <1>1, <1>4, <2>1, NextQueueIs
    <2>3. TypeOK /\ ledger \in Seq(AllEvents)
          /\ left \in [Claims -> {"no", "collapsed", "decided", "unqueued"}]
      BY DEF UndoInv, TypeOK, AllEvents
    <2>4. left' \in [Claims -> {"no", "collapsed", "decided", "unqueued"}]
      BY <2>1, <2>3
    <2>5. TypeOK'
      BY <1>1, <2>2, <2>3, <2>4, TypeFollows
    <2>6. KeyedEntriesAreTheirClaims'
      BY <1>4, <2>2 DEF UndoInv, KeyedEntriesAreTheirClaims
    <2>7. RetractedIsAccounted'
      <3>1. ASSUME NEW c \in Claims, Status(ledger)[c] = "retracted"
            PROVE  queue'[c] # None \/ left'[c] # "no"
        <4>1. queue[c] # None \/ left[c] # "no"
          BY <1>4, <3>1 DEF UndoInv, RetractedIsAccounted
        <4> QED
          BY <2>1, <4>1 DEF Dropped
      <3> QED
        BY <1>1, <3>1 DEF RetractedIsAccounted
    <2>8. PlansAreNamed' /\ RetractionsAreNamed'
      <3>1. PlansAreNamed'
        BY <1>1, PlansStay DEF UndoInv
      <3>2. RetractionsAreNamed'
        BY <1>1 DEF UndoInv, RetractionsAreNamed
      <3> QED
        BY <3>1, <3>2
    <2> QED
      BY <1>2, <2>5, <2>6, <2>7, <2>8 DEF UndoInv
  <1> QED
    BY <1>3, <1>4

LEMMA QueuedIs ==
  ASSUME NEW i, NEW c \in Claims
  PROVE  Queued(i, c) \in Entries /\ Queued(i, c).claim = c /\ Queued(i, c) # None
  <1>1. Queued(i, c) \in Entries /\ Queued(i, c).claim = c
    BY DEF Queued, Entry, Entries
  <1>2. None \notin Entries
    BY CrystalConstants
  <1> QED
    BY <1>1, <1>2

LEMMA QueueClaimsKeepsUndoInv == UndoInv /\ QueueClaims => UndoInv'
  <1> SUFFICES ASSUME UndoInv, QueueClaims PROVE UndoInv'
    OBVIOUS
  <1> DEFINE keys == plans[command.run].keys
  <1>1. command.step = "queue" /\ UNCHANGED <<ledger, plans>>
    BY DEF QueueClaims
  <1>2. /\ TypeOK /\ command \in PlanCommands /\ command.run \in DOMAIN plans
        /\ keys \subseteq Claims /\ ledger \in Seq(AllEvents)
        /\ left \in [Claims -> {"no", "collapsed", "decided", "unqueued"}]
    <2>1. TypeOK
      BY DEF UndoInv
    <2>2. command \in PlanCommands /\ command.run \in DOMAIN plans
      BY <1>1, <2>1, CommandIs
    <2> QED
      BY <2>1, <2>2, PlanIs DEF TypeOK, AllEvents
  <1>3. CASE queue = Torn
    <2>1. command' = Idle /\ UNCHANGED <<queue, left>>
      BY <1>3 DEF QueueClaims
    <2>2. StillHolds'
      BY <2>1 DEF StillHolds, Idle
    <2> QED
      BY <1>1, <2>1, <2>2, CommandKeepsUndoInv
  <1>4. CASE queue # Torn
    <2>1. /\ queue' = [c \in ClaimIds |-> IF c \in keys THEN Queued(command.run, c) ELSE queue[c]]
          /\ left' = [c \in Claims |-> IF c \in keys THEN "no" ELSE left[c]]
          /\ command' = [command EXCEPT !.step = "retract"]
      BY <1>4 DEF QueueClaims, Leaves
    <2> HIDE DEF keys
    <2>2. queue \in [ClaimIds -> Entries \cup {None}]
      BY <1>2, <1>4 DEF TypeOK
    <2>3. \A c \in keys : /\ Queued(command.run, c) \in Entries /\ Queued(command.run, c).claim = c
                          /\ Queued(command.run, c) # None
      BY <1>2, QueuedIs
    <2>4. queue' \in [ClaimIds -> Entries \cup {None}]
      BY <2>1, <2>2, <2>3
    <2>5. left' \in [Claims -> {"no", "collapsed", "decided", "unqueued"}]
      BY <1>2, <2>1
    <2>6. command' \in PlanCommands /\ command'.step = "retract" /\ command'.run = command.run
      BY <1>2, <2>1 DEF PlanCommands
    <2>7. TypeOK'
      BY <1>1, <1>2, <2>4, <2>5, <2>6, TypeFollows
    <2>8. \A c \in keys : c \in ClaimIds /\ queue'[c] # None
      BY <1>2, <2>1, <2>3 DEF ClaimIds
    <2>9. StillHolds'
      BY <1>1, <2>6, <2>8 DEF StillHolds, keys
    <2>10. KeyedEntriesAreTheirClaims'
      <3>1. ASSUME NEW c \in Claims, queue'[c] # None PROVE queue'[c].claim = c
        <4>1. c \in ClaimIds
          BY DEF ClaimIds
        <4>2. CASE c \in keys
          BY <2>1, <2>3, <4>1, <4>2
        <4>3. CASE c \notin keys
          <5>1. queue'[c] = queue[c]
            BY <2>1, <4>1, <4>3
          <5> QED
            BY <1>4, <3>1, <5>1 DEF UndoInv, KeyedEntriesAreTheirClaims
        <4> QED
          BY <4>2, <4>3
      <3> QED
        BY <3>1 DEF KeyedEntriesAreTheirClaims
    <2>11. RetractedIsAccounted'
      <3>1. ASSUME NEW c \in Claims, Status(ledger)[c] = "retracted"
            PROVE  queue'[c] # None \/ left'[c] # "no"
        <4>1. CASE c \in keys
          BY <2>8, <4>1
        <4>2. CASE c \notin keys
          <5>1. queue[c] # None \/ left[c] # "no"
            BY <1>4, <3>1 DEF UndoInv, RetractedIsAccounted
          <5> QED
            BY <2>1, <4>2, <5>1 DEF ClaimIds
        <4> QED
          BY <4>1, <4>2
      <3> QED
        BY <1>1, <3>1 DEF RetractedIsAccounted
    <2>12. PlansAreNamed'
      BY <1>1, PlansStay DEF UndoInv
    <2>13. RetractionsAreNamed'
      BY <1>1 DEF UndoInv, RetractionsAreNamed
    <2> QED
      BY <2>7, <2>9, <2>10, <2>11, <2>12, <2>13 DEF UndoInv
  <1> QED
    BY <1>3, <1>4

\* What a batch adds to the ledger.
LEMMA BatchExtends ==
  ASSUME ledger \in Seq(AllEvents), NEW K, K \subseteq Claims, NEW op \in {"write", "retract"},
         NEW by \in Nat, ledger' = ledger \o Batch(op, K, by)
  PROVE  /\ ledger' \in Seq(AllEvents)
         /\ \A n \in DOMAIN ledger' :
              \/ n \in DOMAIN ledger /\ ledger'[n] = ledger[n]
              \/ ledger'[n].op = op /\ ledger'[n].key \in K /\ ledger'[n].by = by
         /\ \A c \in Claims : Status(ledger')[c] = "retracted" =>
              Status(ledger)[c] = "retracted" \/ (op = "retract" /\ c \in K)
         /\ \A c : c \notin K => LastOf(ledger', c) = LastOf(ledger, c)
  <1> DEFINE s == ledger
             t == Batch(op, K, by)
  <1>1. /\ t \in Seq(AllEvents)
        /\ \A n \in DOMAIN t : t[n].op = op /\ t[n].key \in K /\ t[n].by = by
    BY BatchIsOf
  <1> HIDE DEF t
  <1>2. /\ ledger' \in Seq(AllEvents) /\ Len(ledger') = Len(s) + Len(t)
        /\ \A i \in 1..Len(ledger') : ledger'[i] = IF i <= Len(s) THEN s[i] ELSE t[i - Len(s)]
    BY <1>1, ConcatProperties DEF t
  <1>3. ASSUME NEW i \in DOMAIN ledger'
        PROVE  \/ i \in DOMAIN ledger /\ ledger'[i] = ledger[i]
               \/ ledger'[i].op = op /\ ledger'[i].key \in K /\ ledger'[i].by = by
    <2>1. i \in 1..Len(ledger') /\ Len(s) \in Nat /\ Len(t) \in Nat
      BY <1>1, <1>2
    <2>2. CASE i <= Len(s)
      BY <1>2, <2>1, <2>2
    <2>3. CASE ~(i <= Len(s))
      <3>1. i - Len(s) \in 1..Len(t) /\ ledger'[i] = t[i - Len(s)]
        BY <1>2, <2>1, <2>3
      <3> QED
        BY <1>1, <3>1
    <2> QED
      BY <2>2, <2>3
  <1>4. ASSUME NEW c \in Claims, Status(ledger')[c] = "retracted", ~(op = "retract" /\ c \in K)
        PROVE  Status(ledger)[c] = "retracted"
    <2>1. \A n \in DOMAIN t : ~(t[n].op = "retract" /\ t[n].key = c)
      BY <1>1, <1>4
    <2>2. Status(s \o t)[c] = "retracted"
      BY <1>4 DEF t
    <2> QED
      BY <1>1, <2>1, <2>2, ConcatRetracts
  <1>5. ASSUME NEW c, c \notin K
        PROVE  LastOf(ledger', c) = LastOf(ledger, c)
    <2>1. \A n \in DOMAIN t : t[n].key # c
      BY <1>1, <1>5
    <2>2. LastOf(s \o t, c) = LastOf(s, c)
      BY <1>1, <2>1, ConcatLast
    <2> QED
      BY <2>2 DEF t
  <1> QED
    BY <1>2, <1>3, <1>4, <1>5

LEMMA RetractKeepsUndoInv == UndoInv /\ Retract => UndoInv'
  <1> SUFFICES ASSUME UndoInv, Retract PROVE UndoInv'
    OBVIOUS
  <1> DEFINE run == command.run
             keys == plans[run].keys
  <1>1. /\ command.step = "retract" /\ command' = Idle /\ UNCHANGED <<queue, plans, left>>
        /\ ledger' = ledger \o Batch("retract", keys, run)
    BY DEF Retract
  <1>2. /\ TypeOK /\ run \in DOMAIN plans /\ keys \subseteq Claims /\ ledger \in Seq(AllEvents)
        /\ run \in Nat
    <2>1. TypeOK
      BY DEF UndoInv
    <2>2. run \in DOMAIN plans
      BY <1>1, <2>1, CommandIs
    <2>3. run \in Nat
      BY <2>1, <2>2 DEF TypeOK
    <2> QED
      BY <2>1, <2>2, <2>3, PlanIs DEF TypeOK, AllEvents
  <1>3. \A c \in keys : queue[c] # None
    BY <1>1 DEF UndoInv, StillHolds
  <1> HIDE DEF keys, run
  <1>4. /\ ledger' \in Seq(AllEvents)
        /\ \A n \in DOMAIN ledger' :
              \/ n \in DOMAIN ledger /\ ledger'[n] = ledger[n]
              \/ ledger'[n].op = "retract" /\ ledger'[n].key \in keys /\ ledger'[n].by = run
        /\ \A c \in Claims : Status(ledger')[c] = "retracted" =>
              Status(ledger)[c] = "retracted" \/ c \in keys
    BY ZenonT(60), <1>1, <1>2, BatchExtends
  <1>5. TypeOK'
    <2>1. queue' = Torn \/ queue' \in [ClaimIds -> Entries \cup {None}]
      BY <1>1, <1>2 DEF TypeOK
    <2>2. left' \in [Claims -> {"no", "collapsed", "decided", "unqueued"}]
      BY <1>1, <1>2 DEF TypeOK
    <2> QED
      BY <1>1, <1>2, <1>4, <2>1, <2>2, TypeFollows
  <1>6. RetractionsAreNamed'
    <2>1. ASSUME NEW n \in DOMAIN ledger', ledger'[n].op = "retract"
          PROVE  ledger'[n].by \in DOMAIN plans /\ ledger'[n].key \in plans[ledger'[n].by].keys
      <3>1. CASE n \in DOMAIN ledger /\ ledger'[n] = ledger[n]
        BY <2>1, <3>1 DEF UndoInv, RetractionsAreNamed
      <3>2. CASE ledger'[n].key \in keys /\ ledger'[n].by = run
        BY <1>2, <3>2 DEF keys
      <3> QED
        BY <1>4, <3>1, <3>2
    <2> QED
      BY <1>1, <2>1 DEF RetractionsAreNamed
  <1>7. RetractedIsAccounted'
    BY <1>1, <1>3, <1>4 DEF UndoInv, RetractedIsAccounted
  <1>8. KeyedEntriesAreTheirClaims'
    BY <1>1 DEF UndoInv, KeyedEntriesAreTheirClaims
  <1>9. PlansAreNamed'
    BY <1>1, PlansStay DEF UndoInv
  <1>10. StillHolds'
    BY <1>1 DEF StillHolds, Idle
  <1> QED
    BY <1>5, <1>6, <1>7, <1>8, <1>9, <1>10 DEF UndoInv

LEMMA UnqueueKeepsUndoInv == UndoInv /\ Unqueue => UndoInv'
  <1> SUFFICES ASSUME UndoInv, Unqueue PROVE UndoInv'
    OBVIOUS
  <1> DEFINE run == command.run
  <1>1. command.step = "unqueue" /\ UNCHANGED <<ledger, plans>>
    BY DEF Unqueue
  <1>2. /\ TypeOK /\ command \in UndoCommands /\ ledger \in Seq(AllEvents)
        /\ command.queued \subseteq Claims
        /\ left \in [Claims -> {"no", "collapsed", "decided", "unqueued"}]
    <2>1. TypeOK
      BY DEF UndoInv
    <2> QED
      BY <1>1, <2>1, CommandIs DEF TypeOK, AllEvents
  <1>3. \/ command' = Idle
        \/ /\ plans[run].who = "regate" /\ command' = [command EXCEPT !.step = "rewrite"]
           /\ command' \in UndoCommands
    <2>1. command.step = "unqueue" /\ [command EXCEPT !.step = "rewrite"] \in UndoCommands
      BY <1>1, <1>2 DEF UndoCommands
    <2> QED
      BY <2>1 DEF Unqueue
  <1>4. StillHolds'
    <2>1. CASE command' = Idle
      BY <2>1 DEF StillHolds, Idle
    <2>2. CASE /\ plans[run].who = "regate" /\ command' = [command EXCEPT !.step = "rewrite"]
               /\ command' \in UndoCommands
      <3>1. command.keys \subseteq Retracted(run)
        BY <1>1, <2>2 DEF UndoInv, StillHolds
      <3>2. /\ command'.step = "rewrite" /\ command'.run = run
            /\ command'.keys = command.keys
        BY <1>2, <2>2 DEF UndoCommands
      <3>4. command'.keys \subseteq Retracted(command.run)'
        <4>1. \A i : LastRetracted(i)' = LastRetracted(i)
          BY <1>1 DEF LastRetracted
        <4> QED
          BY <1>1, <3>1, <3>2, <4>1 DEF Retracted
      <3> QED
        BY <1>1, <2>2, <3>2, <3>4 DEF StillHolds
    <2> QED
      BY <1>3, <2>1, <2>2
  <1>5. CASE queue = Torn
    <2>1. UNCHANGED <<queue, left>>
      BY <1>5 DEF Unqueue
    <2> QED
      BY <1>1, <1>3, <1>4, <2>1, CommandKeepsUndoInv
  <1>6. CASE queue # Torn
    <2>1. /\ queue' = [c \in ClaimIds |-> IF c \in command.queued THEN None ELSE queue[c]]
          /\ left' = [c \in Claims |-> IF c \in Dropped(queue, queue') THEN "unqueued" ELSE left[c]]
      BY <1>6 DEF Unqueue, Leaves
    <2>2. queue \in [ClaimIds -> Entries \cup {None}] /\ Claims \subseteq ClaimIds
      BY <1>2, <1>6 DEF TypeOK, ClaimIds
    <2>3. queue' \in [ClaimIds -> Entries \cup {None}]
      BY <2>1, <2>2
    <2>4. left' \in [Claims -> {"no", "collapsed", "decided", "unqueued"}]
      BY <1>2, <2>1
    <2>5. TypeOK'
      BY <1>1, <1>2, <1>3, <2>3, <2>4, TypeFollows
    <2>6. KeyedEntriesAreTheirClaims'
      BY <1>6, <2>1, <2>2 DEF UndoInv, KeyedEntriesAreTheirClaims
    <2>7. RetractedIsAccounted'
      <3>1. ASSUME NEW c \in Claims, Status(ledger)[c] = "retracted"
            PROVE  queue'[c] # None \/ left'[c] # "no"
        <4>1. queue[c] # None \/ left[c] # "no"
          BY <1>6, <3>1 DEF UndoInv, RetractedIsAccounted
        <4> QED
          BY <2>1, <4>1 DEF Dropped
      <3> QED
        BY <1>1, <3>1 DEF RetractedIsAccounted
    <2>8. PlansAreNamed'
      BY <1>1, PlansStay DEF UndoInv
    <2>9. RetractionsAreNamed'
      BY <1>1 DEF UndoInv, RetractionsAreNamed
    <2> QED
      BY <1>4, <2>5, <2>6, <2>7, <2>8, <2>9 DEF UndoInv
  <1> QED
    BY <1>5, <1>6

LEMMA RewriteKeepsUndoInv == UndoInv /\ Rewrite => UndoInv'
  <1> SUFFICES ASSUME UndoInv, Rewrite PROVE UndoInv'
    OBVIOUS
  <1> DEFINE run == command.run
  <1>1. /\ command.step = "rewrite" /\ UNCHANGED <<queue, plans, left>>
        /\ ledger' = ledger \o Batch("write", command.keys, run)
        /\ command' = IF plans[run].who = "regate" THEN Idle ELSE [command EXCEPT !.step = "unqueue"]
    BY DEF Rewrite
  <1>2. /\ TypeOK /\ command \in UndoCommands /\ ledger \in Seq(AllEvents)
        /\ run \in DOMAIN plans /\ run \in Nat /\ command.keys \subseteq Claims
        /\ plans[run].who \in {"regate", "citations"}
    <2>1. TypeOK
      BY DEF UndoInv
    <2>2. command \in UndoCommands /\ run \in DOMAIN plans /\ command.keys \subseteq Claims
      BY <1>1, <2>1, CommandIs
    <2>3. run \in Nat
      BY <2>1, <2>2 DEF TypeOK
    <2> QED
      BY <2>1, <2>2, <2>3, PlanIs DEF TypeOK, AllEvents
  <1>3. /\ ledger' \in Seq(AllEvents)
        /\ \A n \in DOMAIN ledger' :
              \/ n \in DOMAIN ledger /\ ledger'[n] = ledger[n]
              \/ ledger'[n].op = "write"
        /\ \A c \in Claims : Status(ledger')[c] = "retracted" => Status(ledger)[c] = "retracted"
        /\ \A c : c \notin command.keys => LastOf(ledger', c) = LastOf(ledger, c)
    <2> HIDE DEF run
    <2>1. /\ ledger' \in Seq(AllEvents)
          /\ \A n \in DOMAIN ledger' :
                \/ n \in DOMAIN ledger /\ ledger'[n] = ledger[n]
                \/ /\ ledger'[n].op = "write" /\ ledger'[n].key \in command.keys
                   /\ ledger'[n].by = run
          /\ \A c \in Claims : Status(ledger')[c] = "retracted" =>
                Status(ledger)[c] = "retracted" \/ ("write" = "retract" /\ c \in command.keys)
          /\ \A c : c \notin command.keys => LastOf(ledger', c) = LastOf(ledger, c)
      <3>1. "write" \in {"write", "retract"}
        OBVIOUS
      <3> QED
        BY <1>1, <1>2, <3>1, BatchExtends, Zenon
    <2>2. "write" # "retract"
      OBVIOUS
    <2> QED
      BY <2>1, <2>2
  <1>4. \/ command' = Idle
        \/ /\ plans[run].who = "citations" /\ command' = [command EXCEPT !.step = "unqueue"]
           /\ command' \in UndoCommands
    <2>1. [command EXCEPT !.step = "unqueue"] \in UndoCommands
      BY <1>2 DEF UndoCommands
    <2> QED
      BY <1>1, <1>2, <2>1
  <1>5. StillHolds'
    <2>1. CASE command' = Idle
      BY <2>1 DEF StillHolds, Idle
    <2>2. CASE /\ plans[run].who = "citations" /\ command' = [command EXCEPT !.step = "unqueue"]
               /\ command' \in UndoCommands
      <3>1. /\ queue # Torn /\ command.keys \subseteq Untouched(run)
            /\ command.keys \subseteq Retracted(run) /\ ToUnqueue(run) \subseteq command.queued
        BY <1>1, <2>2 DEF UndoInv, StillHolds
      <3>2. /\ command'.step = "unqueue" /\ command'.run = run
            /\ command'.queued = command.queued
        BY <1>2, <2>2 DEF UndoCommands
      <3>3. Untouched(command.run)' \cap Rewritten(command.run)' \subseteq command.queued
        <4>1. command'.run = run /\ plans'[run] = plans[run]
          BY <1>1, <3>2
        <4>2. ASSUME NEW c \in plans[run].keys, queue[c] = Queued(run, c),
                     LastOf(ledger', c).op = "write", LastOf(ledger', c).by = run
              PROVE  c \in command.queued
          <5>1. c \in Untouched(run)
            BY <4>2 DEF Untouched
          <5>2. CASE c \in command.keys
            BY <3>1, <5>1, <5>2 DEF ToUnqueue
          <5>3. CASE c \notin command.keys
            <6>1. LastOf(ledger, c) = LastOf(ledger', c)
              BY <1>3, <5>3
            <6>2. c \in Rewritten(run)
              BY <4>2, <6>1 DEF Rewritten
            <6> QED
              BY <3>1, <5>1, <6>2 DEF ToUnqueue
          <5> QED
            BY <5>2, <5>3
        <4> QED
          BY <1>1, <4>1, <4>2 DEF Untouched, Rewritten, Queued
      <3> QED
        BY <1>1, <2>2, <3>1, <3>2, <3>3 DEF StillHolds
    <2> QED
      BY <1>4, <2>1, <2>2
  <1>6. TypeOK'
    <2>1. queue' = Torn \/ queue' \in [ClaimIds -> Entries \cup {None}]
      BY <1>1, <1>2 DEF TypeOK
    <2>2. left' \in [Claims -> {"no", "collapsed", "decided", "unqueued"}]
      BY <1>1, <1>2 DEF TypeOK
    <2> QED
      BY <1>1, <1>2, <1>3, <1>4, <2>1, <2>2, TypeFollows
  <1>7. RetractionsAreNamed'
    <2>1. ASSUME NEW n \in DOMAIN ledger', ledger'[n].op = "retract"
          PROVE  ledger'[n].by \in DOMAIN plans /\ ledger'[n].key \in plans[ledger'[n].by].keys
      <3>1. n \in DOMAIN ledger /\ ledger'[n] = ledger[n]
        BY <1>3, <2>1
      <3> QED
        BY <2>1, <3>1 DEF UndoInv, RetractionsAreNamed
    <2> QED
      BY <1>1, <2>1 DEF RetractionsAreNamed
  <1>8. RetractedIsAccounted'
    BY <1>1, <1>3 DEF UndoInv, RetractedIsAccounted
  <1>9. KeyedEntriesAreTheirClaims'
    BY <1>1 DEF UndoInv, KeyedEntriesAreTheirClaims
  <1>10. PlansAreNamed'
    BY <1>1, PlansStay DEF UndoInv
  <1> QED
    BY <1>5, <1>6, <1>7, <1>8, <1>9, <1>10 DEF UndoInv

LEMMA KillKeepsUndoInv == UndoInv /\ Kill => UndoInv'
  <1> SUFFICES ASSUME UndoInv, Kill PROVE UndoInv'
    OBVIOUS
  <1>1. command' = Idle /\ UNCHANGED <<ledger, plans, left>> /\ (queue' = queue \/ queue' = Torn)
    BY DEF Kill
  <1>2. StillHolds'
    BY <1>1 DEF StillHolds, Idle
  <1>3. CASE queue' = queue
    BY <1>1, <1>2, <1>3, CommandKeepsUndoInv
  <1>4. CASE queue' = Torn
    <2>1. TypeOK'
      <3>1. TypeOK /\ ledger' \in Seq(AllEvents)
        BY <1>1 DEF UndoInv, TypeOK, AllEvents
      <3>2. left' \in [Claims -> {"no", "collapsed", "decided", "unqueued"}]
        BY <1>1, <3>1 DEF TypeOK
      <3> QED
        BY <1>1, <1>4, <3>1, <3>2, TypeFollows
    <2>2. KeyedEntriesAreTheirClaims' /\ RetractedIsAccounted'
      BY <1>4 DEF KeyedEntriesAreTheirClaims, RetractedIsAccounted
    <2>3. PlansAreNamed'
      BY <1>1, PlansStay DEF UndoInv
    <2>4. RetractionsAreNamed'
      BY <1>1 DEF UndoInv, RetractionsAreNamed
    <2> QED
      BY <1>2, <2>1, <2>2, <2>3, <2>4 DEF UndoInv
  <1> QED
    BY <1>1, <1>3, <1>4

LEMMA NextKeepsUndoInv == UndoInv /\ [Next]_vars => UndoInv'
  <1> SUFFICES ASSUME UndoInv, [Next]_vars PROVE UndoInv'
    OBVIOUS
  <1>1. CASE Synthesize
    BY <1>1, SynthesizeKeepsUndoInv
  <1>2. CASE Decide
    BY <1>2, DecideKeepsUndoInv
  <1>3. CASE DecideClaim
    BY <1>3, DecideClaimKeepsUndoInv
  <1>4. CASE AppendEvents
    BY <1>4, AppendEventsKeepsUndoInv
  <1>5. CASE WriteReview
    BY <1>5, WriteReviewKeepsUndoInv
  <1>6. ASSUME NEW who \in {"regate", "citations"}, SavePlan(who) PROVE UndoInv'
    BY <1>6, SavePlanKeepsUndoInv
  <1>7. CASE QueueClaims
    BY <1>7, QueueClaimsKeepsUndoInv
  <1>8. CASE Retract
    BY <1>8, RetractKeepsUndoInv
  <1>9. ASSUME NEW i \in DOMAIN plans, RollbackRegate(i) \/ RollbackCitations(i) PROVE UndoInv'
    BY <1>9, RollbackKeepsUndoInv
  <1>10. CASE Unqueue
    BY <1>10, UnqueueKeepsUndoInv
  <1>11. CASE Rewrite
    BY <1>11, RewriteKeepsUndoInv
  <1>12. CASE Kill
    BY <1>12, KillKeepsUndoInv
  <1>13. CASE UNCHANGED vars
    <2>1. UNCHANGED <<ledger, queue, plans, left>> /\ command' = command
      BY <1>13 DEF vars
    <2>2. StillHolds'
      BY <2>1 DEF UndoInv, StillHolds, Retracted, LastRetracted, Untouched, Rewritten, ToUnqueue, Queued
    <2> QED
      BY <2>1, <2>2, CommandKeepsUndoInv DEF UndoInv, TypeOK
  <1> QED
    BY <1>1, <1>2, <1>3, <1>4, <1>5, <1>6, <1>7, <1>8, <1>9, <1>10, <1>11, <1>12, <1>13 DEF Next

----------------------------------------------------------------------------
(* The theorems.                                                           *)

\* Plans have ids of their own, retractions name them, and what a command has
\* read still holds when it writes, whatever is killed.
THEOREM UndoInvariant == Spec => []UndoInv
  BY InitEstablishesUndoInv, NextKeepsUndoInv, PTL DEF Spec

\* "Nothing is deleted" (crystal_regate.rs): a claim that a review took out of
\* the durable set stays in the queue until a decision, a recorded collapse or a
\* rollback takes it out, or fs::write is cut and the whole queue is lost.
THEOREM RetractedClaimsAreKept == Spec => []RetractedStaysQueued
  <1>1. UndoInv => RetractedStaysQueued
    <2> SUFFICES ASSUME UndoInv, NEW c \in Claims, Status(ledger)[c] = "retracted", queue # Torn,
                        left[c] = "no"
                 PROVE  \E i \in ClaimIds : queue[i] # None /\ queue[i].claim = c
      BY DEF RetractedStaysQueued
    <2>1. queue[c] # None
      BY DEF UndoInv, RetractedIsAccounted
    <2>2. queue[c].claim = c
      BY <2>1 DEF UndoInv, KeyedEntriesAreTheirClaims
    <2> QED
      BY <2>1, <2>2 DEF ClaimIds
  <1> QED
    BY <1>1, UndoInvariant, PTL

\* "The plan goes to disk BEFORE the ledger moves" (crystal_regate.rs): every
\* retraction of the ledger names one saved plan that lists its claim.
THEOREM EveryRetractionHasItsPlan == Spec => []RetractionsAreUndoable
  <1>1. UndoInv => RetractionsAreUndoable
    BY DEF UndoInv, RetractionsAreNamed, PlansAreNamed, RetractionsAreUndoable
  <1> QED
    BY <1>1, UndoInvariant, PTL

\* A claim that is still this run's retraction was last retracted by this run.
LEMMA RetractedByRun ==
  ASSUME UndoInv, NEW i \in DOMAIN plans, NEW c \in Retracted(i)
  PROVE  /\ Status(ledger)[c] = "retracted"
         /\ LastOf(ledger, c).op = "retract" /\ LastOf(ledger, c).by = i
  <1> DEFINE e == LastOf(ledger, c)
  <1>1. Status(ledger)[c] = "retracted" /\ e.op = "retract" /\ plans[e.by].id = plans[i].id
    BY DEF Retracted, LastRetracted
  <1>2. OwnEvents(ledger, c) # {} /\ e = ledger[Max(OwnEvents(ledger, c))]
    <2>1. e = IF OwnEvents(ledger, c) = {} THEN Event("none", c, None, 0)
              ELSE ledger[Max(OwnEvents(ledger, c))]
      BY DEF LastOf
    <2>2. Event("none", c, None, 0).op # "retract"
      BY DEF Event
    <2> HIDE DEF e
    <2> QED
      BY <1>1, <2>1, <2>2
  <1>3. Max(OwnEvents(ledger, c)) \in DOMAIN ledger
    <2>1. ledger \in Seq(AllEvents)
      BY DEF UndoInv, TypeOK, AllEvents
    <2>2. Len(ledger) \in Nat /\ DOMAIN ledger = 1..Len(ledger)
      BY <2>1
    <2>3. OwnEvents(ledger, c) \subseteq 1..Len(ledger)
      BY <2>1, TouchingIsBounded
    <2> QED
      BY <1>2, <2>2, <2>3, MaxIsGreatest
  <1> HIDE DEF e
  <1>4. e.by \in DOMAIN plans
    BY <1>1, <1>2, <1>3 DEF UndoInv, RetractionsAreNamed
  <1>5. e.by = i
    BY <1>1, <1>4 DEF UndoInv, PlansAreNamed
  <1> QED
    BY <1>1, <1>5 DEF e

\* A rollback re-activates what its own run retracted and nobody has touched
\* since, and one that ran to its end leaves nothing it re-activated in the
\* queue, even after an attempt that was killed between ledger and queue.
THEOREM RollbacksAreExact == Spec => RollbackIsExact
  <1>1. UndoInv => (command.step = "rewrite" /\ ledger' # ledger =>
            \A c \in command.keys : LET e == LastOf(ledger, c) IN
               /\ Status(ledger)[c] = "retracted"
               /\ e.op = "retract" /\ e.by = command.run
               /\ plans[command.run].who = "citations" => queue[c] = Queued(command.run, c))
    <2> SUFFICES ASSUME UndoInv, command.step = "rewrite", NEW c \in command.keys
                 PROVE  /\ Status(ledger)[c] = "retracted"
                        /\ LastOf(ledger, c).op = "retract" /\ LastOf(ledger, c).by = command.run
                        /\ plans[command.run].who = "citations" => queue[c] = Queued(command.run, c)
      OBVIOUS
    <2>1. command.run \in DOMAIN plans
      BY CommandIs DEF UndoInv
    <2>2. c \in Retracted(command.run)
      BY DEF UndoInv, StillHolds
    <2>3. plans[command.run].who = "citations" => c \in Untouched(command.run)
      BY DEF UndoInv, StillHolds
    <2> QED
      BY <2>1, <2>2, <2>3, RetractedByRun DEF Untouched
  <1>2. UndoInv => (Unqueue /\ plans[command.run].who = "citations" =>
            \A c \in plans[command.run].keys :
                LET e == LastOf(ledger', c)
                IN  e.op = "write" /\ e.by = command.run => queue'[c] # Queued(command.run, c))
    <2> SUFFICES ASSUME UndoInv, Unqueue, plans[command.run].who = "citations",
                        NEW c \in plans[command.run].keys,
                        LastOf(ledger', c).op = "write", LastOf(ledger', c).by = command.run,
                        queue'[c] = Queued(command.run, c)
                 PROVE  FALSE
      BY DEF UndoInv
    <2>1. /\ command.step = "unqueue" /\ ledger' = ledger
          /\ queue # Torn /\ Untouched(command.run) \cap Rewritten(command.run) \subseteq command.queued
      BY DEF UndoInv, StillHolds, Unqueue
    <2>2. c \in Claims /\ c \in ClaimIds
      <3>1. TypeOK /\ command.run \in DOMAIN plans
        BY <2>1, CommandIs DEF UndoInv
      <3> QED
        BY <3>1, PlanIs DEF ClaimIds
    <2>3. queue' = [i \in ClaimIds |-> IF i \in command.queued THEN None ELSE queue[i]]
      BY <2>1 DEF Unqueue
    <2>4. Queued(command.run, c) # None
      BY <2>2, QueuedIs
    <2>5. c \notin command.queued /\ queue[c] = Queued(command.run, c)
      BY <2>2, <2>3, <2>4
    <2>6. c \in Untouched(command.run) /\ c \in Rewritten(command.run)
      BY <2>1, <2>5 DEF Untouched, Rewritten
    <2> QED
      BY <2>1, <2>5, <2>6
  <1>3. Spec => ReactivatesItsOwn
    BY <1>1, UndoInvariant, PTL DEF ReactivatesItsOwn
  <1>4. Spec => UndoneIsUnqueued
    BY <1>2, UndoInvariant, PTL DEF UndoneIsUnqueued
  <1> QED
    BY <1>3, <1>4 DEF RollbackIsExact
=============================================================================
