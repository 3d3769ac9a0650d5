---------------------------- MODULE IntakeProofs ----------------------------
(* Proofs about Intake, for any captures, contents, bounds and edits.      *)
EXTENDS Intake, FiniteSetTheorems, TLAPS

\* What becomes of a file.
Fates == {"none", "ingested", "duplicate"}

\* No step leaves the types.
LEMMA StartKeepsTypes ==
  ASSUME TypeOK, NEW b \in BOOLEAN, Start(b)
  PROVE  TypeOK'
  <1> USE IntakeConstants DEF TypeOK, Start, files, ledgers, enrich, history
  <1>1. recorded \cup ({UrlOf[c] : c \in {d \in Contents : InTree(d)}} \ {NoUrl}) \subseteq Urls
    OBVIOUS
  <1>2. KnownContents \subseteq Contents
    BY DEF KnownContents
  <1> QED
    BY <1>1, <1>2

LEMMA SweepKeepsTypes ==
  ASSUME TypeOK, ItemInv, NEW p \in Captures, SweepStep(p)
  PROVE  TypeOK'
  <1> USE IntakeConstants DEF TypeOK, files, ledgers, sweep, enrich, history, bounds, Untouched,
          Held, ItemSteps, NoItem, Sweeping, IsNext
  <1>1. CASE SkipFlagged(p)
    BY <1>1 DEF SkipFlagged
  <1>10. CASE Reoffer(p)
    <2>1. offer' \in [Captures -> Urls \cup {NoUrl}]
      BY <1>10 DEF Reoffer
    <2> QED
      BY <1>10, <2>1 DEF Reoffer
  <1>2. CASE TakeUp(p)
    BY <1>2 DEF TakeUp
  <1>3. CASE Vanished(p)
    BY <1>3 DEF Vanished, Stop, SweepOver, Unflagged, NoOffers, NoResults, Kinds
  <1>4. ASSUME NEW k \in Kinds, Flag(p, k) PROVE TypeOK'
    <2>1. item.hash \in Contents /\ flag' \in [Contents -> Kinds]
      BY <1>4 DEF Flag, ItemInv
    <2>2. offer' \in [Captures -> Urls \cup {NoUrl}]
      BY <1>4 DEF Flag, Parses
    <2> QED
      BY <1>4, <2>1, <2>2 DEF Flag
  <1>5. CASE Accept(p)
    <2>1. capture[p] \in Held /\ \A fate \in Fates :
             [item EXCEPT !.source = capture[p], !.as = fate] \in [hash : Held, source : Held, as : Fates]
      BY DEF Fates
    <2>2. \/ item' = [item EXCEPT !.source = capture[p], !.as = "duplicate"]
          \/ item' = [item EXCEPT !.source = capture[p], !.as = "ingested"]
      BY <1>5 DEF Accept
    <2>3. item' \in [hash : Held, source : Held, as : Fates]
      BY <2>1, <2>2 DEF Fates
    <2>4. pc' \in {"convert", "move"}
      BY <1>5 DEF Accept
    <2> QED
      BY <1>5, <2>3, <2>4 DEF Accept, Fates
  <1>6. CASE Convert(p)
    <2>1. raw' \in [Contents -> Nat]
      BY <1>6 DEF Convert, ItemInv
    <2> QED
      BY <1>6, <2>1 DEF Convert
  <1>7. CASE Move(p)
    <2>1. capture[p] \in Contents
      BY <1>7 DEF Move
    <2>3. capture' \in [Captures -> Held]
      BY <1>7 DEF Move
    <2>4. raw' \in [Contents -> Nat] /\ processed' \in [Contents -> Nat] /\ parked' \in [Contents -> Nat]
      <3>1. CASE parked' = [parked EXCEPT ![capture[p]] = @ + 1] /\ UNCHANGED <<raw, processed>>
        BY <2>1, <3>1
      <3>2. CASE processed' = [processed EXCEPT ![capture[p]] = @ + 1] /\ UNCHANGED <<raw, parked>>
        BY <2>1, <3>2
      <3>3. CASE raw' = [raw EXCEPT ![capture[p]] = @ + 1] /\ UNCHANGED <<processed, parked>>
        BY <2>1, <3>3
      <3> QED
        BY <1>7, <3>1, <3>2, <3>3 DEF Move
    <2> QED
      BY <1>7, <2>3, <2>4 DEF Move
  <1>8. CASE LogMove(p)
    BY <1>8 DEF LogMove, ItemInv
  <1>9. CASE Record(p)
    <2>1. item.hash \in Contents
      BY <1>9 DEF Record, ItemInv
    <2>2. item.as = "ingested" => {UrlOf[item.source]} \ {NoUrl} \subseteq Urls
      BY <1>9 DEF Record, ItemInv
    <2>3. ingested' \in [Contents -> Nat]
      BY <1>9, <2>1 DEF Record
    <2>5. duplicate' \subseteq Contents /\ known' \subseteq Contents
      BY <1>9, <2>1 DEF Record
    <2>4. recorded' \subseteq Urls /\ urls' \subseteq Urls
      BY <1>9, <2>2 DEF Record
    <2> QED
      BY <1>9, <2>3, <2>4, <2>5 DEF Record
  <1> QED
    BY <1>1, <1>2, <1>3, <1>4, <1>5, <1>6, <1>7, <1>8, <1>9, <1>10 DEF SweepStep

LEMMA EnrichKeepsTypes ==
  ASSUME TypeOK, ItemInv, EnrichStep \/ \E c \in Contents : Read(c)
  PROVE  TypeOK'
  <1> USE IntakeConstants DEF TypeOK, files, ledgers, sweep, enrich, history, bounds, Held, NoItem,
          NoOffers, Kinds, Fetching
  <1>1. ASSUME NEW p \in Captures, FetchFails(p) PROVE TypeOK'
    BY <1>1 DEF FetchFails
  <1>2. ASSUME NEW p \in Captures, Rewrite(p) PROVE TypeOK'
    BY <1>2 DEF Rewrite
  <1>3. ASSUME NEW p \in Captures, LocalFailure(p) PROVE TypeOK'
    BY <1>3 DEF LocalFailure
  <1>4. ASSUME NEW p \in Captures, Attempt(p) PROVE TypeOK'
    <2>1. failures' \in [Contents -> Nat]
      BY <1>4 DEF Attempt
    <2>2. pc' \in {"attempts", "close"} /\ item' \in [hash : Held, source : Held, as : Fates]
      BY <1>4 DEF Attempt, Fates
    <2> QED
      BY <1>4, <2>1, <2>2 DEF Attempt, Fates
  <1>5. CASE Journal
    <2>1. log' \subseteq {"ingested", "duplicate", "source_enriched"} \X Contents
      <3>1. item.hash \in Contents
        BY <1>5 DEF Journal, ItemInv
      <3>2. log' = log \cup {<<"source_enriched", item.hash>>} \/ log' = log
        BY <1>5 DEF Journal
      <3> QED
        BY <3>1, <3>2
    <2>3. problems' \in 0 .. MaxProblems /\ halted' \in BOOLEAN
      <3>1. \/ problems' = problems /\ halted' = halted
            \/ problems < MaxProblems /\ problems' = problems + 1 /\ halted' = TRUE
        BY <1>5 DEF Journal
      <3>2. MaxProblems \in Nat /\ problems \in 0 .. MaxProblems /\ halted \in BOOLEAN
        OBVIOUS
      <3>3. problems' \in 0 .. MaxProblems
        BY ONLY <3>1, <3>2
      <3> QED
        BY ONLY <3>1, <3>2, <3>3
    <2>2. offer' \in [Captures -> Urls \cup {NoUrl}]
      BY <1>5 DEF Journal
    <2> QED
      BY <1>5, <2>1, <2>2, <2>3 DEF Journal
  <1>6. CASE Close
    BY <1>6 DEF Close, ItemInv
  <1>7. ASSUME NEW c \in Contents, Read(c) PROVE TypeOK'
    <2>1. raw' \in [Contents -> Nat] /\ processed' \in [Contents -> Nat]
      <3>1. CASE raw' = [raw EXCEPT ![c] = @ - 1] /\ processed' = [processed EXCEPT ![c] = @ + 1]
        <4>1. raw \in [Contents -> Nat] /\ processed \in [Contents -> Nat] /\ raw[c] > 0
          BY <1>7 DEF Read
        <4> QED
          BY ONLY <3>1, <4>1
      <3>2. CASE UNCHANGED <<raw, processed>>
        BY <3>2
      <3> QED
        BY <1>7, <3>1, <3>2 DEF Read
    <2>2. done' \subseteq Contents
      BY <1>7 DEF Read
    <2>3. UNCHANGED <<capture, parked, ingested, duplicate, recorded, flag, failures, log, pc, retry,
                      sweep, enrich, history, bounds>>
      BY <1>7 DEF Read
    <2> QED
      BY <2>1, <2>2, <2>3
  <1> QED
    BY <1>1, <1>2, <1>3, <1>4, <1>5, <1>6, <1>7 DEF EnrichStep

LEMMA OthersKeepTypes ==
  ASSUME TypeOK, Phase \/ Crash \/ \E p \in Captures, c \in Held : Edit(p, c)
  PROVE  TypeOK'
  <1> USE IntakeConstants DEF TypeOK, files, ledgers, sweep, enrich, history, bounds, Held
  <1>1. CASE Phase
    <2>1. flagged' \in [Contents -> Kinds]
      BY <1>1 DEF Phase, SweepOver, Unflagged, Kinds
    <2> QED
      BY <1>1, <2>1 DEF Phase, Done, SweepOver
  <1>2. CASE Crash
    <2>1. flagged' \in [Contents -> Kinds]
      BY <1>2 DEF Crash, Stop, SweepOver, Unflagged, Kinds
    <2>2. /\ offer' \in [Captures -> Urls \cup {NoUrl}]
          /\ result' \in [Captures -> {"none", "failed", "enriched"}]
      BY <1>2 DEF Crash, Stop, NoOffers, NoResults
    <2>3. problems' \in 0 .. MaxProblems
      BY <1>2 DEF Crash
    <2> QED
      BY <1>2, <2>1, <2>2, <2>3 DEF Crash, Stop, SweepOver, NoItem
  <1>3. ASSUME NEW p \in Captures, NEW c \in Held, Edit(p, c) PROVE TypeOK'
    <2>1. capture' \in [Captures -> Held] /\ edits' \in 0 .. MaxEdits
      BY <1>3 DEF Edit
    <2>2. disturbed' \subseteq Contents
      BY <1>3 DEF Edit
    <2> QED
      BY <1>3, <2>1, <2>2 DEF Edit
  <1> QED
    BY <1>1, <1>2, <1>3

LEMMA NextKeepsTypes ==
  ASSUME TypeOK, ItemInv, Next
  PROVE  TypeOK'
  BY StartKeepsTypes, SweepKeepsTypes, EnrichKeepsTypes, OthersKeepTypes DEF Next, Run

----------------------------------------------------------------------------
(* What the ledgers say stays said, and what was done stays done.          *)

\* Which step writes what.
LEMMA FilesAreMovedByFew ==
  ASSUME Next
  PROVE  \/ UNCHANGED files
         \/ \E p \in Captures : Convert(p) \/ Move(p)
         \/ \E c \in Contents : Read(c)
  BY DEF Next, Run, Start, Phase, Crash, Edit, EnrichStep, FetchFails, Rewrite, LocalFailure,
     Journal, Attempt, Close, SweepStep, SkipFlagged, Reoffer, TakeUp, Vanished, Flag, Accept, LogMove,
     Record, Untouched

LEMMA LogIsWrittenByFew ==
  ASSUME Next
  PROVE  UNCHANGED log \/ (\E p \in Captures : LogMove(p)) \/ Journal
  BY DEF Next, Run, Start, Phase, Crash, Edit, EnrichStep, FetchFails, Rewrite, LocalFailure,
     Attempt, Close, Read, SweepStep, SkipFlagged, Reoffer, TakeUp, Vanished, Flag, Accept, Convert, Move,
     Record, Untouched, ledgers

LEMMA RecordsAreWrittenByFew ==
  ASSUME Next
  PROVE  UNCHANGED <<ingested, duplicate>> \/ \E p \in Captures : Record(p)
  BY ZenonT(60) DEF Next, Run, Start, Phase, Crash, Edit, EnrichStep, FetchFails, Rewrite, LocalFailure,
     Journal, Attempt, Close, Read, SweepStep, SkipFlagged, Reoffer, TakeUp, Vanished, Flag, Accept,
     Convert, Move, LogMove, Untouched, ledgers

LEMMA FlagsAreWrittenByFew ==
  ASSUME Next
  PROVE  UNCHANGED flag \/ (\E p \in Captures, k \in Kinds : Flag(p, k)) \/ Close
  BY DEF Next, Run, Start, Phase, Crash, Edit, EnrichStep, FetchFails, Rewrite, LocalFailure,
     Journal, Attempt, Read, SweepStep, SkipFlagged, Reoffer, TakeUp, Vanished, Accept, Convert, Move,
     LogMove, Record, Untouched, ledgers

LEMMA OnlyEditsDisturb ==
  ASSUME Next
  PROVE  UNCHANGED disturbed \/ \E p \in Captures, c \in Held : Edit(p, c)
  BY DEF Next, Run, Start, Phase, Crash, EnrichStep, FetchFails, Rewrite, LocalFailure,
     Journal, Attempt, Close, Read, SweepStep, SkipFlagged, Reoffer, TakeUp, Vanished, Flag, Accept,
     Convert, Move, LogMove, Record, Untouched, history

\* A content that was taken in or parked stays so: the reader only moves it on.
LEMMA NothingIsUndone ==
  ASSUME TypeOK, ItemInv, Next
  PROVE  /\ log \subseteq log' /\ disturbed \subseteq disturbed'
         /\ \A c \in Contents : Taken(c) => Taken(c)'
         /\ \A c \in Contents : parked[c] > 0 => parked'[c] > 0
  <1>1. log \subseteq log'
    BY LogIsWrittenByFew DEF LogMove, Journal
  <1>2. disturbed \subseteq disturbed'
    BY OnlyEditsDisturb DEF Edit
  <1>3. \A c \in Contents : raw'[c] + processed'[c] >= raw[c] + processed[c] /\ parked'[c] >= parked[c]
    <2>1. CASE UNCHANGED files
      BY <2>1 DEF files, TypeOK
    <2>2. ASSUME NEW p \in Captures, Convert(p)
          PROVE  \A c \in Contents : raw'[c] + processed'[c] >= raw[c] + processed[c] /\ parked'[c] >= parked[c]
      BY <2>2 DEF Convert, TypeOK
    <2>3. ASSUME NEW p \in Captures, Move(p)
          PROVE  \A c \in Contents : raw'[c] + processed'[c] >= raw[c] + processed[c] /\ parked'[c] >= parked[c]
      <3>1. CASE parked' = [parked EXCEPT ![capture[p]] = @ + 1] /\ UNCHANGED <<raw, processed>>
        BY <3>1 DEF TypeOK
      <3>2. CASE processed' = [processed EXCEPT ![capture[p]] = @ + 1] /\ UNCHANGED <<raw, parked>>
        BY <3>2 DEF TypeOK
      <3>3. CASE raw' = [raw EXCEPT ![capture[p]] = @ + 1] /\ UNCHANGED <<processed, parked>>
        BY <3>3 DEF TypeOK
      <3> QED
        BY <2>3, <3>1, <3>2, <3>3 DEF Move
    <2>4. ASSUME NEW d \in Contents, Read(d)
          PROVE  \A c \in Contents : raw'[c] + processed'[c] >= raw[c] + processed[c] /\ parked'[c] >= parked[c]
      <3>1. CASE UNCHANGED <<raw, processed>>
        BY <2>4, <3>1 DEF Read, TypeOK
      <3>2. CASE raw' = [raw EXCEPT ![d] = @ - 1] /\ processed' = [processed EXCEPT ![d] = @ + 1]
        BY <2>4, <3>2 DEF Read, TypeOK
      <3> QED
        BY <2>4, <3>1, <3>2 DEF Read
    <2> QED
      BY <2>1, <2>2, <2>3, <2>4, FilesAreMovedByFew
  <1>4. TypeOK'
    BY NextKeepsTypes
  <1> QED
    BY <1>1, <1>2, <1>3, <1>4, IntakeConstants DEF Taken, TypeOK

\* An event is there before its record, and what it tells of was done.
LEMMA RecordsStayTrue ==
  ASSUME TypeOK, ItemInv, RecordImpliesMove, Next
  PROVE  RecordImpliesMove'
  <1>1. CASE UNCHANGED <<ingested, duplicate>>
    BY <1>1, NothingIsUndone DEF RecordImpliesMove, TypeOK
  <1>2. ASSUME NEW p \in Captures, Record(p) PROVE RecordImpliesMove'
    <2>1. /\ item.hash \in Contents /\ <<item.as, item.hash>> \in log
          /\ \/ item.hash \in disturbed
             \/ item.as = "ingested" /\ Taken(item.hash)
             \/ item.as = "duplicate" /\ parked[item.hash] > 0
      BY <1>2 DEF Record, ItemInv, ItemSteps
    <2>2. CASE item.as = "duplicate"
      BY <1>2, <2>1, <2>2, NothingIsUndone DEF Record, RecordImpliesMove, TypeOK
    <2>3. CASE item.as = "ingested"
      BY <1>2, <2>1, <2>3, NothingIsUndone DEF Record, RecordImpliesMove, TypeOK
    <2> QED
      BY <1>2, <2>2, <2>3 DEF Record
  <1> QED
    BY <1>1, <1>2, RecordsAreWrittenByFew

\* A flag is of what was parsed, and that is what was hashed.
LEMMA FlagsStayTrue ==
  ASSUME TypeOK, ItemInv, FetchInv, FlagsAreTrue, Next
  PROVE  FlagsAreTrue'
  <1>1. CASE UNCHANGED flag
    BY <1>1, NothingIsUndone DEF FlagsAreTrue
  <1>2. ASSUME NEW p \in Captures, NEW k \in Kinds, Flag(p, k) PROVE FlagsAreTrue'
    <2>1. item.hash \in Contents /\ p \in todo /\ flag' = [flag EXCEPT ![item.hash] = k]
      BY <1>2 DEF Flag, ItemInv, ItemSteps, IsNext
    <2>2. capture[p] = item.hash \/ item.hash \in disturbed
      BY <1>2, <2>1, IntakeConstants DEF Flag, ItemInv
    <2>3. capture[p] = item.hash => Describes(k, item.hash)
      BY <1>2 DEF Flag, Describes
    <2> QED
      BY <2>1, <2>2, <2>3, NothingIsUndone DEF FlagsAreTrue, TypeOK
  <1>3. CASE Close
    <2>1. item.hash \in Contents /\ (item.hash \in disturbed \/ Describes("content_unavailable", item.hash))
      BY <1>3 DEF Close, ItemInv, FetchInv, Describes
    <2> QED
      BY <1>3, <2>1, NothingIsUndone DEF Close, FlagsAreTrue, TypeOK
  <1> QED
    BY <1>1, <1>2, <1>3, FlagsAreWrittenByFew

----------------------------------------------------------------------------
(* The event of every rewrite.                                             *)

Pending == Untraced \ (IF pc = "journal" THEN {item.hash} ELSE {})

\* A smaller set of rewrites without their event, or one more and a problem.
LEMMA PendingIsBounded ==
  ASSUME TypeOK, JournalInv, IsFiniteSet(rewritten'), problems' \in Nat,
         NEW x,
         \/ Pending' \subseteq Pending /\ problems' >= problems
         \/ Pending' \subseteq Pending \cup {x} /\ problems' = problems + 1
  PROVE  JournalInv'
  <1>1. IsFiniteSet(Pending)
    BY FS_Subset DEF JournalInv, Pending, Untraced
  <1>2. Cardinality(Pending) \in Nat /\ Cardinality(Pending) <= problems
    BY <1>1, FS_CardinalityType DEF JournalInv, Pending
  <1>3. /\ IsFiniteSet(Pending \cup {x})
        /\ Cardinality(Pending \cup {x}) \in Nat /\ Cardinality(Pending \cup {x}) <= problems + 1
    <2>1. /\ IsFiniteSet(Pending \cup {x})
          /\ Cardinality(Pending \cup {x}) \in {Cardinality(Pending), Cardinality(Pending) + 1}
      BY <1>1, FS_AddElement
    <2>2. problems \in Nat
      BY IntakeConstants DEF TypeOK
    <2> QED
      BY <1>2, <2>1, <2>2
  <1>4. Cardinality(Pending') <= problems'
    <2>1. CASE Pending' \subseteq Pending /\ problems' >= problems
      <3>1. Cardinality(Pending') \in Nat /\ Cardinality(Pending') <= Cardinality(Pending)
        BY <1>1, <2>1, FS_Subset, FS_CardinalityType
      <3> QED
        BY <1>2, <2>1, <3>1 DEF TypeOK
    <2>2. CASE Pending' \subseteq Pending \cup {x} /\ problems' = problems + 1
      <3>1. Cardinality(Pending') \in Nat /\ Cardinality(Pending') <= Cardinality(Pending \cup {x})
        BY <1>3, <2>2, FS_Subset, FS_CardinalityType
      <3> QED
        BY <1>3, <2>2, <3>1 DEF TypeOK
    <2> QED
      BY <2>1, <2>2
  <1> QED
    BY <1>4 DEF JournalInv, Pending

LEMMA RewritesStayJournaled ==
  ASSUME TypeOK, ItemInv, JournalInv, Next
  PROVE  JournalInv'
  <1> USE DEF Pending, Untraced
  <1>0. /\ problems \in Nat /\ problems' \in Nat /\ TypeOK' /\ log \subseteq log'
    BY NextKeepsTypes, NothingIsUndone, IntakeConstants DEF TypeOK
  <1>1. ASSUME NEW p \in Captures, Rewrite(p) PROVE JournalInv'
    <2>1. /\ rewritten' = rewritten \cup {capture[p]} /\ item'.hash = capture[p]
          /\ pc = "fetch" /\ pc' = "journal" /\ problems' = problems
      BY <1>1 DEF Rewrite, Fetching, NoItem, bounds
    <2>2. IsFiniteSet(rewritten') /\ Pending' \subseteq Pending
      BY <1>0, <2>1, FS_AddElement DEF JournalInv
    <2> QED
      BY <1>0, <2>1, <2>2, PendingIsBounded
  <1>2. CASE Journal
    <2>1. IsFiniteSet(rewritten') /\ rewritten' = rewritten /\ pc = "journal" /\ pc' = "fetch"
      BY <1>2 DEF Journal, JournalInv, history
    <2>2. CASE log' = log \cup {<<"source_enriched", item.hash>>} /\ problems' = problems
      BY <1>0, <2>1, <2>2, PendingIsBounded
    <2>3. CASE log' = log /\ problems' = problems + 1
      <3>1. Pending' \subseteq Pending \cup {item.hash}
        BY <2>1, <2>3
      <3> QED
        BY <1>0, <2>1, <2>3, <3>1, PendingIsBounded
    <2> QED
      BY <1>2, <2>2, <2>3 DEF Journal
  <1>3. CASE Crash
    <2>1. IsFiniteSet(rewritten') /\ rewritten' = rewritten /\ log' = log /\ pc' = "off"
          /\ problems' = problems + 1
      BY <1>3 DEF Crash, Stop, JournalInv, history, ledgers
    <2>2. Pending' \subseteq Pending \cup {item.hash}
      BY <2>1
    <2> QED
      BY <1>0, <2>1, <2>2, PendingIsBounded
  <1>4. CASE /\ rewritten' = rewritten
             /\ problems' >= problems
             /\ pc = "journal" <=> pc' = "journal"
             /\ pc = "journal" => item' = item
    <2>1. IsFiniteSet(rewritten') /\ Pending' \subseteq Pending
      BY <1>0, <1>4 DEF JournalInv
    <2> QED
      BY <1>0, <1>4, <2>1, PendingIsBounded
  <1>5. \/ Journal \/ Crash \/ \E p \in Captures : Rewrite(p)
        \/ /\ rewritten' = rewritten /\ problems' >= problems
           /\ pc = "journal" <=> pc' = "journal"
           /\ pc = "journal" => item' = item
    <2> USE DEF history, bounds
    <2>1. ASSUME NEW p \in Captures, SweepStep(p)
          PROVE  rewritten' = rewritten /\ problems' = problems /\ pc # "journal" /\ pc' # "journal"
      BY <2>1 DEF SweepStep, SkipFlagged, Reoffer, TakeUp, Vanished, Flag, Accept, Convert, Move, LogMove,
         Record, Sweeping, Stop, Untouched
    <2>2. ASSUME NEW p \in Captures, FetchFails(p) \/ LocalFailure(p) \/ Attempt(p)
          PROVE  rewritten' = rewritten /\ problems' >= problems /\ pc # "journal" /\ pc' # "journal"
      BY <1>0, <2>2 DEF FetchFails, LocalFailure, Attempt, Fetching
    <2>3. ASSUME (\E b \in BOOLEAN : Start(b)) \/ Phase \/ Close \/ \E c \in Contents : Read(c)
          PROVE  rewritten' = rewritten /\ problems' = problems /\ pc # "journal" /\ pc' # "journal"
      BY <2>3 DEF Start, Phase, Close, Read, Done
    <2>4. ASSUME NEW p \in Captures, NEW c \in Held, Edit(p, c)
          PROVE  rewritten' = rewritten /\ problems' = problems /\ pc' = pc /\ item' = item
      BY <2>4 DEF Edit, sweep
    <2> QED
      BY <1>0, <2>1, <2>2, <2>3, <2>4 DEF Next, Run, EnrichStep
  <1> QED
    BY <1>1, <1>2, <1>3, <1>4, <1>5

----------------------------------------------------------------------------
(* What is fetched, counted and closed.                                    *)

\* The sweep's view of the flags is true when it is taken.
LEMMA ViewStaysTrue ==
  ASSUME TypeOK, ItemInv, FetchInv, FlagsAreTrue, Next
  PROVE  \A c \in Contents : Describes(flagged'[c], c) \/ c \in disturbed'
  <1>1. flagged' \in {flagged, flag, Unflagged}
    BY DEF Next, Run, Start, Phase, Crash, Edit, EnrichStep, FetchFails, Rewrite, LocalFailure,
       Journal, Attempt, Close, Read, SweepStep, SkipFlagged, Reoffer, TakeUp, Vanished, Flag, Accept,
       Convert, Move, LogMove, Record, Untouched, Stop, SweepOver, sweep
  <1>2. \A c \in Contents : Describes("none", c)
    BY DEF Describes
  <1> QED
    BY <1>1, <1>2, NothingIsUndone DEF FetchInv, FlagsAreTrue, Unflagged

OffersAreThin(q) == offer[q] # NoUrl \/ result[q] = "failed" => capture[q] \in Thin \cup disturbed \cup {Absent}

LEMMA SweepOffersTheThin ==
  ASSUME TypeOK, ItemInv, FetchInv, NEW p \in Captures, SweepStep(p), NEW q \in Captures
  PROVE  OffersAreThin(q)'
  <1> USE DEF OffersAreThin, FetchInv, Untouched, history, enrich
  <1>1. CASE Reoffer(p)
    <2>1. /\ p \in todo /\ item.hash \in Contents /\ Reoffered(flagged[item.hash])
          /\ capture[p] = item.hash \/ {item.hash, capture[p]} \subseteq disturbed \cup {Absent}
      BY <1>1 DEF Reoffer, IsNext, ItemInv, ItemSteps
    <2>2. CASE capture[p] = item.hash /\ item.hash \notin disturbed /\ UrlOf[capture[p]] # NoUrl
      <3>1. capture[p] \in Thin
        BY <2>1, <2>2, IntakeConstants DEF Reoffered, Describes, Parses
      <3> QED
        BY <1>1, <3>1 DEF Reoffer, TypeOK
    <2>3. CASE capture[p] \in disturbed \cup {Absent} \/ UrlOf[capture[p]] = NoUrl
      BY <1>1, <2>3 DEF Reoffer, TypeOK
    <2> QED
      BY <2>1, <2>2, <2>3
  <1>2. ASSUME NEW k \in Kinds, Flag(p, k) PROVE OffersAreThin(q)'
    <2>1. k = "needs_content" => capture[p] \in Thin
      BY <1>2 DEF Flag
    <2> QED
      BY <1>2, <2>1 DEF Flag, TypeOK
  <1>3. CASE Vanished(p)
    BY <1>3 DEF Vanished, Stop, NoOffers, NoResults
  <1>4. CASE Move(p)
    BY <1>4 DEF Move, TypeOK
  <1>5. CASE SkipFlagged(p) \/ TakeUp(p) \/ Accept(p) \/ Convert(p) \/ LogMove(p) \/ Record(p)
    BY <1>5 DEF SkipFlagged, TakeUp, Accept, Convert, LogMove, Record
  <1> QED
    BY <1>1, <1>2, <1>3, <1>4, <1>5 DEF SweepStep

LEMMA OffersStayThin ==
  ASSUME TypeOK, ItemInv, FetchInv, Next, NEW q \in Captures
  PROVE  OffersAreThin(q)'
  <1> USE DEF OffersAreThin, FetchInv, history, enrich
  <1>1. ASSUME NEW p \in Captures, FetchFails(p) \/ LocalFailure(p) \/ Rewrite(p) \/ Attempt(p)
        PROVE  OffersAreThin(q)'
    BY <1>1 DEF FetchFails, LocalFailure, Rewrite, Attempt, Fetching, TypeOK
  <1>2. CASE Journal \/ Close \/ Phase \/ (\E b \in BOOLEAN : Start(b)) \/ \E c \in Contents : Read(c)
    BY <1>2 DEF Journal, Close, Phase, Start, Read, NoOffers
  <1>3. CASE Crash
    BY <1>3 DEF Crash, Stop, NoOffers, NoResults
  <1>4. ASSUME NEW p \in Captures, NEW c \in Held, Edit(p, c) PROVE OffersAreThin(q)'
    BY <1>4 DEF Edit, UnderWay, TypeOK
  <1> QED
    BY <1>1, <1>2, <1>3, <1>4, SweepOffersTheThin DEF Next, Run, EnrichStep

LEMMA FetchesStayThin ==
  ASSUME TypeOK, ItemInv, FetchInv, FlagsAreTrue, Next
  PROVE  FetchInv'
  <1>1. pc' = "close" => item'.hash \in Thin \cup disturbed'
    <2>1. ASSUME NEW p \in Captures, Attempt(p), pc' = "close" PROVE item'.hash \in Thin \cup disturbed'
      BY <2>1 DEF Attempt, FetchInv, NoItem, history
    <2>2. CASE pc = "close" /\ pc' = "close" /\ item' = item
      BY <2>2, NothingIsUndone DEF FetchInv
    <2>3. \/ pc' # "close" \/ (pc = "close" /\ item' = item) \/ \E p \in Captures : Attempt(p)
      BY DEF Next, Run, Start, Phase, Crash, Edit, EnrichStep, FetchFails, Rewrite, LocalFailure,
         Journal, Close, Read, SweepStep, SkipFlagged, Reoffer, TakeUp, Vanished, Flag, Accept, Convert,
         Move, LogMove, Record, Stop, Done, Sweeping, Fetching, sweep
    <2> QED
      BY <2>1, <2>2, <2>3
  <1>2. pc' = "offer" => Reoffered(flagged[item.hash])'
    <2>1. ASSUME NEW p \in Captures, SkipFlagged(p), pc' = "offer" PROVE Reoffered(flagged[item.hash])'
      <3>1. /\ Reoffered(flagged[capture[p]]) /\ item' = [NoItem EXCEPT !.hash = capture[p]]
            /\ flagged' = flagged /\ retry' = retry
        BY <2>1 DEF SkipFlagged, Sweeping, Untouched
      <3> QED
        BY <3>1 DEF Reoffered, NoItem
    <2>2. CASE pc = "offer" /\ UNCHANGED <<item, flagged, retry>>
      BY <2>2 DEF FetchInv, Reoffered
    <2>3. \/ pc' # "offer" \/ (pc = "offer" /\ UNCHANGED <<item, flagged, retry>>)
          \/ \E p \in Captures : SkipFlagged(p)
      BY DEF Next, Run, Start, Phase, Crash, Edit, EnrichStep, FetchFails, Rewrite, LocalFailure,
         Attempt, Journal, Close, Read, SweepStep, Reoffer, TakeUp, Vanished, Flag, Accept, Convert,
         Move, LogMove, Record, Stop, Done, Sweeping, Fetching, sweep
    <2> QED
      BY <2>1, <2>2, <2>3
  <1> QED
    BY <1>1, <1>2, ViewStaysTrue, OffersStayThin DEF FetchInv, OffersAreThin

----------------------------------------------------------------------------
(* What was hashed is what is parsed, moved and recorded.                  *)

\* Between two files there is nothing to relate.
LEMMA NothingAtHand ==
  ASSUME pc' \in {"off", "sweep", "fetch", "attempts", "read"}
  PROVE  ItemInv'
  BY DEF ItemInv, ItemSteps

LEMMA OneIsNext ==
  ASSUME TypeOK, NEW p \in todo, NEW q \in todo, IsNext(p), IsNext(q)
  PROVE  q = p
  <1>1. Rank[p] <= Rank[q] /\ Rank[q] <= Rank[p]
    BY DEF IsNext
  <1>2. p \in Captures /\ q \in Captures
    BY DEF TypeOK
  <1>3. Rank[p] \in Nat /\ Rank[q] \in Nat
    BY <1>2, IntakeConstants
  <1> QED
    BY <1>1, <1>2, <1>3, IntakeConstants

LEMMA TakingUpIsSound ==
  ASSUME TypeOK, NEW p \in Captures, TakeUp(p)
  PROVE  ItemInv'
  <1>1. /\ item'.hash = capture[p] /\ item'.hash \in Contents /\ item'.as \in {"duplicate", "none"}
        /\ pc' = IF item'.as = "duplicate" THEN "move" ELSE "parse"
        /\ capture' = capture /\ todo' = todo /\ p \in todo /\ IsNext(p)
    BY DEF TakeUp, Sweeping, IsNext, TypeOK, Held
  <1>2. \A q \in todo' : IsNext(q)' => capture'[q] = item'.hash
    BY <1>1, OneIsNext DEF IsNext
  <1> QED
    BY <1>1, <1>2 DEF ItemInv, ItemSteps

\* What was hashed before it is read for its url.
LEMMA SkippingIsSound ==
  ASSUME TypeOK, NEW p \in Captures, SkipFlagged(p)
  PROVE  ItemInv'
  <1>1. CASE pc' = "offer"
    <2>1. /\ item' = [NoItem EXCEPT !.hash = capture[p]] /\ capture[p] \in Contents
          /\ capture' = capture /\ todo' = todo /\ p \in todo /\ IsNext(p)
      BY <1>1 DEF SkipFlagged, Sweeping, IsNext, TypeOK, Held
    <2>2. item'.hash = capture[p]
      BY <2>1 DEF NoItem
    <2>3. \A q \in todo' : IsNext(q)' => capture'[q] = item'.hash
      BY <2>1, <2>2, OneIsNext DEF IsNext
    <2> QED
      BY <1>1, <2>1, <2>2, <2>3 DEF ItemInv, ItemSteps
  <1>2. CASE pc' = "sweep"
    BY <1>2 DEF ItemInv, ItemSteps
  <1> QED
    BY <1>1, <1>2 DEF SkipFlagged, Sweeping

LEMMA AcceptingIsSound ==
  ASSUME TypeOK, ItemInv, NEW p \in Captures, Accept(p)
  PROVE  ItemInv'
  <1>1. /\ item.hash \in Contents /\ p \in todo /\ todo' = todo /\ capture' = capture
        /\ disturbed' = disturbed /\ pc = "parse"
        /\ capture[p] = item.hash \/ item.hash \in disturbed
    BY IntakeConstants DEF Accept, ItemInv, ItemSteps, IsNext, Untouched, history
  <1>2. /\ item'.hash = item.hash /\ item'.source = capture[p]
        /\ \/ item'.as = "duplicate" /\ pc' = "move"
           \/ item'.as = "ingested" /\ item'.source \in Full /\ pc' = IF item'.source \in Documents THEN "convert" ELSE "move"
    BY DEF Accept, TypeOK
  <1>3. \A q \in todo' : IsNext(q)' /\ pc' \in {"offer", "parse", "convert", "move"} =>
           capture'[q] = item'.hash \/ {item'.hash, capture'[q]} \subseteq disturbed' \cup {Absent}
    BY <1>1, <1>2 DEF ItemInv, IsNext
  <1> QED
    BY <1>1, <1>2, <1>3, IntakeConstants DEF ItemInv, ItemSteps

LEMMA ConvertingIsSound ==
  ASSUME TypeOK, ItemInv, NEW p \in Captures, Convert(p)
  PROVE  ItemInv'
  <1>1. /\ pc = "convert" /\ pc' = "move" /\ item' = item /\ todo' = todo /\ capture' = capture
        /\ disturbed' = disturbed /\ processed' = processed
        /\ item.hash \in Contents /\ item.as = "ingested" /\ todo # {}
        /\ item.source \in Contents /\ (item.source = item.hash \/ item.hash \in disturbed)
    BY DEF Convert, ItemInv, ItemSteps, sweep, history
  <1>2. raw'[MarkdownOf[item.source]] + processed'[MarkdownOf[item.source]] > 0
    <2>1. MarkdownOf[item.source] \in Contents
      BY <1>1, IntakeConstants
    <2> HIDE <1>1
    <2> QED
      BY <2>1 DEF Convert, TypeOK
  <1>3. Taken(item.hash)' \/ item.hash \in disturbed
    BY <1>1, <1>2 DEF Taken
  <1>4. \A q \in todo' : IsNext(q)' =>
           capture'[q] = item'.hash \/ {item'.hash, capture'[q]} \subseteq disturbed' \cup {Absent}
    BY <1>1 DEF ItemInv, IsNext
  <1> QED
    BY <1>1, <1>3, <1>4 DEF ItemInv, ItemSteps, Taken

LEMMA MovingIsSound ==
  ASSUME TypeOK, ItemInv, Next, NEW p \in Captures, Move(p)
  PROVE  ItemInv'
  <1>1. /\ pc = "move" /\ pc' = "log" /\ item' = item /\ todo' = todo /\ todo # {}
        /\ disturbed' = disturbed /\ item.hash \in Contents /\ item.as \in {"ingested", "duplicate"}
        /\ capture[p] \in Contents
    BY DEF Move, ItemInv, ItemSteps, sweep, history, TypeOK, Held
  <1>2. capture[p] = item.hash \/ item.hash \in disturbed
    BY <1>1, IntakeConstants DEF Move, ItemInv, IsNext
  <1>3. \/ item.hash \in disturbed
        \/ item.as = "ingested" /\ Taken(item.hash)'
        \/ item.as = "duplicate" /\ parked'[item.hash] > 0
    <2>1. CASE item.as = "duplicate"
      BY <1>1, <1>2, <2>1 DEF Move, TypeOK
    <2>2. CASE item.as = "ingested" /\ item.source \in Documents
      BY <1>1, <2>2, NothingIsUndone DEF ItemInv
    <2>3. CASE item.as = "ingested" /\ item.source \notin Documents /\ item.hash \notin disturbed
      <3>1. item.source = item.hash /\ MarkdownOf[item.hash] = item.hash /\ capture[p] = item.hash
        BY <1>1, <1>2, <2>3, IntakeConstants DEF ItemInv
      <3>2. raw' = [raw EXCEPT ![item.hash] = @ + 1] /\ processed' = processed
        BY <2>3, <3>1 DEF Move
      <3>3. raw'[item.hash] + processed'[item.hash] > 0
        BY <1>1, <3>2 DEF TypeOK
      <3> QED
        BY <1>1, <2>3, <3>1, <3>3, IntakeConstants DEF Taken
    <2> QED
      BY <1>1, <2>1, <2>2, <2>3
  <1>4. item.as = "ingested" =>
           item.source \in Contents /\ (item.source = item.hash \/ item.hash \in disturbed)
    BY <1>1 DEF ItemInv
  <1> QED
    BY <1>1, <1>3, <1>4 DEF ItemInv, ItemSteps, Taken

LEMMA LoggingIsSound ==
  ASSUME ItemInv, NEW p \in Captures, LogMove(p)
  PROVE  ItemInv'
  <1>1. /\ pc = "log" /\ pc' = "record" /\ item' = item /\ todo' = todo /\ capture' = capture
        /\ disturbed' = disturbed /\ UNCHANGED files
        /\ <<item.as, item.hash>> \in log'
    BY DEF LogMove, sweep, history
  <1> QED
    BY <1>1 DEF ItemInv, ItemSteps, Taken, files

LEMMA EditingIsSound ==
  ASSUME TypeOK, ItemInv, NEW p \in Captures, NEW c \in Held, Edit(p, c)
  PROVE  ItemInv'
  <1>1. /\ pc' = pc /\ item' = item /\ todo' = todo /\ log' = log /\ UNCHANGED files
        /\ disturbed \subseteq disturbed'
        /\ \A q \in Captures : capture'[q] = IF q = p THEN c ELSE capture[q]
    BY DEF Edit, sweep, ledgers, TypeOK
  <1>2. \A q \in todo' : IsNext(q)' /\ pc' \in {"offer", "parse", "convert", "move"} =>
           capture'[q] = item'.hash \/ {item'.hash, capture'[q]} \subseteq disturbed' \cup {Absent}
    <2> TAKE q \in todo'
    <2> HAVE IsNext(q)' /\ pc' \in {"offer", "parse", "convert", "move"}
    <2>1. q \in Captures /\ q \in todo /\ IsNext(q) /\ pc \in {"offer", "parse", "convert", "move"}
      BY <1>1 DEF IsNext, TypeOK
    <2>2. CASE q = p
      <3>1. disturbed' = disturbed \cup ({item.hash, c} \ {Absent})
        BY <2>1, <2>2 DEF Edit, UnderWay
      <3> QED
        BY <1>1, <2>1, <2>2, <3>1
    <2>3. CASE q # p
      BY <1>1, <2>1, <2>3 DEF ItemInv
    <2> QED
      BY <2>2, <2>3
  <1> QED
    BY <1>1, <1>2 DEF ItemInv, ItemSteps, Taken, files

\* What is rewritten or closed is a content.
LEMMA EnrichingIsSound ==
  ASSUME TypeOK, NEW p \in Captures, Rewrite(p) \/ Attempt(p)
  PROVE  ItemInv'
  <1>1. CASE Rewrite(p)
    BY <1>1 DEF Rewrite, ItemInv, ItemSteps, NoItem, TypeOK, Held
  <1>2. CASE Attempt(p)
    <2>1. pc' = "attempts" \/ (pc' = "close" /\ item'.hash \in Contents)
      BY <1>2 DEF Attempt, NoItem, TypeOK, Held
    <2> QED
      BY <2>1 DEF ItemInv, ItemSteps
  <1> QED
    BY <1>1, <1>2

LEMMA ItemsStaySound ==
  ASSUME TypeOK, ItemInv, Next
  PROVE  ItemInv'
  <1>1. ASSUME NEW p \in Captures,
               \/ Reoffer(p) \/ Vanished(p) \/ (\E k \in Kinds : Flag(p, k)) \/ Record(p)
               \/ FetchFails(p) \/ LocalFailure(p)
        PROVE  ItemInv'
    BY <1>1, NothingAtHand DEF Reoffer, Vanished, Stop, Flag, Record, FetchFails,
       LocalFailure, Fetching
  <1>2. CASE \/ (\E b \in BOOLEAN : Start(b)) \/ Phase \/ Journal \/ Close \/ Crash
             \/ \E c \in Contents : Read(c)
    BY <1>2, NothingAtHand DEF Start, Phase, Done, Journal, Close, Crash, Stop, Read
  <1> QED
    BY <1>1, <1>2, SkippingIsSound, TakingUpIsSound, AcceptingIsSound, ConvertingIsSound, MovingIsSound,
       LoggingIsSound, EditingIsSound, EnrichingIsSound DEF Next, Run, SweepStep, EnrichStep

----------------------------------------------------------------------------
LEMMA InitIsSound ==
  ASSUME Init
  PROVE  IntakeInv
  <1> USE DEF Init
  <1>1. TypeOK
    <2>1. /\ capture \in [Captures -> Held] /\ flag \in [Contents -> Kinds] /\ flagged \in [Contents -> Kinds]
          /\ offer \in [Captures -> Urls \cup {NoUrl}]
          /\ result \in [Captures -> {"none", "failed", "enriched"}]
      BY DEF Unflagged, Kinds, NoOffers, NoResults
    <2>2. /\ raw \in [Contents -> Nat] /\ processed \in [Contents -> Nat] /\ parked \in [Contents -> Nat]
          /\ ingested \in [Contents -> Nat] /\ failures \in [Contents -> Nat] /\ fetched \in [Contents -> Nat]
      BY DEF None
    <2>3. item \in [hash : Held, source : Held, as : {"none", "ingested", "duplicate"}]
      BY DEF NoItem, Held
    <2>4. edits \in 0 .. MaxEdits /\ problems \in 0 .. MaxProblems /\ retries \in 0 .. MaxRetries
      BY IntakeConstants
    <2>5. /\ duplicate \subseteq Contents /\ recorded \subseteq Urls /\ done \subseteq Contents
          /\ rewritten \subseteq Contents /\ disturbed \subseteq Contents
          /\ known \subseteq Contents /\ urls \subseteq Urls /\ todo \subseteq Captures
          /\ log \subseteq {"ingested", "duplicate", "source_enriched"} \X Contents
          /\ pc = "off" /\ retry \in BOOLEAN
      OBVIOUS
    <2> QED
      BY <2>1, <2>2, <2>3, <2>4, <2>5 DEF TypeOK
  <1>2. ItemInv
    BY DEF ItemInv, ItemSteps
  <1>3. FetchInv /\ FlagsAreTrue
    BY DEF FetchInv, FlagsAreTrue, Describes, Unflagged, NoOffers, NoResults
  <1>4. JournalInv
    <2>1. Untraced \ (IF pc = "journal" THEN {item.hash} ELSE {}) = {}
      BY DEF Untraced
    <2>2. IsFiniteSet({}) /\ Cardinality({}) = 0
      BY FS_EmptySet
    <2> QED
      BY <2>1, <2>2 DEF JournalInv
  <1>5. RecordImpliesMove
    BY DEF RecordImpliesMove, None
  <1> QED
    BY <1>1, <1>2, <1>3, <1>4, <1>5 DEF IntakeInv

\* Whatever people edit, wherever a run stops: what the sweep records and flags
\* is what it hashed, what enrichment fetches, counts and closes is thin, and at
\* most one rewritten body per lost run has no event, but for the contents a file
\* held or was given while it was under way (sweep_intake, web_fetch.rs).
THEOREM IntakeInvariant == Spec => []IntakeInv
  <1>1. Init => IntakeInv
    BY InitIsSound
  <1>2. IntakeInv /\ [Next]_vars => IntakeInv'
    <2> SUFFICES ASSUME IntakeInv, [Next]_vars PROVE IntakeInv'
      OBVIOUS
    <2>1. CASE Next
      BY <2>1, NextKeepsTypes, ItemsStaySound, FetchesStayThin, RewritesStayJournaled,
         RecordsStayTrue, FlagsStayTrue DEF IntakeInv
    <2>2. CASE UNCHANGED vars
      <3> USE <2>2 DEF IntakeInv, vars, files, ledgers, sweep, enrich, history, bounds
      <3>1. TypeOK'
        BY DEF TypeOK
      <3>2. ItemInv'
        BY DEF ItemInv, IsNext, Taken
      <3>3. FetchInv' /\ JournalInv'
        BY DEF FetchInv, JournalInv, Untraced, Reoffered
      <3>4. RecordImpliesMove' /\ FlagsAreTrue'
        BY DEF RecordImpliesMove, FlagsAreTrue, Taken
      <3> QED
        BY <3>1, <3>2, <3>3, <3>4
    <2> QED
      BY <2>1, <2>2
  <1> QED
    BY <1>1, <1>2, PTL DEF Spec

\* What intake.jsonl and pipeline.jsonl say of a content was done to it (the
\* record after the event after the move, sweep.rs; the event right after the
\* rewrite, web_fetch.rs), for any number of captures, edits, kills and retries.
THEOREM LedgersStayTrue == Spec => []LedgersAreTrue
  <1>1. IntakeInv => LedgersAreTrue
    <2> SUFFICES ASSUME IntakeInv PROVE RewritesAreJournaled
      BY DEF IntakeInv, LedgersAreTrue
    <2>1. IsFiniteSet(Untraced)
      BY FS_Subset DEF IntakeInv, JournalInv, Untraced
    <2>2. problems \in Nat
      BY IntakeConstants DEF IntakeInv, TypeOK
    <2>3. CASE pc = "journal"
      <3> DEFINE rest == Untraced \ {item.hash}
      <3>1. IsFiniteSet(rest) /\ Cardinality(rest) <= problems /\ Cardinality(rest) \in Nat
        BY <2>1, <2>3, FS_Subset, FS_CardinalityType DEF IntakeInv, JournalInv
      <3>2. /\ IsFiniteSet(rest \cup {item.hash})
            /\ Cardinality(rest \cup {item.hash}) \in {Cardinality(rest), Cardinality(rest) + 1}
        <4> HIDE DEF rest
        <4> QED
          BY <3>1, FS_AddElement
      <3>3. Untraced \subseteq rest \cup {item.hash}
        OBVIOUS
      <3>4. Cardinality(Untraced) \in Nat /\ Cardinality(Untraced) <= Cardinality(rest \cup {item.hash})
        BY <2>1, <3>2, <3>3, FS_Subset, FS_CardinalityType
      <3> HIDE DEF rest
      <3> QED
        BY <2>2, <2>3, <3>1, <3>2, <3>4 DEF RewritesAreJournaled
    <2>4. CASE pc # "journal"
      <3>1. Cardinality(Untraced) <= problems /\ Cardinality(Untraced) \in Nat
        BY <2>1, <2>4, FS_CardinalityType DEF IntakeInv, JournalInv
      <3> QED
        BY <2>2, <2>4, <3>1 DEF RewritesAreJournaled
    <2> QED
      BY <2>3, <2>4
  <1> QED
    BY <1>1, IntakeInvariant, PTL

----------------------------------------------------------------------------
\* What the sweep knows is set when it starts, and grows with its own records;
\* only the reader adds to what was read, after the sweep.
LEMMA ViewsAreKept ==
  ASSUME TypeOK, ItemInv, ViewInv, Next
  PROVE  ViewInv'
  <1> USE DEF ViewInv, ItemSteps
  <1>1. CASE (\E b \in BOOLEAN : Start(b)) \/ Phase \/ Crash \/ \E c \in Contents : Read(c)
    BY <1>1 DEF Start, KnownContents, ledgers, Phase, Done, SweepOver, Crash, Stop, Read
  <1>2. CASE EnrichStep
    BY <1>2 DEF EnrichStep, FetchFails, Fetching, Rewrite, LocalFailure, Attempt, Journal, Close,
                ledgers, sweep
  <1>3. ASSUME NEW p \in Captures, NEW c \in Held, Edit(p, c) PROVE ViewInv'
    BY <1>3 DEF Edit, ledgers, sweep
  <1>4. ASSUME NEW p \in Captures,
               SkipFlagged(p) \/ Reoffer(p) \/ Vanished(p) \/ (\E k \in Kinds : Flag(p, k))
        PROVE  ViewInv'
    BY <1>4 DEF SkipFlagged, Reoffer, Sweeping, Untouched, ledgers, Vanished, Stop, Flag
  <1>5. ASSUME NEW p \in Captures, TakeUp(p) PROVE ViewInv'
    BY <1>5 DEF TakeUp, Sweeping, Untouched, ledgers
  <1>6. ASSUME NEW p \in Captures, Accept(p) PROVE ViewInv'
    <2>1. /\ pc = "parse" /\ pc' \in {"move", "convert"} /\ UNCHANGED <<known, done>>
          /\ pc' = "convert" => capture[p] \in Documents
          /\ item' = [item EXCEPT !.source = capture[p], !.as = "duplicate"]
             \/ item' = [item EXCEPT !.source = capture[p], !.as = "ingested"]
      BY <1>6 DEF Accept, Untouched, ledgers
    <2>2. item'.hash = item.hash /\ item'.source = capture[p]
      BY <2>1 DEF TypeOK
    <2> QED
      BY <2>1, <2>2
  <1>7. ASSUME NEW p \in Captures, Convert(p) \/ Move(p) \/ LogMove(p) PROVE ViewInv'
    BY <1>7 DEF Convert, Move, LogMove, ledgers, sweep
  <1>8. ASSUME NEW p \in Captures, Record(p) PROVE ViewInv'
    BY <1>8 DEF Record
  <1> QED
    BY <1>1, <1>2, <1>3, <1>4, <1>5, <1>6, <1>7, <1>8 DEF Next, Run, SweepStep

\* "Content the reader already processed must never be re-ingested"
\* (sweep_intake), whatever dies and is edited, but for the text of a document
\* and what a file was given while it was under way.
THEOREM WhatWasReadStaysRead == Spec => NothingReadComesBack
  <1> DEFINE Back == \A c \in done \ (Texts \cup disturbed) : raw'[c] <= raw[c]
  <1>1. Init => ViewInv
    BY DEF Init, ViewInv, ItemSteps
  <1>2. IntakeInv /\ ViewInv /\ [Next]_vars => ViewInv'
    <2>1. UNCHANGED vars /\ ViewInv => ViewInv'
      BY DEF vars, sweep, ledgers, ViewInv
    <2> QED
      BY <2>1, ViewsAreKept DEF IntakeInv
  <1>3. IntakeInv /\ ViewInv /\ [Next]_vars => Back
    <2> SUFFICES ASSUME IntakeInv, ViewInv, [Next]_vars, NEW c \in done, c \notin Texts, c \notin disturbed
                 PROVE  raw'[c] <= raw[c]
      OBVIOUS
    <2> USE DEF IntakeInv, TypeOK
    <2>1. c \in Contents /\ raw[c] \in Nat /\ raw \in [Contents -> Nat]
      OBVIOUS
    <2>2. CASE UNCHANGED files
      BY <2>1, <2>2 DEF files
    <2>3. ASSUME NEW p \in Captures, Convert(p) PROVE raw'[c] <= raw[c]
      <3>1. raw' = [raw EXCEPT ![MarkdownOf[item.source]] = @ + 1]
        BY <2>3 DEF Convert
      <3>2. CASE c # MarkdownOf[item.source]
        BY <2>1, <3>1, <3>2
      <3>3. CASE c = MarkdownOf[item.source]
        <4>1. item.source \in Documents
          BY <2>3 DEF Convert, ViewInv
        <4> QED
          BY <3>3, <4>1 DEF Texts
      <3> QED
        BY <3>2, <3>3
    <2>4. ASSUME NEW p \in Captures, Move(p) PROVE raw'[c] <= raw[c]
      <3>1. /\ pc = "move" /\ IsNext(p) /\ capture[p] # Absent
            /\ \/ raw' = raw
               \/ raw' = [raw EXCEPT ![capture[p]] = @ + 1] /\ item.as = "ingested"
        BY <2>4 DEF Move
      <3>2. CASE capture[p] = c /\ item.as = "ingested"
        <4>1. p \in todo /\ (capture[p] = item.hash \/ {item.hash, capture[p]} \subseteq disturbed \cup {Absent})
          BY <3>1 DEF ItemInv, IsNext
        <4>2. c = item.hash
          BY <3>1, <3>2, <4>1
        <4>3. item.hash \notin known /\ done \subseteq known
          BY <3>1, <3>2 DEF ViewInv, ItemSteps
        <4> QED
          BY <4>2, <4>3
      <3>3. CASE raw' = raw \/ capture[p] # c
        BY <2>1, <3>1, <3>3
      <3> QED
        BY <3>1, <3>2, <3>3
    <2>5. ASSUME NEW d \in Contents, Read(d) PROVE raw'[c] <= raw[c]
      BY <2>1, <2>5 DEF Read
    <2>6. UNCHANGED vars => UNCHANGED files
      BY DEF vars
    <2> QED
      BY <2>2, <2>3, <2>4, <2>5, <2>6, FilesAreMovedByFew
  <1> HIDE DEF Back
  <1>4. Spec => [][Back]_vars
    BY IntakeInvariant, <1>1, <1>2, <1>3, PTL DEF Spec
  <1> QED
    BY <1>4 DEF NothingReadComesBack, Back
----------------------------------------------------------------------------
(* How often a url may be taken in.                                        *)

\* A file more is at most one copy more, and only of its own url.
LEMMA OneFileMore ==
  ASSUME NEW u \in Urls, NEW c \in Contents, IsFiniteSet(CopiesOf(u)),
         raw \in [Contents -> Nat], processed \in [Contents -> Nat],
         raw' \in [Contents -> Nat], processed' \in [Contents -> Nat],
         \A d \in Contents : raw'[d] + processed'[d] = raw[d] + processed[d] + (IF d = c THEN 1 ELSE 0)
  PROVE  /\ IsFiniteSet(CopiesOf(u)')
         /\ UrlOf[c] # u => Copies(u)' = Copies(u)
         /\ Copies(u)' \in Nat /\ Copies(u) \in Nat /\ Copies(u)' <= Copies(u) + 1
  <1> DEFINE new == <<c, raw[c] + processed[c] + 1>>
  <1>1. UrlOf[c] # u => CopiesOf(u)' = CopiesOf(u)
    BY DEF CopiesOf
  <1>2. CASE UrlOf[c] # u
    BY <1>1, <1>2, FS_CardinalityType DEF Copies
  <1>3. CASE UrlOf[c] = u
    <2>1. CopiesOf(u)' \subseteq CopiesOf(u) \cup {new}
      <3> SUFFICES ASSUME NEW d \in Contents, UrlOf[d] = u, NEW n \in 1 .. raw'[d] + processed'[d]
                   PROVE  <<d, n>> \in CopiesOf(u) \cup {new}
        BY DEF CopiesOf
      <3>1. CASE n <= raw[d] + processed[d]
        <4>1. n \in 1 .. raw[d] + processed[d]
          BY <3>1
        <4> QED
          BY <4>1 DEF CopiesOf
      <3>2. CASE n > raw[d] + processed[d]
        <4>1. d = c /\ n = raw[c] + processed[c] + 1
          BY <3>2
        <4> QED
          BY <4>1
      <3> QED
        BY <3>1, <3>2
    <2> HIDE DEF new
    <2>2. /\ IsFiniteSet(CopiesOf(u) \cup {new})
          /\ Cardinality(CopiesOf(u) \cup {new}) \in {Copies(u), Copies(u) + 1}
      BY FS_AddElement DEF Copies
    <2>3. IsFiniteSet(CopiesOf(u)') /\ Copies(u)' <= Cardinality(CopiesOf(u) \cup {new})
      BY <2>1, <2>2, FS_Subset DEF Copies
    <2>4. Copies(u)' \in Nat /\ Copies(u) \in Nat
      BY <2>3, FS_CardinalityType DEF Copies
    <2> QED
      BY <1>3, <2>2, <2>3, <2>4
  <1> QED
    BY <1>2, <1>3

\* What the ledger and the history say stays, and problems only add up.
LEMMA MistakesStay ==
  ASSUME TypeOK, ItemInv, CopyInv, Next
  PROVE  /\ IsFiniteSet(disturbed') /\ Mistaken \subseteq Mistaken'
         /\ IsFiniteSet(Mistaken) /\ IsFiniteSet(Mistaken')
         /\ Cardinality(Mistaken) \in Nat /\ Cardinality(Mistaken') \in Nat
         /\ Cardinality(Mistaken) <= Cardinality(Mistaken')
         /\ recorded \subseteq recorded'
         /\ problems \in Nat /\ problems' \in Nat /\ problems <= problems'
  <1>1. IsFiniteSet(disturbed')
    <2>1. ASSUME NEW p \in Captures, NEW c \in Held, Edit(p, c) PROVE IsFiniteSet(disturbed')
      <3>1. IsFiniteSet((disturbed \cup {item.hash}) \cup {c})
        BY FS_AddElement DEF CopyInv
      <3>2. disturbed' \subseteq (disturbed \cup {item.hash}) \cup {c}
        BY <2>1 DEF Edit
      <3> QED
        BY <3>1, <3>2, FS_Subset
    <2> QED
      BY <2>1, OnlyEditsDisturb DEF CopyInv
  <1>2. \A c \in Contents : ingested[c] > 0 => ingested'[c] > 0
    <2>1. CASE UNCHANGED ingested
      BY <2>1
    <2>2. ASSUME NEW p \in Captures, Record(p)
          PROVE  \A c \in Contents : ingested[c] > 0 => ingested'[c] > 0
      BY <2>2 DEF Record, TypeOK
    <2> QED
      BY <2>1, <2>2, RecordsAreWrittenByFew
  <1>3. Mistaken \subseteq Mistaken'
    BY <1>2, NothingIsUndone DEF Mistaken, TypeOK
  <1>4. IsFiniteSet(Mistaken')
    BY <1>1, FS_Subset DEF Mistaken
  <1>5. /\ IsFiniteSet(Mistaken) /\ Cardinality(Mistaken) <= Cardinality(Mistaken')
        /\ Cardinality(Mistaken) \in Nat /\ Cardinality(Mistaken') \in Nat
    BY <1>3, <1>4, FS_Subset, FS_CardinalityType
  <1>6. recorded \subseteq recorded'
    BY DEF Next, Run, Start, Phase, Crash, Edit, EnrichStep, FetchFails, Rewrite, LocalFailure,
       Journal, Attempt, Close, Read, SweepStep, SkipFlagged, Reoffer, TakeUp, Vanished, Flag, Accept,
       Convert, Move, LogMove, Record, Untouched, ledgers
  <1>7. problems \in Nat /\ problems' \in {problems, problems + 1}
    <2>1. ASSUME NEW p \in Captures, SweepStep(p) PROVE problems' = problems
      BY <2>1 DEF SweepStep, SkipFlagged, Reoffer, TakeUp, Vanished, Flag, Accept, Convert, Move, LogMove,
         Record, Untouched, bounds
    <2>2. CASE EnrichStep
      <3>1. problems' = problems \/ problems' = problems + 1
        BY <2>2 DEF EnrichStep, FetchFails, Rewrite, LocalFailure, Journal, Attempt, Close, bounds
      <3> QED
        BY <3>1, IntakeConstants DEF TypeOK
    <2>3. CASE \/ (\E k \in BOOLEAN : Start(k)) \/ Phase \/ Crash \/ (\E c \in Contents : Read(c))
               \/ \E p \in Captures, c \in Held : Edit(p, c)
      <3>1. problems' = problems \/ problems' = problems + 1
        BY <2>3 DEF Start, Phase, Crash, Read, Edit, bounds
      <3> QED
        BY <3>1, IntakeConstants DEF TypeOK
    <2>4. problems \in Nat
      BY IntakeConstants DEF TypeOK
    <2> QED
      BY <2>1, <2>2, <2>3, <2>4 DEF Next, Run
  <1> QED
    BY <1>1, <1>3, <1>4, <1>5, <1>6, <1>7

\* What was moved is recorded next, or its run is lost.
LEMMA WhatIsAtHandStays ==
  ASSUME Next, NEW u \in Urls, AtHand(u), ~Crash, \A p \in Captures : ~Record(p), disturbed \subseteq disturbed'
  PROVE  AtHand(u)'
  <1>1. pc' \in {"log", "record"} /\ item' = item
    <2> USE DEF AtHand
    <2>1. ASSUME NEW p \in Captures, SweepStep(p) PROVE pc' \in {"log", "record"} /\ item' = item
      BY <2>1 DEF SweepStep, SkipFlagged, Reoffer, TakeUp, Sweeping, Vanished, Flag, Accept, Convert, Move,
         LogMove, sweep
    <2>2. ~EnrichStep /\ ~Phase /\ (\A c \in Contents : ~Read(c)) /\ \A b \in BOOLEAN : ~Start(b)
      BY DEF EnrichStep, FetchFails, Rewrite, LocalFailure, Fetching, Journal, Attempt, Close,
         Phase, Done, Read, Start
    <2>3. ASSUME NEW p \in Captures, NEW c \in Held, Edit(p, c)
          PROVE  pc' \in {"log", "record"} /\ item' = item
      BY <2>3 DEF Edit, sweep
    <2> QED
      BY <2>1, <2>2, <2>3 DEF Next, Run
  <1> QED
    BY <1>1 DEF AtHand

\* The sweep knows the urls and contents that are recorded, and takes in what is
\* of neither.
LEMMA UrlsAreKnown ==
  ASSUME TypeOK, ItemInv, UrlView, Next
  PROVE  UrlView'
  <1> USE DEF UrlView, ItemSteps
  <1>1. CASE (\E b \in BOOLEAN : Start(b)) \/ Phase \/ Crash \/ \E c \in Contents : Read(c)
    BY <1>1 DEF Start, KnownContents, ledgers, Phase, Done, SweepOver, Crash, Stop, Read
  <1>2. CASE EnrichStep
    BY <1>2 DEF EnrichStep, FetchFails, Fetching, Rewrite, LocalFailure, Attempt, Journal, Close,
                ledgers, sweep
  <1>3. ASSUME NEW p \in Captures, NEW c \in Held, Edit(p, c) PROVE UrlView'
    BY <1>3 DEF Edit, ledgers, sweep
  <1>4. ASSUME NEW p \in Captures,
               SkipFlagged(p) \/ Reoffer(p) \/ TakeUp(p) \/ Vanished(p) \/ (\E k \in Kinds : Flag(p, k))
        PROVE  UrlView'
    BY <1>4 DEF SkipFlagged, Reoffer, TakeUp, Sweeping, Untouched, ledgers, Vanished, Stop, Flag
  <1>5. ASSUME NEW p \in Captures, Accept(p) PROVE UrlView'
    <2>1. /\ pc = "parse" /\ pc' \in {"move", "convert"} /\ UNCHANGED <<known, urls, recorded, ingested>>
          /\ \/ item' = [item EXCEPT !.source = capture[p], !.as = "duplicate"]
             \/ /\ item' = [item EXCEPT !.source = capture[p], !.as = "ingested"]
                /\ capture[p] \in Full /\ ~IsDuplicate(capture[p])
      BY <1>5 DEF Accept, Untouched, ledgers
    <2>2. item'.as = "ingested" => UrlOf[item'.source] \notin urls
      BY <2>1 DEF TypeOK, IsDuplicate, Parses
    <2> QED
      BY <2>1, <2>2
  <1>6. ASSUME NEW p \in Captures, Convert(p) \/ Move(p) \/ LogMove(p) PROVE UrlView'
    BY <1>6 DEF Convert, Move, LogMove, ledgers, sweep
  <1>7. ASSUME NEW p \in Captures, Record(p) PROVE UrlView'
    <2>1. pc = "record" /\ pc' = "sweep" /\ recorded \subseteq urls
      BY <1>7 DEF Record
    <2>2. recorded' \subseteq urls'
      BY <1>7, <2>1 DEF Record
    <2>3. \A c \in Contents : ingested'[c] > 0 => c \in known'
      BY <1>7, <2>1 DEF Record, TypeOK
    <2> QED
      BY <2>1, <2>2, <2>3
  <1> QED
    BY <1>1, <1>2, <1>3, <1>4, <1>5, <1>6, <1>7 DEF Next, Run, SweepStep

\* A move is still to be recorded, under its url or by mistake.
LEMMA MovesAreAccountedFor ==
  ASSUME TypeOK, ItemInv, CopyInv, Next, NEW u \in Urls, FewCopies(u), TypeOK',
         NEW p \in Captures, Move(p)
  PROVE  FewCopies(u)'
  <1> DEFINE c == capture[p]
  <1>1. /\ pc = "move" /\ pc' = "log" /\ item' = item /\ disturbed' = disturbed /\ c \in Contents
        /\ p \in todo /\ IsNext(p)
        /\ UNCHANGED <<recorded, ingested, problems>>
    BY DEF Move, IsNext, ledgers, sweep, history, bounds, TypeOK, Held
  <1>2. ~AtHand(u) /\ Mistaken' = Mistaken /\ Cardinality(Mistaken) \in Nat /\ problems \in Nat
    BY <1>1, MistakesStay DEF AtHand, Mistaken
  <1>3. CASE item.as = "duplicate"
    <2>1. raw' = raw /\ processed' = processed
      BY <1>3 DEF Move
    <2>2. CopiesOf(u)' = CopiesOf(u) /\ Copies(u)' = Copies(u) /\ Copies(u) \in Nat
      BY <2>1, FS_CardinalityType DEF CopiesOf, Copies, FewCopies
    <2> QED
      BY <1>1, <1>2, <2>2 DEF FewCopies
  <1>4. CASE item.as = "ingested"
    <2>1. \A d \in Contents : raw'[d] + processed'[d] = raw[d] + processed[d] + (IF d = c THEN 1 ELSE 0)
      <3>1. \/ processed' = [processed EXCEPT ![c] = @ + 1] /\ raw' = raw
            \/ raw' = [raw EXCEPT ![c] = @ + 1] /\ processed' = processed
        BY <1>4 DEF Move
      <3>2. \A d \in Contents : raw[d] \in Nat /\ processed[d] \in Nat
        BY DEF TypeOK
      <3>3. raw \in [Contents -> Nat] /\ processed \in [Contents -> Nat] /\ c \in Contents
        BY <1>1 DEF TypeOK
      <3> HIDE DEF c
      <3> QED
        BY ONLY <3>1, <3>2, <3>3, SMTT(30)
    <2>2. /\ IsFiniteSet(CopiesOf(u)')
          /\ UrlOf[c] # u => Copies(u)' = Copies(u)
          /\ Copies(u)' \in Nat /\ Copies(u) \in Nat /\ Copies(u)' <= Copies(u) + 1
      <3> HIDE DEF c
      <3> QED
        BY <1>1, <2>1, OneFileMore DEF FewCopies, TypeOK
    <2>3. UrlOf[c] = u => AtHand(u)'
      <3>1. c = item.hash \/ item.hash \in disturbed
        BY <1>1, IntakeConstants DEF ItemInv, ItemSteps
      <3>2. item.source = item.hash \/ item.hash \in disturbed
        BY <1>1, <1>4 DEF ItemInv
      <3> QED
        BY <1>1, <1>4, <3>1, <3>2 DEF AtHand
    <2>4. recorded' = recorded /\ problems' = problems /\ Mistaken' = Mistaken /\ ~AtHand(u)
      BY <1>1, <1>2
    <2>5. Copies(u) <= problems + Cardinality(Mistaken) + (IF u \in recorded THEN 1 ELSE 0)
      BY <1>2 DEF FewCopies
    <2>6. Copies(u)' <= Copies(u) + (IF AtHand(u)' THEN 1 ELSE 0)
      BY <2>2, <2>3
    <2>7. IsFiniteSet(CopiesOf(u)')
      BY <2>2
    <2> HIDE DEF c
    <2> QED
      BY <1>2, <2>2, <2>4, <2>5, <2>6, <2>7 DEF FewCopies
  <1> QED
    BY <1>3, <1>4 DEF Move

\* A record accounts for its url, or for the content it mistook.
LEMMA RecordsAccount ==
  ASSUME TypeOK, ItemInv, ViewInv, CopyInv, Next, NEW u \in Urls, FewCopies(u),
         NEW p \in Captures, Record(p)
  PROVE  FewCopies(u)'
  <1>1. /\ pc = "record" /\ pc' = "sweep" /\ UNCHANGED <<files, problems, disturbed>>
        /\ item.hash \in Contents
    BY DEF Record, history, bounds, ItemInv, ItemSteps
  <1>2. ~AtHand(u)'
    BY <1>1 DEF AtHand
  <1>3. IsFiniteSet(CopiesOf(u)') /\ Copies(u)' = Copies(u) /\ Copies(u) \in Nat
    BY <1>1, FS_CardinalityType DEF CopiesOf, Copies, FewCopies, files
  <1>4. CASE ~AtHand(u)
    BY <1>1, <1>2, <1>3, <1>4, MistakesStay DEF FewCopies
  <1>5. CASE AtHand(u) /\ UrlOf[item.source] = u
    <2>1. u \notin recorded
      BY <1>1, <1>5 DEF AtHand, CopyInv, UrlView, ItemSteps
    <2>2. u \in recorded'
      BY <1>5, IntakeConstants DEF AtHand, Record
    <2> QED
      BY <1>1, <1>2, <1>3, <1>5, <2>1, <2>2, MistakesStay DEF FewCopies
  <1>6. CASE AtHand(u) /\ item.hash \in disturbed
    <2>1. item.as = "ingested" /\ item.hash \notin known
      BY <1>1, <1>6 DEF AtHand, ViewInv
    <2>2. item.hash \notin Mistaken
      BY <1>1, <2>1 DEF Mistaken, CopyInv, UrlView, ItemSteps
    <2>3. ingested'[item.hash] > 0
      BY <1>1, <2>1 DEF Record, TypeOK
    <2>4. Mistaken \cup {item.hash} \subseteq Mistaken'
      BY <1>1, <1>6, <2>3, MistakesStay DEF Mistaken
    <2>5. Cardinality(Mistaken) + 1 <= Cardinality(Mistaken')
      <3>1. Cardinality(Mistaken \cup {item.hash}) = Cardinality(Mistaken) + 1
        BY <2>2, MistakesStay, FS_AddElement
      <3> QED
        BY <2>4, <3>1, MistakesStay, FS_Subset
    <2> QED
      BY <1>1, <1>2, <1>3, <1>6, <2>5, MistakesStay DEF FewCopies
  <1> QED
    BY <1>4, <1>5, <1>6 DEF AtHand

LEMMA CopiesStayFew ==
  ASSUME TypeOK, TypeOK', ItemInv, ViewInv, CopyInv, Next, NEW u \in Urls, FewCopies(u)
  PROVE  FewCopies(u)'
  <1>1. ASSUME CopiesOf(u)' = CopiesOf(u), \A p \in Captures : ~Record(p)
        PROVE  FewCopies(u)'
    <2>1. IsFiniteSet(CopiesOf(u)') /\ Copies(u)' = Copies(u) /\ Copies(u) \in Nat
      BY <1>1, FS_CardinalityType DEF Copies, FewCopies
    <2>2. CASE Crash
      <3>1. problems' = problems + 1
        BY <2>2 DEF Crash
      <3> QED
        BY <2>1, <3>1, MistakesStay DEF FewCopies
    <2>3. CASE ~Crash
      <3>1. AtHand(u) => AtHand(u)'
        BY <1>1, <2>3, WhatIsAtHandStays, NothingIsUndone
      <3> QED
        BY <2>1, <3>1, MistakesStay DEF FewCopies
    <2> QED
      BY <2>2, <2>3
  <1>2. CASE UNCHANGED files
    <2>1. CopiesOf(u)' = CopiesOf(u)
      BY <1>2 DEF files, CopiesOf
    <2> QED
      BY <1>1, <2>1, RecordsAccount
  <1>3. ASSUME NEW p \in Captures, Convert(p) PROVE FewCopies(u)'
    <2>1. MarkdownOf[item.source] \in Contents /\ UrlOf[MarkdownOf[item.source]] # u
      BY <1>3, IntakeConstants DEF Convert, ViewInv, ItemInv
    <2>2. CopiesOf(u)' = CopiesOf(u)
      <3>1. \A d \in Contents : UrlOf[d] = u => raw'[d] = raw[d] /\ processed'[d] = processed[d]
        BY <1>3, <2>1 DEF Convert, TypeOK
      <3> QED
        BY <3>1 DEF CopiesOf
    <2> QED
      BY <1>1, <1>3, <2>2 DEF Convert, Record
  <1>4. ASSUME NEW c \in Contents, Read(c) PROVE FewCopies(u)'
    <2>1. \A d \in Contents : raw'[d] + processed'[d] = raw[d] + processed[d]
      <3>1. CASE UNCHANGED <<raw, processed>>
        BY <3>1
      <3>2. CASE raw' = [raw EXCEPT ![c] = @ - 1] /\ processed' = [processed EXCEPT ![c] = @ + 1]
        BY <1>4, <3>2 DEF Read, TypeOK
      <3> QED
        BY <1>4, <3>1, <3>2 DEF Read
    <2>2. CopiesOf(u)' = CopiesOf(u)
      BY <2>1 DEF CopiesOf
    <2> QED
      BY <1>1, <1>4, <2>2 DEF Read, Record
  <1> QED
    BY <1>2, <1>3, <1>4, MovesAreAccountedFor, FilesAreMovedByFew

\* A url is taken in once, but for one more copy for each run that is lost or
\* content that is disturbed (known_content_hashes, known_urls and the order of the
\* move and its record, sweep.rs); and what was read does not come back.
THEOREM SourcesAreTakenInOnce == Spec => TakenInOnce
  <1> DEFINE Few == \A u \in Urls : Copies(u) <= 1 + problems + Cardinality(disturbed)
  <1>1. Init => ViewInv /\ CopyInv
    <2> SUFFICES ASSUME Init PROVE ViewInv /\ CopyInv
      OBVIOUS
    <2>1. pc = "off" /\ problems = 0 /\ disturbed = {} /\ Mistaken = {} /\ recorded = {}
      BY DEF Init, Mistaken
    <2>2. \A u \in Urls : CopiesOf(u) = {} /\ ~AtHand(u)
      BY DEF Init, None, CopiesOf, AtHand
    <2>3. IsFiniteSet({}) /\ Cardinality({}) = 0
      BY FS_EmptySet
    <2> QED
      BY <2>1, <2>2, <2>3 DEF ViewInv, CopyInv, UrlView, FewCopies, ItemSteps, Copies, Init
  <1>2. IntakeInv /\ ViewInv /\ CopyInv /\ IntakeInv' /\ [Next]_vars => ViewInv' /\ CopyInv'
    <2> SUFFICES ASSUME IntakeInv, ViewInv, CopyInv, IntakeInv', [Next]_vars PROVE ViewInv' /\ CopyInv'
      OBVIOUS
    <2>1. CASE Next
      <3>1. ViewInv'
        BY <2>1, ViewsAreKept DEF IntakeInv
      <3>2. UrlView'
        BY <2>1, UrlsAreKnown DEF IntakeInv, CopyInv, UrlView
      <3>3. \A u \in Urls : FewCopies(u)'
        BY <2>1, CopiesStayFew DEF IntakeInv, CopyInv
      <3>4. IsFiniteSet(disturbed')
        BY <2>1, MistakesStay DEF IntakeInv
      <3> QED
        BY <3>1, <3>2, <3>3, <3>4 DEF CopyInv, UrlView, FewCopies
    <2>2. CASE UNCHANGED vars
      <3> USE <2>2 DEF vars, files, ledgers, sweep, history, bounds
      <3>1. ViewInv'
        BY DEF ViewInv
      <3>2. \A u \in Urls : CopiesOf(u)' = CopiesOf(u) /\ Copies(u)' = Copies(u) /\ (AtHand(u)' <=> AtHand(u))
        BY DEF CopiesOf, Copies, AtHand
      <3>3. Mistaken' = Mistaken
        BY DEF Mistaken
      <3> QED
        BY <3>1, <3>2, <3>3 DEF CopyInv, UrlView, FewCopies
    <2> QED
      BY <2>1, <2>2
  <1>3. IntakeInv /\ ViewInv /\ CopyInv => Few
    <2> SUFFICES ASSUME IntakeInv, ViewInv, CopyInv, NEW u \in Urls
                 PROVE  Copies(u) <= 1 + problems + Cardinality(disturbed)
      OBVIOUS
    <2>1. /\ problems \in Nat /\ Copies(u) \in Nat
          /\ Copies(u) <= problems + Cardinality(Mistaken) + (IF u \in recorded THEN 1 ELSE 0)
                            + (IF AtHand(u) THEN 1 ELSE 0)
      BY IntakeConstants, FS_CardinalityType DEF CopyInv, FewCopies, IntakeInv, TypeOK, Copies
    <2>2. /\ IsFiniteSet(Mistaken) /\ Cardinality(Mistaken) <= Cardinality(disturbed)
          /\ Cardinality(Mistaken) \in Nat /\ Cardinality(disturbed) \in Nat
      BY FS_Subset, FS_CardinalityType DEF CopyInv, Mistaken
    <2>3. CASE ~(u \in recorded /\ AtHand(u))
      BY <2>1, <2>2, <2>3
    <2>4. CASE u \in recorded /\ AtHand(u)
      <3>1. item.hash \in disturbed /\ item.hash \notin known /\ item.hash \in Contents
        BY <2>4 DEF AtHand, CopyInv, UrlView, ViewInv, ItemSteps, IntakeInv, ItemInv
      <3>2. item.hash \notin Mistaken
        BY <2>4, <3>1 DEF Mistaken, CopyInv, UrlView, AtHand, ItemSteps
      <3>3. Mistaken \cup {item.hash} \subseteq disturbed
        BY <3>1 DEF Mistaken
      <3>4. Cardinality(Mistaken) + 1 <= Cardinality(disturbed)
        <4>1. Cardinality(Mistaken \cup {item.hash}) = Cardinality(Mistaken) + 1
          BY <2>2, <3>2, FS_AddElement
        <4>2. Cardinality(Mistaken \cup {item.hash}) <= Cardinality(disturbed)
          BY <3>3, FS_Subset DEF CopyInv
        <4> QED
          BY <4>1, <4>2
      <3> QED
        BY <2>1, <2>2, <3>4
    <2> QED
      BY <2>3, <2>4
  <1> HIDE DEF Few
  <1>4. Spec => []Few
    BY IntakeInvariant, <1>1, <1>2, <1>3, PTL DEF Spec
  <1> QED
    BY <1>4, WhatWasReadStaysRead DEF TakenInOnce, Few

----------------------------------------------------------------------------
(* How often a content may be fetched.                                     *)

\* The phases of a run: what is offered is not yet fetched, what was fetched is
\* not offered, and the sweep sees the closings of the runs before it.
LEMMA StartKeepsPhases ==
  ASSUME TypeOK, PhaseInv, NEW b \in BOOLEAN, Start(b)
  PROVE  PhaseInv'
  BY DEF Start, PhaseInv, Sweeps, ItemSteps, Closed, ledgers, enrich, history

LEMMA SweepKeepsPhases ==
  ASSUME TypeOK, ItemInv, PhaseInv, NEW p \in Captures, SweepStep(p)
  PROVE  PhaseInv'
  <1> USE DEF PhaseInv, Sweeps, ItemSteps, Closed, Untouched, ledgers, enrich, history, sweep
  <1>1. CASE Reoffer(p)
    <2>1. /\ pc = "offer" /\ pc' = "sweep" /\ result = NoResults /\ result' = NoResults
          /\ UNCHANGED <<capture, disturbed, flag, flagged>>
      BY <1>1 DEF Reoffer
    <2>2. \A q \in Captures : offer'[q] # NoUrl => offer[q] # NoUrl \/ UrlOf[capture[q]] # NoUrl
      BY <1>1 DEF Reoffer, TypeOK
    <2> QED
      BY <2>1, <2>2 DEF NoResults
  <1>9. CASE SkipFlagged(p)
    BY <1>9 DEF SkipFlagged, Sweeping
  <1>2. CASE TakeUp(p)
    BY <1>2 DEF TakeUp, Sweeping, TypeOK, Held
  <1>3. CASE Vanished(p)
    BY <1>3 DEF Vanished, Stop, NoOffers, NoResults
  <1>4. ASSUME NEW k \in Kinds, Flag(p, k) PROVE PhaseInv'
    <2>1. /\ item.hash \in Contents /\ ~Closed(item.hash) /\ k # "content_unavailable"
          /\ flag' = [flag EXCEPT ![item.hash] = k] /\ flagged' = flagged
          /\ pc = "parse" /\ pc' = "sweep" /\ result' = result /\ capture' = capture
          /\ disturbed' = disturbed
      BY <1>4 DEF Flag, ItemInv
    <2>2. \A c \in Contents : Closed(c)' <=> Closed(c)
      BY <2>1 DEF TypeOK
    <2>3. \A q \in Captures : offer'[q] # NoUrl => offer[q] # NoUrl \/ UrlOf[capture[q]] # NoUrl
      BY <1>4 DEF Flag, TypeOK
    <2>4. result = NoResults
      BY <2>1
    <2>5. \A c \in Contents : Closed(c)' <=> flagged'[c] = "content_unavailable"
      BY <2>1, <2>2
    <2> QED
      BY <2>1, <2>3, <2>4, <2>5 DEF NoResults
  <1>5. CASE Accept(p)
    BY <1>5 DEF Accept
  <1>6. CASE Convert(p) \/ LogMove(p)
    BY <1>6 DEF Convert, LogMove
  <1>7. CASE Move(p)
    BY <1>7 DEF Move, TypeOK
  <1>8. CASE Record(p)
    BY <1>8 DEF Record
  <1> QED
    BY <1>1, <1>2, <1>3, <1>4, <1>5, <1>6, <1>7, <1>8, <1>9 DEF SweepStep

LEMMA EnrichKeepsPhases ==
  ASSUME TypeOK, PhaseInv, EnrichStep \/ \E c \in Contents : Read(c)
  PROVE  PhaseInv'
  <1> USE DEF PhaseInv, Sweeps, ItemSteps, ledgers, enrich, history, sweep, Fetching, bounds
  <1>1. ASSUME NEW p \in Captures, FetchFails(p) PROVE PhaseInv'
    BY <1>1 DEF FetchFails, TypeOK
  <1>2. ASSUME NEW p \in Captures, Rewrite(p) PROVE PhaseInv'
    <2>1. /\ capture[p] \in Contents /\ capture' = [capture EXCEPT ![p] = Enriched[capture[p]]]
          /\ offer' = [offer EXCEPT ![p] = NoUrl] /\ result' = [result EXCEPT ![p] = "enriched"]
          /\ pc = "fetch" /\ pc' = "journal" /\ disturbed' = disturbed
      <3> HIDE DEF PhaseInv
      <3> QED
        BY <1>2 DEF Rewrite, TypeOK, Held
    <2>2. Enriched[capture[p]] \in Documents <=> capture[p] \in Documents
      BY <2>1, IntakeConstants
    <2>3. capture[p] # Absent
      BY <1>2 DEF Rewrite
    <2>4. ASSUME NEW q \in Captures, q # p
          PROVE  capture'[q] = capture[q] /\ offer'[q] = offer[q] /\ result'[q] = result[q]
      BY <2>1, <2>4 DEF TypeOK
    <2>5. capture'[p] = Enriched[capture[p]] /\ offer'[p] = NoUrl /\ result'[p] = "enriched"
      BY <2>1 DEF TypeOK
    <2>6. \A q \in Captures :
             /\ offer'[q] # NoUrl => result'[q] = "none"
             /\ capture'[q] # Absent => (capture'[q] \in Documents <=> q \in DocumentFiles)
             /\ offer'[q] # NoUrl \/ result'[q] = "failed" =>
                   capture'[q] \in disturbed' \cup {Absent} \/ UrlOf[capture'[q]] # NoUrl
      <3> TAKE q \in Captures
      <3>1. CASE q = p
        BY <2>2, <2>3, <2>5, <3>1
      <3>2. CASE q # p
        BY <2>1, <2>4, <3>2
      <3> QED
        BY <3>1, <3>2
    <2> QED
      BY <2>1, <2>6
  <1>3. ASSUME NEW p \in Captures, LocalFailure(p) PROVE PhaseInv'
    BY <1>3 DEF LocalFailure, TypeOK
  <1>4. ASSUME NEW p \in Captures, Attempt(p) PROVE PhaseInv'
    <2>1. /\ pc = "attempts" /\ pc' \in {"attempts", "close"} /\ result' = [result EXCEPT ![p] = "none"]
          /\ offer' = offer /\ capture' = capture /\ disturbed' = disturbed
      BY <1>4 DEF Attempt
    <2> QED
      BY <2>1 DEF TypeOK
  <1>5. CASE Journal
    BY <1>5 DEF Journal, NoOffers
  <1>6. CASE Close
    BY <1>6 DEF Close
  <1>7. ASSUME NEW c \in Contents, Read(c) PROVE PhaseInv'
    BY <1>7 DEF Read
  <1> QED
    BY <1>1, <1>2, <1>3, <1>4, <1>5, <1>6, <1>7 DEF EnrichStep

LEMMA OthersKeepPhases ==
  ASSUME TypeOK, PhaseInv, Phase \/ Crash \/ \E p \in Captures, c \in Held : Edit(p, c)
  PROVE  PhaseInv'
  <1> USE DEF PhaseInv, Sweeps, ItemSteps, ledgers, enrich, history, sweep, bounds, Closed
  <1>1. CASE Phase
    BY <1>1 DEF Phase, Done
  <1>2. CASE Crash
    BY <1>2 DEF Crash, Stop, NoOffers, NoResults
  <1>3. ASSUME NEW p \in Captures, NEW c \in Held, Edit(p, c) PROVE PhaseInv'
    <2>1. /\ UNCHANGED <<pc, offer, result, item, flag, flagged>> /\ disturbed \subseteq disturbed'
          /\ capture' = [capture EXCEPT ![p] = c] /\ Fits(p, c)
      BY <1>3 DEF Edit
    <2>2. offer[p] # NoUrl \/ result[p] = "failed" => c \in disturbed' \cup {Absent}
      BY <1>3 DEF Edit, UnderWay
    <2> QED
      BY <2>1, <2>2 DEF TypeOK, Fits
  <1> QED
    BY <1>1, <1>2, <1>3

LEMMA NextKeepsPhases ==
  ASSUME TypeOK, ItemInv, PhaseInv, Next
  PROVE  PhaseInv'
  BY StartKeepsPhases, SweepKeepsPhases, EnrichKeepsPhases, OthersKeepPhases DEF Next, Run
\* Multiplying keeps the order.
LEMMA Products ==
  ASSUME NEW m \in Nat, NEW x \in Nat, NEW y \in Nat
  PROVE  /\ m * x \in Nat
         /\ y <= x => m * y <= m * x
         /\ y <= x + 1 => m * y <= m * x + m
         /\ x = y + 1 => m * x = m * y + m
  <1>1. m * x \in Nat /\ m * (y + 1) = m * y + m /\ m * (x + 1) = m * x + m
    BY Z3
  <1>2. ASSUME NEW a \in Nat, NEW b \in Nat, a <= b PROVE m * a <= m * b
    <2>1. PICK d \in Nat : b = a + d
      <3>1. b - a \in Nat /\ b = a + (b - a)
        BY <1>2
      <3> QED
        BY <3>1
    <2>2. m * (a + d) = m * a + m * d /\ m * d \in Nat /\ m * a \in Nat
      BY Z3
    <2> QED
      BY <2>1, <2>2
  <1>3. x + 1 \in Nat
    OBVIOUS
  <1> QED
    BY <1>1, <1>2, <1>3

LEMMA SumsGrow ==
  ASSUME NEW a \in Nat, NEW b \in Nat, NEW c \in Nat, NEW d \in Nat, c >= a, d >= b
  PROVE  /\ a + b \in Nat /\ c + d \in Nat /\ a + b <= c + d
         /\ c = a + 1 \/ d = b + 1 => c + d >= a + b + 1
  OBVIOUS

\* What a content's accounts are made of.
LEMMA AccountsAreNumbers ==
  ASSUME TypeOK, NEW c \in Contents
  PROVE  /\ IsFiniteSet(Uncounted(c)) /\ Cardinality(Uncounted(c)) \in Nat
         /\ IsFiniteSet(Resetting(c)) /\ Cardinality(Resetting(c)) \in Nat
         /\ Spent(c) \in Nat /\ Spent(c) >= fetched[c]
         /\ Spent(c) = fetched[c] + (MaxAttempts - 1) * Cardinality(Resetting(c))
         /\ (MaxAttempts - 1) * Cardinality(Resetting(c)) \in Nat
         /\ PerRun \in Nat /\ Granted \in Nat
         /\ fetched[c] \in Nat /\ failures[c] \in Nat /\ MaxAttempts - 1 \in Nat
  <1>1. IsFiniteSet(Captures) /\ IsFiniteSet(Notes)
    BY FS_Subset, IntakeConstants DEF Notes
  <1>2. /\ IsFiniteSet(Uncounted(c)) /\ Cardinality(Uncounted(c)) \in Nat
        /\ IsFiniteSet(Resetting(c)) /\ Cardinality(Resetting(c)) \in Nat
    BY <1>1, FS_Subset, FS_CardinalityType DEF Uncounted, Resetting
  <1>3. PerRun \in Nat
    BY <1>1, FS_CardinalityType DEF PerRun
  <1>4. MaxAttempts - 1 \in Nat /\ MaxAttempts \in Nat
    BY IntakeConstants
  <1>5. edits \in Nat /\ problems + retries \in Nat /\ fetched[c] \in Nat /\ failures[c] \in Nat
    BY IntakeConstants DEF TypeOK
  <1>6. PerRun * (problems + retries) \in Nat /\ MaxAttempts * edits \in Nat
    BY <1>3, <1>4, <1>5, Products
  <1>7. (MaxAttempts - 1) * Cardinality(Resetting(c)) \in Nat
    BY <1>2, <1>4, Products
  <1> QED
    BY <1>2, <1>3, <1>4, <1>5, <1>6, <1>7 DEF Spent, Granted

\* Kills, forced runs and edits grant fetches, and nothing takes them back.
LEMMA GrantsGrow ==
  ASSUME TypeOK, TypeOK', Next
  PROVE  /\ Granted \in Nat /\ Granted' \in Nat /\ Granted' >= Granted
         /\ problems' = problems + 1 \/ retries' = retries + 1 => Granted' >= Granted + PerRun
         /\ edits' = edits + 1 => Granted' >= Granted + MaxAttempts
  <1>1. edits' \in {edits, edits + 1} /\ problems' \in {problems, problems + 1} /\ retries' \in {retries, retries + 1}
    BY DEF Next, Run, Start, Phase, Crash, EnrichStep, FetchFails, Rewrite, LocalFailure, Edit,
       Journal, Attempt, Close, Read, SweepStep, SkipFlagged, Reoffer, TakeUp, Vanished, Flag, Accept,
       Convert, Move, LogMove, Record, Untouched, bounds
  <1>2. PerRun \in Nat /\ MaxAttempts \in Nat
    <2>1. IsFiniteSet(Notes)
      BY FS_Subset, IntakeConstants DEF Notes
    <2> QED
      BY <2>1, FS_CardinalityType, IntakeConstants DEF PerRun
  <1>3. /\ problems \in Nat /\ problems' \in Nat /\ problems' >= problems
        /\ retries \in Nat /\ retries' \in Nat /\ retries' >= retries
        /\ edits \in Nat /\ edits' \in Nat /\ edits' >= edits
    <2>1. edits \in 0 .. MaxEdits /\ problems \in 0 .. MaxProblems /\ retries \in 0 .. MaxRetries
      BY DEF TypeOK
    <2>2. MaxEdits \in Nat /\ MaxProblems \in Nat /\ MaxRetries \in Nat
      BY IntakeConstants
    <2>3. problems \in Nat /\ retries \in Nat /\ edits \in Nat
      BY <2>1, <2>2
    <2> QED
      BY <1>1, <2>3
  <1>4. PerRun' = PerRun /\ Granted = PerRun * (problems + retries) + MaxAttempts * edits
        /\ Granted' = PerRun * (problems' + retries') + MaxAttempts * edits'
    BY DEF PerRun, Notes, Granted
  <1>5. ASSUME NEW x \in Nat, NEW y \in Nat, NEW e \in Nat, NEW f \in Nat, x <= y, e <= f
        PROVE  /\ PerRun * x + MaxAttempts * e \in Nat /\ PerRun * y + MaxAttempts * f \in Nat
               /\ PerRun * y + MaxAttempts * f >= PerRun * x + MaxAttempts * e
               /\ y >= x + 1 => PerRun * y + MaxAttempts * f >= PerRun * x + MaxAttempts * e + PerRun
               /\ f = e + 1 => PerRun * y + MaxAttempts * f >= PerRun * x + MaxAttempts * e + MaxAttempts
    <2>1. /\ PerRun * x \in Nat /\ PerRun * y \in Nat /\ MaxAttempts * e \in Nat /\ MaxAttempts * f \in Nat
          /\ PerRun * x <= PerRun * y /\ MaxAttempts * e <= MaxAttempts * f
          /\ f = e + 1 => MaxAttempts * f = MaxAttempts * e + MaxAttempts
      BY <1>2, <1>5, Products
    <2>2. y >= x + 1 => PerRun * x + PerRun <= PerRun * y
      <3>1. x + 1 \in Nat /\ PerRun * (x + 1) = PerRun * x + PerRun
        BY <1>2, Products
      <3> QED
        BY <1>2, <3>1, Products
    <2> QED
      BY <1>2, <2>1, <2>2
  <1>6. /\ problems + retries \in Nat /\ problems' + retries' \in Nat
        /\ problems + retries <= problems' + retries'
        /\ problems' = problems + 1 \/ retries' = retries + 1 => problems' + retries' >= problems + retries + 1
    BY <1>3, SumsGrow
  <1>7. ASSUME NEW x \in Nat, NEW y \in Nat, x = problems + retries, y = problems' + retries'
        PROVE  /\ Granted \in Nat /\ Granted' \in Nat /\ Granted' >= Granted
               /\ y >= x + 1 => Granted' >= Granted + PerRun
               /\ edits' = edits + 1 => Granted' >= Granted + MaxAttempts
    BY <1>3, <1>4, <1>5, <1>6, <1>7
  <1> QED
    BY <1>6, <1>7

\* What a run did not yet count of a content is one fetch of each note at most.
LEMMA UncountedAreNotes ==
  ASSUME TypeOK, PhaseInv, NEW c \in Contents, c \notin disturbed
  PROVE  /\ Uncounted(c) \subseteq Notes
         /\ Cardinality(Uncounted(c)) <= PerRun
  <1>1. Uncounted(c) \subseteq Notes
    <2> SUFFICES ASSUME NEW p \in Captures, capture[p] = c, result[p] = "failed" PROVE p \notin DocumentFiles
      BY DEF Uncounted, Notes
    <2>1. UrlOf[c] # NoUrl /\ (c \in Documents <=> p \in DocumentFiles)
      BY IntakeConstants DEF PhaseInv
    <2> QED
      BY <2>1, IntakeConstants
  <1> QED
    BY <1>1, FS_Subset, FS_CardinalityType, IntakeConstants DEF Notes, PerRun
\* A step that leaves a content's accounts alone, and offers it only if it may be.
LEMMA AccountsLeftAlone ==
  ASSUME TypeOK, TypeOK', Next, NEW c \in Contents, BudgetInv(c),
         fetched'[c] = fetched[c], failures'[c] = failures[c],
         Uncounted(c)' = Uncounted(c), Resetting(c)' = Resetting(c),
         Closed(c) => Closed(c)',
         pc = "close" /\ item.hash = c => (pc' = "close" /\ item'.hash = c) \/ Closed(c)',
         Offered(c)' # {} \/ (retry' /\ pc' \in Sweeps) =>
            Offered(c) # {} \/ (retry /\ pc \in Sweeps) \/ MayFetch(c)
  PROVE  BudgetInv(c)'
  <1> USE AccountsAreNumbers, GrantsGrow
  <1>1. Spent(c)' = Spent(c) /\ PerRun' = PerRun
    BY DEF Spent, PerRun, Notes
  <1>2. Counted(c) => Counted(c)'
    BY <1>1 DEF Counted
  <1>3. MayFetch(c) => MayFetch(c)'
    BY <1>1 DEF MayFetch
  <1>4. fetched'[c] <= (MaxAttempts - 1) + PerRun' + Granted'
    BY <1>1 DEF BudgetInv
  <1> QED
    BY <1>2, <1>3, <1>4 DEF BudgetInv

\* A fetch that fails was offered, so that it may be: it is one more to count.
LEMMA FailuresAreCharged ==
  ASSUME TypeOK, TypeOK', PhaseInv, PhaseInv', Next, NEW c \in Contents, BudgetInv(c),
         NEW p \in Captures, FetchFails(p), capture[p] = c, c \notin disturbed
  PROVE  BudgetInv(c)'
  <1>1. /\ pc = "fetch" /\ offer[p] # NoUrl /\ pc' = pc /\ retry' = retry /\ capture' = capture
        /\ result' = [result EXCEPT ![p] = "failed"] /\ fetched' = [fetched EXCEPT ![c] = @ + 1]
        /\ failures' = failures /\ flag' = flag /\ disturbed' = disturbed
        /\ UNCHANGED <<edits, problems, retries>> /\ c # Absent
    BY IntakeConstants DEF FetchFails, Fetching, ledgers, bounds
  <1>2. result[p] = "none" /\ MayFetch(c)
    BY <1>1 DEF PhaseInv, BudgetInv, Offered
  <1>3. Uncounted(c)' = Uncounted(c) \cup {p} /\ p \notin Uncounted(c) /\ Resetting(c)' = Resetting(c)
    BY <1>1, <1>2 DEF Uncounted, Resetting, TypeOK
  <1>4. Cardinality(Uncounted(c)') = Cardinality(Uncounted(c)) + 1
    BY ZenonT(60), <1>3, AccountsAreNumbers, FS_AddElement
  <1>5. fetched'[c] = fetched[c] + 1 /\ failures'[c] = failures[c]
    BY <1>1 DEF TypeOK
  <1>6. Spent(c)' = Spent(c) + 1 /\ Granted' = Granted /\ PerRun' = PerRun
    <2>1. Granted' = Granted /\ PerRun' = PerRun
      BY <1>1 DEF Granted, PerRun, Notes
    <2>2. Spent(c)' = fetched'[c] + (MaxAttempts - 1) * Cardinality(Resetting(c))
      BY <1>3 DEF Spent
    <2> QED
      BY <1>5, <2>1, <2>2, AccountsAreNumbers
  <1>7. MayFetch(c)'
    BY <1>2, <1>4, <1>6, AccountsAreNumbers DEF MayFetch
  <1>8. ~Closed(c)' => Counted(c)'
    BY <1>1, <1>4, <1>5, <1>6, AccountsAreNumbers DEF BudgetInv, Counted, Closed
  <1>9. fetched'[c] <= (MaxAttempts - 1) + PerRun' + Granted'
    <2>1. Cardinality(Uncounted(c)') <= PerRun /\ Spent(c)' >= fetched'[c]
      <3>1. Spent(c)' >= fetched'[c]
        BY <1>5, <1>6, AccountsAreNumbers
      <3>2. p \in Notes
        <4>1. UrlOf[c] # NoUrl /\ (c \in Documents <=> p \in DocumentFiles)
          BY <1>1 DEF PhaseInv
        <4> QED
          BY <4>1, IntakeConstants DEF Notes
      <3>3. Uncounted(c)' \subseteq Notes /\ IsFiniteSet(Notes)
        BY <1>3, <3>2, UncountedAreNotes, FS_Subset, IntakeConstants DEF Notes
      <3> QED
        BY <3>1, <3>3, FS_Subset DEF PerRun
    <2> QED
      BY <1>4, <1>5, <1>6, <1>7, <2>1, AccountsAreNumbers DEF MayFetch
  <1> QED
    BY <1>7, <1>8, <1>9 DEF BudgetInv
\* A kill forgets what was not counted, at most one fetch of each note.
LEMMA KillsArePaidFor ==
  ASSUME TypeOK, TypeOK', PhaseInv, Next, NEW c \in Contents, BudgetInv(c), c \notin disturbed, Crash
  PROVE  BudgetInv(c)'
  <1>1. /\ pc' = "off" /\ offer' = NoOffers /\ result' = NoResults /\ problems' = problems + 1
        /\ fetched' = fetched /\ failures' = failures /\ flag' = flag
    BY DEF Crash, Stop, ledgers, history
  <1>2. Uncounted(c)' = {} /\ Resetting(c)' = {} /\ Offered(c)' = {}
    BY <1>1 DEF Uncounted, Resetting, Offered, NoOffers, NoResults
  <1>3. Cardinality(Uncounted(c)') = 0 /\ Spent(c)' = fetched[c]
    <2>1. Cardinality({}) = 0
      BY FS_EmptySet
    <2>2. (MaxAttempts - 1) * 0 = 0
      BY IntakeConstants
    <2> QED
      BY <1>1, <1>2, <2>1, <2>2, AccountsAreNumbers DEF Spent
  <1>4. Cardinality(Uncounted(c)) <= PerRun /\ Granted' >= Granted + PerRun /\ Granted' \in Nat
    BY <1>1, UncountedAreNotes, GrantsGrow
  <1>5. fetched[c] <= (MaxAttempts - 1) + PerRun + Granted
    BY DEF BudgetInv
  <1>6. MayFetch(c)' /\ fetched'[c] <= (MaxAttempts - 1) + PerRun' + Granted'
    <2>1. PerRun' = PerRun
      BY DEF PerRun, Notes
    <2>2. fetched[c] <= (MaxAttempts - 1) + Granted'
      BY <1>4, <1>5, AccountsAreNumbers
    <2> QED
      BY <1>1, <1>3, <1>4, <2>1, <2>2, AccountsAreNumbers DEF MayFetch
  <1>7. ~Closed(c)' => Counted(c)'
    BY <1>1, <1>3, <1>4, AccountsAreNumbers DEF BudgetInv, Counted, Closed
  <1> QED
    BY <1>6, <1>7 DEF BudgetInv

\* An attempt moves a failure from the run's results to the ledger, or lets a
\* success reset those of the content.
LEMMA AttemptsAreCounted ==
  ASSUME TypeOK, TypeOK', PhaseInv, Next, NEW c \in Contents, BudgetInv(c),
         NEW p \in Captures, Attempt(p), capture[p] = c
  PROVE  BudgetInv(c)'
  <1>1. /\ pc = "attempts" /\ pc' \in {"attempts", "close"} /\ retry' = retry /\ offer' = offer /\ capture' = capture
        /\ result' = [result EXCEPT ![p] = "none"] /\ result[p] \in {"failed", "enriched"}
        /\ fetched' = fetched /\ flag' = flag /\ offer = NoOffers
        /\ UNCHANGED <<edits, problems, retries>> /\ c # Absent
    BY IntakeConstants DEF Attempt, bounds, history, PhaseInv, Sweeps, ItemSteps, TypeOK
  <1>2. Granted' = Granted /\ PerRun' = PerRun /\ fetched'[c] = fetched[c]
    BY <1>1 DEF Granted, PerRun, Notes
  <1>3. Offered(c)' = {} /\ ~(retry' /\ pc' \in Sweeps)
    BY <1>1 DEF Offered, NoOffers, Sweeps, ItemSteps
  <1>4. fetched'[c] <= (MaxAttempts - 1) + PerRun' + Granted'
    BY <1>2 DEF BudgetInv
  <1>5. ~Closed(c) => Counted(c) /\ MayFetch(c)
    BY <1>1 DEF BudgetInv
  <1>6. CASE result[p] = "failed"
    <2>1. /\ failures' = [failures EXCEPT ![c] = @ + 1]
          /\ \/ pc' = "close" /\ item'.hash = c
             \/ ~(failures'[c] >= MaxAttempts)
      BY <1>1, <1>6 DEF Attempt, Exhausted, NoItem
    <2>2. failures'[c] = failures[c] + 1
      BY <2>1 DEF TypeOK
    <2>3. Uncounted(c)' = Uncounted(c) \ {p} /\ p \in Uncounted(c) /\ Resetting(c)' = Resetting(c)
      BY <1>1, <1>6 DEF Uncounted, Resetting, TypeOK
    <2>4. Cardinality(Uncounted(c)') = Cardinality(Uncounted(c)) - 1
      BY ZenonT(60), <2>3, AccountsAreNumbers, FS_RemoveElement
    <2>5. Spent(c)' = Spent(c)
      BY <1>2, <2>3 DEF Spent
    <2>6. ~Closed(c) => Counted(c)'
      BY <1>2, <1>5, <2>2, <2>4, <2>5, AccountsAreNumbers DEF Counted
    <2>7. ~Closed(c) /\ failures'[c] <= MaxAttempts - 1 => MayFetch(c)'
      <3>1. ~Closed(c) => Spent(c) <= failures'[c] + (Cardinality(Uncounted(c)) - 1) + Granted
        BY <1>5, <2>2, AccountsAreNumbers DEF Counted
      <3> QED
        BY <1>2, <2>2, <2>4, <2>5, <3>1, AccountsAreNumbers DEF MayFetch
    <2>8. failures'[c] <= MaxAttempts - 1 \/ (pc' = "close" /\ item'.hash = c)
      <3>1. MaxAttempts \in Nat /\ failures'[c] \in Nat
        BY <2>2, AccountsAreNumbers, IntakeConstants
      <3> QED
        BY <2>1, <3>1
    <2>9. Closed(c)' = Closed(c)
      BY <1>1 DEF Closed
    <2> QED
      BY <1>3, <1>4, <2>6, <2>7, <2>8, <2>9 DEF BudgetInv
  <1>7. CASE result[p] = "enriched"
    <2>1. failures' = [failures EXCEPT ![c] = 0] /\ pc' = pc
      BY <1>1, <1>7 DEF Attempt
    <2>2. failures'[c] = 0
      BY <2>1 DEF TypeOK
    <2>3. Resetting(c)' = Resetting(c) \ {p} /\ p \in Resetting(c) /\ Uncounted(c)' = Uncounted(c)
      BY <1>1, <1>7 DEF Uncounted, Resetting, TypeOK
    <2>4. Cardinality(Resetting(c)) = Cardinality(Resetting(c)') + 1 /\ Cardinality(Resetting(c)') \in Nat
      <3>1. Cardinality(Resetting(c) \ {p}) = Cardinality(Resetting(c)) - 1 /\ IsFiniteSet(Resetting(c) \ {p})
        BY <2>3, AccountsAreNumbers, FS_RemoveElement
      <3>2. Cardinality(Resetting(c) \ {p}) \in Nat
        BY <3>1, FS_CardinalityType
      <3> QED
        BY <2>3, <3>1, <3>2, AccountsAreNumbers
    <2>5. Spent(c) = Spent(c)' + (MaxAttempts - 1) /\ Spent(c)' \in Nat
      <3> DEFINE before == (MaxAttempts - 1) * Cardinality(Resetting(c))
                 after == (MaxAttempts - 1) * Cardinality(Resetting(c)')
      <3>1. before = after + (MaxAttempts - 1) /\ after \in Nat /\ before \in Nat
        BY <2>4, AccountsAreNumbers, Products
      <3>2. Spent(c) = fetched[c] + before /\ Spent(c)' = fetched[c] + after
        BY <1>2 DEF Spent
      <3> HIDE DEF before, after
      <3> QED
        BY <3>1, <3>2, AccountsAreNumbers
    <2>6. ~Closed(c) => Counted(c)' /\ MayFetch(c)'
      <3>1. ~Closed(c) => Spent(c)' <= Cardinality(Uncounted(c)) + Granted
        BY <1>5, <2>5, AccountsAreNumbers DEF MayFetch
      <3> QED
        BY <1>2, <2>2, <2>3, <2>5, <3>1, AccountsAreNumbers DEF Counted, MayFetch
    <2>7. Closed(c)' = Closed(c)
      BY <1>1 DEF Closed
    <2> QED
      BY <1>3, <1>4, <2>6, <2>7 DEF BudgetInv
  <1> QED
    BY <1>1, <1>6, <1>7

\* An edit can take a file that was counted on away from a content, or give the
\* content a file whose success is still to be recorded.
LEMMA EditsArePaidFor ==
  ASSUME TypeOK, TypeOK', Next, NEW c \in Contents, BudgetInv(c),
         NEW p \in Captures, NEW d \in Held, Edit(p, d), c \notin disturbed'
  PROVE  BudgetInv(c)'
  <1>1. /\ UNCHANGED <<pc, item, retry, offer, result, flag, failures, fetched>>
        /\ edits' = edits + 1 /\ capture' = [capture EXCEPT ![p] = d]
        /\ UnderWay(p) => d # c
    BY IntakeConstants DEF Edit, ledgers, sweep, enrich
  <1>2. Granted' >= Granted + MaxAttempts /\ Granted' \in Nat /\ PerRun' = PerRun /\ MaxAttempts \in Nat
    BY <1>1, GrantsGrow, IntakeConstants DEF PerRun, Notes
  <1>3. Offered(c)' \subseteq Offered(c) /\ Uncounted(c) \ {p} \subseteq Uncounted(c)'
        /\ Resetting(c)' \subseteq Resetting(c) \cup {p}
    BY <1>1 DEF Offered, Uncounted, Resetting, UnderWay, TypeOK
  <1>4. Cardinality(Uncounted(c)') \in Nat /\ Cardinality(Uncounted(c)) <= Cardinality(Uncounted(c)') + 1
    <2>1. IsFiniteSet(Uncounted(c)') /\ Cardinality(Uncounted(c)') \in Nat
      <3>1. Uncounted(c)' \subseteq Captures
        BY DEF Uncounted
      <3> QED
        BY <3>1, FS_Subset, FS_CardinalityType, IntakeConstants
    <2>2. IsFiniteSet(Uncounted(c)' \cup {p}) /\ Cardinality(Uncounted(c)' \cup {p}) \in
             {Cardinality(Uncounted(c)'), Cardinality(Uncounted(c)') + 1}
      BY <2>1, FS_AddElement
    <2>3. Cardinality(Uncounted(c)) <= Cardinality(Uncounted(c)' \cup {p})
      BY <1>3, <2>2, FS_Subset
    <2> QED
      BY <2>1, <2>2, <2>3, AccountsAreNumbers
  <1>5. Cardinality(Resetting(c)') \in Nat /\ Cardinality(Resetting(c)') <= Cardinality(Resetting(c)) + 1
    <2>1. IsFiniteSet(Resetting(c) \cup {p}) /\ Cardinality(Resetting(c) \cup {p}) \in
             {Cardinality(Resetting(c)), Cardinality(Resetting(c)) + 1}
      BY AccountsAreNumbers, FS_AddElement
    <2>2. IsFiniteSet(Resetting(c)') /\ Cardinality(Resetting(c)') <= Cardinality(Resetting(c) \cup {p})
      BY <1>3, <2>1, FS_Subset
    <2>3. Cardinality(Resetting(c)') \in Nat
      BY <2>2, FS_CardinalityType
    <2> QED
      BY <2>1, <2>2, <2>3, AccountsAreNumbers
  <1>6. Spent(c)' \in Nat
        /\ \/ Spent(c)' <= Spent(c) /\ Cardinality(Uncounted(c)) <= Cardinality(Uncounted(c)') + 1
           \/ Spent(c)' <= Spent(c) + (MaxAttempts - 1) /\ Cardinality(Uncounted(c)) <= Cardinality(Uncounted(c)')
    <2> DEFINE before == (MaxAttempts - 1) * Cardinality(Resetting(c))
               after == (MaxAttempts - 1) * Cardinality(Resetting(c)')
    <2>1. /\ before \in Nat /\ after \in Nat /\ after <= before + (MaxAttempts - 1)
          /\ Cardinality(Resetting(c)') <= Cardinality(Resetting(c)) => after <= before
      BY <1>5, AccountsAreNumbers, Products
    <2>2. Spent(c) = fetched[c] + before /\ Spent(c)' = fetched[c] + after
      BY <1>1 DEF Spent
    <2>3. CASE capture[p] = c
      <3>1. Resetting(c)' \subseteq Resetting(c)
        BY <1>1, <2>3 DEF Resetting, TypeOK
      <3>2. Cardinality(Resetting(c)') <= Cardinality(Resetting(c))
        BY <3>1, FS_Subset, AccountsAreNumbers
      <3> HIDE DEF before, after
      <3> QED
        BY <1>4, <2>1, <2>2, <3>2, AccountsAreNumbers
    <2>4. CASE capture[p] # c
      <3>1. Uncounted(c)' = Uncounted(c)
        BY <1>1, <2>4 DEF Uncounted, UnderWay, TypeOK
      <3> HIDE DEF before, after
      <3> QED
        BY <2>1, <2>2, <3>1, AccountsAreNumbers
    <2> QED
      BY <2>3, <2>4
  <1>7. Counted(c) => Counted(c)'
    BY <1>1, <1>2, <1>4, <1>6, AccountsAreNumbers DEF Counted
  <1>8. MayFetch(c) => MayFetch(c)'
    BY <1>2, <1>4, <1>6, AccountsAreNumbers DEF MayFetch
  <1>9. fetched'[c] <= (MaxAttempts - 1) + PerRun' + Granted'
    BY <1>1, <1>2, AccountsAreNumbers DEF BudgetInv
  <1> QED
    BY <1>1, <1>3, <1>7, <1>8, <1>9 DEF BudgetInv, Closed
\* A forced run may fetch what was closed: it is granted a fetch of each note.
LEMMA StartsArePaidFor ==
  ASSUME TypeOK, TypeOK', PhaseInv, Next, NEW c \in Contents, BudgetInv(c), NEW b \in BOOLEAN, Start(b)
  PROVE  BudgetInv(c)'
  <1>1. /\ pc = "off" /\ pc' = "sweep" /\ retry' = b /\ result = NoResults /\ result' = NoResults
        /\ offer' = NoOffers /\ UNCHANGED <<capture, flag, failures, fetched, item>>
        /\ b => retries' = retries + 1
    BY DEF Start, PhaseInv, Sweeps, ItemSteps, enrich, ledgers, history
  <1>2. Uncounted(c) = {} /\ Resetting(c) = {} /\ Uncounted(c)' = {} /\ Resetting(c)' = {} /\ Offered(c)' = {}
    BY <1>1 DEF Uncounted, Resetting, Offered, NoOffers, NoResults
  <1>3. CASE ~b
    BY <1>1, <1>2, <1>3, AccountsLeftAlone DEF Closed
  <1>4. CASE b
    <2>1. Granted' \in Nat /\ Granted' >= Granted + PerRun /\ PerRun' = PerRun
      BY <1>1, <1>4, GrantsGrow DEF PerRun, Notes
    <2>2. Cardinality({}) = 0 /\ (MaxAttempts - 1) * 0 = 0
      BY FS_EmptySet, IntakeConstants
    <2>3. Spent(c) = fetched[c] /\ Spent(c)' = fetched[c]
      BY <1>1, <1>2, <2>2, AccountsAreNumbers DEF Spent
    <2>4. fetched[c] <= (MaxAttempts - 1) + Granted'
      BY <2>1, AccountsAreNumbers DEF BudgetInv
    <2>5. /\ Cardinality(Uncounted(c)) = 0 /\ Cardinality(Uncounted(c)') = 0 /\ fetched'[c] = fetched[c]
          /\ failures'[c] = failures[c] /\ Closed(c)' = Closed(c)
      BY <1>1, <1>2, <2>2 DEF Closed
    <2>6. MayFetch(c)' /\ fetched'[c] <= (MaxAttempts - 1) + PerRun' + Granted'
      BY <2>1, <2>3, <2>4, <2>5, AccountsAreNumbers DEF MayFetch
    <2>7. ~Closed(c)' => Counted(c)'
      <3>1. ~Closed(c) => fetched[c] <= failures[c] + Granted
        BY <2>3, <2>5, AccountsAreNumbers DEF BudgetInv, Counted
      <3>2. ~Closed(c) => fetched[c] <= failures[c] + Granted'
        BY <2>1, <3>1, AccountsAreNumbers
      <3> QED
        BY <2>1, <2>3, <2>5, <3>2, AccountsAreNumbers DEF Counted
    <2> QED
      BY <2>6, <2>7 DEF BudgetInv
  <1> QED
    BY <1>3, <1>4

\* The sweep offers what is not closed, or what it was forced to.
LEMMA SweepOffersWhatMayBeFetched ==
  ASSUME TypeOK, TypeOK', ItemInv, FetchInv, PhaseInv, Next, NEW c \in Contents, BudgetInv(c),
         c \notin disturbed, NEW p \in Captures, SweepStep(p)
  PROVE  BudgetInv(c)'
  <1> USE DEF Sweeps, ItemSteps, Untouched, ledgers, enrich, history, sweep
  <1>1. /\ pc \in Sweeps /\ result' = NoResults /\ UNCHANGED <<failures, fetched>>
        /\ retry' /\ pc' \in Sweeps => retry
    BY DEF SweepStep, SkipFlagged, Reoffer, TakeUp, Vanished, Flag, Accept, Convert, Move, LogMove, Record,
           Sweeping, Stop, SweepOver, PhaseInv
  <1>2. Uncounted(c) = {} /\ Resetting(c) = {} /\ Uncounted(c)' = {} /\ Resetting(c)' = {}
    <2>1. result = NoResults
      BY <1>1 DEF PhaseInv
    <2> QED
      BY <1>1, <2>1 DEF Uncounted, Resetting, NoResults
  <1>3. Closed(c) => Closed(c)'
    <2>1. CASE UNCHANGED flag
      BY <2>1 DEF Closed
    <2>2. ASSUME NEW k \in Kinds, Flag(p, k) PROVE Closed(c) => Closed(c)'
      BY <2>2 DEF Flag, PhaseInv, Closed, TypeOK
    <2> QED
      BY <2>1, <2>2 DEF SweepStep, SkipFlagged, Reoffer, TakeUp, Vanished, Accept, Convert, Move, LogMove, Record
  <1>4. ~Closed(c) => MayFetch(c)
    BY <1>1 DEF BudgetInv
  <1>5. Offered(c)' # {} => Offered(c) # {} \/ retry \/ MayFetch(c)
    <2>1. CASE UNCHANGED <<capture, offer>>
      BY <2>1 DEF Offered
    <2>2. CASE Reoffer(p)
      <3>1. /\ capture[p] # c => Offered(c)' \subseteq Offered(c)
            /\ pc = "offer" /\ p \in todo /\ Reoffered(flagged[item.hash])
        BY <2>2 DEF Reoffer, IsNext, Offered, TypeOK, FetchInv
      <3>2. capture[p] = c => item.hash = c
        BY <2>2, <3>1, IntakeConstants DEF ItemInv, Reoffer
      <3>3. Reoffered(flagged[c]) => retry \/ flagged[c] # "content_unavailable"
        BY DEF Reoffered
      <3>4. flagged[c] # "content_unavailable" => ~Closed(c)
        BY <3>1 DEF PhaseInv
      <3> QED
        BY <1>4, <3>1, <3>2, <3>3, <3>4
    <2>3. ASSUME NEW k \in Kinds, Flag(p, k) PROVE Offered(c)' # {} => Offered(c) # {} \/ MayFetch(c)
      <3>1. capture[p] # c => Offered(c)' \subseteq Offered(c)
        BY <2>3 DEF Flag, Offered, TypeOK
      <3>2. CASE capture[p] = c
        <4>1. item.hash = c
          BY <2>3, <3>2, IntakeConstants DEF ItemInv, Flag, IsNext
        <4>2. ~Closed(c)
          BY <2>3, <4>1 DEF Flag, PhaseInv
        <4> QED
          BY <1>4, <4>2
      <3> QED
        BY <3>1, <3>2
    <2>4. CASE Move(p)
      BY <2>4, IntakeConstants DEF Move, Offered, TypeOK
    <2>5. CASE Vanished(p)
      BY <2>5 DEF Vanished, Stop, Offered, NoOffers
    <2> QED
      BY <2>1, <2>2, <2>3, <2>4, <2>5 DEF SweepStep, SkipFlagged, TakeUp, Accept, Convert, LogMove, Record
  <1>6. pc # "close"
    BY <1>1
  <1> HIDE DEF Sweeps
  <1> QED
    BY <1>1, <1>2, <1>3, <1>5, <1>6, AccountsLeftAlone

\* Enrichment fetches what is offered, once, and closes what spent its attempts.
LEMMA EnrichKeepsAccounts ==
  ASSUME EnoughText, TypeOK, TypeOK', ItemInv, PhaseInv, PhaseInv', Next, NEW c \in Contents, c \in Thin,
         BudgetInv(c), c \notin disturbed, EnrichStep \/ \E d \in Contents : Read(d)
  PROVE  BudgetInv(c)'
  <1> USE DEF ledgers, enrich, history, sweep, bounds
  <1>1. ASSUME NEW p \in Captures, FetchFails(p) PROVE BudgetInv(c)'
    <2>1. CASE capture[p] = c
      BY <1>1, <2>1, FailuresAreCharged
    <2>2. CASE capture[p] # c
      <3>1. /\ UNCHANGED <<pc, item, retry, flag, failures, capture>> /\ fetched'[c] = fetched[c]
            /\ pc = "fetch" /\ Uncounted(c)' = Uncounted(c) /\ Resetting(c)' = Resetting(c)
            /\ Offered(c)' \subseteq Offered(c)
        BY <1>1, <2>2 DEF FetchFails, Fetching, Uncounted, Resetting, Offered, TypeOK
      <3> QED
        BY <3>1, AccountsLeftAlone DEF Closed
    <2> QED
      BY <2>1, <2>2
  <1>2. ASSUME NEW p \in Captures, Rewrite(p) PROVE BudgetInv(c)'
    <2>1. /\ capture[p] \in Contents /\ capture' = [capture EXCEPT ![p] = Enriched[capture[p]]]
          /\ offer' = [offer EXCEPT ![p] = NoUrl] /\ result' = [result EXCEPT ![p] = "enriched"]
          /\ pc = "fetch" /\ pc' = "journal" /\ UNCHANGED <<retry, flag, failures, fetched>>
          /\ offer[p] # NoUrl
      <3> HIDE DEF PhaseInv
      <3> QED
        BY <1>2 DEF Rewrite, Fetching, TypeOK, Held
    <2>2. Enriched[capture[p]] # c /\ result[p] = "none"
      BY <2>1 DEF EnoughText, PhaseInv
    <2>3. Uncounted(c)' = Uncounted(c) /\ Resetting(c)' = Resetting(c) /\ Offered(c)' \subseteq Offered(c)
      BY <2>1, <2>2 DEF Uncounted, Resetting, Offered, TypeOK
    <2> QED
      BY <2>1, <2>3, AccountsLeftAlone DEF Closed, Sweeps, ItemSteps
  <1>3. ASSUME NEW p \in Captures, LocalFailure(p) PROVE BudgetInv(c)'
    <2>1. /\ UNCHANGED <<pc, item, retry, flag, failures, capture, result, fetched>>
          /\ Offered(c)' \subseteq Offered(c)
      BY <1>3 DEF LocalFailure, Fetching, Offered, TypeOK
    <2>2. Uncounted(c)' = Uncounted(c) /\ Resetting(c)' = Resetting(c)
      BY <2>1 DEF Uncounted, Resetting
    <2> QED
      BY <2>1, <2>2, AccountsLeftAlone DEF Closed
  <1>4. ASSUME NEW p \in Captures, Attempt(p) PROVE BudgetInv(c)'
    <2>1. CASE capture[p] = c
      BY <1>4, <2>1, AttemptsAreCounted
    <2>2. CASE capture[p] # c
      <3>1. /\ UNCHANGED <<retry, flag, capture, fetched, offer>> /\ failures'[c] = failures[c]
            /\ pc = "attempts" /\ pc' \in {"attempts", "close"}
            /\ Uncounted(c)' = Uncounted(c) /\ Resetting(c)' = Resetting(c)
        BY <1>4, <2>2 DEF Attempt, Uncounted, Resetting, TypeOK
      <3>2. Offered(c)' = Offered(c)
        BY <3>1 DEF Offered
      <3> QED
        BY <3>1, <3>2, AccountsLeftAlone DEF Closed, Sweeps, ItemSteps
    <2> QED
      BY <2>1, <2>2
  <1>5. CASE Journal \/ Close \/ \E d \in Contents : Read(d)
    <2>1. /\ UNCHANGED <<retry, failures, capture, result, fetched>> /\ pc \notin Sweeps /\ pc' \notin Sweeps
          /\ Offered(c)' \subseteq Offered(c)
      BY <1>5 DEF Journal, Close, Read, NoOffers, Offered, Sweeps, ItemSteps
    <2>2. Uncounted(c)' = Uncounted(c) /\ Resetting(c)' = Resetting(c)
      BY <2>1 DEF Uncounted, Resetting
    <2>3. /\ Closed(c) => Closed(c)'
          /\ pc = "close" /\ item.hash = c => Closed(c)'
      BY <1>5 DEF Journal, Close, Read, Closed, TypeOK
    <2> QED
      BY <2>1, <2>2, <2>3, AccountsLeftAlone
  <1> QED
    BY <1>1, <1>2, <1>3, <1>4, <1>5 DEF EnrichStep
LEMMA PhaseKeepsAccounts ==
  ASSUME TypeOK, TypeOK', PhaseInv, Next, NEW c \in Contents, BudgetInv(c), Phase
  PROVE  BudgetInv(c)'
  <1>1. /\ UNCHANGED <<item, flag, failures, capture, result, offer, fetched>>
        /\ pc # "close" /\ pc' \notin Sweeps
    BY DEF Phase, Done, SweepOver, Sweeps, ItemSteps, ledgers, enrich, history
  <1>2. Uncounted(c)' = Uncounted(c) /\ Resetting(c)' = Resetting(c) /\ Offered(c)' = Offered(c)
    BY <1>1 DEF Uncounted, Resetting, Offered
  <1> QED
    BY <1>1, <1>2, AccountsLeftAlone DEF Closed

\* Only what is thin is fetched.
LEMMA FetchesAreOfTheThin ==
  ASSUME TypeOK, FetchInv, Next, NEW c \in Contents, c \notin Thin, c \notin disturbed, fetched[c] = 0
  PROVE  fetched'[c] = 0
  <1>1. ASSUME NEW p \in Captures, FetchFails(p) PROVE fetched'[c] = 0
    <2>1. capture[p] # c
      BY <1>1, IntakeConstants DEF FetchFails, Fetching, FetchInv
    <2> QED
      BY <1>1, <2>1 DEF FetchFails, TypeOK
  <1>2. CASE UNCHANGED fetched
    BY <1>2
  <1> QED
    BY <1>1, <1>2 DEF Next, Run, Start, Phase, Crash, Edit, EnrichStep, Rewrite, LocalFailure,
       Journal, Attempt, Close, Read, SweepStep, SkipFlagged, Reoffer, TakeUp, Vanished, Flag, Accept,
       Convert, Move, LogMove, Record, Untouched, history

\* CapInv is kept, if what a url serves is enough text.
LEMMA FetchesStayCapped ==
  ASSUME EnoughText, IntakeInv, CapInv, Next
  PROVE  CapInv'
  <1> USE DEF IntakeInv
  <1>1. TypeOK' /\ PhaseInv /\ PhaseInv' /\ disturbed \subseteq disturbed'
    BY NextKeepsTypes, NextKeepsPhases, NothingIsUndone DEF CapInv
  <1>2. ASSUME NEW c \in Contents \ disturbed', c \in Thin PROVE BudgetInv(c)'
    <2>1. c \in Contents /\ c \notin disturbed /\ BudgetInv(c)
      BY <1>1, <1>2 DEF CapInv
    <2> QED
      BY <1>1, <1>2, <2>1, StartsArePaidFor, SweepOffersWhatMayBeFetched, EnrichKeepsAccounts,
         PhaseKeepsAccounts, EditsArePaidFor, KillsArePaidFor DEF Next, Run
  <1>3. ASSUME NEW c \in Contents \ disturbed', c \notin Thin PROVE fetched'[c] = 0
    BY <1>1, <1>3, FetchesAreOfTheThin DEF CapInv
  <1> QED
    BY <1>1, <1>2, <1>3 DEF CapInv

LEMMA NothingIsFetchedYet ==
  ASSUME Init
  PROVE  CapInv
  <1>1. TypeOK
    BY InitIsSound DEF IntakeInv
  <1>2. PhaseInv
    <2>1. \A p \in Captures : capture[p] # Absent => (capture[p] \in Documents <=> p \in DocumentFiles)
      BY DEF Init, Fits
    <2>2. offer = NoOffers /\ result = NoResults /\ pc = "off"
      BY DEF Init
    <2> QED
      BY <2>1, <2>2 DEF PhaseInv, NoOffers, NoResults, Sweeps, ItemSteps
  <1>3. ASSUME NEW c \in Contents PROVE BudgetInv(c) /\ fetched[c] = 0
    <2>1. /\ fetched[c] = 0 /\ failures[c] = 0 /\ offer = NoOffers /\ result = NoResults /\ retry = FALSE
          /\ pc = "off"
      BY DEF Init, None
    <2>2. Uncounted(c) = {} /\ Resetting(c) = {} /\ Offered(c) = {}
      BY <2>1 DEF Uncounted, Resetting, Offered, NoOffers, NoResults
    <2>3. Cardinality({}) = 0 /\ (MaxAttempts - 1) * 0 = 0
      BY FS_EmptySet, IntakeConstants
    <2>4. Spent(c) = 0 /\ Cardinality(Uncounted(c)) = 0
      BY <2>1, <2>2, <2>3 DEF Spent
    <2>5. Counted(c) /\ MayFetch(c) /\ fetched[c] <= (MaxAttempts - 1) + PerRun + Granted
      BY <1>1, <2>1, <2>4, AccountsAreNumbers DEF Counted, MayFetch
    <2> QED
      BY <2>1, <2>5 DEF BudgetInv
  <1> QED
    BY <1>2, <1>3 DEF CapInv

\* If what a url serves is enough text (else the streak is reset for ever: the
\* KNOWN GAP of enrich_verdict), a capture whose url serves nothing is fetched at
\* most until its attempts are spent, once more for each note holding the same
\* text in the run that spends them, and as often again as lost runs, forced runs
\* and edits allow (record_enrich_outcomes, IntakeAction::ContentUnavailable).
THEOREM FetchesRunOut ==
  ASSUME EnoughText
  PROVE  Spec => []FetchesAreCapped
  <1>1. Init => CapInv
    BY NothingIsFetchedYet
  <1>2. IntakeInv /\ CapInv /\ [Next]_vars => CapInv'
    <2> SUFFICES ASSUME IntakeInv, CapInv, UNCHANGED vars PROVE CapInv'
      BY FetchesStayCapped
    <2>1. PhaseInv'
      BY DEF CapInv, PhaseInv, vars, ledgers, enrich, history, sweep, Closed
    <2>2. ASSUME NEW c \in Contents, BudgetInv(c) PROVE BudgetInv(c)'
      BY <2>2 DEF BudgetInv, Counted, MayFetch, Spent, Granted, PerRun, Notes, Closed, Uncounted, Resetting,
                  Offered, vars, ledgers, enrich, history, sweep, bounds
    <2> QED
      BY <2>1, <2>2 DEF CapInv, vars, history
  <1>3. IntakeInv /\ CapInv => FetchesAreCapped
    <2> SUFFICES ASSUME IntakeInv, CapInv, NEW c \in Contents \ disturbed
                 PROVE  fetched[c] <= (MaxAttempts - 1) + PerRun + Granted
      BY DEF FetchesAreCapped
    <2>1. CASE c \in Thin
      BY <2>1 DEF CapInv, BudgetInv
    <2>2. CASE c \notin Thin
      BY <2>2, AccountsAreNumbers DEF CapInv, IntakeInv
    <2> QED
      BY <2>1, <2>2
  <1> QED
    BY IntakeInvariant, <1>1, <1>2, <1>3, PTL DEF Spec
=============================================================================
