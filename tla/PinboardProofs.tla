-------------------------- MODULE PinboardProofs --------------------------
(***************************************************************************)
(* Proofs about Pinboard, for any account, options, windows and bounds:    *)
(* what a bookmark costs in notes, whatever is killed; that the floor      *)
(* tells the truth while no backfill run is killed; and that days may be   *)
(* counted, over any number of years.                                      *)
(***************************************************************************)
EXTENDS Pinboard, FiniteSetTheorems, TLAPS

----------------------------------------------------------------------------
(* Finite sets of integers have a least and a greatest element.            *)

LEMMA FiniteHasLeast ==
  ASSUME NEW S, IsFiniteSet(S), S \subseteq Int, S # {}
  PROVE  \E x \in S : \A y \in S : x <= y
  <1> DEFINE HasLeast(U) == \E x \in U : \A y \in U : x <= y
             Bad == {U \in SUBSET S : U # {} /\ ~HasLeast(U)}
  <1>1. SUFFICES Bad = {}
    BY Zenon
  <1>2. SUFFICES ASSUME Bad # {} PROVE FALSE
    OBVIOUS
  <1>3. Bad \subseteq FiniteSubsetsOf(S)
    BY FS_Subset DEF FiniteSubsetsOf
  <1>4. PICK U \in Bad : \A V \in Bad : <<V, U>> \notin StrictSubsetOrdering(S)
    <2> HIDE DEF Bad
    <2> QED
      BY <1>2, <1>3, WFMin, FS_StrictSubsetOrderingWellFounded
  <1>5. PICK x : x \in U
    OBVIOUS
  <1> DEFINE V == U \ {x}
  <1>6. V \subseteq S /\ V # U /\ U \subseteq S /\ x \in Int
    BY <1>5
  <1>7. V \notin Bad
    BY <1>4, <1>6 DEF StrictSubsetOrdering
  <1>8. CASE V = {}
    BY <1>5, <1>6, <1>8
  <1>9. CASE HasLeast(V)
    <2> PICK m \in V : \A y \in V : m <= y
      BY <1>9
    <2>1. m \in Int
      BY <1>6
    <2>2. \A y \in U : y = x \/ y \in V
      OBVIOUS
    <2>3. HasLeast(U)
      <3>1. CASE m <= x
        <4>1. \A y \in U : m <= y
          BY <2>2, <3>1
        <4> QED
          BY <4>1
      <3>2. CASE ~(m <= x)
        <4>1. \A y \in U : x <= y
          BY <1>6, <2>1, <2>2, <3>2
        <4> QED
          BY <1>5, <4>1
      <3> QED
        BY <3>1, <3>2
    <2> QED
      BY <2>3
  <1> QED
    BY <1>6, <1>7, <1>8, <1>9

LEMMA FiniteHasGreatest ==
  ASSUME NEW S, IsFiniteSet(S), S \subseteq Int, S # {}
  PROVE  \E x \in S : \A y \in S : y <= x
  <1> DEFINE N == {0 - x : x \in S}
  <1>1. IsFiniteSet(N)
    <2> DEFINE f == [x \in S |-> 0 - x]
    <2>1. f \in Surjection(S, N)
      BY DEF Surjection
    <2> QED
      BY <2>1, FS_Surjection
  <1>2. N \subseteq Int /\ N # {}
    OBVIOUS
  <1>3. PICK n \in N : \A y \in N : n <= y
    BY <1>1, <1>2, FiniteHasLeast
  <1>4. PICK x \in S : n = 0 - x
    OBVIOUS
  <1>5. ASSUME NEW y \in S PROVE y <= x
    <2>1. 0 - x <= 0 - y
      BY <1>3, <1>4
    <2> QED
      BY <2>1
  <1> QED
    BY <1>5

LEMMA PairIsFinite ==
  ASSUME NEW a, NEW b
  PROVE  IsFiniteSet({a, b})
  <1>1. {a, b} = {a} \cup {b} /\ IsFiniteSet({a})
    BY FS_Singleton
  <1>2. IsFiniteSet({a} \cup {b})
    BY <1>1, FS_AddElement
  <1> QED
    BY <1>1, <1>2

LEMMA MinIsLeast ==
  ASSUME NEW S, IsFiniteSet(S), S \subseteq Int, S # {}
  PROVE  Min(S) \in S /\ \A y \in S : Min(S) <= y
  BY FiniteHasLeast DEF Min

LEMMA MaxIsGreatest ==
  ASSUME NEW S, IsFiniteSet(S), S \subseteq Int, S # {}
  PROVE  Max(S) \in S /\ \A y \in S : y <= Max(S)
  <1>1. \E x \in S : \A y \in S : x >= y
    BY FiniteHasGreatest
  <1> QED
    BY <1>1 DEF Max

----------------------------------------------------------------------------
(* The edges derived from the ledgers.                                     *)

LEMMA SyncedDaysAreDays ==
  ASSUME TypeOK
  PROVE  SyncedDays \subseteq FirstDay .. LastDay /\ IsFiniteSet(SyncedDays)
  <1>1. SyncedDays \subseteq FirstDay .. LastDay
    BY PinboardConstants DEF SyncedDays, TypeOK
  <1>2. IsFiniteSet(FirstDay .. LastDay)
    <2>1. FirstDay \in Int /\ LastDay \in Int
      BY PinboardConstants
    <2> QED
      BY <2>1, FS_Interval
  <1> QED
    BY <1>1, <1>2, FS_Subset

LEMMA WatermarksAreEdges ==
  ASSUME TypeOK, SyncedDays # {}
  PROVE  /\ WatermarkHigh \in SyncedDays /\ WatermarkLow \in SyncedDays
         /\ \A d \in SyncedDays : WatermarkLow <= d /\ d <= WatermarkHigh
         /\ WatermarkHigh \in Nat /\ WatermarkLow \in Nat
         /\ FirstDay <= WatermarkLow /\ WatermarkHigh <= LastDay
  <1>1. SyncedDays \subseteq Int /\ SyncedDays \subseteq FirstDay .. LastDay
    BY SyncedDaysAreDays, PinboardConstants
  <1>2. WatermarkHigh \in SyncedDays /\ \A d \in SyncedDays : d <= WatermarkHigh
    BY <1>1, SyncedDaysAreDays, MaxIsGreatest DEF WatermarkHigh
  <1>3. WatermarkLow \in SyncedDays /\ \A d \in SyncedDays : WatermarkLow <= d
    BY <1>1, SyncedDaysAreDays, MinIsLeast DEF WatermarkLow
  <1> QED
    BY <1>1, <1>2, <1>3, PinboardConstants

\* The floor is the least of what the two ledgers say.
Floors == floors \cup (IF SyncedDays = {} THEN {} ELSE {WatermarkLow + 1})

LEMMA FloorIsLeast ==
  ASSUME TypeOK, IsFiniteSet(floors), HasFloor
  PROVE  /\ CoverageFloor \in Floors /\ CoverageFloor \in Int
         /\ \A f \in Floors : CoverageFloor <= f
  <1>1. Floors \subseteq Int /\ Floors # {}
    <2>1. CASE SyncedDays = {}
      BY <2>1 DEF Floors, TypeOK, HasFloor
    <2>2. CASE SyncedDays # {}
      <3>1. Floors = floors \cup {WatermarkLow + 1} /\ WatermarkLow \in Nat
        BY <2>2, WatermarksAreEdges DEF Floors
      <3> QED
        BY <3>1 DEF TypeOK
    <2> QED
      BY <2>1, <2>2
  <1>2. IsFiniteSet(Floors)
    <2> DEFINE low == IF SyncedDays = {} THEN {} ELSE {WatermarkLow + 1}
    <2>1. IsFiniteSet(low)
      <3>1. low = {} \/ low = {WatermarkLow + 1}
        OBVIOUS
      <3> QED
        BY <3>1, FS_EmptySet, FS_Singleton
    <2> QED
      BY <2>1, FS_Union DEF Floors
  <1>3. CoverageFloor = Min(Floors)
    BY DEF CoverageFloor, Floors
  <1> QED
    BY <1>1, <1>2, <1>3, MinIsLeast

LEMMA FloorFollows ==
  ASSUME TypeOK, IsFiniteSet(floors), SyncedDays # {}
  PROVE  /\ CoverageFloor \in Int /\ CoverageFloor <= WatermarkLow + 1
         /\ \A f \in floors : CoverageFloor <= f
         /\ CoverageFloor \in floors \cup {WatermarkLow + 1}
  BY FloorIsLeast DEF HasFloor, Floors

----------------------------------------------------------------------------
(* One note for each bookmark                                              *)

LEMMA InitEstablishesNoteInv == Init => NoteInv
  <1> SUFFICES ASSUME Init PROVE NoteInv
    OBVIOUS
  <1>1. TypeOK
    BY PinboardConstants DEF Init, TypeOK, Off, NoDay
  <1> QED
    BY <1>1, FS_EmptySet DEF Init, NoteInv, Off, Known, InHand, IsNext

\* What a run is to write was posted and not known when it began.
LEMMA SelectionIsNew ==
  ASSUME NEW o, NEW max
  PROVE  /\ NewestOf(New(o), max) \subseteq New(o)
         /\ New(o) \subseteq posted /\ New(o) \subseteq Selected(o)
         /\ \A b \in New(o) : UrlOf[b] \notin Known
  BY DEF NewestOf, New, Selected

LEMMA BeginKeepsNoteInv ==
  ASSUME NoteInv, NEW kind \in {"sync", "backfill"}, NEW o, NEW floor \in Int,
         Begin(kind, o, floor)
  PROVE  NoteInv'
  <1> DEFINE batch == NewestOf(New(o), o.max)
  <1>1. /\ run' = [kind |-> kind, todo |-> batch, step |-> "note", floor |-> floor,
                   complete |-> batch = New(o)]
        /\ UNCHANGED <<today, posted, synced, floors, notes, logged, taken, crashes>>
        /\ run = Off
    BY DEF Begin, ledgers
  <1> HIDE DEF batch
  <1>2. batch \subseteq posted /\ \A b \in batch : UrlOf[b] \notin Known
    BY SelectionIsNew DEF batch
  <1>3. TypeOK' /\ run'.kind # "off"
    BY <1>1, <1>2 DEF NoteInv, TypeOK
  <1>4. \A b, c \in batch : UrlOf[b] = UrlOf[c] => b = c
    BY <1>2 DEF NoteInv, TypeOK, IsAccount
  <1>5. Known' = Known
    BY <1>1 DEF Known
  <1>6. \A u : ~InHand(u) /\ ~InHand(u)'
    BY <1>1 DEF InHand, Off
  <1> QED
    BY <1>1, <1>2, <1>3, <1>4, <1>5, <1>6 DEF NoteInv

\* A run has one bookmark in hand.
LEMMA NextIsUnique ==
  ASSUME TypeOK, NEW b, NEW c, IsNext(b), IsNext(c)
  PROVE  b = c /\ b \in Bookmarks /\ UrlOf[b] \in Urls
  BY PinboardConstants DEF IsNext, TypeOK, Urls

LEMMA WritingKeepsNoteInv ==
  ASSUME NoteInv, NEW b \in run.todo, IsNext(b), WriteNote(b) \/ LogNote(b) \/ RecordNote(b),
         UNCHANGED <<today, posted, taken, crashes>>
  PROVE  NoteInv'
  <1>1. TypeOK /\ b \in Bookmarks /\ UrlOf[b] \in Urls /\ run.kind # "off"
    BY NextIsUnique DEF NoteInv, Off
  <1>2. floors' = floors
    BY DEF WriteNote, LogNote, RecordNote
  <1>3. \A u : InHand(u) <=> run.step # "note" /\ u = UrlOf[b]
    BY <1>1, NextIsUnique DEF InHand
  <1>4. CASE WriteNote(b)
    <2>1. /\ run' = [run EXCEPT !.step = "event"] /\ run.step = "note"
          /\ notes' = [notes EXCEPT ![UrlOf[b]] = @ + 1] /\ UNCHANGED <<synced, logged>>
      BY <1>4 DEF WriteNote
    <2>2. TypeOK' /\ run'.todo = run.todo /\ run'.kind = run.kind /\ run'.step = "event"
      BY <1>1, <1>2, <2>1 DEF TypeOK
    <2>3. Known' = Known /\ \A c : IsNext(c)' <=> IsNext(c)
      BY <2>1, <2>2 DEF Known, IsNext
    <2>4. \A u : InHand(u)' <=> u = UrlOf[b]
      BY <1>1, <2>2, <2>3, NextIsUnique DEF InHand
    <2>5. \A u \in Urls : notes'[u] = IF u = UrlOf[b] THEN notes[u] + 1 ELSE notes[u]
      BY <1>1, <2>1 DEF TypeOK
    <2>6. \A u \in Urls : notes[u] \in Nat /\ crashes \in Nat
      BY <1>1, PinboardConstants DEF TypeOK
    <2>7. UrlOf[b] \notin Known /\ ~InHand(UrlOf[b])
      BY <1>3, <2>1 DEF NoteInv
    <2>8. \A u \in Urls : notes'[u] <= crashes + (IF u \in Known \/ InHand(u)' THEN 1 ELSE 0)
      BY <1>3, <2>1, <2>4, <2>5, <2>6, <2>7 DEF NoteInv
    <2>9. \A c \in synced : c \in Bookmarks /\ UrlOf[c] \in Urls
      BY <1>1 DEF TypeOK, Urls
    <2>10. \A c \in synced : notes'[UrlOf[c]] > 0
      BY <2>5, <2>6, <2>9 DEF NoteInv
    <2>11. \A c \in run.todo : IsNext(c) => notes'[UrlOf[c]] > 0
      BY <1>1, <2>5, <2>6, NextIsUnique
    <2> QED
      BY <1>1, <1>2, <2>1, <2>2, <2>3, <2>8, <2>10, <2>11 DEF NoteInv
  <1>5. CASE LogNote(b)
    <2>1. /\ run' = [run EXCEPT !.step = "record"] /\ run.step = "event"
          /\ logged' = logged \cup {UrlOf[b]} /\ UNCHANGED <<synced, notes>>
      BY <1>5 DEF LogNote
    <2>2. TypeOK' /\ run'.todo = run.todo /\ run'.kind = run.kind /\ run'.step = "record"
      BY <1>1, <1>2, <2>1 DEF TypeOK
    <2>3. Known' = Known /\ \A c : IsNext(c)' <=> IsNext(c)
      BY <2>1, <2>2 DEF Known, IsNext
    <2>4. \A u : InHand(u)' <=> InHand(u)
      BY <1>1, <1>3, <2>1, <2>2, <2>3, NextIsUnique DEF InHand
    <2>5. \A c \in run.todo : IsNext(c) => notes'[UrlOf[c]] > 0 /\ UrlOf[c] \in logged'
      BY <1>1, <2>1, NextIsUnique DEF NoteInv
    <2> QED
      BY <1>1, <1>2, <2>1, <2>2, <2>3, <2>4, <2>5 DEF NoteInv
  <1>6. CASE RecordNote(b)
    <2>1. /\ run' = [run EXCEPT !.step = "note", !.todo = @ \ {b}] /\ run.step = "record"
          /\ synced' = synced \cup {b} /\ UNCHANGED <<notes, logged>>
      BY <1>6 DEF RecordNote
    <2>2. TypeOK' /\ run'.todo = run.todo \ {b} /\ run'.kind = run.kind /\ run'.step = "note"
      BY <1>1, <1>2, <2>1 DEF TypeOK
    <2>3. Known' = Known \cup {UrlOf[b]}
      BY <2>1 DEF Known
    <2>4. \A u : ~InHand(u)'
      BY <2>2 DEF InHand
    <2>5. notes[UrlOf[b]] > 0 /\ UrlOf[b] \in logged
      BY <2>1 DEF NoteInv
    <2>6. \A u \in Urls : notes'[u] <= crashes + (IF u \in Known' THEN 1 ELSE 0)
      BY <1>3, <2>1, <2>3 DEF NoteInv
    <2>7. \A c \in run'.todo : UrlOf[c] \notin Known'
      BY <2>2, <2>3 DEF NoteInv
    <2> QED
      BY <1>1, <1>2, <2>1, <2>2, <2>4, <2>5, <2>6, <2>7 DEF NoteInv
  <1> QED
    BY <1>4, <1>5, <1>6

LEMMA EndsKeepNoteInv ==
  ASSUME NoteInv,
         \/ Finish /\ UNCHANGED <<today, posted, taken, crashes>>
         \/ Crash
  PROVE  NoteInv'
  <1>1. /\ run' = Off /\ UNCHANGED <<today, posted, synced, notes, logged, taken>>
        /\ run.kind # "off"
    BY PinboardConstants DEF Finish, Crash, ledgers
  <1>2. floors' = floors \/ floors' = floors \cup {run.floor}
    BY DEF Finish, FinishedFloors, Crash, ledgers
  <1>3. crashes' \in 0 .. MaxCrashes /\ crashes <= crashes' /\ (run.todo # {} => crashes' = crashes + 1)
    BY PinboardConstants DEF Finish, Crash, NoteInv, TypeOK
  <1>4. TypeOK'
    <2>1. run' \in [kind : {"off", "sync", "backfill"}, todo : SUBSET Bookmarks,
                    step : {"note", "event", "record"}, floor : Int, complete : BOOLEAN]
      BY <1>1 DEF Off, NoDay
    <2>2. floors' \subseteq Int
      BY <1>2 DEF NoteInv, TypeOK
    <2> QED
      BY <1>1, <1>3, <2>1, <2>2 DEF NoteInv, TypeOK, IsAccount
  <1>5. IsFiniteSet(floors')
    BY <1>2, FS_AddElement DEF NoteInv
  <1>6. Known' = Known /\ \A u : ~InHand(u)'
    BY <1>1 DEF Known, InHand, Off
  <1>7. \A u \in Urls : notes'[u] <= crashes' + (IF u \in Known THEN 1 ELSE 0)
    <2> TAKE u \in Urls
    <2>1. notes[u] \in Nat /\ crashes \in Nat /\ notes' = notes
      BY <1>1, PinboardConstants DEF NoteInv, TypeOK
    <2>2. InHand(u) => run.todo # {}
      BY DEF InHand
    <2>3. notes[u] <= crashes + (IF u \in Known \/ InHand(u) THEN 1 ELSE 0)
      BY DEF NoteInv
    <2> QED
      BY <1>3, <2>1, <2>2, <2>3
  <1> QED
    BY <1>1, <1>4, <1>5, <1>6, <1>7 DEF NoteInv, Off

\* The account changes, a day passes, a sweep takes a url in.
LEMMA OthersKeepNoteInv ==
  ASSUME NoteInv,
         \/ \E b \in Bookmarks : Post(b)
         \/ NextDay
         \/ \E u \in Urls : TakeIn(u)
  PROVE  NoteInv'
  <1>1. UNCHANGED <<synced, floors, notes, logged, run, crashes>>
    BY DEF Post, NextDay, TakeIn, ledgers
  <1>2. \A u : InHand(u)' <=> InHand(u)
    BY <1>1 DEF InHand, IsNext
  <1>3. TypeOK'
    <2>1. CASE \E b \in Bookmarks : Post(b)
      <3> PICK b \in Bookmarks : Post(b)
        BY <2>1
      <3>1. posted' = {c \in posted : UrlOf[c] # UrlOf[b]} \cup {b} /\ UNCHANGED <<today, taken>>
        BY DEF Post
      <3>2. posted' \subseteq Bookmarks /\ IsAccount(posted')
        BY <3>1 DEF NoteInv, TypeOK, IsAccount
      <3> QED
        BY <1>1, <3>1, <3>2 DEF NoteInv, TypeOK, IsAccount
    <2>2. CASE NextDay
      BY <1>1, <2>2, PinboardConstants DEF NextDay, NoteInv, TypeOK, IsAccount
    <2>3. CASE \E u \in Urls : TakeIn(u)
      BY <1>1, <2>3 DEF TakeIn, NoteInv, TypeOK, IsAccount
    <2> QED
      BY <2>1, <2>2, <2>3
  <1>4. Known \subseteq Known' /\ (run.todo # {} => Known' = Known)
    BY <1>1 DEF Post, NextDay, TakeIn, Known, Off
  <1>5. \A u \in Urls : notes'[u] <= crashes' + (IF u \in Known' \/ InHand(u)' THEN 1 ELSE 0)
    <2> TAKE u \in Urls
    <2>1. notes[u] \in Nat /\ crashes \in Nat
      BY PinboardConstants DEF NoteInv, TypeOK
    <2>2. notes[u] <= crashes + (IF u \in Known \/ InHand(u) THEN 1 ELSE 0)
      BY DEF NoteInv
    <2> QED
      BY <1>1, <1>2, <1>4, <2>1, <2>2
  <1>6. \A b, c : IsNext(b)' <=> IsNext(b)
    BY <1>1 DEF IsNext
  <1> QED
    BY <1>1, <1>3, <1>4, <1>5, <1>6 DEF NoteInv

----------------------------------------------------------------------------
\* The shapes of a step: a run begins, goes on, ends, or others act.
Starts ==
    \/ \E o \in Seeds : Sync(o)
    \/ \E max \in AutoMax : AutoSync(max)
    \/ \E days \in Widths, max \in WindowMax : Backfill(days, max)
Writes ==
    /\ \E b \in run.todo : IsNext(b) /\ (WriteNote(b) \/ LogNote(b) \/ RecordNote(b))
    /\ UNCHANGED <<today, posted, taken, crashes>>
Ends == (Finish /\ UNCHANGED <<today, posted, taken, crashes>>) \/ Crash
Others == (\E b \in Bookmarks : Post(b)) \/ NextDay \/ (\E u \in Urls : TakeIn(u))

LEMMA StepsOfNext == Next => Starts \/ Writes \/ Ends \/ Others
  BY DEF Next, Step, AnyAuto, AnyBackfill, Starts, Writes, Ends, Others

LEMMA StartsBegin ==
  ASSUME NoteInv, Starts
  PROVE  \E kind \in {"sync", "backfill"}, floor \in Int : \E o : Begin(kind, o, floor)
  <1>1. CASE \E o \in Seeds : Sync(o)
    BY <1>1 DEF Sync, NoDay
  <1>2. CASE \E max \in AutoMax : AutoSync(max)
    BY <1>2 DEF AutoSync, NoDay
  <1>3. CASE \E days \in Widths, max \in WindowMax : Backfill(days, max)
    <2> PICK days \in Widths, max \in WindowMax : Backfill(days, max)
      BY <1>3
    <2>1. CoverageFloor - days \in Int
      BY FloorIsLeast, PinboardConstants DEF Backfill, NoteInv
    <2> QED
      BY <2>1 DEF Backfill
  <1> QED
    BY <1>1, <1>2, <1>3 DEF Starts

LEMMA NextKeepsNoteInv == NoteInv /\ [Next]_vars => NoteInv'
  <1> SUFFICES ASSUME NoteInv, [Next]_vars PROVE NoteInv'
    OBVIOUS
  <1>1. CASE UNCHANGED vars
    BY <1>1 DEF vars, ledgers, NoteInv, TypeOK, IsAccount, Known, InHand, IsNext
  <1>2. CASE Starts
    BY <1>2, StartsBegin, BeginKeepsNoteInv
  <1>3. CASE Writes
    BY <1>3, WritingKeepsNoteInv DEF Writes
  <1>4. CASE Ends
    BY <1>4, EndsKeepNoteInv DEF Ends
  <1>5. CASE Others
    BY <1>5, OthersKeepNoteInv DEF Others
  <1> QED
    BY <1>1, <1>2, <1>3, <1>4, <1>5, StepsOfNext

\* The types, and what each run owes to the ledgers it began with.
THEOREM NoteInvariant == Spec => []NoteInv
  BY InitEstablishesNoteInv, NextKeepsNoteInv, PTL DEF Spec

\* A bookmark costs one note, and one more for each run that was stopped between
\* a note and its record; what intake has costs none (sync_pinboard).
THEOREM BookmarksCostOneNote == Spec => OneNoteEach
  <1> DEFINE Recorded == /\ \A b \in synced : notes[UrlOf[b]] > 0 /\ UrlOf[b] \in logged
                         /\ \A u \in Urls : notes[u] <= 1 + crashes
             NoMore == \A u \in taken : notes'[u] = notes[u]
  <1>1. NoteInv => Recorded
    <2> SUFFICES ASSUME NoteInv, NEW u \in Urls PROVE notes[u] <= 1 + crashes
      BY DEF NoteInv
    <2>1. notes[u] \in Nat /\ crashes \in Nat
      BY PinboardConstants DEF NoteInv, TypeOK
    <2>2. notes[u] <= crashes + (IF u \in Known \/ InHand(u) THEN 1 ELSE 0)
      BY DEF NoteInv
    <2> QED
      BY <2>1, <2>2
  <1>2. NoteInv /\ [Next]_vars => [NoMore]_vars
    <2> SUFFICES ASSUME NoteInv, Next, NEW u \in taken PROVE notes'[u] = notes[u]
      OBVIOUS
    <2>1. CASE notes' = notes
      BY <2>1
    <2>2. ASSUME NEW b \in run.todo, WriteNote(b) PROVE notes'[u] = notes[u]
      <3>1. UrlOf[b] # u /\ u \in Urls
        BY DEF NoteInv, TypeOK, Known
      <3> QED
        BY <2>2, <3>1 DEF WriteNote, NoteInv, TypeOK
    <2> QED
      BY <2>1, <2>2, StepsOfNext DEF Starts, Sync, AutoSync, Backfill, Begin, Writes, LogNote, RecordNote,
         Ends, Finish, Crash, Others, Post, NextDay, TakeIn, ledgers
  <1> QED
    BY <1>1, <1>2, NoteInvariant, PTL DEF Spec, OneNoteEach

----------------------------------------------------------------------------
(* The floor, while no window is killed, no daily run is capped and no     *)
(* explicit sync follows the first.                                        *)

NoGaps == "backfill" \notin CrashIn /\ AutoMax \subseteq {NoMax} /\ ~Reseeds

\* The edges, as far as the proofs need them.
EdgesOK ==
    /\ SyncedDays \subseteq Nat
    /\ SyncedDays # {} =>
        /\ WatermarkHigh \in SyncedDays /\ WatermarkLow \in SyncedDays
        /\ \A d \in SyncedDays : WatermarkLow <= d /\ d <= WatermarkHigh
        /\ CoverageFloor \in Int /\ CoverageFloor <= WatermarkLow + 1
        /\ \A f \in floors : CoverageFloor <= f
        /\ CoverageFloor \in floors \cup {WatermarkLow + 1}

LEMMA EdgesHold == NoteInv => EdgesOK
  <1> SUFFICES ASSUME NoteInv PROVE EdgesOK
    OBVIOUS
  <1>1. TypeOK /\ IsFiniteSet(floors)
    BY DEF NoteInv
  <1>2. SyncedDays \subseteq Nat
    BY <1>1, PinboardConstants DEF SyncedDays, TypeOK
  <1> QED
    BY <1>1, <1>2, WatermarksAreEdges, FloorFollows DEF EdgesOK

LEMMA EdgesHoldNext == NoteInv' => EdgesOK'
  BY EdgesHold, PTL

LEMMA EdgesStay ==
  ASSUME synced' = synced, floors' = floors
  PROVE  /\ SyncedDays' = SyncedDays
         /\ WatermarkHigh' = WatermarkHigh /\ WatermarkLow' = WatermarkLow
         /\ CoverageFloor' = CoverageFloor
  BY DEF SyncedDays, WatermarkHigh, WatermarkLow, CoverageFloor

LEMMA DaysAreNat ==
  ASSUME NoteInv
  PROVE  /\ posted \subseteq Bookmarks /\ run.todo \subseteq Bookmarks /\ synced \subseteq Bookmarks
         /\ \A b \in Bookmarks : Day[b] \in Nat /\ (Day[b] # NoDay => FirstDay <= Day[b])
         /\ today \in Nat /\ FirstDay \in Nat /\ FirstDay > 0
         /\ floors \subseteq Int /\ run.floor \in Int
  BY PinboardConstants DEF NoteInv, TypeOK, NoDay

\* What a cap leaves out is older than what it takes.
LEMMA CapTakesTheNewest ==
  ASSUME NEW S \in SUBSET Bookmarks, NEW max \in Nat \cup {NoMax},
         NEW b \in S, b \notin NewestOf(S, max), NEW c \in NewestOf(S, max)
  PROVE  max # NoMax /\ Day[b] <= Day[c]
  <1> DEFINE Newer(x) == {y \in S : Order[y] > Order[x]}
  <1>1. max # NoMax /\ c \in S /\ Cardinality(Newer(c)) < max /\ ~(Cardinality(Newer(b)) < max)
    BY DEF NewestOf
  <1>2. IsFiniteSet(S)
    BY PinboardConstants, FS_Subset
  <1>3. IsFiniteSet(Newer(c)) /\ Newer(c) \subseteq S /\ Newer(b) \subseteq S
    BY <1>2, FS_Subset
  <1>4. Order[b] \in Nat /\ Order[c] \in Nat /\ Day[b] \in Nat /\ Day[c] \in Nat
        /\ \A y \in S : Order[y] \in Nat
    BY <1>1, PinboardConstants
  <1>5. Order[b] < Order[c]
    <2> SUFFICES ASSUME Order[c] <= Order[b] PROVE FALSE
      BY <1>4
    <2>1. Newer(b) \subseteq Newer(c)
      BY <1>4
    <2>2. Cardinality(Newer(b)) <= Cardinality(Newer(c)) /\ IsFiniteSet(Newer(b))
      BY <1>3, <2>1, FS_Subset
    <2>3. Cardinality(Newer(b)) \in Nat /\ Cardinality(Newer(c)) \in Nat
      BY <1>3, <2>2, FS_CardinalityType
    <2> HIDE DEF Newer
    <2> QED
      BY <1>1, <2>2, <2>3 DEF NoMax
  <1>6. ~(Day[c] < Day[b])
    BY <1>1, <1>4, <1>5, PinboardConstants
  <1> QED
    BY <1>1, <1>4, <1>6

\* What a run does not take of what is not captured is outside its days, or older
\* than what its cap lets through.
LEMMA LeftOut ==
  ASSUME NoteInv, NEW o, o.max \in Nat \cup {NoMax},
         NEW x \in Uncovered, x \notin NewestOf(New(o), o.max)
  PROVE  \/ o.max # NoMax /\ x \in New(o) /\ \A c \in NewestOf(New(o), o.max) : Day[x] <= Day[c]
         \/ o.since # NoDay /\ ~(Day[x] >= o.since)
         \/ o.until # NoDay /\ ~(Day[x] <= o.until)
  <1>1. x \in posted /\ Day[x] # NoDay /\ UrlOf[x] \notin Known
    BY DEF Uncovered
  <1>2. CASE x \in Selected(o)
    <2>1. x \in New(o)
      <3>1. \A c \in posted : UrlOf[c] = UrlOf[x] => c = x
        BY <1>1 DEF NoteInv, TypeOK, IsAccount
      <3>2. Order[x] <= Order[x]
        BY <1>1, PinboardConstants DEF NoteInv, TypeOK
      <3>3. Selected(o) \subseteq posted
        BY DEF Selected
      <3> QED
        BY <1>1, <1>2, <3>1, <3>2, <3>3 DEF New
    <2>2. New(o) \subseteq Bookmarks
      BY SelectionIsNew, DaysAreNat
    <2>3. o.max # NoMax
      BY <2>1 DEF NewestOf
    <2> QED
      BY <2>1, <2>2, <2>3, CapTakesTheNewest
  <1>3. CASE x \notin Selected(o)
    BY <1>1, <1>3 DEF Selected
  <1> QED
    BY <1>2, <1>3

\* What a run begins with.
LEMMA BeginKeepsTheRest ==
  ASSUME NoteInv, CoverInv, NEW kind, NEW o, NEW floor, Begin(kind, o, floor)
  PROVE  /\ run'.kind = kind /\ run'.todo = NewestOf(New(o), o.max) /\ run'.floor = floor
         /\ run'.complete = (NewestOf(New(o), o.max) = New(o))
         /\ run.todo = {} /\ UNCHANGED <<today, posted, synced, floors, taken>>
         /\ Uncovered' = Uncovered
         /\ run'.todo \subseteq Bookmarks /\ run'.todo \subseteq Selected(o)
         /\ \A b \in posted \cup synced \cup run'.todo : Day[b] <= today
         /\ \A x \in Uncovered : x \in Bookmarks /\ Day[x] # NoDay
         /\ SyncedDays' = SyncedDays
         /\ WatermarkHigh' = WatermarkHigh /\ WatermarkLow' = WatermarkLow
         /\ CoverageFloor' = CoverageFloor
  <1>1. /\ run' = [kind |-> kind, todo |-> NewestOf(New(o), o.max), step |-> "note", floor |-> floor,
                   complete |-> NewestOf(New(o), o.max) = New(o)]
        /\ UNCHANGED <<today, posted, synced, floors, taken>>
        /\ run = Off
    BY DEF Begin, ledgers
  <1>2. NewestOf(New(o), o.max) \subseteq posted /\ NewestOf(New(o), o.max) \subseteq Selected(o)
    BY SelectionIsNew
  <1>3. Uncovered' = Uncovered
    BY <1>1 DEF Uncovered, Known
  <1>4. \A x \in Uncovered : x \in Bookmarks /\ Day[x] # NoDay
    BY DaysAreNat DEF Uncovered
  <1> QED
    BY <1>1, <1>2, <1>3, <1>4, EdgesStay, DaysAreNat DEF CoverInv, Off

\* The first sync: nothing is covered yet.
LEMMA SyncKeepsCoverInv ==
  ASSUME NoteInv, CoverInv, NoGaps, NEW o \in Seeds, Sync(o)
  PROVE  CoverInv'
  <1>1. Begin("sync", o, NoDay) /\ o \in Options
    BY PinboardConstants DEF Sync
  <1> DEFINE batch == NewestOf(New(o), o.max)
  <1>2. synced = {} /\ SyncedDays = {} /\ floors = {}
    BY DEF Sync, NoGaps, CoverInv, SyncedDays
  <1>3. o.max \in Nat \cup {NoMax} /\ o.since \in Nat /\ o.until \in Nat
    BY <1>1 DEF Options
  <1>4. \A c \in batch : /\ o.since # NoDay => Day[c] >= o.since
                         /\ o.until # NoDay => Day[c] <= o.until
    BY <1>1, BeginKeepsTheRest DEF Selected
  <1>5. batch \subseteq Bookmarks
    BY <1>1, BeginKeepsTheRest
  <1> HIDE DEF batch
  <1>6. ASSUME NEW x \in Uncovered', x \notin run'.todo PROVE Below(x)' \/ Above(x)'
    <2>1. x \in Uncovered /\ x \in Bookmarks /\ Day[x] \in Nat /\ x \notin batch
      BY <1>1, <1>6, BeginKeepsTheRest, DaysAreNat DEF batch
    <2>2. run'.todo = batch /\ run'.kind = "sync" /\ SyncedDays' = {}
      BY <1>1, <1>2, BeginKeepsTheRest DEF batch
    <2>3. \A c \in batch : Day[c] \in Nat
      BY <1>5, DaysAreNat
    <2>4. \/ \A c \in batch : Day[x] <= Day[c]
          \/ o.since # NoDay /\ ~(Day[x] >= o.since)
          \/ o.until # NoDay /\ ~(Day[x] <= o.until)
      BY <1>3, <2>1, LeftOut DEF batch
    <2>5. (\A c \in batch : Day[x] <= Day[c]) \/ (\A c \in batch : Day[c] <= Day[x])
      BY <1>3, <1>4, <2>1, <2>3, <2>4
    <2> QED
      BY <2>2, <2>5 DEF Below, Above
  <1>7. run'.kind = "sync" /\ floors' = {} /\ synced' = {}
        /\ \A b \in posted' \cup synced' \cup run'.todo : Day[b] <= today'
    BY <1>1, <1>2, BeginKeepsTheRest
  <1> QED
    BY <1>6, <1>7 DEF CoverInv

\* A daily run takes everything new from the newest day synced on.
LEMMA AutoKeepsCoverInv ==
  ASSUME NoteInv, CoverInv, NoGaps, NEW max \in AutoMax, AutoSync(max)
  PROVE  CoverInv'
  <1> DEFINE o == [since |-> WatermarkHigh, until |-> NoDay, max |-> max, yes_all |-> FALSE]
             batch == NewestOf(New(o), o.max)
  <1>1. Begin("sync", o, NoDay) /\ SyncedDays # {} /\ max = NoMax
    BY DEF AutoSync, NoGaps
  <1>2. /\ o.max = max /\ o.since = WatermarkHigh /\ o.until = NoDay
    OBVIOUS
  <1> HIDE DEF o
  <1>3. EdgesOK /\ WatermarkHigh \in Nat /\ WatermarkLow \in Nat /\ WatermarkHigh # NoDay
    <2>1. EdgesOK
      BY EdgesHold
    <2> QED
      BY <1>1, <2>1 DEF EdgesOK, SyncedDays
  <1>4. \A c \in batch : WatermarkHigh <= Day[c]
    BY <1>1, <1>2, <1>3, BeginKeepsTheRest, DaysAreNat DEF Selected
  <1>5. batch \subseteq Bookmarks
    BY <1>1, BeginKeepsTheRest
  <1> HIDE DEF batch
  <1>6. run'.todo = batch /\ run'.kind = "sync" /\ run.todo = {}
    BY <1>1, BeginKeepsTheRest DEF batch
  <1>7. ASSUME NEW x \in Uncovered', x \notin run'.todo PROVE Below(x)' \/ Above(x)'
    <2>1. x \in Uncovered /\ x \in Bookmarks /\ Day[x] \in Nat /\ x \notin batch
      BY <1>1, <1>6, <1>7, BeginKeepsTheRest, DaysAreNat
    <2>2. ~(WatermarkHigh <= Day[x])
      BY <1>1, <1>2, <1>3, <2>1, LeftOut DEF batch
    <2>3. Below(x)
      BY <1>1, <1>6, <2>1, <2>2 DEF CoverInv, Above
    <2>4. Day[x] < CoverageFloor
      BY <1>1, <2>3 DEF Below
    <2>5. \A c \in batch : Day[c] \in Nat
      BY <1>5, DaysAreNat
    <2>6. \A c \in batch : Day[x] <= Day[c]
      BY <1>3, <1>4, <2>1, <2>2, <2>5
    <2>7. SyncedDays' = SyncedDays /\ CoverageFloor' = CoverageFloor
      BY <1>1, BeginKeepsTheRest
    <2> QED
      BY <1>6, <2>4, <2>6, <2>7 DEF Below
  <1>8. \A c \in batch, d \in synced : Day[d] <= Day[c]
    <2> TAKE c \in batch, d \in synced
    <2>1. Day[c] \in Nat /\ Day[d] \in Nat
      BY <1>5, DaysAreNat
    <2>2. Day[d] = NoDay \/ Day[d] \in SyncedDays
      BY DEF SyncedDays
    <2> QED
      BY <1>1, <1>3, <1>4, <2>1, <2>2 DEF EdgesOK, NoDay
  <1>9. /\ UNCHANGED <<synced, floors>> /\ SyncedDays' # {}
        /\ \A b \in posted' \cup synced' \cup run'.todo : Day[b] <= today'
    BY <1>1, BeginKeepsTheRest
  <1> QED
    BY <1>6, <1>7, <1>8, <1>9 DEF CoverInv

\* A window lies below the floor, and what it does not take below what it takes.
LEMMA BackfillKeepsCoverInv ==
  ASSUME NoteInv, CoverInv, NEW days \in Widths, NEW max \in WindowMax, Backfill(days, max)
  PROVE  CoverInv'
  <1> DEFINE since == CoverageFloor - days
             o == [since |-> Max({since, FirstDay}), until |-> CoverageFloor - 1,
                   max |-> max, yes_all |-> FALSE]
             batch == NewestOf(New(o), o.max)
  <1>1. Begin("backfill", o, since) /\ HasFloor /\ CoverageFloor > FirstDay
    BY DEF Backfill
  <1>2. SyncedDays # {}
    BY <1>1 DEF HasFloor, CoverInv
  <1>3. EdgesOK /\ WatermarkHigh \in Nat /\ WatermarkLow \in Nat /\ CoverageFloor \in Int
    <2>1. EdgesOK
      BY EdgesHold
    <2> QED
      BY <1>2, <2>1 DEF EdgesOK
  <1>4. since \in Int /\ FirstDay \in Int /\ FirstDay > 0
    BY <1>3, PinboardConstants, DaysAreNat
  <1> HIDE DEF since
  <1>5. Max({since, FirstDay}) \in {since, FirstDay}
        /\ since <= Max({since, FirstDay}) /\ FirstDay <= Max({since, FirstDay})
    <2>1. IsFiniteSet({since, FirstDay})
      BY PairIsFinite
    <2>2. {since, FirstDay} \subseteq Int /\ {since, FirstDay} # {}
      BY <1>4
    <2> QED
      BY <2>1, <2>2, MaxIsGreatest
  <1>6. /\ o.max = max /\ o.since = Max({since, FirstDay}) /\ o.until = CoverageFloor - 1
        /\ o.max \in Nat \cup {NoMax} /\ o.since \in Int /\ o.until \in Int
        /\ o.since # NoDay /\ o.until # NoDay
    BY <1>1, <1>3, <1>4, <1>5, PinboardConstants DEF NoDay
  <1> HIDE DEF o
  <1>7. \A c \in batch : /\ o.since <= Day[c] /\ Day[c] # NoDay /\ Day[c] <= CoverageFloor - 1
                         /\ Day[c] <= WatermarkHigh /\ Day[c] \in Nat
    <2> TAKE c \in batch
    <2>1. c \in Selected(o) /\ Day[c] \in Nat
      BY <1>1, BeginKeepsTheRest, DaysAreNat
    <2>2. o.since <= Day[c] /\ Day[c] # NoDay /\ Day[c] <= CoverageFloor - 1
      BY <1>3, <1>6, <2>1 DEF Selected
    <2>3. CoverageFloor <= WatermarkLow + 1 /\ WatermarkLow <= WatermarkHigh
      BY <1>2, <1>3 DEF EdgesOK
    <2> QED
      BY <1>3, <2>1, <2>2, <2>3
  <1> HIDE DEF batch
  <1>8. /\ run'.todo = batch /\ run'.kind = "backfill" /\ run.todo = {} /\ run'.floor = since
        /\ run'.complete => batch = New(o)
    BY <1>1, BeginKeepsTheRest DEF batch
  <1>9. ASSUME NEW x \in Uncovered', x \notin run'.todo PROVE Below(x)' \/ Above(x)'
    <2>1. x \in Uncovered /\ x \in Bookmarks /\ Day[x] \in Nat /\ x \notin batch
          /\ FirstDay <= Day[x]
      BY <1>1, <1>8, <1>9, BeginKeepsTheRest, DaysAreNat
    <2>2. /\ SyncedDays' = SyncedDays /\ CoverageFloor' = CoverageFloor
          /\ WatermarkHigh' = WatermarkHigh
      BY <1>1, BeginKeepsTheRest
    <2>3. CASE WatermarkHigh <= Day[x]
      <3>1. \A c \in batch : Day[c] <= Day[x]
        BY <1>3, <1>7, <2>1, <2>3
      <3> QED
        BY <1>8, <2>2, <2>3, <3>1 DEF Above
    <2>4. CASE ~(WatermarkHigh <= Day[x])
      <3>1. Below(x)
        BY <1>2, <1>8, <2>1, <2>4 DEF CoverInv, Above
      <3>2. Day[x] < CoverageFloor
        BY <1>2, <3>1 DEF Below
      <3>3. \/ o.max # NoMax /\ x \in New(o) /\ \A c \in batch : Day[x] <= Day[c]
            \/ ~(Day[x] >= o.since) \/ ~(Day[x] <= o.until)
        BY <1>6, <2>1, LeftOut DEF batch
      <3>4. Day[x] <= o.until
        BY <1>3, <1>6, <2>1, <3>2
      <3>5. \A c \in batch : Day[x] <= Day[c]
        BY <1>6, <1>7, <2>1, <3>3, <3>4
      <3>6. run'.complete => Day[x] < since
        <4> SUFFICES ASSUME run'.complete PROVE Day[x] < since
          OBVIOUS
        <4>1. ~(Day[x] >= o.since)
          BY <1>8, <2>1, <3>3, <3>4
        <4> QED
          BY <1>4, <1>5, <1>6, <2>1, <4>1
      <3> QED
        BY <1>8, <2>2, <3>2, <3>5, <3>6 DEF Below
    <2> QED
      BY <2>3, <2>4
  <1>10. /\ UNCHANGED <<synced, floors>> /\ SyncedDays' # {} /\ WatermarkHigh' = WatermarkHigh
         /\ \A b \in posted' \cup synced' \cup run'.todo : Day[b] <= today'
    BY <1>1, <1>2, BeginKeepsTheRest
  <1> QED
    BY <1>7, <1>8, <1>9, <1>10 DEF CoverInv

----------------------------------------------------------------------------
\* A record moves the edges no further than its day.
LEMMA RecordedEdges ==
  ASSUME NoteInv, NoteInv', CoverInv, NEW b \in run.todo, Day[b] # NoDay,
         synced' = synced \cup {b}, floors' = floors
  PROVE  /\ SyncedDays' = SyncedDays \cup {Day[b]}
         /\ \A x \in Bookmarks :
              /\ Day[x] <= Day[b] /\ (SyncedDays # {} => Day[x] < CoverageFloor)
                    => Day[x] < CoverageFloor'
              /\ Day[b] <= Day[x] /\ (SyncedDays # {} => WatermarkHigh <= Day[x])
                    => WatermarkHigh' <= Day[x]
         /\ SyncedDays # {} /\ Day[b] <= WatermarkHigh => WatermarkHigh' = WatermarkHigh
  <1>1. SyncedDays' = SyncedDays \cup {Day[b]}
    BY DEF SyncedDays
  <1>2. EdgesOK /\ EdgesOK'
    BY EdgesHold, EdgesHoldNext
  <1>3. Day[b] \in Nat /\ \A x \in Bookmarks : Day[x] \in Nat
    BY DaysAreNat
  <1>4. /\ SyncedDays \subseteq Nat /\ floors \subseteq Int
        /\ WatermarkHigh' \in SyncedDays \cup {Day[b]} /\ WatermarkLow' \in SyncedDays \cup {Day[b]}
        /\ \A d \in SyncedDays \cup {Day[b]} : WatermarkLow' <= d /\ d <= WatermarkHigh'
        /\ CoverageFloor' \in Int /\ CoverageFloor' \in floors \cup {WatermarkLow' + 1}
    BY <1>1, <1>2, DaysAreNat DEF EdgesOK
  <1>5. SyncedDays = {} => floors = {}
    BY DEF CoverInv
  <1>6. SyncedDays # {} =>
        /\ WatermarkHigh \in SyncedDays /\ CoverageFloor \in Int /\ WatermarkLow \in SyncedDays
        /\ \A d \in SyncedDays : WatermarkLow <= d /\ d <= WatermarkHigh
        /\ \A f \in floors : CoverageFloor <= f
        /\ CoverageFloor <= WatermarkLow + 1
    BY <1>2 DEF EdgesOK
  <1>7. ASSUME NEW x \in Bookmarks, Day[x] <= Day[b], SyncedDays # {} => Day[x] < CoverageFloor
        PROVE  Day[x] < CoverageFloor'
    <2>1. CASE CoverageFloor' \in floors
      <3>1. SyncedDays # {} /\ CoverageFloor <= CoverageFloor'
        BY <1>5, <1>6, <2>1
      <3> QED
        BY <1>3, <1>4, <1>6, <1>7, <3>1
    <2>2. CASE CoverageFloor' = WatermarkLow' + 1 /\ WatermarkLow' = Day[b]
      BY <1>3, <1>7, <2>2
    <2>3. CASE CoverageFloor' = WatermarkLow' + 1 /\ WatermarkLow' \in SyncedDays
      <3>1. SyncedDays # {} /\ WatermarkLow <= WatermarkLow' /\ WatermarkLow \in Nat /\ WatermarkLow' \in Nat
        BY <1>4, <1>6, <2>3
      <3>2. Day[x] < CoverageFloor /\ CoverageFloor <= WatermarkLow + 1 /\ CoverageFloor \in Int
        BY <1>6, <1>7, <3>1
      <3>3. Day[x] \in Nat
        BY <1>3
      <3> QED
        BY <2>3, <3>1, <3>2, <3>3
    <2> QED
      BY <1>4, <2>1, <2>2, <2>3
  <1>8. ASSUME NEW x \in Bookmarks, Day[b] <= Day[x], SyncedDays # {} => WatermarkHigh <= Day[x]
        PROVE  WatermarkHigh' <= Day[x]
    <2>1. CASE WatermarkHigh' = Day[b]
      BY <1>8, <2>1
    <2>2. CASE WatermarkHigh' \in SyncedDays
      <3>1. SyncedDays # {} /\ WatermarkHigh' <= WatermarkHigh /\ WatermarkHigh \in Nat /\ WatermarkHigh' \in Nat
        BY <1>4, <1>6, <2>2
      <3> QED
        BY <1>3, <1>8, <3>1
    <2> QED
      BY <1>4, <2>1, <2>2
  <1>9. SyncedDays # {} /\ Day[b] <= WatermarkHigh => WatermarkHigh' = WatermarkHigh
    <2> SUFFICES ASSUME SyncedDays # {}, Day[b] <= WatermarkHigh PROVE WatermarkHigh' = WatermarkHigh
      OBVIOUS
    <2>1. WatermarkHigh \in Nat /\ WatermarkHigh' \in Nat
      BY <1>3, <1>4, <1>6
    <2>2. WatermarkHigh <= WatermarkHigh' /\ WatermarkHigh' <= WatermarkHigh
      BY <1>4, <1>6
    <2> QED
      BY <2>1, <2>2
  <1> QED
    BY <1>1, <1>7, <1>8, <1>9

\* The notes of a run are written oldest first.
LEMMA NextIsOldest ==
  ASSUME NoteInv, NEW b \in run.todo, IsNext(b), NEW c \in run.todo
  PROVE  Day[b] <= Day[c]
  <1>1. b \in Bookmarks /\ c \in Bookmarks /\ Day[b] \in Nat /\ Day[c] \in Nat
        /\ Order[b] \in Nat /\ Order[c] \in Nat
    BY DaysAreNat, PinboardConstants
  <1>2. Order[b] <= Order[c]
    BY DEF IsNext
  <1>3. Day[c] < Day[b] => Order[c] < Order[b]
    BY <1>1, PinboardConstants
  <1> QED
    BY <1>1, <1>2, <1>3

LEMMA RecordKeepsCoverInv ==
  ASSUME NoteInv, NoteInv', CoverInv, NEW b \in run.todo, IsNext(b), RecordNote(b),
         UNCHANGED <<today, posted, taken, crashes>>
  PROVE  CoverInv'
  <1>1. /\ synced' = synced \cup {b} /\ floors' = floors
        /\ run' = [run EXCEPT !.step = "note", !.todo = @ \ {b}]
    BY DEF RecordNote
  <1>2. /\ run'.todo = run.todo \ {b} /\ run'.kind = run.kind
        /\ run'.floor = run.floor /\ run'.complete = run.complete
    BY <1>1 DEF NoteInv, TypeOK
  <1>3. b \in Bookmarks /\ \A c \in run.todo : Day[b] <= Day[c]
    BY NextIsOldest, DaysAreNat
  <1>4. \A x \in Uncovered' : x \in Uncovered /\ x # b /\ x \in Bookmarks
    BY <1>1, DaysAreNat DEF Uncovered, Known
  <1>5. \A x \in posted' \cup synced' \cup run'.todo : Day[x] <= today'
    BY <1>1, <1>2 DEF CoverInv
  <1>6. run'.kind = "sync" => \A c \in run'.todo, d \in synced' : Day[c] # NoDay => Day[d] <= Day[c]
    BY <1>1, <1>2, <1>3 DEF CoverInv
  <1>7. CASE Day[b] = NoDay
    <2>1. SyncedDays' = SyncedDays
      BY <1>1, <1>7 DEF SyncedDays
    <2>2. WatermarkHigh' = WatermarkHigh /\ CoverageFloor' = CoverageFloor
      BY <1>1, <2>1 DEF WatermarkHigh, WatermarkLow, CoverageFloor
    <2>3. \A x \in Uncovered' \ run'.todo : Below(x)' \/ Above(x)'
      BY <1>2, <1>4, <2>1, <2>2 DEF CoverInv, Below, Above
    <2> QED
      BY <1>1, <1>2, <1>5, <1>6, <2>1, <2>2, <2>3 DEF CoverInv
  <1>8. CASE Day[b] # NoDay
    <2>1. SyncedDays' # {} /\ (run.kind = "backfill" => WatermarkHigh' = WatermarkHigh)
      BY <1>1, <1>8, RecordedEdges DEF CoverInv
    <2>2. ASSUME NEW x \in Uncovered', x \notin run'.todo PROVE Below(x)' \/ Above(x)'
      <3>1. x \in Uncovered /\ x \notin run.todo /\ x \in Bookmarks
        BY <1>2, <1>4, <2>2
      <3>2. CASE Below(x)
        <4>1. Day[x] < CoverageFloor'
          BY <1>1, <1>8, <3>1, <3>2, RecordedEdges DEF Below
        <4> QED
          BY <1>2, <3>2, <4>1 DEF Below
      <3>3. CASE Above(x)
        <4>1. WatermarkHigh' <= Day[x]
          BY <1>1, <1>8, <3>1, <3>3, RecordedEdges DEF Above
        <4> QED
          BY <1>2, <3>3, <4>1 DEF Above
      <3> QED
        BY <3>1, <3>2, <3>3 DEF CoverInv
    <2> QED
      BY <1>1, <1>2, <1>5, <1>6, <2>1, <2>2 DEF CoverInv
  <1> QED
    BY <1>7, <1>8

LEMMA WritesKeepCoverInv ==
  ASSUME NoteInv, NoteInv', CoverInv, Writes
  PROVE  CoverInv'
  <1> PICK b \in run.todo : IsNext(b) /\ (WriteNote(b) \/ LogNote(b) \/ RecordNote(b))
    BY DEF Writes
  <1>1. UNCHANGED <<today, posted, taken, crashes>>
    BY DEF Writes
  <1>2. CASE RecordNote(b)
    BY <1>1, <1>2, RecordKeepsCoverInv
  <1>3. CASE WriteNote(b) \/ LogNote(b)
    <2>1. UNCHANGED <<synced, floors>>
      BY <1>3 DEF WriteNote, LogNote
    <2>2. /\ run'.todo = run.todo /\ run'.kind = run.kind
          /\ run'.floor = run.floor /\ run'.complete = run.complete
      BY <1>3 DEF WriteNote, LogNote, NoteInv, TypeOK
    <2>3. Uncovered' = Uncovered
      BY <1>1, <2>1 DEF Uncovered, Known
    <2> QED
      BY <1>1, <2>1, <2>2, <2>3, EdgesStay DEF CoverInv, Below, Above
  <1> QED
    BY <1>2, <1>3

\* A window that is done records its floor; a sync may be killed at any point.
LEMMA EndsKeepCoverInv ==
  ASSUME NoteInv, NoteInv', CoverInv, NoGaps, Ends
  PROVE  CoverInv'
  <1>1. /\ run' = Off /\ run'.todo = {} /\ run'.kind = "off"
        /\ UNCHANGED <<today, posted, synced, taken>>
    BY DEF Ends, Finish, Crash, ledgers, Off
  <1>2. Uncovered' = Uncovered /\ SyncedDays' = SyncedDays /\ WatermarkHigh' = WatermarkHigh
    BY <1>1 DEF Uncovered, Known, SyncedDays, WatermarkHigh
  <1>3. \A x \in Uncovered : x \in Bookmarks /\ Day[x] # NoDay /\ Day[x] \in Nat
    BY DaysAreNat DEF Uncovered
  <1>4. CASE floors' = floors /\ (run.todo = {} \/ run.kind = "sync")
    <2>1. CoverageFloor' = CoverageFloor
      BY <1>1, <1>4, EdgesStay
    <2>2. ASSUME NEW x \in Uncovered, x \in run.todo PROVE Above(x)'
      <3>1. \A d \in synced : Day[d] <= Day[x]
        BY <1>3, <1>4, <2>2 DEF CoverInv
      <3>2. SyncedDays # {} => WatermarkHigh \in SyncedDays
        BY EdgesHold DEF EdgesOK
      <3>3. SyncedDays # {} => WatermarkHigh <= Day[x]
        BY <3>1, <3>2 DEF SyncedDays
      <3> QED
        BY <1>1, <1>2, <3>3 DEF Above
    <2>3. ASSUME NEW x \in Uncovered, x \notin run.todo PROVE Below(x)' \/ Above(x)'
      BY <1>1, <1>2, <2>1, <2>3 DEF CoverInv, Below, Above
    <2> QED
      BY <1>1, <1>2, <1>4, <2>2, <2>3 DEF CoverInv
  <1>5. CASE floors' = floors \cup {run.floor} /\ run.kind = "backfill" /\ run.complete /\ run.todo = {}
    <2>1. EdgesOK /\ EdgesOK' /\ SyncedDays # {}
      BY <1>5, EdgesHold, EdgesHoldNext DEF CoverInv
    <2>2. WatermarkLow' = WatermarkLow
      BY <1>2 DEF WatermarkLow
    <2>3. CoverageFloor' \in floors \cup {run.floor, WatermarkLow + 1}
      BY <1>2, <1>5, <2>1, <2>2 DEF EdgesOK
    <2>4. CoverageFloor \in Int /\ CoverageFloor <= WatermarkLow + 1 /\ WatermarkLow \in Nat
          /\ \A f \in floors : f \in Int /\ CoverageFloor <= f
      BY <2>1, DaysAreNat DEF EdgesOK
    <2>5. ASSUME NEW x \in Uncovered PROVE Below(x)' \/ Above(x)'
      <3>1. CASE Above(x)
        BY <1>1, <1>2, <3>1 DEF Above
      <3>2. CASE Below(x)
        <4>1. Day[x] < CoverageFloor /\ Day[x] < run.floor /\ run.floor \in Int
          BY <1>5, <2>1, <3>2, DaysAreNat DEF Below
        <4>2. Day[x] < CoverageFloor'
          BY <1>3, <2>3, <2>4, <4>1
        <4> QED
          BY <1>1, <4>2 DEF Below
      <3> QED
        BY <1>5, <3>1, <3>2 DEF CoverInv
    <2> QED
      BY <1>1, <1>2, <2>1, <2>5 DEF CoverInv
  <1>6. CASE Finish
    <2>1. run.todo = {} /\ floors' = IF run.kind = "backfill" THEN FinishedFloors ELSE floors
      BY <1>6 DEF Finish
    <2> QED
      BY <1>4, <1>5, <2>1 DEF FinishedFloors
  <1>7. CASE Crash
    BY <1>4, <1>7, PinboardConstants DEF Crash, ledgers, NoGaps
  <1> QED
    BY <1>6, <1>7 DEF Ends

\* What is posted now is newer than everything covered.
LEMMA OthersKeepCoverInv ==
  ASSUME NoteInv, NoteInv', CoverInv, Others
  PROVE  CoverInv'
  <1>1. UNCHANGED <<synced, floors, run>>
    BY DEF Others, Post, NextDay, TakeIn, ledgers
  <1>2. \A x : (Below(x)' <=> Below(x)) /\ (Above(x)' <=> Above(x))
    BY <1>1, EdgesStay DEF Below, Above
  <1>3. today' \in Nat /\ today <= today'
    BY DaysAreNat DEF Others, Post, NextDay, TakeIn
  <1>4. CASE \E b \in Bookmarks : Post(b)
    <2> PICK b \in Bookmarks : Post(b)
      BY <1>4
    <2>1. posted' = {c \in posted : UrlOf[c] # UrlOf[b]} \cup {b} /\ taken' = taken /\ today' = today
          /\ Day[b] \in {NoDay, today}
      BY DEF Post
    <2>2. Known' = Known
      BY <1>1, <2>1 DEF Known
    <2>3. \A x \in Uncovered' : x \in Uncovered \/ (x = b /\ Day[b] = today)
      BY <2>1, <2>2 DEF Uncovered
    <2>4. Day[b] = today => Above(b)
      <3>1. SyncedDays # {} => WatermarkHigh \in SyncedDays
        BY EdgesHold DEF EdgesOK
      <3> QED
        BY <3>1 DEF Above, SyncedDays, CoverInv
    <2>5. \A x \in posted' : Day[x] <= today
      BY <2>1, DaysAreNat DEF CoverInv, NoDay
    <2> QED
      BY <1>1, <1>2, <2>1, <2>3, <2>4, <2>5, EdgesStay DEF CoverInv
  <1>5. CASE NextDay \/ (\E u \in Urls : TakeIn(u))
    <2>1. posted' = posted /\ taken \subseteq taken'
      BY <1>5 DEF NextDay, TakeIn
    <2>2. Uncovered' \subseteq Uncovered
      BY <1>1, <2>1 DEF Uncovered, Known
    <2>3. \A x \in posted \cup synced \cup run.todo : Day[x] <= today'
      <3> TAKE x \in posted \cup synced \cup run.todo
      <3>1. Day[x] \in Nat /\ today \in Nat /\ Day[x] <= today
        BY DaysAreNat DEF CoverInv
      <3> QED
        BY <1>3, <3>1
    <2> QED
      BY <1>1, <1>2, <2>1, <2>2, <2>3, EdgesStay DEF CoverInv
  <1> QED
    BY <1>4, <1>5 DEF Others

LEMMA NextKeepsCoverInv ==
  ASSUME NoGaps
  PROVE  NoteInv /\ NoteInv' /\ CoverInv /\ [Next]_vars => CoverInv'
  <1> SUFFICES ASSUME NoteInv, NoteInv', CoverInv, [Next]_vars PROVE CoverInv'
    OBVIOUS
  <1>1. CASE UNCHANGED vars
    <2>1. UNCHANGED <<today, posted, synced, floors, taken, run>>
      BY <1>1 DEF vars, ledgers
    <2>2. Uncovered' = Uncovered
      BY <2>1 DEF Uncovered, Known
    <2> QED
      BY <2>1, <2>2, EdgesStay DEF CoverInv, Below, Above
  <1>2. CASE Starts
    BY <1>2, SyncKeepsCoverInv, AutoKeepsCoverInv, BackfillKeepsCoverInv DEF Starts
  <1> QED
    BY <1>1, <1>2, WritesKeepCoverInv, EndsKeepCoverInv, OthersKeepCoverInv, StepsOfNext

\* Why the floor is true: what is not captured is below the floor or above the
\* newest day, or still to be written by the run at work.
THEOREM CoverInvariant ==
  ASSUME NoGaps
  PROVE  Spec => []CoverInv
  <1>1. Init => CoverInv
    <2> SUFFICES ASSUME Init PROVE CoverInv
      OBVIOUS
    <2>1. SyncedDays = {} /\ run.todo = {} /\ run.kind = "off" /\ floors = {} /\ synced = {}
      BY DEF Init, SyncedDays, Off
    <2> QED
      BY <2>1 DEF Init, CoverInv, Below
  <1> QED
    BY <1>1, NextKeepsCoverInv, NextKeepsNoteInv, InitEstablishesNoteInv, PTL DEF Spec

\* Every bookmark from the coverage floor up to the newest day synced has been
\* captured (coverage_floor), as long as backfill runs are not killed, daily runs
\* not capped and explicit syncs not repeated; syncs may be killed at any point.
THEOREM TheFloorIsTrue ==
  ASSUME NoGaps
  PROVE  Spec => []FloorIsTrue
  <1>1. NoteInv /\ CoverInv => FloorIsTrue
    <2> SUFFICES ASSUME NoteInv, CoverInv, SyncedDays # {}, run.kind # "backfill",
                        NEW b \in posted, Day[b] # NoDay, CoverageFloor <= Day[b], Day[b] < WatermarkHigh,
                        UrlOf[b] \notin Known
                 PROVE  FALSE
      BY DEF FloorIsTrue
    <2>1. b \in Uncovered /\ EdgesOK /\ Day[b] \in Nat
      BY EdgesHold, DaysAreNat DEF Uncovered
    <2>2. WatermarkHigh \in Nat /\ CoverageFloor \in Int
      BY <2>1 DEF EdgesOK
    <2>3. b \in run.todo
      BY <2>1, <2>2 DEF CoverInv, Below, Above
    <2>4. run.kind = "sync"
      BY <2>3 DEF NoteInv, TypeOK, Off
    <2>5. \A d \in SyncedDays : d <= Day[b]
      BY <2>3, <2>4 DEF CoverInv, SyncedDays
    <2> QED
      BY <2>1, <2>2, <2>5 DEF EdgesOK
  <1> QED
    BY <1>1, CoverInvariant, NoteInvariant, PTL
----------------------------------------------------------------------------
(* The calendar: an era of 400 years begins on March 1, and is four         *)
(* centuries of twenty-five groups of four years, but for the last days of  *)
(* a century and of an era.                                                 *)

\* A quotient and a remainder are the only ones.
LEMMA Quotient ==
  ASSUME NEW a \in Int, NEW b \in Nat \ {0}, NEW q \in Int, NEW r \in 0 .. b - 1, a = b * q + r
  PROVE  a \div b = q /\ a % b = r
  <1>1. a \div b \in Int /\ a % b \in 0 .. b - 1 /\ a = b * (a \div b) + (a % b)
    OBVIOUS
  <1>2. PICK k \in Int, s \in 0 .. b - 1 : k = a \div b /\ s = a % b /\ a = b * k + s
    BY <1>1
  <1>3. b * q + r = b * k + s
    BY <1>2
  <1>4. ~(q < k)
    <2> SUFFICES ASSUME q < k PROVE FALSE
      OBVIOUS
    <2>1. PICK n \in Nat : k = q + 1 + n
      <3>1. k - q - 1 \in Nat /\ k = q + 1 + (k - q - 1)
        OBVIOUS
      <3> QED
        BY <3>1
    <2>2. b * k = b * q + b + b * n /\ b * n \in Nat
      BY <2>1
    <2> QED
      BY <1>3, <2>2
  <1>5. ~(k < q)
    <2> SUFFICES ASSUME k < q PROVE FALSE
      OBVIOUS
    <2>1. PICK n \in Nat : q = k + 1 + n
      <3>1. q - k - 1 \in Nat /\ q = k + 1 + (q - k - 1)
        OBVIOUS
      <3> QED
        BY <3>1
    <2>2. b * q = b * k + b + b * n /\ b * n \in Nat
      BY <2>1
    <2> QED
      BY <1>3, <2>2
  <1> QED
    BY <1>2, <1>3, <1>4, <1>5

Divided(a, b, q, r) ==
    a \in Int /\ b \in Nat \ {0} /\ q \in Int /\ r \in Int /\ 0 <= r /\ r < b /\ a = b * q + r

\* The same, of facts that name each other.
LEMMA DividedBy ==
  ASSUME NEW a, NEW b, NEW q, NEW r, Divided(a, b, q, r)
  PROVE  a \div b = q /\ a % b = r
  <1>1. r \in 0 .. b - 1
    BY DEF Divided
  <1> QED
    BY <1>1, Quotient DEF Divided

\* A year is one of four centuries of an era, one of twenty-five groups of four
\* years in it, and one of these.
Splits(y, e, c, q, r) ==
    /\ e \in Int /\ c \in Int /\ q \in Int /\ r \in Int
    /\ 0 <= c /\ c <= 3 /\ 0 <= q /\ q <= 24 /\ 0 <= r /\ r <= 3
    /\ y = 400 * e + 100 * c + 4 * q + r

LEMMA YearsSplit ==
  ASSUME NEW y \in Int
  PROVE  \E e \in Int, c \in Int, q \in Int, r \in Int : Splits(y, e, c, q, r)
  <1>1. PICK e \in Int, n \in 0 .. 399 : y = 400 * e + n
    <2>1. y \div 400 \in Int /\ y % 400 \in 0 .. 399 /\ y = 400 * (y \div 400) + (y % 400)
      OBVIOUS
    <2> QED
      BY <2>1
  <1>2. PICK c \in 0 .. 3, k \in 0 .. 99 : n = 100 * c + k
    <2>1. n \div 100 \in 0 .. 3 /\ n % 100 \in 0 .. 99 /\ n = 100 * (n \div 100) + (n % 100)
      OBVIOUS
    <2> QED
      BY <2>1
  <1>3. PICK q \in 0 .. 24, r \in 0 .. 3 : k = 4 * q + r
    <2>1. k \div 4 \in 0 .. 24 /\ k % 4 \in 0 .. 3 /\ k = 4 * (k \div 4) + (k % 4)
      OBVIOUS
    <2> QED
      BY <2>1
  <1>4. y = 400 * e + 100 * c + 4 * q + r
    BY <1>1, <1>2, <1>3
  <1> QED
    BY <1>4 DEF Splits

LEMMA SplitYear ==
  ASSUME NEW y, NEW e, NEW c, NEW q, NEW r, Splits(y, e, c, q, r)
  PROVE  /\ y \in Int /\ y \div 400 = e
         /\ y - e * 400 = 100 * c + 4 * q + r
         /\ (100 * c + 4 * q + r) \div 4 = 25 * c + q
         /\ (100 * c + 4 * q + r) \div 100 = c
         /\ y % 4 = r /\ y % 100 = 4 * q + r /\ y % 400 = 100 * c + 4 * q + r
  <1>1. /\ e \in Int /\ c \in Int /\ q \in Int /\ r \in Int
        /\ 0 <= c /\ c <= 3 /\ 0 <= q /\ q <= 24 /\ 0 <= r /\ r <= 3
        /\ y = 400 * e + 100 * c + 4 * q + r
    BY DEF Splits
  <1> DEFINE n == 100 * c + 4 * q + r
             k == 4 * q + r
             a == 100 * e + 25 * c + q
             b == 4 * e + c
             d == 25 * c + q
  <1>2. Divided(y, 400, e, n) /\ Divided(y, 100, b, k) /\ Divided(y, 4, a, r)
    BY <1>1 DEF Divided
  <1>3. Divided(n, 4, d, r) /\ Divided(n, 100, c, k)
    BY <1>1 DEF Divided
  <1>4. y \in Int /\ y - e * 400 = n
    BY <1>1
  <1> HIDE DEF n, k, a, b, d
  <1>5. y \div 400 = e /\ y % 400 = n /\ y % 100 = k /\ y % 4 = r
    BY <1>2, DividedBy
  <1>6. n \div 4 = d /\ n \div 100 = c
    BY <1>3, DividedBy
  <1> QED
    BY <1>4, <1>5, <1>6 DEF n, k, d

\* The year after, and whether it is a leap year.
LEMMA NextYear ==
  ASSUME NEW y, NEW e, NEW c, NEW q, NEW r, Splits(y, e, c, q, r)
  PROVE  IsLeap(y + 1) <=> r = 3 /\ (q # 24 \/ c = 3)
  <1>1. /\ e \in Int /\ c \in 0 .. 3 /\ q \in 0 .. 24 /\ r \in 0 .. 3
        /\ y = 400 * e + 100 * c + 4 * q + r
    BY DEF Splits
  <1>2. CASE r # 3
    <2>1. Splits(y + 1, e, c, q, r + 1)
      BY <1>1, <1>2 DEF Splits
    <2>2. (y + 1) % 4 = r + 1
      BY <2>1, SplitYear
    <2> QED
      BY <1>1, <1>2, <2>2 DEF IsLeap
  <1>3. CASE r = 3 /\ q # 24
    <2>1. Splits(y + 1, e, c, q + 1, 0)
      BY <1>1, <1>3 DEF Splits
    <2>2. (y + 1) % 4 = 0 /\ (y + 1) % 100 = 4 * (q + 1) + 0
      BY <2>1, SplitYear
    <2> QED
      BY <1>1, <1>3, <2>2 DEF IsLeap
  <1>4. CASE r = 3 /\ q = 24 /\ c # 3
    <2>1. Splits(y + 1, e, c + 1, 0, 0)
      BY <1>1, <1>4 DEF Splits
    <2>2. (y + 1) % 100 = 4 * 0 + 0 /\ (y + 1) % 400 = 100 * (c + 1) + 4 * 0 + 0
      BY <2>1, SplitYear
    <2> QED
      BY <1>1, <1>4, <2>2 DEF IsLeap
  <1>5. CASE r = 3 /\ q = 24 /\ c = 3
    <2>1. Splits(y + 1, e + 1, 0, 0, 0)
      BY <1>1, <1>5 DEF Splits
    <2>2. (y + 1) % 4 = 0 /\ (y + 1) % 400 = 100 * 0 + 4 * 0 + 0
      BY <2>1, SplitYear
    <2> QED
      BY <1>1, <1>5, <2>2 DEF IsLeap
  <1> QED
    BY <1>2, <1>3, <1>4, <1>5

\* A quotient by its remainder.
LEMMA QuotientIs ==
  ASSUME NEW n \in Int, NEW b \in Nat \ {0}, NEW k \in Int, 0 <= n - b * k, n - b * k <= b - 1
  PROVE  n \div b = k
  <1>1. n = b * k + (n - b * k) /\ n - b * k \in 0 .. b - 1
    <2>1. b * k \in Int
      OBVIOUS
    <2> QED
      BY <2>1
  <1> QED
    BY <1>1, Quotient

\* Months are counted from March: the n-th of them begins MonthStart days into
\* the year, and Feb 29 is the last day of a year.
MarchMonth(m) == (m + 9) % 12
MonthStart(m) == (153 * MarchMonth(m) + 2) \div 5
MarchYear(date) == IF date[2] <= 2 THEN date[1] - 1 ELSE date[1]
DayOfYear(date) == MonthStart(date[2]) + date[3] - 1
YearStart(e, c, q, r) == 146097 * e + 36524 * c + 1461 * q + 365 * r

LEMMA MonthTable ==
  /\ MarchMonth(3) = 0 /\ MarchMonth(4) = 1 /\ MarchMonth(5) = 2 /\ MarchMonth(6) = 3
  /\ MarchMonth(7) = 4 /\ MarchMonth(8) = 5 /\ MarchMonth(9) = 6 /\ MarchMonth(10) = 7
  /\ MarchMonth(11) = 8 /\ MarchMonth(12) = 9 /\ MarchMonth(1) = 10 /\ MarchMonth(2) = 11
  /\ MonthStart(3) = 0 /\ MonthStart(4) = 31 /\ MonthStart(5) = 61 /\ MonthStart(6) = 92
  /\ MonthStart(7) = 122 /\ MonthStart(8) = 153 /\ MonthStart(9) = 184 /\ MonthStart(10) = 214
  /\ MonthStart(11) = 245 /\ MonthStart(12) = 275 /\ MonthStart(1) = 306 /\ MonthStart(2) = 337
  BY DEF MarchMonth, MonthStart

\* The day of the year tells the month.
LEMMA MonthOfDay ==
  ASSUME NEW date, IsDate(date)
  PROVE  /\ date[1] \in Int /\ date[2] \in 1 .. 12 /\ date[3] \in 1 .. 31
         /\ DayOfYear(date) \in Int /\ MonthStart(date[2]) \in Int
         /\ 0 <= DayOfYear(date) /\ DayOfYear(date) <= 365
         /\ DayOfYear(date) = 365 => date[2] = 2 /\ date[3] = 29
         /\ (5 * DayOfYear(date) + 2) \div 153 = MarchMonth(date[2])
         /\ date[2] = IF MarchMonth(date[2]) < 10 THEN MarchMonth(date[2]) + 3 ELSE MarchMonth(date[2]) - 9
  <1>1. /\ date[1] \in Int /\ date[2] \in 1 .. 12 /\ date[3] \in 1 .. 31
        /\ date[3] <= Length(date[1], date[2])
    BY DEF IsDate
  <1>2. PICK d \in Int : d = date[3] /\ 1 <= d /\ d <= 31
    BY <1>1
  <1>3. PICK m \in Int : m = date[2] /\ 1 <= m /\ m <= 12
    BY <1>1
  <1>4. /\ m = 2 => d <= 29
        /\ m \in {4, 6, 9, 11} => d <= 30
    BY <1>1, <1>2, <1>3 DEF Length
  <1>5. /\ m = 1 \/ m = 2 \/ m = 3 \/ m = 4 \/ m = 5 \/ m = 6
           \/ m = 7 \/ m = 8 \/ m = 9 \/ m = 10 \/ m = 11 \/ m = 12
    BY <1>3
  <1>6. PICK k \in Int, s \in Int : k = MarchMonth(m) /\ s = MonthStart(m)
    BY <1>5, MonthTable
  <1> DEFINE P(i, j, u) == m = i => k = j /\ s = u
  <1>7. /\ P(3, 0, 0) /\ P(4, 1, 31) /\ P(5, 2, 61) /\ P(6, 3, 92)
        /\ P(7, 4, 122) /\ P(8, 5, 153) /\ P(9, 6, 184) /\ P(10, 7, 214)
        /\ P(11, 8, 245) /\ P(12, 9, 275) /\ P(1, 10, 306) /\ P(2, 11, 337)
    BY <1>6, MonthTable
  <1>8. PICK n \in Int : n = s + d - 1
    OBVIOUS
  <1>9. /\ 0 <= n /\ n <= 365
        /\ n = 365 => m = 2 /\ d = 29
        /\ 0 <= 5 * n + 2 - 153 * k /\ 5 * n + 2 - 153 * k <= 152
        /\ m = IF k < 10 THEN k + 3 ELSE k - 9
    BY <1>2, <1>4, <1>5, <1>7, <1>8
  <1>10. (5 * n + 2) \div 153 = k
    <2>1. PICK a \in Int : a = 5 * n + 2
      OBVIOUS
    <2>2. 0 <= a - 153 * k /\ a - 153 * k <= 153 - 1
      BY <1>9, <2>1
    <2> QED
      BY <2>1, <2>2, QuotientIs
  <1>11. n = DayOfYear(date)
    BY <1>2, <1>3, <1>6, <1>8 DEF DayOfYear
  <1> QED
    BY <1>1, <1>2, <1>3, <1>6, <1>9, <1>10, <1>11

\* The n-th day of an era is the d-th of its year y.
DayOfEra(c, q, r, d, n, y) ==
    /\ c \in Int /\ q \in Int /\ r \in Int /\ d \in Int /\ n \in Int /\ y \in Int
    /\ 0 <= c /\ c <= 3 /\ 0 <= q /\ q <= 24 /\ 0 <= r /\ r <= 3 /\ 0 <= d /\ d <= 365
    /\ d = 365 => r = 3 /\ (q # 24 \/ c = 3)
    /\ n = 36524 * c + 1461 * q + 365 * r + d /\ y = 100 * c + 4 * q + r

LEMMA YearOfDay ==
  ASSUME NEW c, NEW q, NEW r, NEW d, NEW n, NEW y, DayOfEra(c, q, r, d, n, y)
  PROVE  0 <= n /\ n <= 146096 /\ YearOfEra(n) = y
  <1> SUFFICES ASSUME c \in Int, q \in Int, r \in Int, d \in Int, n \in Int, y \in Int,
                      0 <= c, c <= 3, 0 <= q, q <= 24, 0 <= r, r <= 3, 0 <= d, d <= 365,
                      d = 365 => r = 3 /\ (q # 24 \/ c = 3),
                      n = 36524 * c + 1461 * q + 365 * r + d, y = 100 * c + 4 * q + r
               PROVE  0 <= n /\ n <= 146096 /\ YearOfEra(n) = y
    BY DEF DayOfEra
  <1>3. 0 <= n /\ n <= 146096
    OBVIOUS
  <1>4. PICK f \in Int : f = (IF n = 146096 THEN 1 ELSE 0)
    OBVIOUS
  <1>5. PICK g \in Int : g = (IF 24 * c + q + 365 * r + d >= 1460 THEN 1 ELSE 0)
    OBVIOUS
  <1>6. PICK a \in Int, b \in Int : a = 25 * c + q + g /\ b = c + f
    BY <1>4, <1>5
  <1>7. PICK t \in Int : t = n - a + b - f
    BY <1>4, <1>6
  <1>8. n - 1460 * a = 24 * c + q + 365 * r + d - 1460 * g
    BY <1>6, <1>5
  <1>9. 0 <= n - 1460 * a /\ n - 1460 * a <= 1459
    BY <1>5, <1>8
  <1>10. 0 <= n - 36524 * b /\ n - 36524 * b <= 36523
    <2>1. CASE n = 146096
      <3>1. c = 3 /\ f = 1
        BY <1>4, <2>1
      <3> QED
        BY <1>6, <2>1, <3>1
    <2>2. CASE n # 146096
      <3>1. f = 0 /\ n - 36524 * b = 1461 * q + 365 * r + d
        BY <1>4, <1>6, <2>2
      <3>2. 1461 * q + 365 * r + d # 36524
        BY <2>2
      <3> QED
        BY <3>1, <3>2
    <2> QED
      BY <2>1, <2>2
  <1>11. 0 <= n - 146096 * f /\ n - 146096 * f <= 146095
    BY <1>3, <1>4
  <1>12. t - 365 * y = d - g
    BY <1>4, <1>5, <1>6, <1>7
  <1>13. 0 <= d - g /\ d - g <= 364
    BY <1>5
  <1>14. n \div 1460 = a /\ n \div 36524 = b
    BY <1>6, <1>9, <1>10, QuotientIs
  <1>15. n \div 146096 = f
    BY <1>4, <1>11, QuotientIs
  <1>16. t \div 365 = y
    BY <1>7, <1>5, <1>12, <1>13, QuotientIs
  <1>17. YearOfEra(n) = y
    BY <1>14, <1>15, <1>16, <1>7 DEF YearOfEra
  <1> QED
    BY <1>3, <1>17

\* days_from_civil counts whole years and the days of the last one.
LEMMA DaysAreCounted ==
  ASSUME NEW date, date[1] \in Int, date[2] \in 1 .. 12, date[3] \in Int,
         NEW e, NEW c, NEW q, NEW r, Splits(MarchYear(date), e, c, q, r)
  PROVE  DaysFromCivil(date) = YearStart(e, c, q, r) + DayOfYear(date) - 719468
  <1>1. /\ e \in Int /\ c \in 0 .. 3 /\ q \in 0 .. 24 /\ r \in 0 .. 3
        /\ MonthStart(date[2]) \in Int
    BY MonthTable DEF Splits
  <1> DEFINE y == MarchYear(date)
             n == y - e * 400
  <1>2. y \div 400 = e /\ n = 100 * c + 4 * q + r /\ n \div 4 = 25 * c + q /\ n \div 100 = c
    BY SplitYear
  <1>3. DaysFromCivil(date) = e * 146097 + (n * 365 + n \div 4 - n \div 100 + DayOfYear(date)) - 719468
    BY <1>2 DEF DaysFromCivil, DayOfYear, MonthStart, MarchMonth, MarchYear
  <1>4. DayOfYear(date) \in Int
    BY <1>1 DEF DayOfYear
  <1> HIDE DEF n, y
  <1> QED
    BY <1>1, <1>2, <1>3, <1>4 DEF YearStart

\* A day is a March year's: Feb 29 is that of a leap year.
LEMMA LastDayOfYear ==
  ASSUME NEW date, IsDate(date), DayOfYear(date) = 365,
         NEW e, NEW c, NEW q, NEW r, Splits(MarchYear(date), e, c, q, r)
  PROVE  r = 3 /\ (q # 24 \/ c = 3)
  <1>1. date[2] = 2 /\ date[3] = 29
    BY MonthOfDay
  <1>2. date[1] \in Int /\ date[3] <= Length(date[1], date[2])
    BY DEF IsDate
  <1>3. IsLeap(date[1])
    BY <1>1, <1>2 DEF Length
  <1>4. MarchYear(date) + 1 = date[1]
    BY <1>1, <1>2 DEF MarchYear
  <1> QED
    BY <1>3, <1>4, NextYear

\* civil_from_days finds the date that days_from_civil has counted.
LEMMA CivilInverts ==
  ASSUME NEW date, IsDate(date)
  PROVE  CivilFromDays(DaysFromCivil(date)) = date /\ DaysFromCivil(date) \in Int
  <1>1. date[1] \in Int /\ date = <<date[1], date[2], date[3]>>
    BY DEF IsDate
  <1>2. PICK e \in Int, c \in Int, q \in Int, r \in Int : Splits(MarchYear(date), e, c, q, r)
    <2>1. MarchYear(date) \in Int
      BY <1>1 DEF MarchYear
    <2> QED
      BY <2>1, YearsSplit
  <1> SUFFICES ASSUME NEW y, y = MarchYear(date), Splits(y, e, c, q, r)
               PROVE  CivilFromDays(DaysFromCivil(date)) = date /\ DaysFromCivil(date) \in Int
    BY <1>2
  <1>3. 0 <= c /\ c <= 3 /\ 0 <= q /\ q <= 24 /\ 0 <= r /\ r <= 3 /\ y = 400 * e + 100 * c + 4 * q + r
    BY DEF Splits
  <1>4. /\ date[2] \in 1 .. 12 /\ date[3] \in 1 .. 31
        /\ DayOfYear(date) \in Int /\ MonthStart(date[2]) \in Int
    BY MonthOfDay
  <1>5. PICK doy \in Int, m \in Int : doy = DayOfYear(date) /\ m = date[2]
    <2>1. DayOfYear(date) \in Int /\ date[2] \in Int
      BY <1>4
    <2> QED
      BY <2>1
  <1>6. PICK doe \in Int, yoe \in Int :
            doe = 36524 * c + 1461 * q + 365 * r + doy /\ yoe = 100 * c + 4 * q + r
    OBVIOUS
  <1>7. 0 <= doe /\ doe <= 146096 /\ YearOfEra(doe) = yoe
    <2>1. 0 <= doy /\ doy <= 365
      BY <1>5, MonthOfDay
    <2>2. doy = 365 => r = 3 /\ (q # 24 \/ c = 3)
      <3> SUFFICES ASSUME doy = 365 PROVE r = 3 /\ (q # 24 \/ c = 3)
        OBVIOUS
      <3>1. DayOfYear(date) = 365
        BY <1>5
      <3> QED
        BY <1>2, <3>1, LastDayOfYear
    <2>3. DayOfEra(c, q, r, doy, doe, yoe)
      BY <1>3, <1>6, <2>1, <2>2 DEF DayOfEra
    <2> QED
      BY <2>3, YearOfDay
  <1>8. PICK days \in Int : days = DaysFromCivil(date) /\ days + 719468 = 146097 * e + doe
    <2>1. DaysFromCivil(date) = YearStart(e, c, q, r) + doy - 719468
      BY <1>1, <1>4, <1>5, DaysAreCounted
    <2>2. PICK s \in Int : s = YearStart(e, c, q, r) /\ s + doy = 146097 * e + doe
      BY <1>6 DEF YearStart
    <2>3. DaysFromCivil(date) = s + doy - 719468 /\ s + doy - 719468 \in Int
      BY <2>1, <2>2
    <2> QED
      BY <2>2, <2>3
  <1>9. /\ (5 * doy + 2) \div 153 = MarchMonth(m)
        /\ m = IF MarchMonth(m) < 10 THEN MarchMonth(m) + 3 ELSE MarchMonth(m) - 9
    BY <1>5, MonthOfDay
  <1>10. yoe \div 4 = 25 * c + q /\ yoe \div 100 = c
    BY <1>6, SplitYear
  <1>11. doy - MonthStart(m) + 1 = date[3] /\ MonthStart(m) \in Int
    BY <1>4, <1>5, MonthTable DEF DayOfYear
  <1>12. (IF m <= 2 THEN yoe + e * 400 + 1 ELSE yoe + e * 400) = date[1]
    BY <1>3, <1>1, <1>5, <1>6 DEF MarchYear
  <1>13. doe - (365 * yoe + yoe \div 4 - yoe \div 100) = doy
    BY <1>6, <1>10
  <1>14. (days + 719468) \div 146097 = e /\ days + 719468 - e * 146097 = doe
    <2>1. PICK n \in Int : n = days + 719468
      BY <1>8
    <2>2. n - 146097 * e = doe
      BY <1>8, <2>1
    <2>3. n \div 146097 = e
      BY <1>7, <2>2, QuotientIs
    <2> QED
      BY <2>1, <2>2, <2>3
  <1>15. CivilFromDays(days) = <<date[1], m, date[3]>>
    <2> DEFINE Era == (days + 719468) \div 146097
               Doe == days + 719468 - Era * 146097
               Yoe == YearOfEra(Doe)
               Doy == Doe - (365 * Yoe + Yoe \div 4 - Yoe \div 100)
               Mp == (5 * Doy + 2) \div 153
               M == IF Mp < 10 THEN Mp + 3 ELSE Mp - 9
               Y == IF M <= 2 THEN Yoe + Era * 400 + 1 ELSE Yoe + Era * 400
               D == Doy - (153 * Mp + 2) \div 5 + 1
    <2>1. CivilFromDays(days) = <<Y, M, D>>
      BY DEF CivilFromDays
    <2>2. Era = e
      BY <1>14
    <2> HIDE DEF Era
    <2>3. Doe = doe
      BY <1>14, <2>2
    <2> HIDE DEF Doe
    <2>4. Yoe = yoe
      BY <1>7, <2>3
    <2> HIDE DEF Yoe
    <2>5. Doy = doy
      BY <1>13, <2>3, <2>4
    <2> HIDE DEF Doy
    <2>6. Mp = MarchMonth(m)
      BY <1>9, <2>5
    <2> HIDE DEF Mp
    <2>7. M = m
      BY <1>9, <2>6
    <2> HIDE DEF M
    <2>8. Y = date[1]
      BY <1>12, <2>2, <2>4, <2>7
    <2>9. D = date[3]
      BY <1>11, <2>5, <2>6 DEF MonthStart
    <2> HIDE DEF Y, D
    <2> QED
      BY <2>1, <2>7, <2>8, <2>9, Zenon
  <1> QED
    BY <1>1, <1>5, <1>8, <1>15

YearDays(y) == IF IsLeap(y) THEN 366 ELSE 365

\* A March year of 365 days, and of 366 when it ends in a leap year.
LEMMA YearLengths ==
  ASSUME NEW y, NEW e, NEW c, NEW q, NEW r, Splits(y, e, c, q, r)
  PROVE  \E f \in Int, g \in Int, h \in Int, i \in Int :
            /\ Splits(y + 1, f, g, h, i)
            /\ YearStart(f, g, h, i) = YearStart(e, c, q, r) + YearDays(y + 1)
  <1>1. /\ e \in Int /\ c \in Int /\ q \in Int /\ r \in Int /\ y \in Int
        /\ 0 <= c /\ c <= 3 /\ 0 <= q /\ q <= 24 /\ 0 <= r /\ r <= 3
        /\ y = 400 * e + 100 * c + 4 * q + r
    BY DEF Splits
  <1>2. IsLeap(y + 1) <=> r = 3 /\ (q # 24 \/ c = 3)
    BY NextYear
  <1>3. CASE r # 3
    <2>1. Splits(y + 1, e, c, q, r + 1) /\ r + 1 \in Int
      BY <1>1, <1>3 DEF Splits
    <2>2. YearStart(e, c, q, r + 1) = YearStart(e, c, q, r) + 365
      BY <1>1 DEF YearStart
    <2>3. YearDays(y + 1) = 365
      BY <1>2, <1>3 DEF YearDays
    <2> QED
      BY <1>1, <2>1, <2>2, <2>3
  <1>4. CASE r = 3 /\ q # 24
    <2>1. Splits(y + 1, e, c, q + 1, 0) /\ q + 1 \in Int
      BY <1>1, <1>4 DEF Splits
    <2>2. YearStart(e, c, q + 1, 0) = YearStart(e, c, q, r) + 366
      BY <1>1, <1>4 DEF YearStart
    <2>3. YearDays(y + 1) = 366
      BY <1>2, <1>4 DEF YearDays
    <2> QED
      BY <1>1, <2>1, <2>2, <2>3
  <1>5. CASE r = 3 /\ q = 24 /\ c # 3
    <2>1. Splits(y + 1, e, c + 1, 0, 0) /\ c + 1 \in Int
      BY <1>1, <1>5 DEF Splits
    <2>2. YearStart(e, c + 1, 0, 0) = YearStart(e, c, q, r) + 365
      BY <1>1, <1>5 DEF YearStart
    <2>3. YearDays(y + 1) = 365
      BY <1>2, <1>5 DEF YearDays
    <2> QED
      BY <1>1, <2>1, <2>2, <2>3
  <1>6. CASE r = 3 /\ q = 24 /\ c = 3
    <2>1. Splits(y + 1, e + 1, 0, 0, 0) /\ e + 1 \in Int
      BY <1>1, <1>6 DEF Splits
    <2>2. YearStart(e + 1, 0, 0, 0) = YearStart(e, c, q, r) + 366
      BY <1>1, <1>6 DEF YearStart
    <2>3. YearDays(y + 1) = 366
      BY <1>2, <1>6 DEF YearDays
    <2> QED
      BY <1>1, <2>1, <2>2, <2>3
  <1> QED
    BY <1>3, <1>4, <1>5, <1>6

\* Months have 28 to 31 days.
LEMMA MonthLengths ==
  ASSUME NEW y, NEW m \in 1 .. 12
  PROVE  /\ Length(y, m) \in Int /\ 1 <= Length(y, m) /\ Length(y, m) <= 31
         /\ m = 2 => Length(y, m) = IF IsLeap(y) THEN 29 ELSE 28
         /\ m \in {4, 6, 9, 11} => Length(y, m) = 30
         /\ m \in {1, 3, 5, 7, 8, 10, 12} => Length(y, m) = 31
  BY DEF Length

\* In a March year the next day is one more.
LEMMA NextDayOfYear ==
  ASSUME NEW date, IsDate(date), NEW a, IsDate(a),
         MarchYear(a) = MarchYear(date), DayOfYear(a) = DayOfYear(date) + 1
  PROVE  DaysFromCivil(a) = DaysFromCivil(date) + 1
  <1>1. /\ date[1] \in Int /\ date[2] \in 1 .. 12 /\ date[3] \in Int /\ DayOfYear(date) \in Int
        /\ a[1] \in Int /\ a[2] \in 1 .. 12 /\ a[3] \in Int
    BY MonthOfDay
  <1>2. PICK y \in Int : y = MarchYear(date)
    BY <1>1 DEF MarchYear
  <1>3. PICK e \in Int, c \in Int, q \in Int, r \in Int : Splits(y, e, c, q, r)
    BY YearsSplit
  <1>4. DaysFromCivil(date) = YearStart(e, c, q, r) + DayOfYear(date) - 719468
    BY <1>1, <1>2, <1>3, DaysAreCounted
  <1>5. DaysFromCivil(a) = YearStart(e, c, q, r) + DayOfYear(a) - 719468
    BY <1>1, <1>2, <1>3, DaysAreCounted
  <1>6. YearStart(e, c, q, r) \in Int
    BY DEF YearStart
  <1> QED
    BY <1>1, <1>4, <1>5, <1>6

LEMMA TripleIsDate ==
  ASSUME NEW y \in Int, NEW m \in 1 .. 12, NEW d \in Int, 1 <= d, d <= Length(y, m)
  PROVE  /\ IsDate(<<y, m, d>>)
         /\ <<y, m, d>>[1] = y /\ <<y, m, d>>[2] = m /\ <<y, m, d>>[3] = d
  <1>1. d \in 1 .. 31
    BY MonthLengths
  <1> QED
    BY <1>1 DEF IsDate

\* A day later is one more day counted.
LEMMA DayAfterCounts ==
  ASSUME NEW date, IsDate(date)
  PROVE  IsDate(DayAfter(date)) /\ DaysFromCivil(DayAfter(date)) = DaysFromCivil(date) + 1
  <1> SUFFICES ASSUME NEW y \in Int, NEW m \in 1 .. 12, NEW d \in Int,
                      y = date[1], m = date[2], d = date[3], 1 <= d, d <= Length(y, m)
               PROVE  IsDate(DayAfter(date)) /\ DaysFromCivil(DayAfter(date)) = DaysFromCivil(date) + 1
    <2>1. date[1] \in Int /\ date[2] \in 1 .. 12 /\ date[3] \in 1 .. 31 /\ date[3] <= Length(date[1], date[2])
      BY DEF IsDate
    <2>2. date[3] \in Int /\ 1 <= date[3]
      BY <2>1
    <2> QED
      BY <2>1, <2>2
  <1>2. Length(y, m) \in Int /\ 1 <= Length(y, m)
    BY MonthLengths
  <1>3. MonthStart(m) \in Int /\ DayOfYear(date) = MonthStart(m) + d - 1
    BY MonthTable DEF DayOfYear
  <1>4. CASE d < Length(y, m)
    <2> DEFINE a == <<y, m, d + 1>>
    <2>1. d + 1 \in Int /\ 1 <= d + 1 /\ d + 1 <= Length(y, m)
      BY <1>2, <1>4
    <2>2. IsDate(a) /\ a[1] = y /\ a[2] = m /\ a[3] = d + 1
      BY <2>1, TripleIsDate
    <2>3. DayAfter(date) = a
      BY <1>4 DEF DayAfter
    <2> HIDE DEF a
    <2>4. MarchYear(a) = MarchYear(date)
      BY <2>2 DEF MarchYear
    <2>5. DayOfYear(a) = DayOfYear(date) + 1
      BY <1>3, <2>2 DEF DayOfYear
    <2> QED
      BY <2>2, <2>3, <2>4, <2>5, NextDayOfYear
  <1>5. CASE d = Length(y, m) /\ m < 12
    <2> DEFINE a == <<y, m + 1, 1>>
    <2>1. m + 1 \in 1 .. 12
      BY <1>5
    <2>2. 1 <= Length(y, m + 1)
      BY <2>1, MonthLengths
    <2>3. IsDate(a) /\ a[1] = y /\ a[2] = m + 1 /\ a[3] = 1
      BY <2>1, <2>2, TripleIsDate
    <2>4. DayAfter(date) = a
      BY <1>2, <1>5 DEF DayAfter
    <2> HIDE DEF a
    <2>5. DayOfYear(a) = MonthStart(m + 1)
      <3>1. MonthStart(m + 1) \in Int
        BY <2>1, MonthTable
      <3> QED
        BY <2>3, <3>1 DEF DayOfYear
    <2>6. CASE m # 2
      <3>1. MarchYear(a) = MarchYear(date)
        BY <1>5, <2>3, <2>6 DEF MarchYear
      <3>2. MonthStart(m + 1) = MonthStart(m) + Length(y, m)
        BY <1>5, <2>6, MonthTable, MonthLengths
      <3>3. DayOfYear(a) = DayOfYear(date) + 1
        BY <1>2, <1>3, <1>5, <2>5, <3>2
      <3> QED
        BY <2>3, <2>4, <3>1, <3>3, NextDayOfYear
    <2>7. CASE m = 2
      <3>1. DayOfYear(date) = YearDays(y) - 1 /\ DayOfYear(a) = 0 /\ YearDays(y) \in Int
        BY <1>3, <1>5, <2>5, <2>7, MonthTable, MonthLengths DEF YearDays
      <3>2. MarchYear(date) = y - 1 /\ MarchYear(a) = y
        <4>1. date[2] = 2 /\ a[2] = 3 /\ a[1] = y
          BY <2>3, <2>7
        <4> QED
          BY <4>1 DEF MarchYear
      <3>3. PICK z \in Int : z = y - 1 /\ z + 1 = y
        OBVIOUS
      <3>4. PICK e \in Int, c \in Int, q \in Int, r \in Int : Splits(z, e, c, q, r)
        BY YearsSplit
      <3>5. PICK f \in Int, g \in Int, h \in Int, i \in Int :
                Splits(y, f, g, h, i) /\ YearStart(f, g, h, i) = YearStart(e, c, q, r) + YearDays(y)
        <4>1. \E f \in Int, g \in Int, h \in Int, i \in Int :
                  /\ Splits(z + 1, f, g, h, i)
                  /\ YearStart(f, g, h, i) = YearStart(e, c, q, r) + YearDays(z + 1)
          BY <3>4, YearLengths
        <4> QED
          BY <3>3, <4>1
      <3>6. DaysFromCivil(date) = YearStart(e, c, q, r) + DayOfYear(date) - 719468
        BY <3>2, <3>3, <3>4, DaysAreCounted
      <3>7. DaysFromCivil(a) = YearStart(f, g, h, i) + DayOfYear(a) - 719468
        BY <2>1, <2>3, <3>2, <3>5, DaysAreCounted
      <3>8. YearStart(e, c, q, r) \in Int
        BY DEF YearStart
      <3>9. DaysFromCivil(a) = DaysFromCivil(date) + 1
        BY <3>1, <3>5, <3>6, <3>7, <3>8
      <3> QED
        BY <2>3, <2>4, <3>9
    <2> QED
      BY <2>6, <2>7
  <1>6. CASE d = Length(y, m) /\ m = 12
    <2> DEFINE a == <<y + 1, 1, 1>>
    <2>1. y + 1 \in Int /\ 1 <= Length(y + 1, 1)
      BY MonthLengths
    <2>2. IsDate(a) /\ a[1] = y + 1 /\ a[2] = 1 /\ a[3] = 1
      BY <2>1, TripleIsDate
    <2>3. DayAfter(date) = a
      BY <1>2, <1>6 DEF DayAfter
    <2> HIDE DEF a
    <2>4. MarchYear(a) = MarchYear(date)
      BY <1>6, <2>2 DEF MarchYear
    <2>5. DayOfYear(a) = 306 /\ DayOfYear(date) = 305
      BY <1>3, <1>6, <2>2, MonthTable, MonthLengths DEF DayOfYear
    <2>6. DayOfYear(a) = DayOfYear(date) + 1
      BY <2>5
    <2> QED
      BY <2>2, <2>3, <2>4, <2>6, NextDayOfYear
  <1> QED
    BY <1>2, <1>4, <1>5, <1>6

\* Induction over an interval.
LEMMA IntervalInduction ==
  ASSUME NEW n \in Int, NEW S, S \subseteq 0 .. n, 0 \in S \/ n < 0,
         \A k \in 0 .. n : k + 1 \in 0 .. n /\ k \in S => k + 1 \in S
  PROVE  S = 0 .. n
  <1> DEFINE R == 0 .. n \ S
  <1>1. SUFFICES ASSUME R # {} PROVE FALSE
    OBVIOUS
  <1>2. IsFiniteSet(R) /\ R \subseteq Int
    <2>1. IsFiniteSet(0 .. n) /\ R \subseteq Int
      BY FS_Interval
    <2>2. IsFiniteSet(R)
      <3>1. R \subseteq 0 .. n
        OBVIOUS
      <3> QED
        BY <2>1, <3>1, FS_Subset, Zenon
    <2> QED
      BY <2>1, <2>2, Zenon
  <1>3. PICK x \in R : \A y \in R : x <= y
    <2> HIDE DEF R
    <2> QED
      BY <1>1, <1>2, FiniteHasLeast
  <1>4. x \in 0 .. n /\ x \notin S /\ x # 0
    OBVIOUS
  <1>5. x - 1 \in 0 .. n /\ x - 1 \notin R /\ (x - 1) + 1 = x
    BY <1>3, <1>4
  <1> QED
    BY <1>4, <1>5

\* The dates from e on, one day after another.
IsCalendar(f, e, n) == f = [d \in 0 .. n |-> IF d = 0 THEN e ELSE DayAfter(f[d - 1])]

LEMMA DateOfIsChosen ==
  ASSUME NEW e \in Epochs
  PROVE  DateOf[e] = CHOOSE f : IsCalendar(f, e, LastDay)
  BY DEF DateOf, IsCalendar

LEMMA CalendarExists ==
  ASSUME NEW e
  PROVE  \E f : IsCalendar(f, e, LastDay)
  <1> DEFINE S == {n \in 0 .. LastDay : \E f : IsCalendar(f, e, n)}
  <1>1. ASSUME LastDay >= 0 PROVE 0 \in S
    <2> DEFINE f == [d \in 0 .. 0 |-> e]
    <2>1. IsCalendar(f, e, 0)
      BY DEF IsCalendar
    <2> HIDE DEF f
    <2>2. 0 \in 0 .. LastDay
      BY <1>1, PinboardConstants
    <2> QED
      BY <2>1, <2>2
  <1>2. ASSUME NEW n \in 0 .. LastDay, n + 1 \in 0 .. LastDay, n \in S
        PROVE  n + 1 \in S
    <2>1. PICK f : IsCalendar(f, e, n)
      BY <1>2
    <2>2. DOMAIN f = 0 .. n /\ \A d \in 0 .. n : f[d] = IF d = 0 THEN e ELSE DayAfter(f[d - 1])
      BY <2>1 DEF IsCalendar
    <2> DEFINE g == [d \in 0 .. n + 1 |-> IF d = n + 1 THEN DayAfter(f[n]) ELSE f[d]]
    <2>3. ASSUME NEW d \in 0 .. n + 1
          PROVE  g[d] = IF d = 0 THEN e ELSE DayAfter(g[d - 1])
      <3>1. CASE d = n + 1
        <4>1. d # 0 /\ d - 1 = n /\ n \in 0 .. n + 1 /\ n # n + 1
          BY <3>1
        <4> QED
          BY <3>1, <4>1
      <3>2. CASE d # n + 1
        <4>1. d \in 0 .. n /\ (d # 0 => d - 1 \in 0 .. n + 1 /\ d - 1 # n + 1)
          BY <3>2
        <4> QED
          BY <2>2, <3>2, <4>1
      <3> QED
        BY <3>1, <3>2
    <2>4. IsCalendar(g, e, n + 1)
      <3>1. g = [d \in 0 .. n + 1 |-> g[d]]
        OBVIOUS
      <3> HIDE DEF g
      <3> QED
        BY <2>3, <3>1 DEF IsCalendar
    <2> HIDE DEF g
    <2> QED
      BY <1>2, <2>4
  <1>3. LastDay \in Int /\ LastDay >= 0
    BY PinboardConstants
  <1>4. S = 0 .. LastDay
    <2>1. S \subseteq 0 .. LastDay /\ 0 \in S
      BY <1>1, <1>3
    <2> HIDE DEF S
    <2> QED
      BY <1>2, <1>3, <2>1, IntervalInduction
  <1>5. LastDay \in S
    <2> HIDE DEF S
    <2> QED
      BY <1>3, <1>4
  <1> QED
    BY <1>5

\* The d-th date of a calendar is that of d days after its first.
LEMMA CalendarCounts ==
  ASSUME NEW e \in Epochs, NEW d \in 0 .. LastDay
  PROVE  IsDate(DateOf[e][d]) /\ DaysFromCivil(DateOf[e][d]) = DaysFromCivil(e) + d
  <1>1. PICK f : f = DateOf[e] /\ IsCalendar(f, e, LastDay)
    BY DateOfIsChosen, CalendarExists
  <1>2. \A n \in 0 .. LastDay : f[n] = IF n = 0 THEN e ELSE DayAfter(f[n - 1])
    BY <1>1 DEF IsCalendar
  <1>3. IsDate(e) /\ DaysFromCivil(e) \in Int
    BY EpochsAreDates, CivilInverts
  <1> DEFINE S == {n \in 0 .. LastDay : IsDate(f[n]) /\ DaysFromCivil(f[n]) = DaysFromCivil(e) + n}
  <1>4. LastDay \in Int /\ 0 \in 0 .. LastDay
    BY PinboardConstants
  <1>5. 0 \in S
    <2>1. f[0] = e
      BY <1>2, <1>4
    <2> QED
      BY <1>3, <1>4, <2>1
  <1>6. ASSUME NEW n \in 0 .. LastDay, n + 1 \in 0 .. LastDay, n \in S
        PROVE  n + 1 \in S
    <2>1. n + 1 # 0 /\ (n + 1) - 1 = n
      OBVIOUS
    <2>2. f[n + 1] = DayAfter(f[n])
      BY <1>2, <1>6, <2>1
    <2>3. IsDate(f[n + 1]) /\ DaysFromCivil(f[n + 1]) = DaysFromCivil(f[n]) + 1
      BY <1>6, <2>2, DayAfterCounts
    <2>4. DaysFromCivil(f[n]) = DaysFromCivil(e) + n
      BY <1>6
    <2>5. (DaysFromCivil(e) + n) + 1 = DaysFromCivil(e) + (n + 1)
      BY <1>3
    <2> QED
      BY <1>6, <2>3, <2>4, <2>5
  <1>7. S = 0 .. LastDay
    <2>1. S \subseteq 0 .. LastDay
      OBVIOUS
    <2> HIDE DEF S
    <2> QED
      BY <1>4, <1>5, <1>6, <2>1, IntervalInduction
  <1> QED
    BY <1>1, <1>7

\* Days may be counted: from the date of any day shift_days finds that of any
\* other, from any date on and for any number of days (shift_days,
\* days_from_civil, civil_from_days).
THEOREM CalendarHolds == Spec => []CalendarIsRight
  <1>1. TypeOK => CalendarIsRight
    <2> SUFFICES ASSUME TypeOK, NEW e \in Epochs, NEW d \in 0 .. LastDay
                 PROVE  ShiftDays(DateOf[e][today], d - today) = DateOf[e][d]
      BY DEF CalendarIsRight
    <2>1. today \in 0 .. LastDay
      BY PinboardConstants DEF TypeOK, NoDay
    <2>2. DaysFromCivil(DateOf[e][today]) = DaysFromCivil(e) + today
      BY <2>1, CalendarCounts
    <2>3. IsDate(DateOf[e][d]) /\ DaysFromCivil(DateOf[e][d]) = DaysFromCivil(e) + d
      BY CalendarCounts
    <2>4. DaysFromCivil(e) \in Int
      BY EpochsAreDates, CivilInverts
    <2>5. (DaysFromCivil(e) + today) + (d - today) = DaysFromCivil(e) + d
      BY <2>1, <2>4
    <2>6. CivilFromDays(DaysFromCivil(DateOf[e][d])) = DateOf[e][d]
      BY <2>3, CivilInverts
    <2> QED
      BY <2>2, <2>3, <2>5, <2>6 DEF ShiftDays
  <1>2. NoteInv => TypeOK
    BY DEF NoteInv
  <1> QED
    BY <1>1, <1>2, NoteInvariant, PTL
===========================================================================
