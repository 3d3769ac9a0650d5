------------------------------ MODULE Pinboard ------------------------------
(***************************************************************************)
(* The Pinboard capture (crates/ovp-intake/src/pinboard.rs): bookmarks of  *)
(* an account become notes in 50-Inbox/02-Pinboard.  The daily run takes   *)
(* what was posted since the newest day synced so far; --backfill walks    *)
(* down below the oldest, one window of days per run.  Both edges are      *)
(* derived from the two ledgers, .ovp/pinboard-sync.jsonl and              *)
(* .ovp/pinboard-backfill.jsonl: "there is no separate mutable cursor to   *)
(* drift out of sync".                                                     *)
(*                                                                         *)
(* A run holds the vault's RunLock, so there is one at a time, and intake  *)
(* does not run beside it; it may be killed between any two of its steps.  *)
(* The account goes on changing.  A day is its number; ShiftDays is the    *)
(* code's arithmetic on the dates themselves.                              *)
(***************************************************************************)
EXTENDS Integers, FiniteSets, FiniteSetsExt

CONSTANTS
    Bookmarks,    \* what may be posted
    UrlOf,        \* the url of each
    Day,          \* the day of each, NoDay if it has no usable time
    Order,        \* the sort by time and url
    FirstDay,     \* the oldest day of the account
    LastDay,      \* bound: the last day modelled
    GuardMax,     \* FIRST_SYNC_GUARD_MAX_NEW
    Seeds,        \* the options of explicit syncs: since, until, max, yes_all
    AutoMax,      \* --pinboard-max of daily runs, NoMax for none
    Widths,       \* --backfill-days
    WindowMax,    \* --max of backfill runs
    Clipped,      \* urls of pages that are clipped as well
    Reseeds,      \* whether explicit syncs are run again after the first
    CrashIn,      \* the kinds of runs that are killed
    MaxCrashes,   \* bound: runs killed
    Epochs        \* the dates the calendar is checked from

NoDay == 0
NoMax == -1
Urls == {UrlOf[b] : b \in Bookmarks}
Options == [since : Nat, until : Nat, max : Nat \cup {NoMax}, yes_all : BOOLEAN]

ASSUME PinboardConstants ==
    /\ IsFiniteSet(Bookmarks)
    /\ Day \in [Bookmarks -> Nat] /\ Order \in [Bookmarks -> Nat]
    /\ \A b, c \in Bookmarks : Order[b] = Order[c] => b = c
    /\ \A b, c \in Bookmarks : Day[b] < Day[c] => Order[b] < Order[c]
    /\ FirstDay \in Nat \ {NoDay} /\ LastDay \in Nat
    /\ \A b \in Bookmarks : Day[b] \in {NoDay} \cup FirstDay .. LastDay
    /\ GuardMax \in Nat /\ Seeds \subseteq Options
    /\ AutoMax \subseteq Nat \cup {NoMax} /\ WindowMax \subseteq Nat \cup {NoMax}
    /\ Widths \subseteq Nat \ {0} /\ Reseeds \in BOOLEAN
    /\ Clipped \subseteq Urls
    /\ CrashIn \subseteq {"sync", "backfill"} /\ MaxCrashes \in Nat

VARIABLES
    today,    \* the day bookmarks are posted on
    posted,   \* the account
    synced,   \* the bookmarks recorded in the sync ledger
    floors,   \* the floor_after of the records of the backfill ledger
    notes,    \* how many notes of a url were written to 02-Pinboard
    logged,   \* the urls with a pinboard_note_write event
    taken,    \* the urls the intake ledger has as ingested
    run,      \* the run in progress
    crashes

ledgers == <<synced, floors, notes, logged>>
vars == <<today, posted, ledgers, taken, run, crashes>>

Off == [kind |-> "off", todo |-> {}, step |-> "note", floor |-> NoDay, complete |-> FALSE]

IsAccount(S) == \A b, c \in S : UrlOf[b] = UrlOf[c] => b = c

Init ==
    /\ today \in FirstDay .. LastDay
    /\ posted \in {S \in SUBSET {b \in Bookmarks : Day[b] <= today} : IsAccount(S)}
    /\ synced = {} /\ floors = {}
    /\ notes = [u \in Urls |-> 0] /\ logged = {} /\ taken = {}
    /\ run = Off /\ crashes = 0

----------------------------------------------------------------------------
(* The edges of what is covered                                            *)

KnownSynced == {UrlOf[b] : b \in synced}

Known == {UrlOf[b] : b \in synced} \cup taken

SyncedDays == {Day[b] : b \in synced} \ {NoDay}
WatermarkHigh == Max(SyncedDays)
WatermarkLow == Min(SyncedDays)

\* One day above the oldest, which a capped first sync may have left partial.
HasFloor == SyncedDays # {} \/ floors # {}
CoverageFloor ==
    Min(floors \cup (IF SyncedDays = {} THEN {} ELSE {WatermarkLow + 1}))

----------------------------------------------------------------------------
(* sync_pinboard                                                           *)

Selected(o) ==
    {b \in posted :
        /\ o.since # NoDay => Day[b] >= o.since
        /\ o.until # NoDay => Day[b] # NoDay /\ Day[b] <= o.until}

\* Of two bookmarks of a url the first in order.
New(o) ==
    LET S == {b \in Selected(o) : UrlOf[b] \notin Known}
    IN  {b \in S : \A c \in S : UrlOf[c] = UrlOf[b] => Order[b] <= Order[c]}

NewestOf(S, max) ==
    {b \in S : max # NoMax => Cardinality({c \in S : Order[c] > Order[b]}) < max}

\* The first-sync flood guard.
Refused(o) ==
    /\ o.since = NoDay /\ o.until = NoDay /\ o.max = NoMax /\ ~o.yes_all
    /\ Cardinality(New(o)) > GuardMax

Begin(kind, o, floor) ==
    /\ run = Off
    /\ ~Refused(o)
    /\ run' = [kind |-> kind, todo |-> NewestOf(New(o), o.max), step |-> "note",
               floor |-> floor, complete |-> NewestOf(New(o), o.max) = New(o)]
    /\ UNCHANGED <<today, posted, ledgers, taken, crashes>>

\* pinboard-sync with the operator's options.
Sync(o) ==
    /\ synced # {} => Reseeds
    /\ ~(o.until # NoDay /\ o.since > o.until)
    /\ NewestOf(New(o), o.max) # {}   \* nothing changes otherwise
    /\ Begin("sync", o, NoDay)

\* daily --pinboard-since auto; skipped while there is no watermark.
AutoSync(max) ==
    /\ SyncedDays # {}
    /\ LET o == [since |-> WatermarkHigh, until |-> NoDay, max |-> max, yes_all |-> FALSE]
       IN  NewestOf(New(o), max) # {} /\ Begin("sync", o, NoDay)

\* pinboard-sync --backfill: the window below the floor.  The walk is bounded
\* by the first day of the account.
Backfill(days, max) ==
    /\ HasFloor /\ CoverageFloor > FirstDay
    /\ LET since == CoverageFloor - days
           o == [since |-> Max({since, FirstDay}), until |-> CoverageFloor - 1,
                 max |-> max, yes_all |-> FALSE]
       IN  Begin("backfill", o, since)

----------------------------------------------------------------------------
(* The notes, oldest first: each is written, logged and recorded.          *)

IsNewest(b) == b \in run.todo /\ \A c \in run.todo : Order[c] <= Order[b]
IsNext(b) == b \in run.todo /\ \A c \in run.todo : Order[b] <= Order[c]

\* write_new: a note of the same name stays, the new one gets a suffix.
WriteNote(b) ==
    /\ run.step = "note"
    /\ notes' = [notes EXCEPT ![UrlOf[b]] = @ + 1]
    /\ run' = [run EXCEPT !.step = "event"]
    /\ UNCHANGED <<synced, floors, logged>>

LogNote(b) ==
    /\ run.step = "event"
    /\ logged' = logged \cup {UrlOf[b]}
    /\ run' = [run EXCEPT !.step = "record"]
    /\ UNCHANGED <<synced, floors, notes>>

RecordNote(b) ==
    /\ run.step = "record"
    /\ synced' = synced \cup {b}
    /\ run' = [run EXCEPT !.step = "note", !.todo = @ \ {b}]
    /\ UNCHANGED <<floors, notes, logged>>

FinishedFloorsAlways == floors \cup {run.floor}

\* A window that --max cut short records nothing and is tried again.
FinishedFloors == IF run.complete THEN floors \cup {run.floor} ELSE floors

Finish ==
    /\ run.kind # "off" /\ run.todo = {}
    /\ floors' = IF run.kind = "backfill" THEN FinishedFloors ELSE floors
    /\ run' = Off
    /\ UNCHANGED <<synced, notes, logged>>

Step ==
    /\ \/ \E b \in run.todo : IsNext(b) /\ (WriteNote(b) \/ LogNote(b) \/ RecordNote(b))
       \/ Finish
    /\ UNCHANGED <<today, posted, taken, crashes>>

\* The run is killed, or a write or an append fails.
Crash ==
    /\ run.kind \in CrashIn /\ crashes < MaxCrashes
    /\ run' = Off
    /\ crashes' = crashes + 1
    /\ UNCHANGED <<today, posted, ledgers, taken>>

----------------------------------------------------------------------------
(* The account and intake                                                  *)

\* Posting a url again replaces its bookmark.
Post(b) ==
    /\ b \notin posted /\ Day[b] \in {NoDay, today}
    /\ posted' = {c \in posted : UrlOf[c] # UrlOf[b]} \cup {b}
    /\ UNCHANGED <<today, ledgers, taken, run, crashes>>

NextDay ==
    /\ today < LastDay
    /\ today' = today + 1
    /\ UNCHANGED <<posted, ledgers, taken, run, crashes>>

\* A sweep records the url of a note, or of a clipping of the same page.  For a
\* url that is known already this makes no difference.
TakeIn(u) ==
    /\ run = Off /\ u \notin Known
    /\ notes[u] > 0 \/ u \in Clipped
    /\ taken' = taken \cup {u}
    /\ UNCHANGED <<today, posted, ledgers, run, crashes>>

AnyBackfill == \E d \in Widths, m \in WindowMax : Backfill(d, m)
AnyAuto == \E m \in AutoMax : AutoSync(m)

Next ==
    \/ \E o \in Seeds : Sync(o)
    \/ AnyAuto \/ AnyBackfill
    \/ Step \/ Crash
    \/ \E b \in Bookmarks : Post(b)
    \/ NextDay
    \/ \E u \in Urls : TakeIn(u)

Spec == Init /\ [][Next]_vars

\* A run goes on while it lives, the schedule starts a daily run every day, and
\* the operator repeats --backfill.
FairSpec == Spec /\ WF_vars(Step) /\ WF_vars(AnyAuto) /\ WF_vars(AnyBackfill)

----------------------------------------------------------------------------
(* The dates: days_from_civil, civil_from_days and shift_days.             *)

DaysFromCivil(date) ==
    LET y == IF date[2] <= 2 THEN date[1] - 1 ELSE date[1]
        era == y \div 400
        yoe == y - era * 400
        doy == (153 * ((date[2] + 9) % 12) + 2) \div 5 + date[3] - 1
        doe == yoe * 365 + yoe \div 4 - yoe \div 100 + doy
    IN  era * 146097 + doe - 719468

\* Without the years that end in 00.
YearOfEraJulian(doe) == (doe - doe \div 1460 - doe \div 146096) \div 365

YearOfEra(doe) == (doe - doe \div 1460 + doe \div 36524 - doe \div 146096) \div 365

CivilFromDays(n) ==
    LET z == n + 719468
        era == z \div 146097
        doe == z - era * 146097
        yoe == YearOfEra(doe)
        doy == doe - (365 * yoe + yoe \div 4 - yoe \div 100)
        mp == (5 * doy + 2) \div 153
        m == IF mp < 10 THEN mp + 3 ELSE mp - 9
        y == yoe + era * 400
    IN  <<IF m <= 2 THEN y + 1 ELSE y, m, doy - (153 * mp + 2) \div 5 + 1>>

ShiftDays(date, delta) == CivilFromDays(DaysFromCivil(date) + delta)

----------------------------------------------------------------------------
TypeOK ==
    /\ today \in FirstDay .. LastDay
    /\ posted \subseteq Bookmarks /\ IsAccount(posted)
    /\ synced \subseteq Bookmarks /\ floors \subseteq Int
    /\ notes \in [Urls -> Nat] /\ logged \subseteq Urls /\ taken \subseteq Urls
    /\ run \in [kind : {"off", "sync", "backfill"}, todo : SUBSET Bookmarks,
                step : {"note", "event", "record"}, floor : Int, complete : BOOLEAN]
    /\ crashes \in 0 .. MaxCrashes

\* The floor: "everything posted on/after this day has been materialized"
\* (coverage_floor), up to the newest day synced, from which the next daily run
\* goes on.  It rests on the order of the writes: oldest first above, the
\* newest of a capped window below.
FloorIsTrue ==
    SyncedDays # {} /\ run.kind # "backfill" =>
        \A b \in posted : Day[b] # NoDay /\ CoverageFloor <= Day[b] /\ Day[b] < WatermarkHigh
                            => UrlOf[b] \in Known

\* Why, while no window is killed, no daily run capped and no second explicit
\* sync made: what is not captured lies below everything covered and whatever the
\* run has to write yet, or above it; a sync writes upwards from what is covered,
\* a whole window leaves nothing unwritten above the floor it records.
Uncovered == {b \in posted : Day[b] # NoDay /\ UrlOf[b] \notin Known}
Below(b) ==
    /\ SyncedDays # {} => Day[b] < CoverageFloor
    /\ \A c \in run.todo : Day[c] # NoDay => Day[b] <= Day[c]
    /\ run.kind = "backfill" /\ run.complete => Day[b] < run.floor
Above(b) ==
    /\ SyncedDays # {} => WatermarkHigh <= Day[b]
    /\ \A c \in run.todo : Day[c] <= Day[b]
CoverInv ==
    /\ floors # {} => SyncedDays # {}
    /\ \A b \in posted \cup synced \cup run.todo : Day[b] <= today
    /\ run.kind = "sync" =>
          \A c \in run.todo, d \in synced : Day[c] # NoDay => Day[d] <= Day[c]
    /\ run.kind = "backfill" =>
          SyncedDays # {} /\ \A c \in run.todo : Day[c] # NoDay /\ Day[c] <= WatermarkHigh
    /\ \A b \in Uncovered \ run.todo : Below(b) \/ Above(b)

\* "Write -> write-log event -> ledger record", and "idempotent: URL-known
\* posts are skipped": a bookmark costs one note, and one more for each run
\* that was stopped between the note and its record; none once intake has it.
OneNoteEach ==
    /\ [](/\ \A b \in synced : notes[UrlOf[b]] > 0 /\ UrlOf[b] \in logged
          /\ \A u \in Urls : notes[u] <= 1 + crashes)
    /\ [][\A u \in taken : notes'[u] = notes[u]]_vars

\* Why: a run writes urls nobody knew when it began, each of them once, and only
\* the one in hand has a note without a record.
InHand(u) == run.step # "note" /\ \E b \in run.todo : IsNext(b) /\ UrlOf[b] = u
NoteInv ==
    /\ TypeOK /\ IsFiniteSet(floors)
    /\ run.kind = "off" => run = Off
    /\ \A b, c \in run.todo : UrlOf[b] = UrlOf[c] => b = c
    /\ \A b \in run.todo : UrlOf[b] \notin Known
    /\ \A b \in run.todo : IsNext(b) =>
          /\ run.step # "note" => notes[UrlOf[b]] > 0
          /\ run.step = "record" => UrlOf[b] \in logged
    /\ \A b \in synced : notes[UrlOf[b]] > 0 /\ UrlOf[b] \in logged
    /\ \A u \in Urls : notes[u] <= crashes + (IF u \in Known \/ InHand(u) THEN 1 ELSE 0)

\* Once a first sync gave the capture an edge, daily runs and repeated backfill
\* have, again and again, reached every bookmark with a day: empty days, capped
\* windows, killed runs and new bookmarks hold nothing back.
EverythingIsReached ==
    []<>(SyncedDays # {} => \A b \in posted : Day[b] # NoDay => UrlOf[b] \in Known)

\* Days may be counted: from the date of any day shift_days finds that of any
\* other, over the ends of months, years, leap years and centuries.
IsLeap(y) == y % 4 = 0 /\ (y % 100 = 0 => y % 400 = 0)
Length(y, m) == CASE m = 2 -> IF IsLeap(y) THEN 29 ELSE 28
                  [] m \in {4, 6, 9, 11} -> 30
                  [] OTHER -> 31
IsDate(date) ==
    /\ date \in Int \X (1 .. 12) \X (1 .. 31)
    /\ date[3] <= Length(date[1], date[2])
DayAfter(date) ==
    CASE date[3] < Length(date[1], date[2]) -> <<date[1], date[2], date[3] + 1>>
      [] date[3] = Length(date[1], date[2]) /\ date[2] < 12 -> <<date[1], date[2] + 1, 1>>
      [] OTHER -> <<date[1] + 1, 1, 1>>
ASSUME EpochsAreDates == \A e \in Epochs : IsDate(e)

DateOf == [e \in Epochs |->
    LET date[d \in 0 .. LastDay] == IF d = 0 THEN e ELSE DayAfter(date[d - 1]) IN date]
CalendarIsRight ==
    \A e \in Epochs : \A d \in 0 .. LastDay :
        ShiftDays(DateOf[e][today], d - today) = DateOf[e][d]
=============================================================================
