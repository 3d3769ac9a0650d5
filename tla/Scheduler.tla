----------------------------- MODULE Scheduler -----------------------------
(***************************************************************************)
(* The job scheduler (crates/ovp-scheduler, ovp-cli/commands/scheduler.rs  *)
(* and schedule.rs).  A registry of jobs with cadences in local time, a    *)
(* state file with the last run of each, and short-lived processes that    *)
(* read both: a tick runs what is due and then what is owed a retry, a     *)
(* forced run runs one job, init and install put the built-in jobs in      *)
(* place.  They hold scheduler.lock from their first read to their last    *)
(* write, so there is one at a time; the operator's editor holds nothing.  *)
(*                                                                         *)
(* Time is local wall-clock time in slots, HoursPerDay to the day.         *)
(***************************************************************************)
EXTENDS Integers, FiniteSets, SequencesExt

CONSTANTS
    HoursPerDay, DaysPerWeek,
    BuiltIns,      \* default_registry, in its order: daily, themes, crystallize
    DailyCadences, \* the cadences --time can ask for
    Registries,    \* the registry files the vault may start with, <<>> for none
    HandWritten,   \* entries the operator's editor may write
    Backoff,       \* RETRY_BACKOFF_MINS
    Recent,        \* --unless-ran-within-secs of the portal
    Broken,        \* a cadence that does not parse
    Never,         \* no state entry
    FirstHour, Horizon, \* bound: the hours the model lives through
    Failing,       \* bound: the jobs whose children may fail,
    MaxFailures,   \* and how often
    MaxTroubles    \* bound: forced runs, commands, edits, kills and clock changes, together

Entries(reg) == {reg[i] : i \in DOMAIN reg}
AllEntries == UNION {Entries(reg) : reg \in Registries} \cup Entries(BuiltIns) \cup HandWritten
Ids == {e.id : e \in AllEntries}
Cadences == {e.cadence : e \in AllEntries} \cup DailyCadences

JobConfigs == [id : Ids, cadence : Cadences, enabled : BOOLEAN]
JobRuns == [last_run : Nat, last_status : {"ok", "error", "seeded"},
            consecutive_failures : Nat, last_failure_at : Nat]
Planned == [id : Ids, why : {"due", "retry", "forced"}]

DailyId == BuiltIns[1].id    \* install's --time owns its cadence
ThemesId == BuiltIns[2].id
CrystallizeId == BuiltIns[3].id
HoursPerWeek == HoursPerDay * DaysPerWeek

ASSUME TimeConstants ==
    /\ HoursPerDay \in Nat \ {0} /\ DaysPerWeek \in Nat \ {0}
    /\ FirstHour \in Nat /\ Horizon \in Nat

ASSUME SchedulerConstants ==
    /\ BuiltIns \in Seq(JobConfigs) /\ Len(BuiltIns) = 3
    /\ DailyId # ThemesId /\ DailyId # CrystallizeId /\ ThemesId # CrystallizeId
    /\ Registries \subseteq Seq(JobConfigs) /\ HandWritten \subseteq JobConfigs
    /\ Never \notin JobRuns
    /\ Backoff \in Seq(Nat) /\ Recent \in Nat
    /\ MaxFailures \in Nat /\ MaxTroubles \in Nat

\* What Cadence::parse lets through: an hour of the day, a day of the week, an
\* interval shorter than the day.
ASSUME CadencesParse ==
    \A c \in Cadences \ {Broken} :
        \/ c.kind = "daily" /\ c.hour \in 0 .. HoursPerDay - 1
        \/ /\ c.kind = "weekly"
           /\ c.hour \in 0 .. HoursPerDay - 1 /\ c.day \in 0 .. DaysPerWeek - 1
        \/ c.kind = "every" /\ c.every \in 1 .. HoursPerDay - 1

VARIABLES
    now,       \* the wall clock
    registry,  \* .ovp/schedule.json, as written
    runs,      \* .ovp/schedule-state.json
    pc,        \* the step of the process that holds scheduler.lock, "off" if none does
    todo,      \* the plan of its tick: the jobs still to run, the due ones first
    asOf,      \* its clock when it planned, the watermark of what it runs
    outcome,   \* the state entry of the child that ended, until it is saved
    failures, troubles,
    begun,     \* history: the watermark of each job's last start, or its seeding; 0 if never
    excused,   \* history: jobs whose last attempt or seeding was cut off, or that were edited
    ended,     \* history: when the last failed attempt ended, if a tick made it
    retries    \* history: the retries of each job since it last ran for another reason

disk == <<registry, runs>>
dispatcher == <<pc, todo, asOf, outcome>>
bounds == <<failures, troubles>>
Trouble == troubles < MaxTroubles /\ troubles' = troubles + 1
history == <<begun, excused, ended, retries>>
vars == <<now, disk, dispatcher, bounds, history>>

----------------------------------------------------------------------------
(* Cadences                                                                *)

Daily(hour) == [kind |-> "daily", day |-> 0, hour |-> hour, every |-> 0]
Weekly(day, hour) == [kind |-> "weekly", day |-> day, hour |-> hour, every |-> 0]
EveryHours(n) == [kind |-> "every", day |-> 0, hour |-> 0, every |-> n]

Midnight(t) == t - (t % HoursPerDay)
Weekday(t) == (t \div HoursPerDay) % DaysPerWeek

\* The candidate, or one period earlier if it has not come yet.
NotAfter(candidate, t, period) == IF candidate <= t THEN candidate ELSE candidate - period

MostRecentSteppingFromMidnightOnly(c, t) ==
    CASE c.kind = "daily"  -> NotAfter(Midnight(t) + c.hour, t, HoursPerDay)
      [] c.kind = "weekly" -> Midnight(t) - ((Weekday(t) - c.day) % DaysPerWeek) * HoursPerDay + c.hour
      [] c.kind = "every"  -> Midnight(t) + ((t - Midnight(t)) \div c.every) * c.every

MostRecent(c, t) ==
    CASE c.kind = "daily"  -> NotAfter(Midnight(t) + c.hour, t, HoursPerDay)
      [] c.kind = "weekly" ->
            NotAfter(Midnight(t) - ((Weekday(t) - c.day) % DaysPerWeek) * HoursPerDay + c.hour,
                     t, HoursPerWeek)
      [] c.kind = "every"  -> Midnight(t) + ((t - Midnight(t)) \div c.every) * c.every

\* Midnight starts the grid of an interval anew.
NextOccurrence(c, t) ==
    CASE c.kind = "daily"  -> MostRecent(c, t) + HoursPerDay
      [] c.kind = "weekly" -> MostRecent(c, t) + HoursPerWeek
      [] c.kind = "every"  ->
            LET stepped == MostRecent(c, t) + c.every
                midnight == Midnight(t) + HoursPerDay
            IN  IF stepped < midnight THEN stepped ELSE midnight

IsDue(c, run, t) == run = Never \/ run.last_run < MostRecent(c, t)

RetryDue(run, t) ==
    /\ run # Never
    /\ run.last_status = "error"
    /\ run.consecutive_failures \in DOMAIN Backoff
    /\ t >= run.last_failure_at + Backoff[run.consecutive_failures]

----------------------------------------------------------------------------
(* The registry: get finds the first entry of an id; partition quarantines *)
(* later entries of the same id and cadences that do not parse.            *)

Has(reg, id) == \E i \in DOMAIN reg : reg[i].id = id
Get(reg, id) == CHOOSE i \in DOMAIN reg : reg[i].id = id /\ \A k \in 1 .. i - 1 : reg[k].id # id

UsableEntries(reg) == {i \in DOMAIN reg : reg[i].cadence # Broken /\ i = Get(reg, reg[i].id)}
UsableIds(reg) == {reg[i].id : i \in UsableEntries(reg)}

\* A built-in the registry lacks goes where the defaults have it.
With(reg, n) ==
    IF Has(reg, BuiltIns[n].id) THEN reg
    ELSE InsertAt(reg, IF n <= Len(reg) THEN n ELSE Len(reg) + 1, BuiltIns[n])

Restored(reg) == With(With(With(reg, 1), 2), 3)

WithDailyAt(reg, c) ==
    IF Has(reg, DailyId) THEN [reg EXCEPT ![Get(reg, DailyId)].cadence = c] ELSE reg

\* plan_tick: the due jobs in registry order, then those owed a retry.
Nth(S, n) == CHOOSE k \in S : Cardinality({j \in S : j < k}) = n - 1

Listed(reg, S, why) == [n \in 1 .. Cardinality(S) |-> [id |-> reg[Nth(S, n)].id, why |-> why]]

Plan(reg, t) ==
    LET live == {i \in UsableEntries(reg) : reg[i].enabled}
        due == {i \in live : IsDue(reg[i].cadence, runs[reg[i].id], t)}
        owed == {i \in live \ due : RetryDue(runs[reg[i].id], t)}
    IN  Listed(reg, due, "due") \o Listed(reg, owed, "retry")

----------------------------------------------------------------------------
(* record_outcome_at                                                       *)

Recorded(prev, watermark, finished, status) ==
    [last_run |-> watermark,
     last_status |-> status,
     consecutive_failures |-> IF status = "error" THEN 1 + (IF prev = Never THEN 0 ELSE prev.consecutive_failures)
                              ELSE 0,
     last_failure_at |-> IF status = "error" THEN finished ELSE 0]

Seeded == Recorded(Never, now, now, "seeded")

Init ==
    /\ now = FirstHour
    /\ registry \in Registries
    /\ runs = [id \in Ids |-> IF Has(registry, id) THEN Seeded ELSE Never]
    /\ pc = "off" /\ todo = <<>> /\ asOf = 0 /\ outcome = Never
    /\ failures = 0 /\ troubles = 0
    /\ begun = [id \in Ids |-> IF Has(registry, id) THEN now ELSE 0]
    /\ excused = {}
    /\ ended = [id \in Ids |-> 0]
    /\ retries = [id \in Ids |-> 0]

----------------------------------------------------------------------------
(* The process that holds scheduler.lock.  A second one is refused at once *)
(* and changes nothing.                                                    *)

Tick ==
    /\ pc = "off"
    /\ Plan(registry, now) # <<>>
    /\ pc' = "start"
    /\ todo' = Plan(registry, now)
    /\ asOf' = now
    /\ UNCHANGED <<now, disk, outcome, bounds, history>>

\* run-now: enabled or not, unless the portal asked and it ran a moment ago.
RanRecently(id) ==
    /\ runs[id] # Never /\ runs[id].last_status # "seeded"
    /\ now >= runs[id].last_run /\ now - runs[id].last_run < Recent

RunNow(id, byPortal) ==
    /\ pc = "off" /\ Trouble
    /\ id \in UsableIds(registry)
    /\ byPortal => ~RanRecently(id)
    /\ pc' = "start"
    /\ todo' = <<[id |-> id, why |-> "forced"]>>
    /\ asOf' = now
    /\ UNCHANGED <<now, disk, outcome, failures, history>>

Current == Head(todo).id

StartJob ==
    /\ pc = "start"
    /\ pc' = "run"
    /\ begun' = [begun EXCEPT ![Current] = asOf]
    /\ excused' = excused \ {Current}
    /\ UNCHANGED <<now, disk, todo, asOf, outcome, bounds, ended, retries>>

FailedAtTickStart == asOf
WatermarkAtTheEnd == now
Watermark == asOf

\* A tick stamps a failure when the child ends, run-now when it began.
FailedAt == IF Head(todo).why = "forced" THEN asOf ELSE now

EndJob(ok) ==
    /\ pc = "run"
    /\ ok \/ (Current \in Failing /\ failures < MaxFailures)
    /\ failures' = IF ok THEN failures ELSE failures + 1
    /\ outcome' = Recorded(runs[Current], Watermark, FailedAt, IF ok THEN "ok" ELSE "error")
    /\ pc' = "save"
    /\ ended' = [ended EXCEPT ![Current] = IF ok \/ Head(todo).why = "forced" THEN 0 ELSE now]
    /\ UNCHANGED <<now, disk, todo, asOf, troubles, begun, excused, retries>>

NextJob ==
    /\ todo' = Tail(todo)
    /\ pc' = IF Tail(todo) = <<>> THEN "off" ELSE "start"
    /\ asOf' = IF Tail(todo) = <<>> THEN 0 ELSE asOf
    /\ outcome' = Never
    /\ retries' = [retries EXCEPT ![Current] = IF Head(todo).why = "retry" THEN @ + 1 ELSE 0]

SaveTheLast ==
    /\ pc = "save"
    /\ runs' = IF Tail(todo) = <<>> THEN [runs EXCEPT ![Current] = outcome] ELSE runs
    /\ NextJob
    /\ UNCHANGED <<now, registry, bounds, begun, excused, ended>>

Save ==
    /\ pc = "save"
    /\ runs' = [runs EXCEPT ![Current] = outcome]
    /\ NextJob
    /\ UNCHANGED <<now, registry, bounds, begun, excused, ended>>

\* init and install: the registry is saved first, then the state of the jobs
\* that have none.
InitRegistry ==
    /\ pc = "off" /\ Trouble
    /\ registry' = Restored(registry)
    /\ pc' = "seed"
    /\ UNCHANGED <<now, runs, todo, asOf, outcome, failures, history>>

Install(c) ==
    /\ pc = "off" /\ Trouble
    /\ registry' = Restored(WithDailyAt(registry, c))
    /\ pc' = "seed"
    /\ UNCHANGED <<now, runs, todo, asOf, outcome, failures, history>>

SeedMissing ==
    LET missing == {id \in UsableIds(registry) : runs[id] = Never}
    IN  /\ pc = "seed"
        /\ runs' = [id \in Ids |-> IF id \in missing THEN Seeded ELSE runs[id]]
        /\ begun' = [id \in Ids |-> IF id \in missing THEN now ELSE begun[id]]
        /\ pc' = "off"
        /\ UNCHANGED <<now, registry, todo, asOf, outcome, bounds, excused, ended, retries>>

\* enable and disable edit the file as written, quarantined entries included.
SetEnabledFiltered(id, on) ==
    /\ pc = "off" /\ Trouble
    /\ id \in UsableIds(registry)
    /\ registry' = SelectSeq([registry EXCEPT ![Get(registry, id)].enabled = on],
                             LAMBDA e : e.cadence # Broken)
    /\ UNCHANGED <<now, runs, dispatcher, failures, history>>

SetEnabled(id, on) ==
    /\ pc = "off" /\ Trouble
    /\ Has(registry, id) /\ registry[Get(registry, id)].enabled # on
    /\ registry' = [registry EXCEPT ![Get(registry, id)].enabled = on]
    /\ UNCHANGED <<now, runs, dispatcher, failures, history>>

\* Killed, or the state cannot be saved; the child may work on, and its
\* outcome is nobody's.
CutOff ==
    CASE pc \in {"run", "save"} -> {Current}
      [] pc = "seed" -> {id \in UsableIds(registry) : runs[id] = Never}
      [] OTHER -> {}

Abort ==
    /\ pc # "off" /\ Trouble
    /\ pc' = "off" /\ todo' = <<>> /\ asOf' = 0 /\ outcome' = Never
    /\ excused' = excused \cup CutOff
    /\ ended' = [id \in Ids |-> IF id \in CutOff THEN 0 ELSE ended[id]]
    /\ UNCHANGED <<now, disk, failures, begun, retries>>

----------------------------------------------------------------------------
(* The operator's editor, and the clock                                    *)

Edit(e) ==
    /\ Trouble
    /\ registry # <<>>
    /\ registry' \in {[registry EXCEPT ![i] = e] : i \in {k \in DOMAIN registry : registry[k].id = e.id}}
                     \cup {Append(registry, e)}
    /\ registry' # registry
    /\ excused' = excused \cup {e.id}
    /\ UNCHANGED <<now, runs, dispatcher, failures, begun, ended, retries>>

Pass ==
    /\ now < Horizon
    /\ now' = now + 1
    /\ UNCHANGED <<disk, dispatcher, bounds, history>>

FallBack ==
    /\ now > FirstHour /\ Trouble
    /\ now' = now - 1
    /\ UNCHANGED <<disk, dispatcher, failures, history>>

Next ==
    \/ Tick
    \/ \E id \in Ids, b \in BOOLEAN : RunNow(id, b)
    \/ StartJob \/ (\E ok \in BOOLEAN : EndJob(ok)) \/ Save
    \/ InitRegistry \/ (\E c \in DailyCadences : Install(c)) \/ SeedMissing
    \/ \E id \in Ids, on \in BOOLEAN : SetEnabled(id, on)
    \/ Abort
    \/ \E e \in HandWritten : Edit(e)
    \/ Pass \/ FallBack

Spec == Init /\ [][Next]_vars

\* The timer fires again and again, children end (their model calls have
\* timeouts), and time passes.
FairSpec ==
    /\ Spec
    /\ WF_vars(Tick) /\ WF_vars(StartJob) /\ WF_vars(\E ok \in BOOLEAN : EndJob(ok))
    /\ WF_vars(Save) /\ WF_vars(SeedMissing) /\ WF_vars(Pass)

----------------------------------------------------------------------------
TypeOK ==
    /\ now \in Nat /\ now >= FirstHour
    /\ registry \in Seq(JobConfigs)
    /\ runs \in [Ids -> JobRuns \cup {Never}]
    /\ pc \in {"off", "start", "run", "save", "seed"}
    /\ todo \in Seq(Planned)
    /\ asOf \in Nat
    /\ outcome \in JobRuns \cup {Never}
    /\ begun \in [Ids -> Nat] /\ excused \subseteq Ids
    /\ ended \in [Ids -> Nat] /\ retries \in [Ids -> Nat]

\* What the dispatcher has planned, started and not saved yet.
InFlight(id) == pc \in {"run", "save"} /\ id = Current
Failures(id) == IF runs[id] = Never THEN 0 ELSE runs[id].consecutive_failures
DispatcherInv ==
    /\ todo = <<>> <=> pc \in {"off", "seed"}
    /\ \A i, k \in DOMAIN todo : todo[i].id = todo[k].id => i = k
    /\ \A i \in DOMAIN todo : todo[i].why = "retry" =>
          /\ runs[todo[i].id] # Never /\ runs[todo[i].id].last_status = "error"
          /\ Failures(todo[i].id) \in DOMAIN Backoff
    /\ pc \in {"run", "save"} => begun[Current] = asOf
    /\ pc = "save" =>
          /\ outcome # Never /\ outcome.last_run = asOf
          /\ outcome.last_status = "error" => outcome.consecutive_failures = Failures(Current) + 1
          /\ ended[Current] > 0 => outcome.last_failure_at = ended[Current]

\* A saved watermark is that of the last start; a job nobody knows is new or
\* excused; failures outnumber retries; a failure's stamp is when it ended.
JobInv(id) ==
    /\ \/ id \in excused \/ InFlight(id)
       \/ begun[id] = IF runs[id] = Never THEN 0 ELSE runs[id].last_run
    /\ id \in UsableIds(registry) /\ runs[id] = Never =>
          id \in excused \/ pc = "seed" \/ InFlight(id)
    /\ retries[id] <= Len(Backoff)
    /\ runs[id] # Never /\ runs[id].last_status = "error" => retries[id] < Failures(id)
    /\ ended[id] > 0 =>
          \/ runs[id] # Never /\ runs[id].last_failure_at = ended[id]
          \/ pc = "save" /\ id = Current
SchedulerInv == TypeOK /\ DispatcherInv /\ \A id \in Ids : JobInv(id)

\* Registries from before the themes job have something ahead of crystallize.
ThemesAhead(reg) ==
    LET after == {k \in DOMAIN reg : reg[k].id = CrystallizeId}
    IN  IF Has(reg, ThemesId)
        THEN after # {} /\ \E i \in DOMAIN reg : reg[i].id = ThemesId /\ \A k \in after : i < k
        ELSE \A k \in after : k >= 2
ThemesComeFirst ==
    /\ \A reg \in Registries : ThemesAhead(reg)
    /\ \A e \in HandWritten : e.id \notin {ThemesId, CrystallizeId}

\* The arithmetic of cadences finds the last occurrence up to now and the first
\* one after it (ovp-scheduler/lib.rs:161, 206), for intervals that divide the
\* day and for those that do not.
IsOccurrence(c, t) ==
    CASE c.kind = "daily"  -> t % HoursPerDay = c.hour
      [] c.kind = "weekly" -> t % HoursPerWeek = c.day * HoursPerDay + c.hour
      [] c.kind = "every"  -> (t % HoursPerDay) % c.every = 0

CadencesAreRight ==
    \A c \in Cadences \ {Broken} :
        LET last == MostRecent(c, now)
            next == NextOccurrence(c, now)
        IN  /\ last <= now /\ now < next
            /\ \A t \in last .. next : IsOccurrence(c, t) <=> t \in {last, next}

\* What a tick finds due is due.  An attempt that a dispatcher was done with is
\* not made again for the same occurrence, whatever is killed afterwards: "an
\* interrupted tick never reruns a completed (possibly expensive/non-idempotent)
\* job" (scheduler.rs:409).  A built-in first fires at its next occurrence and
\* not at once (seed_missing_state), unless its seeding was cut off or its
\* entry edited.
Cadence(id) == registry[Get(registry, id)].cadence
DueIsDue ==
    [][Tick => \A i \in DOMAIN todo' : LET id == todo'[i].id IN
          /\ todo'[i].why = "due" => id \in excused \/ begun[id] < MostRecent(Cadence(id), now)
          /\ id \in {e.id : e \in Entries(BuiltIns)} => runs[id] # Never \/ id \in excused]_vars

\* A job that keeps failing is retried a few times and then waits for its next
\* occurrence (RETRY_BACKOFF_MINS); the backoff is measured from the end of the
\* failed attempt, however long it took (JobRun::last_failure_at).  Forced runs
\* stamp their start instead.
RetriesAreMeasured ==
    /\ [](\A id \in Ids : retries[id] <= Len(Backoff))
    /\ [][Tick => \A i \in DOMAIN todo' : LET id == todo'[i].id IN
              todo'[i].why = "retry" /\ ended[id] > 0 =>
                  now >= ended[id] + Backoff[runs[id].consecutive_failures]]_vars

\* The commands that rewrite the registry keep what is in it.  None drops an
\* entry or changes its cadence, a quarantined one neither: "it must never
\* erase it from the file" (LoadedRegistry::as_written).  And migrations keep
\* themes ahead of crystallize, so that a tick that owes both clusters before
\* it synthesizes (schedule.rs:942).
RegistryIsKept ==
    /\ [][(\E e \in HandWritten : Edit(e)) \/
          \A e \in Entries(registry) : \E f \in Entries(registry') :
               f.id = e.id /\ (f.cadence = e.cadence \/ e.id = DailyId)]_vars
    /\ [](\A i, k \in DOMAIN todo :
             todo[i].id = ThemesId /\ todo[k].id = CrystallizeId /\ todo[i].why = todo[k].why
                 => i < k)

\* Every occurrence of an enabled job is followed by a start of it: no kill, no
\* failure, no long run of this or another job and no clock change loses one.
Overdue(id) ==
    /\ id \in UsableIds(registry)
    /\ registry[Get(registry, id)].enabled
    /\ begun[id] < MostRecent(Cadence(id), now)
OccurrencesAreServed == \A id \in Ids : Overdue(id) ~> ~Overdue(id)
=============================================================================
