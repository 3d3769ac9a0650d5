----------------------------- MODULE RunStatus ------------------------------
(***************************************************************************)
(* What the operator sees of a run: the heartbeat .ovp/last-run.json that  *)
(* a daily writes while it holds the run lock (ovp-daily/heartbeat.rs, run *)
(* of ovp-cli/commands/daily.rs), and the portal that reads it, decides    *)
(* whether its process still lives, caches the verdict under the file's    *)
(* mtime, and refuses to start a run while one seems to be in progress     *)
(* (ovp-server/lib.rs).                                                    *)
(*                                                                         *)
(* Runs are processes started by the scheduler, by hand or by the portal's *)
(* button; request threads of the portal interleave with them at each call *)
(* of the file system.  The run lock is RunLock's: exclusive, and taken    *)
(* over from a dead owner.                                                 *)
(***************************************************************************)
EXTENDS Naturals, Sequences

CONSTANTS
    Runs,          \* processes of the daily, each with a pid of its own
    Pollers,       \* request threads of a console that polls the status
    Clickers,      \* request threads of an operator's clicks
    None,          \* no record, no owner
    NoChild,       \* a run-now that started no daily
    ProbeReliable, \* whether the pid probe always learns the truth
    MaxProgress,   \* bound on progress writes
    MaxTroubles,   \* bound on kills and failed heartbeat writes
    MaxClicks      \* bound on the operator's clicks: run now, refresh

Threads == Pollers \cup Clickers

ASSUME RunStatusConstants ==
    /\ None \notin Runs /\ NoChild \notin Runs \cup {None}
    /\ ProbeReliable \in BOOLEAN
    /\ {MaxProgress, MaxTroubles, MaxClicks} \subseteq Nat

VARIABLES
    step,      \* where each run is
    progress,  \* progress writes so far
    lock,      \* the run lock's owner
    file,      \* last-run.json
    mtime,     \* its mtime, one tick per write
    cache,     \* the portal's cached verdict
    loader,    \* the thread that holds the cache's write lock
    at,        \* what each request thread does next
    manual,    \* the manual-run slot: the child it waits for
    shown,     \* the last verdict answered (history)
    acquired,  \* runs in the order they took the lock (history)
    lost,      \* runs whose last heartbeat write failed (history)
    raced,     \* a refresh stamped an older record (history)
    spent      \* troubles and clicks used up

runVars == <<step, progress, lock, acquired>>
heartbeat == <<file, mtime, lost>>
portal == <<cache, loader, at, manual, shown, raced>>
vars == <<runVars, heartbeat, portal, spent>>

----------------------------------------------------------------------------
Record(r, status) == [run |-> r, status |-> status]
Alive(r) == step[r] \notin {"idle", "refused", "over", "dead"}

Idle == [step |-> "idle"]

Init ==
    /\ step = [r \in Runs |-> "idle"]
    /\ progress = 0
    /\ lock = None /\ acquired = <<>>
    /\ file = None /\ mtime = 0 /\ lost = {}
    /\ cache = [loaded |-> FALSE, mtime |-> 0, verdict |-> None]
    /\ loader = None
    /\ at = [t \in Threads |-> Idle]
    /\ manual = None
    /\ shown = None
    /\ raced = FALSE
    /\ spent = [troubles |-> 0, clicks |-> 0]

Spend(what, max) == spent[what] < max /\ spent' = [spent EXCEPT ![what] = @ + 1]

----------------------------------------------------------------------------
(* The daily.                                                              *)

Begin(r) == step[r] = "idle" /\ step' = [step EXCEPT ![r] = "acquire"]

\* The scheduler, or a person, starts a run.
Launch(r) == Begin(r) /\ UNCHANGED <<progress, lock, acquired, heartbeat, portal, spent>>

\* RunLock::acquire comes before the heartbeat: a contender writes nothing.
Acquire(r) ==
    /\ step[r] = "acquire"
    /\ IF lock # None /\ Alive(lock)
       THEN step' = [step EXCEPT ![r] = "refused"] /\ UNCHANGED <<lock, acquired>>
       ELSE /\ lock' = r
            /\ acquired' = Append(acquired, r)
            /\ step' = [step EXCEPT ![r] = "start"]
    /\ UNCHANGED <<progress, heartbeat, portal, spent>>

\* write_last_run: a sibling renamed over the file, or only a warning.
Write(r, status) ==
    \/ /\ file' = Record(r, status) /\ mtime' = mtime + 1
       /\ lost' = lost \ {r}
       /\ UNCHANGED spent
    \/ /\ Spend("troubles", MaxTroubles)
       /\ lost' = lost \cup {r}
       /\ UNCHANGED <<file, mtime>>

Start(r) ==
    /\ step[r] = "start"
    /\ Write(r, "running")
    /\ step' = [step EXCEPT ![r] = "work"]
    /\ UNCHANGED <<progress, lock, acquired, portal>>

Progress(r) ==
    /\ step[r] = "work" /\ progress < MaxProgress
    /\ Write(r, "running")
    /\ progress' = progress + 1
    /\ UNCHANGED <<step, lock, acquired, portal>>

\* run_inner returned; "ended" stands for completed and failed.
Finalize(r) ==
    /\ step[r] = "work"
    /\ Write(r, "ended")
    /\ step' = [step EXCEPT ![r] = "unlock"]
    /\ UNCHANGED <<progress, lock, acquired, portal>>

DropSilently(r) ==
    /\ step[r] = "work"
    /\ step' = [step EXCEPT ![r] = "unlock"]
    /\ UNCHANGED <<progress, lock, acquired, portal, heartbeat, spent>>

\* A panic: the guard's Drop runs before the lock's.
DropGuard(r) ==
    /\ step[r] = "work"
    /\ Write(r, "aborted")
    /\ step' = [step EXCEPT ![r] = "unlock"]
    /\ UNCHANGED <<progress, lock, acquired, portal>>

ReleaseBeforeFinalize(r) ==
    /\ \/ step[r] = "work" /\ lock = r /\ lock' = None /\ UNCHANGED step
       \/ step[r] = "unlock" /\ step' = [step EXCEPT ![r] = "over"] /\ UNCHANGED lock
    /\ UNCHANGED <<progress, acquired, heartbeat, portal, spent>>

Release(r) ==
    /\ step[r] = "unlock"
    /\ lock' = None
    /\ step' = [step EXCEPT ![r] = "over"]
    /\ UNCHANGED <<progress, acquired, heartbeat, portal, spent>>

\* SIGKILL, power loss: no destructor runs, and the lock file stays.
Kill(r) ==
    /\ step[r] \in {"start", "work", "unlock"}
    /\ Spend("troubles", MaxTroubles)
    /\ step' = [step EXCEPT ![r] = "dead"]
    /\ UNCHANGED <<progress, lock, acquired, heartbeat, portal>>

Run(r) == Acquire(r) \/ Start(r) \/ Progress(r) \/ Finalize(r) \/ DropGuard(r) \/ Release(r)

----------------------------------------------------------------------------
(* The portal reads.  freshen: stat, look at the cache, and else load      *)
(* under the cache's write lock after a second look.                       *)

\* What a record is taken for.  The probe counts as alive what it cannot tell
\* to be dead.
VerdictsDoubting(record) ==
    IF record # None /\ record.status = "running" /\ (~ProbeReliable \/ ~Alive(record.run))
    THEN {Record(record.run, "aborted")} ELSE {record}

Verdicts(record) ==
    IF record # None /\ record.status = "running" /\ ~Alive(record.run)
    THEN {Record(record.run, "aborted")} \cup (IF ProbeReliable THEN {} ELSE {record})
    ELSE {record}

Go(t, what) == at' = [at EXCEPT ![t] = what]

\* The request has its verdict: a status answers it, a click goes on if no run
\* seems to be in progress (overlap guard 1).
Answer(t, verdict) ==
    /\ shown' = verdict
    /\ IF at[t].kind = "click" /\ (verdict = None \/ verdict.status # "running")
       THEN Go(t, [step |-> "slot"]) ELSE Go(t, Idle)

Stat(t, kind) ==
    /\ at[t] = Idle
    /\ Go(t, [step |-> "look", kind |-> kind, mtime |-> mtime])
    /\ UNCHANGED <<runVars, heartbeat, cache, loader, manual, shown, raced>>

Poll(t) == Stat(t, "poll") /\ UNCHANGED spent
Click(t) == Stat(t, "click") /\ Spend("clicks", MaxClicks)

\* The cache's data serves the mtime it was filed under.
Hit(t) == cache.loaded /\ cache.mtime = at[t].mtime

\* Behind a loader the thread waits: the look at the cache needs its lock too.
Look(t) ==
    /\ at[t].step = "look" /\ loader = None
    /\ IF Hit(t) THEN Answer(t, cache.verdict) /\ UNCHANGED loader
       ELSE loader' = t /\ Go(t, [at[t] EXCEPT !.step = "read"]) /\ UNCHANGED shown
    /\ UNCHANGED <<runVars, heartbeat, cache, manual, raced, spent>>

Read(t) ==
    /\ at[t].step = "read"
    /\ Go(t, [step |-> "probe", kind |-> at[t].kind, mtime |-> at[t].mtime, record |-> file])
    /\ UNCHANGED <<runVars, heartbeat, cache, loader, manual, shown, raced, spent>>

\* last_run_to_model probes the pid after the file is read; the verdict is
\* filed under the mtime the request began with.
FiledNow(t) == mtime
Filed(t) == at[t].mtime

Probe(t) ==
    /\ at[t].step = "probe"
    /\ \E verdict \in Verdicts(at[t].record) :
          /\ cache' = [loaded |-> TRUE, mtime |-> Filed(t), verdict |-> verdict]
          /\ Answer(t, verdict)
    /\ loader' = None
    /\ UNCHANGED <<runVars, heartbeat, manual, raced, spent>>

\* /api/refresh: read, probe, stat and store, with no lock around any two of them
\* (force_reload stats the file before it takes the cache's write lock).
Refresh(t) ==
    /\ at[t] = Idle
    /\ Spend("clicks", MaxClicks)
    /\ Go(t, [step |-> "reprobe", mtime |-> mtime, record |-> file])
    /\ UNCHANGED <<runVars, heartbeat, cache, loader, manual, shown, raced>>

Reprobe(t) ==
    /\ at[t].step = "reprobe"
    /\ \E verdict \in Verdicts(at[t].record) :
          Go(t, [step |-> "stamp", mtime |-> at[t].mtime, verdict |-> verdict])
    /\ UNCHANGED <<runVars, heartbeat, cache, loader, manual, shown, raced, spent>>

\* The file may have been written since it was read.
Stamp(t) ==
    /\ at[t].step = "stamp"
    /\ Go(t, [step |-> "store", mtime |-> mtime, verdict |-> at[t].verdict])
    /\ raced' = (raced \/ mtime # at[t].mtime)
    /\ UNCHANGED <<runVars, heartbeat, cache, loader, manual, shown, spent>>

Store(t) ==
    /\ at[t].step = "store" /\ loader = None
    /\ cache' = [loaded |-> TRUE, mtime |-> at[t].mtime, verdict |-> at[t].verdict]
    /\ Go(t, Idle)
    /\ UNCHANGED <<runVars, heartbeat, loader, manual, shown, raced, spent>>

----------------------------------------------------------------------------
(* The portal starts a run: the slot (overlap guard 2), then a thread that *)
(* waits for `schedule run-now` and gives the slot back.  The child may    *)
(* fail to start, or decline because the job ran moments ago.              *)

TakeSlot(t) ==
    /\ at[t].step = "slot"
    /\ IF manual # None THEN UNCHANGED <<manual, step>>
       ELSE \/ manual' = NoChild /\ UNCHANGED step
            \/ \E r \in Runs : Begin(r) /\ manual' = r
    /\ Go(t, Idle)
    /\ UNCHANGED <<progress, lock, acquired, heartbeat, cache, loader, shown, raced, spent>>

\* Whatever became of the child, a panic of the waiting thread included.
ReturnSlot ==
    /\ manual = NoChild \/ (manual \in Runs /\ ~Alive(manual))
    /\ manual' = None
    /\ UNCHANGED <<runVars, heartbeat, cache, loader, at, shown, raced, spent>>

Serve(t) ==
    Look(t) \/ Read(t) \/ Probe(t) \/ Reprobe(t) \/ Stamp(t) \/ Store(t) \/ TakeSlot(t)

Next ==
    \/ \E r \in Runs : Launch(r) \/ Run(r) \/ Kill(r)
    \/ \E t \in Pollers : Poll(t)
    \/ \E t \in Clickers : Click(t) \/ Refresh(t)
    \/ \E t \in Threads : Serve(t)
    \/ ReturnSlot

Spec == Init /\ [][Next]_vars

\* Runs end, requests are answered, and the console keeps polling.
FairSpec ==
    /\ Spec
    /\ \A r \in Runs : WF_vars(Run(r))
    /\ \A t \in Threads : WF_vars(Serve(t))
    /\ \A t \in Pollers : WF_vars(Poll(t))
    /\ WF_vars(ReturnSlot)

----------------------------------------------------------------------------
Position(r) == CHOOSE i \in DOMAIN acquired : acquired[i] = r

\* "Released any earlier, the next run could take the lock and write 'running',
\* then this run's 'completed' would overwrite it" (daily.rs): the record of a
\* run is never replaced by that of a run that came before it.
NewestRecordStays ==
    [][file' # file /\ file # None => Position(file'.run) >= Position(file.run)]_vars

\* "so the file is never left saying 'running' forever" (heartbeat.rs): a run
\* that was not killed leaves a terminal record, whether it returned, failed or
\* panicked, unless its last write was lost.
NobodyLeavesRunning ==
    \A r \in Runs : step[r] \in {"unlock", "over"} /\ file = Record(r, "running") => r \in lost

\* "so a real run is never falsely reported dead" (heartbeat.rs): a verdict of
\* aborted, answered now or kept in the cache, is never about a run at work.
NoFalseAlarm ==
    \A v \in {shown, cache.verdict} :
        v # None /\ v.status = "aborted" => ~(step[v.run] \in {"start", "work"})

\* The button comes back: again and again the slot is free and no run is shown
\* as in progress; unless one was killed or lost its last write (the record
\* says running for ever), or the file was written between a refresh's read and
\* its stat.
Stranded == file # None /\ file.status = "running" /\ ~Alive(file.run)
ButtonComesBack ==
    []<>(Stranded \/ raced \/ (manual = None /\ (shown = None \/ shown.status # "running")))
=============================================================================
