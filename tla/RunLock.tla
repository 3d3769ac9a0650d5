------------------------------ MODULE RunLock ------------------------------
(***************************************************************************)
(* RunLock, the PID-file lock under `.ovp/` that serializes every command  *)
(* that changes a vault (crates/ovp-intake/src/vaultops.rs).  The same     *)
(* type guards run.lock, scheduler.lock and the source-work queue's write  *)
(* lock.                                                                   *)
(*                                                                         *)
(* A lock is a file made with create_new and stamped with the owner's PID  *)
(* by a second system call.  Releasing it deletes the file BY PATH.  A     *)
(* process that dies leaves its file behind; a later one that reads a PID  *)
(* `kill -0` calls dead deletes the file, under a second file of the same  *)
(* kind, the reclaim guard.                                                *)
(*                                                                         *)
(* One action is one system call.  Reading a PID and probing it are two,   *)
(* and any process may die between any two calls: it is killed, or it      *)
(* simply finishes.  Several threads may share a process and its PID.      *)
(***************************************************************************)
EXTENDS Naturals, FiniteSets

CONSTANTS
    Threads,        \* the callers of RunLock::acquire_named
    Pids,           \* process identifiers
    PidOf,          \* the process each thread runs in
    Nobody,         \* the creator of a file that does not exist
    Stranger,       \* the creator of a file found on disk at the start
    Blank,          \* what a file says before (or without) its PID stamp
    ProbeReliable,  \* TRUE: `kill -0` always recognizes a dead PID
    QuietExit       \* TRUE: see Die

ASSUME LockConstants ==
    /\ PidOf \in [Threads -> Pids]
    /\ Nobody \notin Threads /\ Stranger \notin Threads /\ Nobody # Stranger
    /\ Blank \notin Pids
    /\ ProbeReliable \in BOOLEAN /\ QuietExit \in BOOLEAN

VARIABLES
    lock,   \* the file at .ovp/<name>
    guard,  \* the file at .ovp/<name>.reclaim
    alive,  \* the PIDs that name a running process
    call,     \* the system call each thread makes next
    seen    \* what each thread last read from a lock or guard file

lockVars == <<lock, guard, alive, call, seen>>

Creators == Threads \cup {Nobody, Stranger}
Texts    == Pids \cup {Blank}
File     == [by : Creators, text : Texts]

Absent     == [by |-> Nobody, text |-> Blank]
Fresh(t)   == [by |-> t, text |-> Blank]
LeftOver(x) == [by |-> Stranger, text |-> x]

\* A file whose stamp names no running process.
NamesTheDead(f) == f.text \in Pids \ alive
Live(t) == PidOf[t] \in alive

Labels == {"idle", "stamp", "guard_read", "guard_probe", "guard_clear", "held",
           "lock_read", "lock_probe", "claim", "guard_stamp",
           "recheck_read", "recheck_probe", "remove", "create", "restamp",
           "drop_guard_won", "drop_guard_lost",
           "advise_lock_read", "advise_lock_probe",
           "advise_guard_read", "advise_guard_probe", "advised"}

LockInit ==
    /\ alive = {PidOf[t] : t \in Threads}
    /\ lock \in {Absent} \cup {LeftOver(x) : x \in Texts \ alive}
    /\ guard \in {Absent} \cup {LeftOver(x) : x \in Texts \ alive}
    /\ call = [t \in Threads |-> "idle"]
    /\ seen = [t \in Threads |-> Blank]

At(t, l) == Live(t) /\ call[t] = l
Goto(t, l) == call' = [call EXCEPT ![t] = l]

----------------------------------------------------------------------------
(* owner_is_dead: read the file, then probe the PID it names.  A file that *)
(* is missing or holds no PID, and a probe that fails, count as alive.     *)

ReadOwner(t, f, from, to) ==
    /\ At(t, from)
    /\ seen' = [seen EXCEPT ![t] = f.text]
    /\ Goto(t, to)
    /\ UNCHANGED <<lock, guard, alive>>

SeesDead(t) == seen[t] \in Pids \ alive

ProbeOwner(t, from, ifDead, ifNot) ==
    /\ At(t, from)
    /\ \/ SeesDead(t) /\ Goto(t, ifDead)
       \/ (ProbeReliable => ~SeesDead(t)) /\ Goto(t, ifNot)
    /\ UNCHANGED <<lock, guard, alive, seen>>

----------------------------------------------------------------------------
(* acquire_named: create the lock, or find out why it is there.            *)

TryCreate(t) ==
    /\ At(t, "idle")
    /\ \/ lock = Absent /\ lock' = Fresh(t) /\ Goto(t, "stamp")
       \/ lock # Absent /\ Goto(t, "lock_read") /\ UNCHANGED lock
    /\ UNCHANGED <<guard, alive, seen>>

\* The stamp goes through the handle of create_new, so it misses a file that
\* is no longer t's; a failed write is ignored.
Stamp(t, from, to) ==
    /\ At(t, from)
    /\ lock' \in {lock, IF lock.by = t THEN [lock EXCEPT !.text = PidOf[t]] ELSE lock}
    /\ Goto(t, to)
    /\ UNCHANGED <<guard, alive, seen>>

\* clear_stale_guard, run by a thread that won the lock with create_new.
ProbeGuard(t) == ProbeOwner(t, "guard_probe", "guard_clear", "held")

ClearGuard(t) ==
    /\ At(t, "guard_clear")
    /\ guard' = Absent
    /\ Goto(t, "held")
    /\ UNCHANGED <<lock, alive, seen>>

----------------------------------------------------------------------------
(* claim_guard and reclaim_under_guard                                     *)

ClaimGuardOverwriting(t) ==
    /\ At(t, "claim")
    /\ guard' = Fresh(t)
    /\ Goto(t, "guard_stamp")
    /\ UNCHANGED <<lock, alive, seen>>

ClaimGuard(t) ==
    /\ At(t, "claim")
    /\ \/ guard = Absent /\ guard' = Fresh(t) /\ Goto(t, "guard_stamp")
       \/ guard # Absent /\ Goto(t, "advise_lock_read") /\ UNCHANGED guard
    /\ UNCHANGED <<lock, alive, seen>>

StampGuardSkippingRecheck(t) ==
    /\ At(t, "guard_stamp")
    /\ guard' \in {guard, IF guard.by = t THEN [guard EXCEPT !.text = PidOf[t]] ELSE guard}
    /\ Goto(t, "remove")
    /\ UNCHANGED <<lock, alive, seen>>

StampGuard(t) ==
    /\ At(t, "guard_stamp")
    /\ guard' \in {guard, IF guard.by = t THEN [guard EXCEPT !.text = PidOf[t]] ELSE guard}
    /\ Goto(t, "recheck_read")
    /\ UNCHANGED <<lock, alive, seen>>

LeaveStaleLock(t) ==
    /\ At(t, "remove")
    /\ Goto(t, "create")
    /\ UNCHANGED <<lock, guard, alive, seen>>

RemoveStaleLock(t) ==
    /\ At(t, "remove")
    /\ lock' = Absent
    /\ Goto(t, "create")
    /\ UNCHANGED <<guard, alive, seen>>

CreateAgain(t) ==
    /\ At(t, "create")
    /\ \/ lock = Absent /\ lock' = Fresh(t) /\ Goto(t, "restamp")
       \/ lock # Absent /\ Goto(t, "drop_guard_lost") /\ UNCHANGED lock
    /\ UNCHANGED <<guard, alive, seen>>

DropGuard(t, from, to) ==
    /\ At(t, from)
    /\ guard' = Absent
    /\ Goto(t, to)
    /\ UNCHANGED <<lock, alive, seen>>

LeaveReclaim(t) ==
    \/ DropGuard(t, "drop_guard_won", "held")
    \/ DropGuard(t, "drop_guard_lost", "advise_lock_read")

----------------------------------------------------------------------------
(* Refusal: acquire_named returns an error, whose text tells the operator  *)
(* to delete both files only if both owners probe dead ("advised").  The   *)
(* caller may try again later.                                             *)

Refuse(t) ==
    \/ ReadOwner(t, lock, "advise_lock_read", "advise_lock_probe")
    \/ ProbeOwner(t, "advise_lock_probe", "advise_guard_read", "idle")
    \/ ReadOwner(t, guard, "advise_guard_read", "advise_guard_probe")
    \/ ProbeOwner(t, "advise_guard_probe", "advised", "idle")

Retry(t) ==
    /\ At(t, "advised")
    /\ Goto(t, "idle")
    /\ UNCHANGED <<lock, guard, alive, seen>>

\* Drop for RunLock: delete whatever the path names.
Release(t) ==
    /\ At(t, "held")
    /\ lock' = Absent
    /\ Goto(t, "idle")
    /\ UNCHANGED <<guard, alive, seen>>

----------------------------------------------------------------------------
\* A process dies, killed or at its normal end; its threads make no further
\* step and its files stay.  QuietExit is an assumption on the environment
\* that the code needs and does not enforce: a process whose PID a
\* deleter has read, and whose file has since been removed, outlives the probe.
Die(q) ==
    /\ q \in alive
    /\ QuietExit => \A t \in Threads : seen[t] = q =>
          /\ At(t, "recheck_probe") => lock.text = q
          /\ At(t, "guard_probe") => guard.text = q
    /\ alive' = alive \ {q}
    /\ UNCHANGED <<lock, guard, call, seen>>

Acquire(t) ==
    \/ TryCreate(t)
    \/ Stamp(t, "stamp", "guard_read")
    \/ ReadOwner(t, guard, "guard_read", "guard_probe")
    \/ ProbeGuard(t)
    \/ ClearGuard(t)

Reclaim(t) ==
    \/ ReadOwner(t, lock, "lock_read", "lock_probe")
    \/ ProbeOwner(t, "lock_probe", "claim", "advise_lock_read")
    \/ ClaimGuard(t)
    \/ StampGuard(t)
    \/ ReadOwner(t, lock, "recheck_read", "recheck_probe")
    \/ ProbeOwner(t, "recheck_probe", "remove", "drop_guard_lost")
    \/ RemoveStaleLock(t)
    \/ CreateAgain(t)
    \/ Stamp(t, "restamp", "drop_guard_won")
    \/ LeaveReclaim(t)

Step(t) == Acquire(t) \/ Reclaim(t) \/ Refuse(t) \/ Retry(t) \/ Release(t)

LockNext == (\E t \in Threads : Step(t)) \/ (\E q \in Pids : Die(q))

LockSpec == LockInit /\ [][LockNext]_lockVars

\* Commands are retried by the schedule and end by themselves.
FairLockSpec == LockSpec /\ \A t \in Threads : WF_lockVars(Step(t))

----------------------------------------------------------------------------
LockTypeOK ==
    /\ lock \in File
    /\ guard \in File
    /\ alive \in SUBSET Pids
    /\ call \in [Threads -> Labels]
    /\ seen \in [Threads -> Texts]

\* From its create_new to its release a thread counts on the lock being its own.
Owning(t) == call[t] \in {"stamp", "guard_read", "guard_probe", "guard_clear",
                        "held", "restamp", "drop_guard_won"}

Reclaiming(t) == call[t] \in {"guard_stamp", "recheck_read", "recheck_probe", "remove",
                            "create", "restamp", "drop_guard_won", "drop_guard_lost"}

\* Single writer: two running threads never both hold the lock.  This is what
\* RunLock is for (vaultops.rs, "Single-writer guard").
MutualExclusion ==
    \A s, t \in Threads : Live(s) /\ Live(t) /\ Owning(s) /\ Owning(t) => s = t

\* To the commands it is an exclusive lock: nobody gets it while a running thread
\* counts on it, nobody but its holder gives it back, and a process's end is the
\* end of its hold, whatever lies at the two paths then.
Holders == {t \in Threads : Live(t) /\ Owning(t)}
Lock == INSTANCE ExclusiveLock WITH Callers <- Threads, holders <- Holders
ImplementsLock == Lock!Spec

\* The file at the lock's path is the one its running owner created: nobody
\* deleted or replaced it, so the path-only deletion of Drop hits its own file.
HolderOwnsFile == \A t \in Threads : Live(t) /\ Owning(t) => lock.by = t

\* The same for the reclaim guard: deletions of a stale lock are one at a time.
ReclaimerOwnsGuard == \A t \in Threads : Live(t) /\ Reclaiming(t) => guard.by = t

\* What the deletions rely on.  A stamp names its creator; what a deleter saw is
\* still in the file when it names a dead process; a deletion hits a dead file.
HonestStamps ==
    \A f \in {lock, guard} :
        /\ f.by \in Threads /\ f.text # Blank => f.text = PidOf[f.by]
        /\ f.by = Stranger => f.text \notin alive
        /\ f.by = Nobody => f = Absent

ProbesStayTrue ==
    \A t \in Threads : Live(t) /\ SeesDead(t) =>
        /\ call[t] = "recheck_probe" => lock.text = seen[t]
        /\ call[t] = "guard_probe" => guard.text = seen[t]

DeletesOnlyTheDead ==
    \A t \in Threads : Live(t) =>
        /\ call[t] = "remove" => NamesTheDead(lock)
        /\ call[t] = "guard_clear" => NamesTheDead(guard)

\* The inductive invariant: file ownership as the deletions preserve it.
LockInv ==
    /\ LockTypeOK
    /\ HolderOwnsFile
    /\ ReclaimerOwnsGuard
    /\ HonestStamps
    /\ ProbesStayTrue
    /\ DeletesOnlyTheDead

\* A step that makes a lock file disappear is its owner's release, or the
\* reclaim of a file whose owner no longer runs: "a racer that already
\* re-created a fresh lock can never have it deleted out from under it".
LiveLockStays ==
    [][lock.by \in Threads /\ lock' # lock /\ lock'.by # lock.by
         => ~Live(lock.by) \/ call[lock.by] = "held"]_lockVars

\* A lock whose owner died is reclaimed by the attempts that follow, unless a
\* process dies inside the reclaim and leaves its guard, or nobody is left.
GuardStranded == guard.by = Stranger \/ (guard.by \in Threads /\ ~Live(guard.by))
StaleLockReclaimed ==
    NamesTheDead(lock) ~> (~NamesTheDead(lock) \/ GuardStranded \/ alive = {})
=============================================================================
