-------------------------- MODULE RunStatusProofs ---------------------------
(***************************************************************************)
(* Proofs about the heartbeat and what the portal makes of it, for any     *)
(* runs, request threads and bounds, and for probes that may not learn the *)
(* truth.                                                                  *)
(***************************************************************************)
EXTENDS RunStatus, TLAPS

Steps == {"idle", "acquire", "refused", "start", "work", "unlock", "over", "dead"}
Records == {None} \cup [run : Runs, status : {"running", "ended", "aborted"}]
Kinds == {"poll", "click"}
Requests ==
    [step : {"idle", "slot"}]
    \cup [step : {"look", "read"}, kind : Kinds, mtime : Nat]
    \cup [step : {"probe"}, kind : Kinds, mtime : Nat, record : Records]
    \cup [step : {"reprobe"}, mtime : Nat, record : Records]
    \cup [step : {"stamp", "store"}, mtime : Nat, verdict : Records]

TypeOK ==
    /\ step \in [Runs -> Steps]
    /\ lock \in Runs \cup {None}
    /\ acquired \in Seq(Runs)
    /\ file \in Records /\ mtime \in Nat /\ lost \subseteq Runs
    /\ cache \in [loaded : BOOLEAN, mtime : Nat, verdict : Records]
    /\ at \in [Threads -> Requests]
    /\ shown \in Records

\* A run between its acquisition and its release owns the lock, and is the last
\* that took it; every run takes it once.
Owns(r) == step[r] \in {"start", "work", "unlock"}
OwnerIsLast ==
    \A r \in Runs : Owns(r) =>
        lock = r /\ Len(acquired) > 0 /\ acquired[Len(acquired)] = r
TakenOnce ==
    /\ \A i, j \in DOMAIN acquired : acquired[i] = acquired[j] => i = j
    /\ \A i \in DOMAIN acquired : step[acquired[i]] \in {"start", "work", "unlock", "over", "dead"}
FileIsOfARun == file # None => \E i \in DOMAIN acquired : acquired[i] = file.run

LockInv == TypeOK /\ OwnerIsLast /\ TakenOnce /\ FileIsOfARun

\* What is said of a run, in the file, in the cache, in an answer or in the
\* hands of a thread, is said of a run that has begun, and "aborted" only of one
\* that is past its work.
Begun(r) == step[r] \in {"start", "work", "unlock", "over", "dead"}
Past(r) == step[r] \in {"unlock", "over", "dead"}
IsTrue(v) == v # None => Begun(v.run) /\ (v.status = "aborted" => Past(v.run))

VerdictInv ==
    /\ IsTrue(file) /\ IsTrue(shown) /\ IsTrue(cache.verdict)
    /\ \A t \in Threads : at[t].step \in {"probe", "reprobe"} => IsTrue(at[t].record)
    /\ \A t \in Threads : at[t].step \in {"stamp", "store"} => IsTrue(at[t].verdict)

----------------------------------------------------------------------------
(* Types.                                                                  *)

LEMMA InitTyped == Init => TypeOK
  BY DEF Init, TypeOK, Steps, Records, Requests, Idle

\* What a probe may make of a record is a record.
LEMMA VerdictsAreRecords ==
  ASSUME NEW record \in Records, NEW verdict \in Verdicts(record)
  PROVE  verdict \in Records
  BY DEF Records, Verdicts, Record

LEMMA RunsKeepTypes ==
  ASSUME TypeOK, NEW r \in Runs, Launch(r) \/ Run(r) \/ Kill(r)
  PROVE  TypeOK'
  <1> USE DEF TypeOK, runVars, heartbeat, portal
  <1>1. CASE Launch(r)
    BY <1>1 DEF Launch, Begin, Steps
  <1>2. CASE Acquire(r)
    <2>1. UNCHANGED <<file, mtime, lost, cache, at, shown>> /\ step' \in [Runs -> Steps]
      BY <1>2 DEF Acquire, Steps
    <2>2. UNCHANGED <<lock, acquired>> \/ (lock' = r /\ acquired' = Append(acquired, r))
      BY <1>2 DEF Acquire
    <2>3. Append(acquired, r) \in Seq(Runs)
      OBVIOUS
    <2>4. acquired' \in Seq(Runs) /\ lock' \in Runs \cup {None}
      BY <2>2, <2>3
    <2> QED
      BY <2>1, <2>4
  <1>3. CASE Kill(r)
    BY <1>3 DEF Kill, Steps
  <1>4. CASE Release(r)
    BY <1>4 DEF Release, Steps
  <1>5. ASSUME NEW status \in {"running", "ended", "aborted"}, Write(r, status)
        PROVE  file' \in Records /\ mtime' \in Nat /\ (lost \subseteq Runs)'
    BY <1>5 DEF Write, Record, Records
  <1>6. CASE Start(r)
    BY <1>5, <1>6 DEF Start, Steps
  <1>7. CASE Progress(r)
    BY <1>5, <1>7 DEF Progress
  <1>8. CASE Finalize(r)
    BY <1>5, <1>8 DEF Finalize, Steps
  <1>9. CASE DropGuard(r)
    BY <1>5, <1>9 DEF DropGuard, Steps
  <1> QED
    BY <1>1, <1>2, <1>3, <1>4, <1>6, <1>7, <1>8, <1>9 DEF Run

LEMMA AnswersKeepTypes ==
  ASSUME TypeOK, NEW t \in Threads, NEW verdict \in Records, Answer(t, verdict)
  PROVE  at' \in [Threads -> Requests] /\ shown' \in Records
  BY DEF TypeOK, Answer, Go, Idle, Requests

LEMMA ThreadsKeepTypes ==
  ASSUME TypeOK, NEW t \in Threads, Poll(t) \/ Click(t) \/ Refresh(t) \/ Serve(t)
  PROVE  TypeOK'
  <1> USE DEF TypeOK, runVars, heartbeat
  <1>1. CASE Poll(t) \/ Click(t)
    <2>1. PICK kind \in Kinds : Stat(t, kind)
      BY <1>1 DEF Poll, Click, Kinds
    <2> QED
      BY <2>1 DEF Stat, Go, Requests
  <1>2. CASE Refresh(t)
    BY <1>2 DEF Refresh, Go, Requests
  <1>3. CASE Look(t)
    <2>1. CASE Hit(t)
      BY <1>3, <2>1, AnswersKeepTypes DEF Look
    <2>2. CASE ~Hit(t)
      <3>1. [at[t] EXCEPT !.step = "read"] \in Requests
        BY <1>3 DEF Look, Requests
      <3> QED
        BY <1>3, <2>2, <3>1 DEF Look, Go
    <2> QED
      BY <2>1, <2>2
  <1>4. CASE Read(t)
    BY <1>4 DEF Read, Go, Requests
  <1>5. CASE Probe(t)
    <2>1. at[t].record \in Records /\ at[t].mtime \in Nat
      BY <1>5 DEF Probe, Requests
    <2>2. PICK verdict \in Verdicts(at[t].record) :
            /\ cache' = [loaded |-> TRUE, mtime |-> Filed(t), verdict |-> verdict]
            /\ Answer(t, verdict)
      BY <1>5 DEF Probe
    <2>3. verdict \in Records
      BY <2>1, <2>2, VerdictsAreRecords
    <2> QED
      BY <1>5, <2>1, <2>2, <2>3, AnswersKeepTypes DEF Probe, Filed
  <1>6. CASE Reprobe(t)
    <2>1. at[t].record \in Records /\ at[t].mtime \in Nat
      BY <1>6 DEF Reprobe, Requests
    <2>2. PICK verdict \in Verdicts(at[t].record) :
            Go(t, [step |-> "stamp", mtime |-> at[t].mtime, verdict |-> verdict])
      BY <1>6 DEF Reprobe
    <2>3. verdict \in Records
      BY <2>1, <2>2, VerdictsAreRecords
    <2> QED
      BY <1>6, <2>1, <2>2, <2>3 DEF Reprobe, Go, Requests
  <1>7. CASE Store(t)
    <2>1. at[t].verdict \in Records /\ at[t].mtime \in Nat
      BY <1>7 DEF Store, Requests
    <2> QED
      BY <1>7, <2>1 DEF Store, Go, Idle, Requests
  <1>8. CASE TakeSlot(t)
    BY <1>8 DEF TakeSlot, Go, Idle, Requests, Begin, Steps
  <1>9. CASE Stamp(t)
    <2>1. at[t].verdict \in Records
      BY <1>9 DEF Stamp, Requests
    <2> QED
      BY <1>9, <2>1 DEF Stamp, Go, Requests
  <1> QED
    BY <1>1, <1>2, <1>3, <1>4, <1>5, <1>6, <1>7, <1>8, <1>9 DEF Serve

LEMMA TypesAreKept == TypeOK /\ [Next]_vars => TypeOK'
  <1>1. CASE ReturnSlot
    BY <1>1 DEF TypeOK, ReturnSlot, runVars, heartbeat
  <1>2. CASE UNCHANGED vars
    BY <1>2 DEF TypeOK, vars, runVars, heartbeat, portal
  <1> QED
    BY <1>1, <1>2, RunsKeepTypes, ThreadsKeepTypes DEF Next, Threads

----------------------------------------------------------------------------
(* The lock and the record.                                                *)

\* A heartbeat write is of the run that makes it, and nobody else's is lost.
LEMMA WritesAreOfTheRun ==
  ASSUME TypeOK, NEW r \in Runs, NEW status \in {"running", "ended", "aborted"}, Write(r, status)
  PROVE  /\ (file' = file /\ r \in lost') \/ file' = Record(r, status)
         /\ lost' \subseteq lost \cup {r} /\ lost \ {r} \subseteq lost'
  BY DEF Write, TypeOK

\* What a run does after it took the lock: the lock stays its own until it
\* gives it back, and the file is left alone or gets its record.
LEMMA WorkOfARun ==
  ASSUME TypeOK, NEW r \in Runs, Start(r) \/ Progress(r) \/ Finalize(r) \/ DropGuard(r) \/ Release(r)
  PROVE  /\ Owns(r)
         /\ acquired' = acquired
         /\ \A q \in Runs : q # r => step'[q] = step[q]
         /\ (step'[r] \in {"work", "unlock"} /\ lock' = lock) \/ step'[r] = "over"
         /\ file' = file \/ file'.run = r
  <1>1. CASE Release(r)
    BY <1>1 DEF Release, Owns, TypeOK, heartbeat
  <1>2. ASSUME NEW status \in {"running", "ended", "aborted"}, Write(r, status)
        PROVE  file' = file \/ file'.run = r
    BY <1>2, WritesAreOfTheRun DEF Record
  <1>3. CASE Start(r)
    BY <1>2, <1>3 DEF Start, Owns, TypeOK
  <1>4. CASE Progress(r)
    BY <1>2, <1>4 DEF Progress, Owns, TypeOK
  <1>5. CASE Finalize(r)
    BY <1>2, <1>5 DEF Finalize, Owns, TypeOK
  <1>6. CASE DropGuard(r)
    BY <1>2, <1>6 DEF DropGuard, Owns, TypeOK
  <1> QED
    BY <1>1, <1>3, <1>4, <1>5, <1>6

\* A click or the scheduler brings a run to the lock and touches nothing else.
LEMMA OthersLeaveTheLock ==
  ASSUME TypeOK, NEW t \in Threads,
         Poll(t) \/ Click(t) \/ Refresh(t) \/ Serve(t)
  PROVE  /\ UNCHANGED <<lock, acquired, file, lost>>
         /\ \A q \in Runs : step'[q] = step[q] \/ (step[q] = "idle" /\ step'[q] = "acquire")
  <1>1. CASE TakeSlot(t)
    BY <1>1 DEF TakeSlot, heartbeat, Begin, TypeOK
  <1> QED
    BY <1>1 DEF Poll, Click, Stat, Refresh, Serve, Look, Read, Probe, Reprobe, Stamp, Store,
       runVars, heartbeat

LEMMA InitIsLocked == Init => LockInv
  BY InitTyped DEF Init, LockInv, OwnerIsLast, TakenOnce, FileIsOfARun, Owns

LEMMA LockInvIsKept == LockInv /\ [Next]_vars => LockInv'
  <1> SUFFICES ASSUME LockInv, [Next]_vars PROVE (OwnerIsLast /\ TakenOnce /\ FileIsOfARun)'
    BY TypesAreKept DEF LockInv
  <1> USE DEF LockInv, OwnerIsLast, TakenOnce, FileIsOfARun
  <1>1. ASSUME UNCHANGED <<lock, acquired, file>>,
               \A q \in Runs : step'[q] = step[q] \/ (step[q] = "idle" /\ step'[q] = "acquire")
        PROVE  (OwnerIsLast /\ TakenOnce /\ FileIsOfARun)'
    BY <1>1 DEF TypeOK, Owns
  <1>2. ASSUME NEW r \in Runs, Launch(r) PROVE (OwnerIsLast /\ TakenOnce /\ FileIsOfARun)'
    BY <1>1, <1>2 DEF Launch, Begin, heartbeat, TypeOK
  <1>3. ASSUME NEW r \in Runs, Kill(r) PROVE (OwnerIsLast /\ TakenOnce /\ FileIsOfARun)'
    BY <1>3 DEF Kill, heartbeat, TypeOK, Owns
  <1>4. ASSUME NEW r \in Runs, Acquire(r) PROVE (OwnerIsLast /\ TakenOnce /\ FileIsOfARun)'
    <2>1. CASE lock # None /\ Alive(lock)
      BY <1>4, <2>1 DEF Acquire, heartbeat, TypeOK, Owns
    <2>2. CASE ~(lock # None /\ Alive(lock))
      <3>1. /\ step[r] = "acquire" /\ step' = [step EXCEPT ![r] = "start"]
            /\ lock' = r /\ acquired' = Append(acquired, r) /\ file' = file
        BY <1>4, <2>2 DEF Acquire, heartbeat
      <3>2. \A q \in Runs : ~Owns(q)
        BY <2>2, RunStatusConstants DEF Owns, Alive, TypeOK
      <3>3. /\ Len(acquired') = Len(acquired) + 1 /\ acquired'[Len(acquired')] = r
            /\ DOMAIN acquired' = DOMAIN acquired \cup {Len(acquired')}
            /\ \A i \in DOMAIN acquired : acquired'[i] = acquired[i] /\ acquired[i] \in Runs
            /\ Len(acquired) \in Nat
        BY <3>1 DEF TypeOK
      <3>4. \A i \in DOMAIN acquired : acquired[i] # r
        BY <3>1
      <3>5. OwnerIsLast'
        BY <3>1, <3>2, <3>3 DEF TypeOK, Owns
      <3>6. TakenOnce'
        <4>1. \A i, j \in DOMAIN acquired' : acquired'[i] = acquired'[j] => i = j
          BY <3>3, <3>4
        <4>2. \A i \in DOMAIN acquired' :
                 step'[acquired'[i]] \in {"start", "work", "unlock", "over", "dead"}
          BY <3>1, <3>3, <3>4 DEF TypeOK
        <4> QED
          BY <4>1, <4>2
      <3>7. FileIsOfARun'
        BY <3>1, <3>3
      <3> QED
        BY <3>5, <3>6, <3>7
    <2> QED
      BY <2>1, <2>2
  <1>5. ASSUME NEW r \in Runs, Start(r) \/ Progress(r) \/ Finalize(r) \/ DropGuard(r) \/ Release(r)
        PROVE  (OwnerIsLast /\ TakenOnce /\ FileIsOfARun)'
    <2>1. /\ Owns(r) /\ acquired' = acquired
          /\ \A q \in Runs : q # r => step'[q] = step[q]
          /\ (step'[r] \in {"work", "unlock"} /\ lock' = lock) \/ step'[r] = "over"
          /\ file' = file \/ file'.run = r
      BY <1>5, WorkOfARun
    <2>2. \A q \in Runs : q # r => ~Owns(q)
      BY <2>1
    <2>3. \A i \in DOMAIN acquired : acquired[i] \in Runs
      BY DEF TypeOK
    <2>4. OwnerIsLast'
      BY <2>1, <2>2 DEF Owns
    <2>5. TakenOnce'
      BY <2>1, <2>3
    <2>6. FileIsOfARun'
      BY <2>1 DEF TypeOK
    <2> QED
      BY <2>4, <2>5, <2>6
  <1>6. ASSUME NEW t \in Threads, Poll(t) \/ Click(t) \/ Refresh(t) \/ Serve(t)
        PROVE  (OwnerIsLast /\ TakenOnce /\ FileIsOfARun)'
    BY <1>1, <1>6, OthersLeaveTheLock
  <1>7. CASE ReturnSlot \/ UNCHANGED vars
    BY <1>1, <1>7 DEF ReturnSlot, vars, runVars, heartbeat
  <1> QED
    BY <1>2, <1>3, <1>4, <1>5, <1>6, <1>7 DEF Next, Run, Threads

\* The record of a run is replaced by its own or by that of a later run.
THEOREM RecordsComeInOrder == Spec => NewestRecordStays
  <1>1. ASSUME LockInv, Next, file' # file, file # None
        PROVE  Position(file'.run) >= Position(file.run)
    <2>1. PICK r \in Runs : Start(r) \/ Progress(r) \/ Finalize(r) \/ DropGuard(r) \/ Release(r)
      BY <1>1, OthersLeaveTheLock
         DEF LockInv, Next, Run, Launch, Acquire, Kill, ReturnSlot, Threads, heartbeat
    <2>2. Owns(r) /\ file'.run = r
      BY <1>1, <2>1, WorkOfARun DEF LockInv
    <2>3. /\ acquired \in Seq(Runs) /\ Len(acquired) \in DOMAIN acquired
          /\ acquired[Len(acquired)] = r
      BY <1>1, <2>2 DEF LockInv, TypeOK, OwnerIsLast
    <2>4. \E i \in DOMAIN acquired : acquired[i] = file.run
      BY <1>1 DEF LockInv, FileIsOfARun
    <2>5. Position(file.run) \in DOMAIN acquired
      BY <2>4 DEF Position
    <2>6. Position(r) = Len(acquired)
      <3>1. Position(r) \in DOMAIN acquired /\ acquired[Position(r)] = r
        BY <2>3 DEF Position
      <3> QED
        BY <1>1, <2>3, <3>1 DEF LockInv, TakenOnce
    <2> QED
      BY <2>2, <2>3, <2>5, <2>6
  <1>2. LockInv /\ [Next]_vars => [file' # file /\ file # None => Position(file'.run) >= Position(file.run)]_vars
    BY <1>1
  <1> QED
    BY InitIsLocked, LockInvIsKept, <1>2, PTL DEF Spec, NewestRecordStays

----------------------------------------------------------------------------
(* Whoever ends says so.                                                   *)

\* NobodyLeavesRunning is inductive: the terminal write is the run's last, and
\* other runs only replace it by a record of their own.
LEMMA InitLeavesNothing == Init => NobodyLeavesRunning
  BY DEF Init, NobodyLeavesRunning

LEMMA NobodyLeavesRunningIsKept ==
  TypeOK /\ NobodyLeavesRunning /\ [Next]_vars => NobodyLeavesRunning'
  <1> SUFFICES ASSUME TypeOK, NobodyLeavesRunning, [Next]_vars PROVE NobodyLeavesRunning'
    OBVIOUS
  <1> USE DEF NobodyLeavesRunning
  <1>1. ASSUME UNCHANGED <<file, lost>>,
               \A q \in Runs : step'[q] \in {"unlock", "over"} => step[q] \in {"unlock", "over"}
        PROVE  NobodyLeavesRunning'
    BY <1>1
  <1>2. ASSUME NEW r \in Runs, Launch(r) \/ Acquire(r) \/ Release(r) \/ Kill(r)
        PROVE  NobodyLeavesRunning'
    BY <1>1, <1>2 DEF Launch, Begin, Acquire, Release, Kill, heartbeat, TypeOK
  <1>3. ASSUME NEW r \in Runs, NEW status \in {"running", "ended", "aborted"}, Write(r, status),
               \A q \in Runs : q # r => step'[q] = step[q],
               status = "running" => step'[r] = "work"
        PROVE  NobodyLeavesRunning'
    <2>1. /\ (file' = file /\ r \in lost') \/ file' = Record(r, status)
          /\ lost \ {r} \subseteq lost'
      BY <1>3, WritesAreOfTheRun
    <2> SUFFICES ASSUME NEW q \in Runs, step'[q] \in {"unlock", "over"}, file' = Record(q, "running")
                 PROVE  q \in lost'
      OBVIOUS
    <2>2. CASE file' = file /\ r \in lost'
      BY <1>3, <2>1, <2>2
    <2>3. CASE file' = Record(r, status)
      BY <1>3, <2>3 DEF Record
    <2> QED
      BY <2>1, <2>2, <2>3
  <1>4. ASSUME NEW r \in Runs, Start(r) \/ Progress(r) \/ Finalize(r) \/ DropGuard(r)
        PROVE  NobodyLeavesRunning'
    <2>1. PICK status \in {"running", "ended", "aborted"} :
             /\ Write(r, status)
             /\ \A q \in Runs : q # r => step'[q] = step[q]
             /\ status = "running" => step'[r] = "work"
      BY <1>4 DEF Start, Progress, Finalize, DropGuard, TypeOK
    <2> QED
      BY <1>3, <2>1
  <1>5. ASSUME NEW t \in Threads, Poll(t) \/ Click(t) \/ Refresh(t) \/ Serve(t)
        PROVE  NobodyLeavesRunning'
    BY <1>1, <1>5, OthersLeaveTheLock
  <1>6. CASE ReturnSlot \/ UNCHANGED vars
    BY <1>1, <1>6 DEF ReturnSlot, vars, runVars, heartbeat
  <1> QED
    BY <1>2, <1>4, <1>5, <1>6 DEF Next, Run, Threads

\* A run that was not killed leaves a terminal record, unless its write failed.
THEOREM EndedRunsSaySo == Spec => []NobodyLeavesRunning
  BY InitTyped, TypesAreKept, InitLeavesNothing, NobodyLeavesRunningIsKept, PTL DEF Spec

----------------------------------------------------------------------------
(* No verdict calls a run at work dead.                                    *)

\* What was said truly stays true: runs begin once and do not work again.
LEMMA TruthStays ==
  ASSUME TypeOK, NEW v \in Records, IsTrue(v),
         \A q \in Runs : (Begun(q) => Begun(q)') /\ (Past(q) => Past(q)')
  PROVE  IsTrue(v)'
  BY DEF IsTrue, Records

\* Probing a dead process turns a true record into a true verdict.
LEMMA ProbesAreTrue ==
  ASSUME TypeOK, NEW record \in Records, IsTrue(record), NEW verdict \in Verdicts(record)
  PROVE  IsTrue(verdict)
  <1>1. CASE verdict = record
    BY <1>1
  <1>2. CASE record # None /\ ~Alive(record.run) /\ verdict = Record(record.run, "aborted")
    BY <1>2 DEF IsTrue, Begun, Past, Alive, Record
  <1> QED
    BY <1>1, <1>2 DEF Verdicts

\* No run begins twice, and none goes back to work.
LEMMA RunsGoForward ==
  ASSUME TypeOK, [Next]_vars
  PROVE  \A q \in Runs : (Begun(q) => Begun(q)') /\ (Past(q) => Past(q)')
  <1> USE DEF Begun, Past
  <1>1. ASSUME NEW r \in Runs, Launch(r) \/ Acquire(r) \/ Release(r) \/ Kill(r)
        PROVE  \A q \in Runs : (Begun(q) => Begun(q)') /\ (Past(q) => Past(q)')
    BY <1>1 DEF Launch, Begin, Acquire, Release, Kill, TypeOK
  <1>2. ASSUME NEW r \in Runs, Start(r) \/ Progress(r) \/ Finalize(r) \/ DropGuard(r)
        PROVE  \A q \in Runs : (Begun(q) => Begun(q)') /\ (Past(q) => Past(q)')
    BY <1>2 DEF Start, Progress, Finalize, DropGuard, TypeOK
  <1>3. ASSUME NEW t \in Threads, Poll(t) \/ Click(t) \/ Refresh(t) \/ Serve(t)
        PROVE  \A q \in Runs : (Begun(q) => Begun(q)') /\ (Past(q) => Past(q)')
    BY <1>3, OthersLeaveTheLock
  <1>4. CASE ReturnSlot \/ UNCHANGED vars
    BY <1>4 DEF ReturnSlot, vars, runVars
  <1> QED
    BY <1>1, <1>2, <1>3, <1>4 DEF Next, Run, Threads

\* The file is of a run past its lock, and says aborted of one past its work.
LEMMA FileStaysTrue ==
  ASSUME TypeOK, IsTrue(file), [Next]_vars
  PROVE  IsTrue(file)'
  <1>1. ASSUME file' = file PROVE IsTrue(file)'
    BY <1>1, TruthStays, RunsGoForward DEF TypeOK, IsTrue
  <1>2. ASSUME NEW r \in Runs, Start(r) \/ Progress(r) \/ Finalize(r) \/ DropGuard(r)
        PROVE  IsTrue(file)'
    <2>1. PICK status \in {"running", "ended", "aborted"} :
             Write(r, status) /\ Begun(r)' /\ (status = "aborted" => Past(r)')
      BY <1>2 DEF Start, Progress, Finalize, DropGuard, TypeOK, Begun, Past
    <2>2. CASE file' = Record(r, status)
      BY <2>1, <2>2 DEF Record, IsTrue
    <2> QED
      BY <1>1, <2>1, <2>2, WritesAreOfTheRun
  <1>3. ASSUME NEW r \in Runs, Launch(r) \/ Acquire(r) \/ Release(r) \/ Kill(r)
        PROVE  file' = file
    BY <1>3 DEF Launch, Acquire, Release, Kill, heartbeat
  <1>4. CASE ReturnSlot \/ UNCHANGED vars
    BY <1>1, <1>4 DEF ReturnSlot, vars, heartbeat
  <1> QED
    BY <1>1, <1>2, <1>3, <1>4, OthersLeaveTheLock DEF Next, Run, Threads

LEMMA InitIsTrue == Init => VerdictInv
  BY DEF Init, VerdictInv, IsTrue, Idle

\* A step of the runs changes no verdict.
LEMMA VerdictsStay ==
  ASSUME TypeOK, VerdictInv, [Next]_vars, UNCHANGED <<cache, at, shown>>
  PROVE  VerdictInv'
  <1>1. IsTrue(file)' /\ IsTrue(shown)' /\ IsTrue(cache.verdict)'
    BY FileStaysTrue, TruthStays, RunsGoForward DEF VerdictInv, TypeOK, IsTrue
  <1>2. ASSUME NEW t \in Threads, at[t].step \in {"probe", "reprobe"} PROVE IsTrue(at[t].record)'
    <2>1. at[t].record \in Records
      BY <1>2 DEF TypeOK, Requests
    <2> QED
      BY <1>2, <2>1, TruthStays, RunsGoForward DEF VerdictInv, IsTrue
  <1>3. ASSUME NEW t \in Threads, at[t].step \in {"stamp", "store"} PROVE IsTrue(at[t].verdict)'
    <2>1. at[t].verdict \in Records
      BY <1>3 DEF TypeOK, Requests
    <2> QED
      BY <1>3, <2>1, TruthStays, RunsGoForward DEF VerdictInv, IsTrue
  <1> QED
    BY <1>1, <1>2, <1>3 DEF VerdictInv

\* A thread that takes a step of its own, with a true verdict in hand if any,
\* and leaves true verdicts behind.
LEMMA AThreadKeepsVerdictInv ==
  ASSUME TypeOK, VerdictInv, [Next]_vars, NEW t \in Threads,
         UNCHANGED step, \A u \in Threads : u # t => at'[u] = at[u],
         at'[t].step \in {"probe", "reprobe"} => IsTrue(at'[t].record),
         at'[t].step \in {"stamp", "store"} => IsTrue(at'[t].verdict),
         IsTrue(shown'), IsTrue(cache'.verdict)
  PROVE  VerdictInv'
  <1>1. \A v : IsTrue(v) => /\ v # None => Begun(v.run)'
                            /\ v # None /\ v.status = "aborted" => Past(v.run)'
    BY DEF IsTrue, Begun, Past
  <1>2. IsTrue(file)' /\ IsTrue(shown)' /\ IsTrue(cache.verdict)'
    BY <1>1, FileStaysTrue DEF VerdictInv, IsTrue
  <1>3. \A u \in Threads : at'[u].step \in {"probe", "reprobe"} => IsTrue(at'[u].record)
    BY DEF VerdictInv
  <1>4. \A u \in Threads : at'[u].step \in {"stamp", "store"} => IsTrue(at'[u].verdict)
    BY DEF VerdictInv
  <1> QED
    BY <1>1, <1>2, <1>3, <1>4 DEF VerdictInv, IsTrue

LEMMA AnswersAreTrue ==
  ASSUME TypeOK, VerdictInv, NEW t \in Threads, NEW verdict \in Records, IsTrue(verdict),
         Answer(t, verdict)
  PROVE  /\ \A u \in Threads : u # t => at'[u] = at[u]
         /\ at'[t].step \in {"idle", "slot"} /\ IsTrue(shown')
  BY DEF Answer, Go, Idle, TypeOK, VerdictInv

LEMMA ServingKeepsVerdictInv ==
  ASSUME TypeOK, VerdictInv, [Next]_vars, NEW t \in Threads,
         \/ Poll(t) \/ Click(t) \/ Refresh(t) \/ Look(t) \/ Read(t) \/ Probe(t)
         \/ Reprobe(t) \/ Stamp(t) \/ Store(t)
  PROVE  VerdictInv'
  <1> USE DEF runVars, heartbeat
  <1>1. UNCHANGED step
    BY DEF Poll, Click, Stat, Refresh, Look, Read, Probe, Reprobe, Stamp, Store
  <1>2. CASE Poll(t) \/ Click(t) \/ Refresh(t) \/ Read(t)
    <2>1. /\ \A u \in Threads : u # t => at'[u] = at[u]
          /\ at'[t].step \in {"probe", "reprobe"} => at'[t].record = file
          /\ at'[t].step \notin {"stamp", "store"} /\ UNCHANGED <<shown, cache>>
      BY <1>2 DEF Poll, Click, Stat, Refresh, Read, Go, TypeOK
    <2> QED
      BY <1>1, <2>1, AThreadKeepsVerdictInv DEF VerdictInv
  <1>3. CASE Look(t)
    <2>1. CASE Hit(t)
      <3>1. Answer(t, cache.verdict) /\ UNCHANGED cache
        BY <1>3, <2>1 DEF Look
      <3>2. /\ \A u \in Threads : u # t => at'[u] = at[u]
            /\ at'[t].step \in {"idle", "slot"} /\ IsTrue(shown')
        BY <3>1, AnswersAreTrue DEF VerdictInv, TypeOK
      <3> QED
        BY <1>1, <3>1, <3>2, AThreadKeepsVerdictInv DEF VerdictInv
    <2>2. CASE ~Hit(t)
      <3>1. [at[t] EXCEPT !.step = "read"].step = "read"
        BY <1>3 DEF Look, TypeOK, Requests
      <3>2. /\ \A u \in Threads : u # t => at'[u] = at[u]
            /\ at'[t].step = "read" /\ UNCHANGED <<shown, cache>>
        BY <1>3, <2>2, <3>1 DEF Look, Go, TypeOK
      <3> QED
        BY <1>1, <3>2, AThreadKeepsVerdictInv DEF VerdictInv
    <2> QED
      BY <2>1, <2>2
  <1>4. CASE Probe(t)
    <2>1. at[t].record \in Records /\ IsTrue(at[t].record)
      BY <1>4 DEF Probe, TypeOK, Requests, VerdictInv
    <2>2. PICK verdict \in Verdicts(at[t].record) :
            /\ cache' = [loaded |-> TRUE, mtime |-> Filed(t), verdict |-> verdict]
            /\ Answer(t, verdict)
      BY <1>4 DEF Probe
    <2>3. verdict \in Records /\ IsTrue(verdict)
      BY <2>1, <2>2, VerdictsAreRecords, ProbesAreTrue
    <2>4. /\ \A u \in Threads : u # t => at'[u] = at[u]
          /\ at'[t].step \in {"idle", "slot"} /\ IsTrue(shown')
      BY <2>2, <2>3, AnswersAreTrue
    <2> QED
      BY <1>1, <2>2, <2>3, <2>4, AThreadKeepsVerdictInv
  <1>5. CASE Reprobe(t)
    <2>1. at[t].record \in Records /\ IsTrue(at[t].record)
      BY <1>5 DEF Reprobe, TypeOK, Requests, VerdictInv
    <2>2. PICK verdict \in Verdicts(at[t].record) :
            Go(t, [step |-> "stamp", mtime |-> at[t].mtime, verdict |-> verdict])
      BY <1>5 DEF Reprobe
    <2>3. IsTrue(verdict)
      BY <2>1, <2>2, ProbesAreTrue
    <2>4. /\ \A u \in Threads : u # t => at'[u] = at[u]
          /\ at'[t].step = "stamp" /\ at'[t].verdict = verdict /\ UNCHANGED <<shown, cache>>
      BY <1>5, <2>2 DEF Reprobe, Go, TypeOK
    <2> QED
      BY <1>1, <2>3, <2>4, AThreadKeepsVerdictInv DEF VerdictInv
  <1>6. CASE Store(t)
    <2>1. /\ \A u \in Threads : u # t => at'[u] = at[u]
          /\ at'[t].step = "idle" /\ cache'.verdict = at[t].verdict /\ UNCHANGED shown
      BY <1>6 DEF Store, Go, Idle, TypeOK
    <2>2. IsTrue(at[t].verdict)
      BY <1>6 DEF Store, VerdictInv
    <2> QED
      BY <1>1, <2>1, <2>2, AThreadKeepsVerdictInv DEF VerdictInv
  <1>7. CASE Stamp(t)
    <2>1. /\ \A u \in Threads : u # t => at'[u] = at[u]
          /\ at'[t].step = "store" /\ at'[t].verdict = at[t].verdict /\ UNCHANGED <<shown, cache>>
      BY <1>7 DEF Stamp, Go, TypeOK
    <2>2. IsTrue(at[t].verdict)
      BY <1>7 DEF Stamp, VerdictInv
    <2> QED
      BY <1>1, <2>1, <2>2, AThreadKeepsVerdictInv DEF VerdictInv
  <1> QED
    BY <1>2, <1>3, <1>4, <1>5, <1>6, <1>7

LEMMA VerdictInvIsKept == TypeOK /\ VerdictInv /\ [Next]_vars => VerdictInv'
  <1> SUFFICES ASSUME TypeOK, VerdictInv, [Next]_vars PROVE VerdictInv'
    OBVIOUS
  <1>1. ASSUME NEW r \in Runs, Launch(r) \/ Run(r) \/ Kill(r) PROVE VerdictInv'
    <2>1. UNCHANGED <<cache, at, shown>>
      BY <1>1 DEF Launch, Run, Kill, Acquire, Start, Progress, Finalize, DropGuard, Release, portal
    <2> QED
      BY <2>1, VerdictsStay
  <1>2. ASSUME NEW t \in Threads, TakeSlot(t) PROVE VerdictInv'
    <2>1. at' = [at EXCEPT ![t] = Idle] /\ UNCHANGED <<cache, shown>>
      BY <1>2 DEF TakeSlot, Go
    <2>2. IsTrue(file)' /\ IsTrue(shown)' /\ IsTrue(cache.verdict)'
      BY <2>1, FileStaysTrue, TruthStays, RunsGoForward DEF VerdictInv, TypeOK, IsTrue
    <2>3. ASSUME NEW u \in Threads, at'[u].step \in {"probe", "reprobe"} PROVE IsTrue(at[u].record)'
      <3>1. u # t /\ at'[u] = at[u] /\ at[u].record \in Records
        BY <2>1, <2>3 DEF TypeOK, Idle, Requests
      <3> QED
        BY <2>3, <3>1, TruthStays, RunsGoForward DEF VerdictInv, IsTrue
    <2>4. ASSUME NEW u \in Threads, at'[u].step \in {"stamp", "store"} PROVE IsTrue(at[u].verdict)'
      <3>1. u # t /\ at'[u] = at[u] /\ at[u].verdict \in Records
        BY <2>1, <2>4 DEF TypeOK, Idle, Requests
      <3> QED
        BY <2>4, <3>1, TruthStays, RunsGoForward DEF VerdictInv, IsTrue
    <2> QED
      BY <2>2, <2>3, <2>4 DEF VerdictInv, IsTrue
  <1>3. CASE ReturnSlot \/ UNCHANGED vars
    BY <1>3, VerdictsStay DEF ReturnSlot, vars, portal
  <1> QED
    BY <1>1, <1>2, <1>3, ServingKeepsVerdictInv DEF Next, Serve, Threads

\* No verdict, answered or cached, calls a run at work dead.
THEOREM NoRunAtWorkIsCalledDead == Spec => []NoFalseAlarm
  <1>1. VerdictInv => NoFalseAlarm
    BY DEF VerdictInv, NoFalseAlarm, IsTrue, Past
  <1> QED
    BY <1>1, InitTyped, TypesAreKept, InitIsTrue, VerdictInvIsKept, PTL DEF Spec
=============================================================================
