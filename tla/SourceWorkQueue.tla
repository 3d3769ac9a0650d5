--------------------------- MODULE SourceWorkQueue ---------------------------
(***************************************************************************)
(* The queue of per-article LLM work (crates/ovp-memory/src/               *)
(* source_work_queue.rs) and the worker that runs it (crates/ovp-server).  *)
(*                                                                         *)
(* Every write of the queue file happens under QUEUE_WRITE_LOCK, rereads   *)
(* the file first and commits with one rename, so a queue operation is one *)
(* action on "items"; portals only read or request, and have no state here.*)
(* The worker is the process that holds WORKER_LOCK, an OS lock: it claims *)
(* an article, starts one thread per task, joins them and closes the item. *)
(* An operation whose lock attempts run out changes nothing.               *)
(***************************************************************************)
EXTENDS Naturals, FiniteSetsExt, SequencesExt

CONSTANTS
    Requests,          \* the enqueue requests of clients
    MAX_TASK_ATTEMPTS, \* tries of a task before a transient failure is final
    KeepTerminal,      \* how many finished items the file keeps
    SameSecond,        \* TRUE: two items may be created within one second
    MaxRequests,       \* bound: enqueue requests
    MaxWithdrawals,    \* bound: cancel and remove requests
    MaxFaults          \* bound: deaths of the worker, and its writes lost to a busy lock

Tasks == {"translate", "summarize"}
Shas == {r.sha : r \in Requests}

ASSUME QueueConstants ==
    /\ Requests \subseteq [sha : Shas, wants : SUBSET Tasks, notify : BOOLEAN, priority : Nat]
    /\ MAX_TASK_ATTEMPTS \in Nat \ {0}
    /\ SameSecond \in BOOLEAN
    /\ {KeepTerminal, MaxRequests, MaxWithdrawals, MaxFaults} \subseteq Nat

VARIABLES
    items,    \* the queue file, in file order
    made,     \* the artifacts on disk: <<article, task>>
    clock,    \* the second of the last item created
    pc,       \* where the worker is
    token,    \* its claim token: the number of worker processes so far
    job,      \* the item as claim_next returned it
    thread,   \* the state of each task thread
    asked, withdrawn, faults

vars == <<items, made, clock, pc, token, job, thread, asked, withdrawn, faults>>
bounds == <<asked, withdrawn, faults>>

Over == {"done", "failed", "cancelled"}
NoJob == [id |-> <<>>, sha |-> <<>>, armed |-> {}]

Init ==
    /\ items = <<>>
    /\ made = {}
    /\ clock = 0
    /\ pc = "down"
    /\ token = 0
    /\ job = NoJob
    /\ thread = [t \in Tasks |-> "none"]
    /\ asked = 0 /\ withdrawn = 0 /\ faults = 0

----------------------------------------------------------------------------
(* Items                                                                   *)

\* TaskState::idle.  "starts" counts the threads started for the task since it
\* was queued by a request; the code does not keep it.
Idle(wanted) ==
    [wanted |-> wanted, status |-> IF wanted THEN "queued" ELSE "skipped",
     attempts |-> 0, waits |-> FALSE, starts |-> 0]

Is(i, t, s) == i.task[t].wanted /\ i.task[t].status = s

TasksTerminal(i) == \A t \in Tasks : ~Is(i, t, "queued") /\ ~Is(i, t, "running")

\* recompute_item_status
Recomputed(i) ==
    [i EXCEPT !.status = IF ~TasksTerminal(i) THEN "running"
                         ELSE IF \E t \in Tasks : Is(i, t, "failed") THEN "failed" ELSE "done"]

\* Operations name an item by its id and take the first that has it.
Has(its, id) == \E k \in DOMAIN its : its[k].id = id
At(its, id) == Min({k \in DOMAIN its : its[k].id = id})
Change(its, id, Op(_)) == IF Has(its, id) THEN [its EXCEPT ![At(its, id)] = Op(@)] ELSE its

IsRunning(i) == i.status = "running"
IsQueued(i) == i.status = "queued"
IsOver(i) == i.status \in Over

Sooner(i, j) == i.priority > j.priority \/ (i.priority = j.priority /\ i.created < j.created)

\* The items at the positions S, in the order R of the positions.
InOrder(S, R) ==
    [n \in 1 .. Cardinality(S) |-> CHOOSE k \in S : Cardinality({j \in S : <<j, k>> \in R}) = n - 1]
Arranged(its, S, R) == [n \in 1 .. Cardinality(S) |-> its[InOrder(S, R)[n]]]

Pairs(its) == (DOMAIN its) \X (DOMAIN its)
FileOrder(its) == {p \in Pairs(its) : p[1] < p[2]}

\* The running items, the queued ones, the finished ones; the queued ones in the
\* order Q, the others as they are.
Section(i) == IF IsRunning(i) THEN 0 ELSE IF IsQueued(i) THEN 1 ELSE 2
InSections(its, Q) ==
    {p \in Pairs(its) :
        LET i == its[p[1]]
            j == its[p[2]]
        IN  \/ Section(i) < Section(j)
            \/ Section(i) = Section(j) /\ IF IsQueued(i) THEN p \in Q ELSE p[1] < p[2]}

\* resort_queued: a stable sort
Urgency(its) ==
    {p \in Pairs(its) :
        LET i == its[p[1]]
            j == its[p[2]]
        IN  Sooner(i, j) \/ (~Sooner(j, i) /\ p[1] < p[2])}
Resorted(its) == Arranged(its, DOMAIN its, InSections(its, Urgency(its)))

\* prune_history drops the first finished items, by id.
Pruned(its) ==
    LET over == {k \in DOMAIN its : IsOver(its[k])}
        first == {k \in over : Cardinality({n \in over : k <= n}) > KeepTerminal}
        dropped == {its[k].id : k \in first}
    IN  Arranged(its, {k \in DOMAIN its : its[k].id \notin dropped}, FileOrder(its))

----------------------------------------------------------------------------
(* Requests of clients, from any process                                   *)

\* A request for an article that is still queued re-arms the tasks that ended
\* without a result.
Rearmed(x) ==
    IF x.status \in {"skipped", "cancelled", "failed"} THEN Idle(TRUE) ELSE [x EXCEPT !.wanted = TRUE]

Merged(i, r) ==
    [i EXCEPT !.task = [t \in Tasks |-> IF t \in r.wants THEN Rearmed(@[t]) ELSE @[t]],
              !.notify = @ \/ r.notify,
              !.priority = Max({@, r.priority})]

Enqueue(r) ==
    LET same == {k \in DOMAIN items : items[k].sha = r.sha /\ IsQueued(items[k])}
    IN  /\ asked < MaxRequests
        /\ asked' = asked + 1
        /\ \/ /\ \E k \in same :
                    /\ \A n \in same : k <= n
                    /\ items' = Resorted([items EXCEPT ![k] = Merged(@, r)])
              /\ UNCHANGED clock
           \/ /\ same = {}
              /\ clock' \in {clock + 1} \cup (IF SameSecond THEN {clock} ELSE {})
              /\ items' = Pruned(Resorted(Append(items,
                    [id |-> <<clock', r.sha>>, sha |-> r.sha, status |-> "queued",
                     task |-> [t \in Tasks |-> Idle(t \in r.wants)],
                     created |-> clock', token |-> 0, notify |-> r.notify, sent |-> FALSE,
                     priority |-> r.priority])))
        /\ UNCHANGED <<made, pc, token, job, thread, withdrawn, faults>>

Withdraws == withdrawn < MaxWithdrawals /\ withdrawn' = withdrawn + 1

Cancelled(i) ==
    [i EXCEPT !.status = "cancelled",
              !.task = IF IsQueued(i)
                       THEN [t \in Tasks |-> IF Is(i, t, "queued")
                                             THEN [@[t] EXCEPT !.status = "cancelled"] ELSE @[t]]
                       ELSE @]

\* A running item is cancelled softly: its tasks go on.
CancelItem(id) ==
    /\ Withdraws
    /\ ~IsOver(items[At(items, id)])
    /\ items' = Change(items, id, Cancelled)
    /\ UNCHANGED <<made, clock, pc, token, job, thread, asked, faults>>

RemoveItem(id) ==
    LET stay == {k \in DOMAIN items : items[k].id # id \/ IsRunning(items[k])}
    IN  /\ Withdraws
        /\ stay # DOMAIN items
        /\ items' = Arranged(items, stay, FileOrder(items))
        /\ UNCHANGED <<made, clock, pc, token, job, thread, asked, faults>>

\* The client orders the queued items as it likes; of two with one id the first
\* is lost.
Reorder ==
    LET stay == {k \in DOMAIN items : IsQueued(items[k]) =>
                    \A n \in DOMAIN items :
                        IsQueued(items[n]) /\ items[n].id = items[k].id => n <= k}
    IN  /\ \E rank \in Injection(DOMAIN items, DOMAIN items) :
              LET liked == {p \in Pairs(items) : rank[p[1]] < rank[p[2]]}
              IN  items' = Arranged(items, stay, InSections(items, liked))
        /\ UNCHANGED <<made, clock, pc, token, job, thread, bounds>>

NotifiableEarly(i) == i.notify /\ ~i.sent /\ IsOver(i)

Notifiable(i) == i.notify /\ ~i.sent /\ IsOver(i) /\ TasksTerminal(i)

\* The console polls the queue and surfaces what is finished.
TakeNotifyBatch ==
    /\ \E k \in DOMAIN items : Notifiable(items[k])
    /\ items' = [k \in DOMAIN items |-> [items[k] EXCEPT !.sent = @ \/ Notifiable(items[k])]]
    /\ UNCHANGED <<made, clock, pc, token, job, thread, bounds>>

----------------------------------------------------------------------------
(* The worker                                                              *)

\* Only a process that gets WORKER_LOCK becomes the worker, and it keeps the
\* lock until it dies.
Start ==
    /\ pc = "down"
    /\ pc' = "idle"
    /\ token' = token + 1
    /\ UNCHANGED <<items, made, clock, job, thread, bounds>>

\* recover_interrupted, for the claims of earlier workers
RecoveredTaskBlindly(i, t) ==
    IF i.task[t].status # "running" THEN i.task[t] ELSE [i.task[t] EXCEPT !.status = "done"]

RecoveredTask(i, t) ==
    IF i.task[t].status # "running" THEN i.task[t]
    ELSE [i.task[t] EXCEPT !.status = IF i.status = "cancelled" THEN "cancelled"
                                      ELSE IF <<i.sha, t>> \in made THEN "done" ELSE "queued"]

RecoveredItem(i) ==
    LET r == [i EXCEPT !.task = [t \in Tasks |-> RecoveredTask(i, t)]]
    IN  IF i.token = token THEN i
        ELSE IF ~IsRunning(i) THEN r
        ELSE IF TasksTerminal(r) THEN Recomputed(r)
        ELSE [r EXCEPT !.status = "queued"]

Recovered(its) == [k \in DOMAIN its |-> RecoveredItem(its[k])]

\* item_claimable: a task in backoff, or one whose thread still runs, holds
\* its item back.
Claimable(i) ==
    /\ IsQueued(i)
    /\ \A t \in Tasks : ~Is(i, t, "running") /\ ~(Is(i, t, "queued") /\ i.task[t].waits)

IsNext(its, k) ==
    /\ Claimable(its[k])
    /\ \A n \in DOMAIN its \ {k} :
          Claimable(its[n]) => Sooner(its[k], its[n]) \/ (~Sooner(its[n], its[k]) /\ k < n)

Claimed(i) ==
    [i EXCEPT !.status = "running", !.token = token,
              !.task = [t \in Tasks |-> IF Is(i, t, "queued")
                                        THEN [@[t] EXCEPT !.status = "running"] ELSE @[t]]]

Claim(its, k) ==
    /\ items' = [its EXCEPT ![k] = Claimed(@)]
    /\ job' = [id |-> its[k].id, sha |-> its[k].sha,
               armed |-> {t \in Tasks : Is(its[k], t, "queued")}]
    /\ pc' = "translate"

ClaimNext ==
    LET its == Recovered(items)
        open == \A k \in DOMAIN its : ~IsRunning(its[k])
        next == {k \in DOMAIN its : open /\ IsNext(its, k)}
    IN  /\ pc = "idle"
        /\ \/ \E k \in next : Claim(its, k)
           \/ next = {} /\ its # items /\ items' = its /\ UNCHANGED <<pc, job>>
        /\ UNCHANGED <<made, clock, token, thread, bounds>>
----------------------------------------------------------------------------
(* One article: run_source_work_item                                       *)

\* An operation of the worker on its item, or its loss to a busy lock.
Write(changed) ==
    \/ items' = changed /\ UNCHANGED faults
    \/ faults < MaxFaults /\ faults' = faults + 1 /\ UNCHANGED items

Skipped(i) ==
    [i EXCEPT !.task = [t \in Tasks |-> IF @[t].wanted THEN @[t]
                                         ELSE [@[t] EXCEPT !.status = "skipped"]]]

MarkedAlways(i) == Recomputed(Skipped(i))

\* mark_task_skipped_if_not_wanted leaves an item alone that waits for a retry.
Marked(i) ==
    LET m == Skipped(i)
    IN  IF IsQueued(m) /\ ~TasksTerminal(m) THEN m ELSE Recomputed(m)

\* No client, no index, no source text: the armed tasks fail one after the
\* other.  A panic on the way leaves them as they are.
SetupFails ==
    /\ pc = "translate"
    /\ \/ pc' = "join" /\ thread' = [t \in Tasks |-> IF t \in job.armed THEN "doomed" ELSE "none"]
       \/ pc' = "mark" /\ UNCHANGED thread
    /\ UNCHANGED <<items, made, clock, token, job, bounds>>

\* Only what the claim armed: in a partial retry the other task keeps its result.
Launched(t) == t \in job.armed

\* Translate first, then summarize.
Launch(t) ==
    LET Started(i) == [i EXCEPT !.task[t].starts = @ + 1]
    IN  /\ pc = t
        /\ pc' = IF t = "translate" THEN "summarize" ELSE "join"
        /\ \/ /\ Launched(t)
              /\ thread' = [thread EXCEPT ![t] = "works"]
              /\ items' = Change(items, job.id, Started)
              /\ UNCHANGED faults
           \/ ~Launched(t) /\ Write(Change(items, job.id, Marked)) /\ UNCHANGED thread
        /\ UNCHANGED <<made, clock, token, job, asked, withdrawn>>

\* translate_source, summarize_source write the artifact, or find it there.
Produce(t) ==
    /\ thread[t] = "works"
    /\ made' = made \cup {<<job.sha, t>>}
    /\ thread' = [thread EXCEPT ![t] = "made"]
    /\ UNCHANGED <<items, clock, pc, token, job, bounds>>

Results(t) ==
    CASE thread[t] = "made" -> {"ok"}
      [] thread[t] = "works" -> {"transient", "permanent"}
      [] thread[t] = "doomed" -> {"permanent"}
      [] OTHER -> {}

\* finish_task.  A transient failure sends the item back to the queue even if
\* the other task still runs; a cancelled item takes final results only.
RetriesOnceMore(i, t, r) ==
    r = "transient" /\ i.status # "cancelled" /\ i.task[t].attempts < MAX_TASK_ATTEMPTS

Retries(i, t, r) ==
    r = "transient" /\ i.status # "cancelled" /\ i.task[t].attempts + 1 < MAX_TASK_ATTEMPTS

Requeued(x) == [x EXCEPT !.status = "queued", !.attempts = @ + 1, !.waits = TRUE]

Finished(i, t, r) ==
    IF Retries(i, t, r)
    THEN [i EXCEPT !.status = "queued", !.task[t] = Requeued(@)]
    ELSE LET f == [i EXCEPT !.task[t].status = IF r = "ok" THEN "done" ELSE "failed"]
         IN  IF f.status # "cancelled" /\ TasksTerminal(f) THEN Recomputed(f) ELSE f

FinishTask(t) ==
    /\ thread[t] = "doomed" /\ t = "summarize" => thread["translate"] = "none"
    /\ \E r \in Results(t) :
          LET Op(i) == Finished(i, t, r)
          IN  Write(Change(items, job.id, Op))
    /\ thread' = [thread EXCEPT ![t] = "none"]
    /\ UNCHANGED <<made, clock, pc, token, job, asked, withdrawn>>

Join ==
    /\ pc = "join"
    /\ \A t \in Tasks : thread[t] = "none"
    /\ pc' = "mark"
    /\ UNCHANGED <<items, made, clock, token, job, thread, bounds>>

Mark ==
    /\ pc = "mark"
    /\ Write(Change(items, job.id, Marked))
    /\ pc' = "close"
    /\ UNCHANGED <<made, clock, token, job, thread, asked, withdrawn>>

\* fail_still_running, repeated until it is on disk
ClosedIfOver(i) == IF IsRunning(i) /\ TasksTerminal(i) THEN Recomputed(i) ELSE i

Closed(i) ==
    LET f == [i EXCEPT !.task = [t \in Tasks |-> IF Is(i, t, "running")
                                                  THEN [@[t] EXCEPT !.status = "failed"] ELSE @[t]]]
    IN  IF ~IsRunning(f) THEN f
        ELSE IF TasksTerminal(f) THEN Recomputed(f)
        ELSE [f EXCEPT !.status = "failed"]

Close ==
    /\ pc = "close"
    /\ items' = Change(items, job.id, Closed)
    /\ pc' = "idle"
    /\ job' = NoJob
    /\ UNCHANGED <<made, clock, token, thread, bounds>>

----------------------------------------------------------------------------
\* now_secs() passes the not_before of a task.
BackoffEnds(id, t) ==
    LET Ready(i) == [i EXCEPT !.task[t].waits = FALSE]
    IN  /\ items[At(items, id)].task[t].waits
        /\ items' = Change(items, id, Ready)
        /\ UNCHANGED <<made, clock, pc, token, job, thread, bounds>>

\* The worker process dies with its threads.
Crash ==
    /\ pc # "down" /\ faults < MaxFaults
    /\ faults' = faults + 1
    /\ pc' = "down"
    /\ job' = NoJob
    /\ thread' = [t \in Tasks |-> "none"]
    /\ UNCHANGED <<items, made, clock, token, asked, withdrawn>>

ItemIds == {items[k].id : k \in DOMAIN items}

WorkerStep ==
    ClaimNext \/ SetupFails \/ (\E t \in Tasks : Launch(t)) \/ Join \/ Mark \/ Close

ThreadStep(t) == Produce(t) \/ FinishTask(t)

Next ==
    \/ \E r \in Requests : Enqueue(r)
    \/ \E id \in ItemIds : CancelItem(id) \/ RemoveItem(id) \/ (\E t \in Tasks : BackoffEnds(id, t))
    \/ Reorder \/ TakeNotifyBatch
    \/ Start \/ WorkerStep \/ Crash
    \/ \E t \in Tasks : ThreadStep(t)

Spec == Init /\ [][Next]_vars

\* A worker is started again, its loop and its threads go on (model calls time
\* out), time passes and the console polls.  Nothing obliges a client.
FairSpec ==
    /\ Spec
    /\ WF_vars(Start) /\ WF_vars(WorkerStep)
    /\ \A t \in Tasks : WF_vars(ThreadStep(t))
    /\ WF_vars(\E id \in ItemIds : \E t \in Tasks : BackoffEnds(id, t))
    /\ WF_vars(TakeNotifyBatch)

----------------------------------------------------------------------------
TaskStates ==
    [wanted : BOOLEAN, status : {"queued", "running", "done", "failed", "cancelled", "skipped"},
     attempts : 0 .. MAX_TASK_ATTEMPTS - 1, waits : BOOLEAN, starts : Nat]
Items ==
    [id : Nat \X Shas, sha : Shas, status : {"queued", "running"} \cup Over,
     task : [Tasks -> TaskStates], created : Nat, token : Nat, notify : BOOLEAN,
     sent : BOOLEAN, priority : Nat]

TypeOK ==
    /\ items \in Seq(Items)
    /\ made \subseteq Shas \X Tasks
    /\ clock \in Nat /\ token \in Nat
    /\ pc \in {"down", "idle", "translate", "summarize", "join", "mark", "close"}
    /\ job \in {NoJob} \cup [id : Nat \X Shas, sha : Shas, armed : SUBSET Tasks]
    /\ thread \in [Tasks -> {"none", "works", "made", "doomed"}]
    /\ asked \in 0 .. MaxRequests /\ withdrawn \in 0 .. MaxWithdrawals /\ faults \in 0 .. MaxFaults

\* An item that is running under the live worker's claim is the one the worker
\* runs: "never leave a claimed article as running after the worker moves on"
\* (source_work_queue_worker), or the one-article gate stays closed for good.
RunningIsWorkedOn ==
    \A k \in DOMAIN items :
        IsRunning(items[k]) => items[k].token < token \/ pc = "down" \/ items[k].id = job.id

\* A task is started MAX_TASK_ATTEMPTS times at most, and once more for each
\* worker that died over it.
StartsAreCapped ==
    \A k \in DOMAIN items : \A t \in Tasks :
        items[k].task[t].starts <= MAX_TASK_ATTEMPTS + faults

\* What is over is over.  Once a client has been told that an item is, no task
\* of it runs again, however the cancellation met the end of the run; a task
\* shown as done has its artifact on disk, also after a recovery; and a retry of
\* one task does not touch the result of the other, as long as the item is listed.
FinalIsFinal ==
    /\ [](\A k \in DOMAIN items :
             /\ items[k].sent => IsOver(items[k]) /\ TasksTerminal(items[k])
             /\ \A t \in Tasks : Is(items[k], t, "done") => <<items[k].sha, t>> \in made)
    /\ [][\A id \in ItemIds : Has(items', id) =>
             \A t \in Tasks : Is(items[At(items, id)], t, "done") => Is(items'[At(items', id)], t, "done")]_vars

\* Why, while no two items have one id: the worker changes the item it claimed
\* and no other; a task it holds is running there until its thread has ended;
\* and a start is paid for by a failed attempt, by a fault, or by being the last.
Held(t) == thread[t] # "none" \/ (t \in job.armed /\ (pc = "translate" \/ pc = t))
Unpaid(i, t) ==
    IF i.task[t].status \notin {"queued", "running"} \/ (i.id = job.id /\ thread[t] \in {"works", "made"})
    THEN 1 ELSE 0
TaskInv(i, t) ==
    /\ ~i.task[t].wanted => i.task[t].status = "skipped"
    /\ i.task[t].starts <= i.task[t].attempts + faults + Unpaid(i, t)
    /\ Is(i, t, "done") => <<i.sha, t>> \in made
    /\ i.id = job.id /\ Held(t) => i.task[t].status = "running"
ItemInv(i) ==
    /\ i.id = <<i.created, i.sha>> /\ i.created <= clock /\ i.token <= token
    /\ i.id = job.id => i.token = token
    /\ IsRunning(i) => i.token < token \/ pc = "down" \/ i.id = job.id
    /\ i.sent => IsOver(i) /\ TasksTerminal(i)
    /\ \A t \in Tasks : TaskInv(i, t)
WorkerInv ==
    /\ pc \in {"down", "idle"} <=> job = NoJob
    /\ job # NoJob => job.id[1] <= clock /\ job.id[2] = job.sha
    /\ pc \notin {"summarize", "join"} => \A t \in Tasks : thread[t] = "none"
    /\ pc = "summarize" => thread["summarize"] = "none"
    /\ \A t \in Tasks : thread[t] = "made" => <<job.sha, t>> \in made
OneOfEach == \A k, n \in DOMAIN items : items[k].id = items[n].id => k = n
QueueInv == TypeOK /\ WorkerInv /\ OneOfEach /\ \A k \in DOMAIN items : ItemInv(items[k])

Settled(i) == IsOver(i) /\ TasksTerminal(i) /\ (i.notify => i.sent)

\* Every item leaves the queue or ends, with the notification it asked for:
\* no failure, backoff, cancellation, crash or other item holds it up for good.
EveryItemSettles ==
    \A sha \in {r.sha : r \in Requests} : \A n \in 1 .. MaxRequests :
        []<>(\A k \in DOMAIN items : items[k].id = <<n, sha>> => Settled(items[k]))
=============================================================================
