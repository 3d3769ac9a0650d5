----------------------------- MODULE DailyLoop -----------------------------
(***************************************************************************)
(* The daily reader loop (crates/ovp-daily/src/lib.rs): plan the sources   *)
(* waiting in 50-Inbox/01-Raw, distil each with the language model, record *)
(* the attempt in the daily ledger and move what succeeded to              *)
(* 50-Inbox/03-Processed.                                                  *)
(*                                                                         *)
(* The run holds the vault's RunLock, so there is one at a time; but the   *)
(* vault is live: people and sync tools edit the inbox at any moment, and  *)
(* a run may be killed between any two of its steps.  A source is known by *)
(* its content, which stands for its sha256.                               *)
(***************************************************************************)
EXTENDS Naturals, FiniteSets

CONSTANTS
    Paths,        \* the files of 01-Raw
    Contents,     \* what a file can hold
    NoFile,       \* the content of a file that is not there
    Unreadable,   \* contents that do not parse as a source
    Unworthy,     \* contents the worth gate closes without distilling
    Rank,         \* the scan order of the paths
    MaxFailures,  \* MAX_FAILURES_BEFORE_BLOCKED
    MaxSources,   \* --max-sources, 0 for no cap
    NameSuffixes, \* the " -2", " -3", ... of collision-free names; 1 is none
    MaxEdits,     \* bound: edits of the inbox
    MaxCrashes,   \* bound: runs killed or aborted
    MaxForced     \* bound: runs with --retry-blocked

ASSUME DailyConstants ==
    /\ NoFile \notin Contents
    /\ Unreadable \subseteq Contents /\ Unworthy \subseteq Contents
    /\ Rank \in [Paths -> Nat] /\ \A p, q \in Paths : Rank[p] = Rank[q] => p = q
    /\ MaxFailures \in Nat \ {0} /\ MaxSources \in Nat
    /\ NameSuffixes \subseteq Nat \ {0}
    /\ MaxEdits \in Nat /\ MaxCrashes \in Nat /\ MaxForced \in Nat

VARIABLES
    raw,        \* 01-Raw
    processed,  \* 03-Processed: a file per path and suffix
    ledger,     \* .ovp/daily-runs.jsonl: attempts per content and outcome
    log,        \* 60-Logs/pipeline.jsonl: the write-log events
    packs,      \* reader packs: the hash in the name, the text distilled
    pc,         \* the step of the run, "off" between runs
    planned,    \* the content planned for each path, NoFile if none
    text,       \* what the run last read for the current source
    forced,     \* whether the run was started with --retry-blocked
    disturbed,  \* history: contents mixed up by an edit of a source under way
    edits, crashes, forcings

run  == <<pc, planned, text, forced>>
disk == <<raw, processed, ledger, log, packs>>
bounds == <<edits, crashes, forcings>>
vars == <<disk, run, disturbed, bounds>>

Held == Contents \cup {NoFile}
NoAttempts == [failed |-> 0, packed |-> 0, indexed |-> 0]
Succeeded(h) == ledger[h].packed + ledger[h].indexed > 0
Nothing == [p \in Paths |-> NoFile]

Init ==
    /\ raw \in [Paths -> Held]
    /\ processed = [n \in Paths \X NameSuffixes |-> NoFile]
    /\ ledger = [h \in Contents |-> NoAttempts]
    /\ log = {}
    /\ packs = {}
    /\ pc = "off" /\ planned = Nothing /\ text = NoFile /\ forced = FALSE
    /\ disturbed = {}
    /\ edits = 0 /\ crashes = 0 /\ forcings = 0

----------------------------------------------------------------------------
(* plan_daily: contents that succeeded are skipped, and so is a second     *)
(* file with the same content; contents that failed too often are blocked. *)

FirstOfItsContent(p) == \A q \in Paths : raw[q] = raw[p] => Rank[p] <= Rank[q]

Blocked(h) == ledger[h].failed >= MaxFailures

TodoPayingAgain(retryBlocked) ==
    {p \in Paths : /\ raw[p] # NoFile /\ FirstOfItsContent(p)
                   /\ Blocked(raw[p]) => retryBlocked}

TodoRetryingBlocked(retryBlocked) ==
    {p \in Paths : raw[p] # NoFile /\ ~Succeeded(raw[p]) /\ FirstOfItsContent(p)}

Todo(retryBlocked) ==
    {p \in Paths : /\ raw[p] # NoFile /\ ~Succeeded(raw[p])
                   /\ FirstOfItsContent(p)
                   /\ Blocked(raw[p]) => retryBlocked}

\* The first MaxSources of them in scan order.
Batch(S) ==
    {p \in S : MaxSources > 0 => Cardinality({q \in S : Rank[q] < Rank[p]}) < MaxSources}

Start(retryBlocked) ==
    /\ pc = "off"
    /\ retryBlocked => forcings < MaxForced
    /\ Todo(retryBlocked) # {}
    /\ LET batch == Batch(Todo(retryBlocked))
       IN  planned' = [p \in Paths |-> IF p \in batch THEN raw[p] ELSE NoFile]
    /\ pc' = "check"
    /\ forced' = retryBlocked
    /\ forcings' = IF retryBlocked THEN forcings + 1 ELSE forcings
    /\ UNCHANGED <<disk, text, disturbed, edits, crashes>>

----------------------------------------------------------------------------
(* process_one, for the first planned path                                 *)

Waiting == {p \in Paths : planned[p] # NoFile}
IsCurrent(p) == p \in Waiting /\ \A q \in Waiting : Rank[p] <= Rank[q]

CheckNothing(p) ==
    /\ pc = "check"
    /\ pc' = "parse"
    /\ UNCHANGED <<disk, planned, text, forced, disturbed, bounds>>

\* The plan-time hash is compared with the bytes now on disk.
CheckHash(p) ==
    /\ pc = "check"
    /\ pc' = IF raw[p] = planned[p] THEN "parse" ELSE "failed"
    /\ UNCHANGED <<disk, planned, text, forced, disturbed, bounds>>

\* read_source_from_path reads the file again; then the worth gate.
ParseSource(p) ==
    /\ pc = "parse"
    /\ text' = raw[p]
    /\ pc' = IF raw[p] \in Unreadable \cup {NoFile} THEN "failed"
             ELSE IF raw[p] \in Unworthy THEN "index_only" ELSE "distil"
    /\ UNCHANGED <<disk, planned, forced, disturbed, bounds>>

\* run_reader_pipeline; a pack may be on disk although the run counts as failed.
Distil(p) ==
    /\ pc = "distil"
    /\ \/ packs' = packs \cup {<<planned[p], text>>} /\ pc' \in {"log_pack", "failed"}
       \/ UNCHANGED packs /\ pc' = "failed"
    /\ UNCHANGED <<raw, processed, ledger, log, planned, text, forced, disturbed, bounds>>

LogPackLater(p) ==
    /\ pc = "log_pack"
    /\ pc' = "packed"
    /\ UNCHANGED <<disk, planned, text, forced, disturbed, bounds>>

LogPack(p) ==
    /\ pc = "log_pack"
    /\ log' = log \cup {<<"reader_pack_write", planned[p]>>}
    /\ pc' = "packed"
    /\ UNCHANGED <<raw, processed, ledger, packs, planned, text, forced, disturbed, bounds>>

\* The end of the current source; the next one follows.
Finish(p) ==
    /\ planned' = [planned EXCEPT ![p] = NoFile]
    /\ pc' = IF Waiting = {p} THEN "off" ELSE "check"
    /\ text' = NoFile

ForgetFailure(p) ==
    /\ pc = "failed"
    /\ Finish(p)
    /\ UNCHANGED <<disk, forced, disturbed, bounds>>

RecordFailure(p) ==
    /\ pc = "failed"
    /\ ledger' = [ledger EXCEPT ![planned[p]].failed = @ + 1]
    /\ Finish(p)
    /\ UNCHANGED <<raw, processed, log, packs, forced, disturbed, bounds>>

RecordSuccess(p) ==
    /\ \/ pc = "packed" /\ ledger' = [ledger EXCEPT ![planned[p]].packed = @ + 1]
       \/ pc = "index_only" /\ ledger' = [ledger EXCEPT ![planned[p]].indexed = @ + 1]
    /\ pc' = "move"
    /\ UNCHANGED <<raw, processed, log, packs, planned, text, forced, disturbed, bounds>>

----------------------------------------------------------------------------
(* move_to_processed, after the record; every problem is only a warning.   *)

\* collision_free: the plain name, or the first suffix that is not taken.
Free(p) == {n \in NameSuffixes : processed[<<p, n>>] = NoFile}
IsTarget(p, n) == n \in Free(p) /\ \A m \in Free(p) : n <= m

MoveOverwriting(p) ==
    /\ pc = "move"
    /\ processed' = [processed EXCEPT ![<<p, 1>>] = raw[p]]
    /\ raw' = [raw EXCEPT ![p] = NoFile]
    /\ pc' = "log_move"
    /\ UNCHANGED <<ledger, log, packs, planned, text, forced, disturbed, bounds>>

Move(p) ==
    /\ pc = "move"
    /\ \/ /\ raw[p] # NoFile
          /\ \E n \in NameSuffixes :
                IsTarget(p, n) /\ processed' = [processed EXCEPT ![<<p, n>>] = raw[p]]
          /\ raw' = [raw EXCEPT ![p] = NoFile]
          /\ pc' = "log_move"
          /\ UNCHANGED <<planned, text>>
       \/ Finish(p) /\ UNCHANGED <<raw, processed>>
    /\ UNCHANGED <<ledger, log, packs, forced, disturbed, bounds>>

LogMove(p) ==
    /\ pc = "log_move"
    /\ log' \in {log, log \cup {<<"source_processed_move", p>>}}
    /\ Finish(p)
    /\ UNCHANGED <<raw, processed, ledger, packs, forced, disturbed, bounds>>

----------------------------------------------------------------------------
\* Someone writes or removes a file of the inbox, at any moment.  If it is the
\* source being processed, after its hash check, the run works on for one
\* content with the file of another.
CheckedSteps == {"parse", "distil", "log_pack", "packed", "index_only", "move"}
Edit(p, c) ==
    /\ edits < MaxEdits
    /\ raw[p] # c
    /\ raw' = [raw EXCEPT ![p] = c]
    /\ edits' = edits + 1
    /\ disturbed' = IF IsCurrent(p) /\ pc \in CheckedSteps
                    THEN disturbed \cup {planned[p], c} ELSE disturbed
    /\ UNCHANGED <<processed, ledger, log, packs, run, crashes, forcings>>

\* The run is killed, or a client factory or a ledger append returns an error.
Crash ==
    /\ pc # "off" /\ crashes < MaxCrashes
    /\ pc' = "off" /\ planned' = Nothing /\ text' = NoFile
    /\ crashes' = crashes + 1
    /\ UNCHANGED <<disk, forced, disturbed, edits, forcings>>

Process(p) ==
    /\ IsCurrent(p)
    /\ \/ CheckHash(p) \/ ParseSource(p) \/ Distil(p) \/ LogPack(p)
       \/ RecordFailure(p) \/ RecordSuccess(p) \/ Move(p) \/ LogMove(p)

Next ==
    \/ \E b \in BOOLEAN : Start(b)
    \/ \E p \in Paths : Process(p)
    \/ \E p \in Paths, c \in Held : Edit(p, c)
    \/ Crash

Spec == Init /\ [][Next]_vars

\* The schedule starts a run every day, and a run goes on while it lives.
FairSpec == Spec /\ WF_vars(Start(FALSE)) /\ WF_vars(\E p \in Paths : Process(p))

----------------------------------------------------------------------------
Steps == {"off", "check", "parse", "distil", "log_pack", "packed", "index_only",
          "failed", "move", "log_move"}

TypeOK ==
    /\ raw \in [Paths -> Held]
    /\ processed \in [Paths \X NameSuffixes -> Held]
    /\ ledger \in [Contents -> [failed : Nat, packed : Nat, indexed : Nat]]
    /\ log \subseteq ({"reader_pack_write"} \X Contents) \cup ({"source_processed_move"} \X Paths)
    /\ packs \subseteq Contents \X Contents
    /\ pc \in Steps
    /\ planned \in [Paths -> Held]
    /\ text \in Held
    /\ forced \in BOOLEAN
    /\ disturbed \subseteq Held
    /\ edits \in Nat /\ crashes \in Nat /\ forcings \in Nat

\* The dedup gate: whatever is edited, moved or killed, no content is paid for
\* and recorded as succeeded twice (ledger.rs, "authoritative dedup state").
SucceedsOnce == \A h \in Contents : ledger[h].packed + ledger[h].indexed <= 1

\* A success with a pack has its write-log event and its pack on disk.
PackedIsLogged ==
    \A h \in Contents : ledger[h].packed > 0 =>
        /\ <<"reader_pack_write", h>> \in log
        /\ \E t \in Contents : <<h, t>> \in packs

\* A pack is of the content whose hash it carries: otherwise the hash "would
\* mis-attribute the pack and poison dedup" (process_one).
PackIsOfItsHash == \A pk \in packs : pk[1] = pk[2] \/ pk[1] \in disturbed

\* Nothing sits in 03-Processed without a record: "never an orphaned source in
\* 03-Processed without a record" (lib.rs).
ProcessedIsRecorded ==
    \A n \in Paths \X NameSuffixes :
        processed[n] # NoFile => Succeeded(processed[n]) \/ processed[n] \in disturbed

\* What carries a hash is of that hash, however the vault is edited, but for the
\* contents of a source edited in the minutes between its check and its move.
HashesAreTrue == PackIsOfItsHash /\ ProcessedIsRecorded

\* Why: a plan names no content twice and none that has succeeded, until the
\* current source's own record; that record follows its event and its pack.
DailyInv ==
    /\ TypeOK
    /\ pc = "off" => Waiting = {}
    /\ \A p, q \in Waiting : planned[p] = planned[q] => p = q
    /\ \A p \in Waiting : Succeeded(planned[p]) => pc \in {"move", "log_move"} /\ IsCurrent(p)
    /\ \A p \in Waiting : IsCurrent(p) =>
          /\ pc \in {"distil", "index_only", "log_pack", "packed"} => text # NoFile
          /\ pc \in {"log_pack", "packed"} => \E t \in Contents : <<planned[p], t>> \in packs
          /\ pc = "packed" => <<"reader_pack_write", planned[p]>> \in log
    /\ SucceedsOnce
    /\ PackedIsLogged

\* Why: a source that is not edited after its hash check is read, distilled and
\* moved as it was planned.
HashInv ==
    /\ \A p \in Waiting : IsCurrent(p) =>
          /\ pc \in CheckedSteps =>
                raw[p] = planned[p] \/ {raw[p], planned[p]} \subseteq disturbed
          /\ pc = "distil" => text = planned[p] \/ planned[p] \in disturbed
          /\ pc = "move" => Succeeded(planned[p])
    /\ HashesAreTrue

\* A content that failed MaxFailures times is tried again only by a run that
\* was told to.
RetriesAreCapped ==
    [][\A h \in Contents : ledger'[h].failed > ledger[h].failed => ~Blocked(h) \/ forced]_vars

\* The loop moves files and never loses what is in them.
Everything == {raw[p] : p \in Paths} \cup {processed[n] : n \in Paths \X NameSuffixes}
NothingIsLost == [][edits' = edits => Everything \ {NoFile} \subseteq Everything']_vars

\* Every waiting source is in the end distilled, closed, blocked or replaced.
SourcesSettle ==
    \A p \in Paths, h \in Contents :
        raw[p] = h ~> (Succeeded(h) \/ Blocked(h) \/ raw[p] # h)
=============================================================================
