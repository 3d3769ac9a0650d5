# Models of the Obsidian vault pipeline

TLA+ models of `obsidian_vault_pipeline` (the Rust program `ovp2`, its portal and
its scheduler), with the TLC configurations that check them on small instances and
TLAPS proofs of the properties that matter most. Every definition is translated
from the source; `PROJECT.json` maps each to the lines it stands for.

The system is a set of processes that share one directory, the vault. There is no
database: the state is files that people edit and sync tools replace at any time,
and append-only JSONL ledgers under `.ovp/` and `60-Logs/`. What is hard is
therefore the order of small file operations of several processes, and what is
left when one of them stops in the middle.

## Inventory

| Part | State it keeps | Operations | What makes it correct |
|---|---|---|---|
| Run lock (`ovp-intake/vaultops.rs`, `RunLock`) | `.ovp/<name>` with the owner's PID, `.ovp/<name>.reclaim` | acquire, stamp, reclaim a dead owner's file, refuse with advice, release | two live processes never hold it together; a crashed holder does not block the vault for ever |
| JSONL ledgers (`ovp-domain/jsonl.rs`, `append_jsonl`) | one file per ledger | append a record, append a batch, parse | a torn append never stops readers; what was acknowledged stays readable; readers see a list that only grows |
| Intake sweep and enrichment (`ovp-intake`, `ovp-enrich`, `ovp-cli/daily.rs`) | capture directories, `01-Raw`, `03-Processed`, `intake.jsonl`, `enrich-attempts.jsonl` | hash, parse, convert, dedup, move, log, record; fetch, rewrite, journal, count, close | a source is taken in once; a record implies its event and its move; a dead url costs a bounded number of fetches; nothing waits for ever unseen |
| Daily reader loop (`ovp-daily`) | `01-Raw`, `03-Processed`, `daily-runs.jsonl`, packs, the write log | plan, check hash, parse, distil, log, record, move | no content is paid for and recorded twice; packs are of the content they name; nothing is processed without a record; every source settles |
| Source-work queue (`ovp-memory/source_work_queue.rs`, the worker of `ovp-server`) | `.ovp/source-work-queue.json`, artifacts of an article | enqueue/merge, cancel, remove, reorder, notify, claim/recover, finish, clean up | one article at a time; the gate always reopens; results are kept and real; retries end |
| Scheduler (`ovp-scheduler`, `ovp-cli/scheduler.rs`, `schedule.rs`) | `.ovp/schedule.json`, `schedule-state.json` | tick, run-now, init, install, enable/disable | every occurrence is served once; retries wait and end; no command erases an operator's job |
| Read model (`ovp-index`, caches of `ovp-server`) | `index.json`, `evidence.json`, the SQLite shadow; `AppState.model` | rebuild, promote, stamp, load, refresh, curate | a response shows what the disk offered while it was served; a rebuild is not undone by an older one |
| Crystal store (`ovp-cli/crystal_*.rs`, `ovp-domain/crystal*`) | the claim ledger, `review.json`, the plans of both reviews | synthesize, decide, regate, citation review, roll back | a retracted claim is never lost to everyone; a rollback takes back its own and only its own |
| Run status (`ovp-daily/heartbeat.rs`, `ovp-server`) | `.ovp/last-run.json`, the cached verdict, the manual-run slot | start, progress, finalize, drop; poll, refresh, run-now | the newest run's record stays; a run at work is never called dead; the button comes back |
| OS lock, chat session lock | lock files of live processes | acquire, hand over, rename | the lock of a dead process is free at once |
| Pinboard sync (`ovp-intake/pinboard.rs`, `pinboard_sync.rs`) | the sync and backfill ledgers, from which both edges of what is covered are derived | first sync, daily run, backfill window; write a note, log it, record it | no bookmark is passed over or captured twice; the floor tells the truth |
| Core runner (`ovp-core`, `ovp-stores`) | write plans, event log | run a graph, apply a plan | a plan is applied whole or its remainder is known |
| Model client (`ovp-llm`) | cassette cache | call, retry, replay, invalidate | retries are bounded; replays are of the same request |
| Bilingual projection (`ovp-memory/bilingual.rs`) | translated cards and claims | select, translate, store | only what changed is paid for |
| Ask agent (`ovp-memory/agent*.rs`) | transcripts | turn, tool call, save | a turn's budget is kept; a saved chat is the chat |
| Evolution kernel (`ovp-evolve`) | proposal ledger | propose, test, adopt, roll back | what runs is what was adopted |
| Reader trunk, tags, console, publish, doctor, MCP, evaluation, embeddings, UIs | text and views | pure transforms, rendering | outside these models (see below) |

How they meet: the **scheduler** starts `ovp2 daily`; the command takes the **run
lock**, says so in the **heartbeat**, sweeps the capture directories into `01-Raw`
(**intake**), fetches the text of thin captures, runs the **reader loop** over
`01-Raw`, and rebuilds the **read model**; each of them appends to **ledgers** and
none remembers anything else between runs. The crystal commands take the same run
lock and share the claim ledger and the review queue. The portal serves the read
model and the last run's status through caches keyed by file times, starts runs by
hand, and one of the portals open on a vault is the **worker** of the source-work
queue, whose file other processes write too.

The hard behaviors, each listed with its line in `PROJECT.json` under "hazards":
races between processes over files deleted by path; state read from a live vault
and used minutes later; a kill between a move, its event and its record, or between
the plan, the queue and the ledger of a review, or two notes of a window; a write that comes up short; retries
that must end although the failure itself may be lost; a queue whose only gate can
stay closed; occurrences that pass while something else runs; files replaced one
after the other under a cache that stamps them by their times.

## Modules

| Module | Models | Runs | Proofs |
|---|---|---|---|
| `ExclusiveLock` | what commands take for granted of a lock: one holder, given back by it or by its end | (property of `lock`) | `DailyLoopProofs` |
| `RunLock` | the PID-file lock, one action per system call | `lock` | `DailyLoopProofs` |
| `AppendOnlyLedger` | what a ledger promises: a growing list that holds everything acknowledged | (property of `ledger_safe`) | `DailyLoopProofs` |
| `LedgerAppend` | writers and readers of one ledger file, torn writes and power loss | `ledger_safe` | `DailyLoopProofs` |
| `DailyLoop` | the reader loop over a live inbox | `daily_live` | `DailyLoopProofs` |
| `Intake` | a run's sweep and enrichment over live capture directories | `intake_live` | `IntakeProofs` |
| `SourceWorkQueue` | the queue file, its clients, its worker and the threads of an article | `queue_live`, `queue_clicks` | `SourceWorkQueueProofs` |
| `Scheduler` | the registry, the job state and the commands that read and write both | `schedule_live` | `SchedulerProofs` |
| `ReadModel` | the files of the read model, their builders and the portal's cache of them | `read_model_safe` | `ReadModelProofs` |
| `CrystalStore` | the claim ledger, the review queue and the plans of two reviews | `crystal_undo` | `CrystalStoreProofs` |
| `RunStatus` | the heartbeat, the portal's verdict of it and the run button | `run_status` | `RunStatusProofs` |
| `Pinboard` | syncs, daily runs and backfill windows of the Pinboard capture | `pinboard`, `pinboard_killed` | `PinboardProofs` |

`MC*` modules only give the constants their values; `MCCrystalStore` also compares the
model's reading of the ledger with the code's fold, and `MCLedgerAppend` and
`MCScheduler` assert the hypotheses of the theorems about their models. The lock and
the ledgers are what the daily loop runs on, and their proofs are sections of
`DailyLoopProofs`.

### RunLock

A file is who created it and the PID it says; the two differ between `create_new`
and the stamp, the second system call. `pc[t]` is the next system call of a thread,
`seen[t]` what it last read. `Step(t)` follows `acquire_named`: create, stamp, clear
a dead reclaim guard, or else read the owner, probe it, claim the guard, recheck,
delete, create again, drop the guard; release deletes by path. `Die(q)` ends a
process anywhere. `ProbeReliable = FALSE` lets `kill -0` fail to answer, which
counts as alive. `Holders` are the running threads that came back from
`acquire_named` with the lock; with them for `holders` the protocol implements
`ExclusiveLock` (`ImplementsLock`), which `MutualExclusion` follows from.

`lock`: three threads in two processes (two of them share one PID), any leftover
lock and guard of a dead process, deaths at every call, and weak fairness of each
thread's step (commands run to their end and are scheduled again). Two threads would
show a race between a holder and a reclaimer; three are needed for two reclaimers
and a newcomer. A dead owner's lock is reclaimed unless a reclaimer died in between
and stranded its guard; a lock whose owner died before its stamp names nobody and is
refused until an operator deletes it, as the message of `acquire_named` asks (after two
probes of two files, between which the lock may be reclaimed). The proofs cover
unreliable probes too.

`QuietExit` says that no process exits while another has read its PID from the file
and not yet probed it. It is an assumption about timing, microseconds between a
read and a `kill -0`, that the code relies on and does not enforce (a hazard that no
property of the project covers): without it
(`QuietExit = FALSE`) exclusion is lost, since a holder may release and exit exactly
between another's reading of its PID and the probe, and the lock then deleted is a
third process's.

### LedgerAppend

A record is two pieces (`Opening`, `Ending`) and a newline, so a write can be torn
inside it, after it, or inside the marker that closes a torn one. `setting` is fixed
at the start of a behavior: whether writers hold the run lock, whether the ledger is
new, and how many short writes and power losses happen; `doing[w]` is the next system
call of an append, or how it ended. `Reads` says that `parse_ledger` accepts a file
and `Read` which record it finds at which place; `Readable` are the records it finds.

`AppendOnlyLedger` is what readers count on: records at places that never move, new
ones behind all that are there; a failure may take some back from the end, but none
that was acknowledged. `Ledger!Spec` with `Read(file)` as the list and the
acknowledged records as the promise is what `LedgerAppend` implements.

`ledger_safe` has two single appends and a batch, with one short write under the
lock (and a kill anywhere) or one power loss without it. One failure is enough to
tear each piece, and `OneFailure` is that restriction as a formula. What it leaves
out are gaps of the code and not of the model, so no property covers them:

- two failures: a second torn write inside the marker that closes the first leaves a
  line that stops every reader (`parse_ledger` excuses only a truncated line whose
  very next line is a whole marker);
- a short write without the lock: a probe and its write are two calls, so another
  appender may be glued to it;
- a power loss on a new ledger: its directory entry is not synced again after its
  creator was killed.

A batch is never synced, so what it promises ends with the power. `Reads` is
`parse_ledger` under `TornLines::Skip`; of the ledgers the other modules model, only
that of `CrystalStore` is read under `Fail`.

### DailyLoop

Contents stand for sha256 hashes. `raw` and `processed` are the two directories,
`ledger` counts attempts per content and outcome as `plan_daily` folds them, `packs`
pairs the hash in a pack's name with the text it was made of. `pc` and `planned` are
the run: the plan is made once (`Start`), each source goes through check, parse,
distil, log, record, move. `Edit` changes any file at any time; `Crash` stops a run
between any two steps. `disturbed` is history: the planned and the new content of
every edit that hits the current source after its hash check.

`daily_live`: two paths and two contents, one that the worth gate closes, every edit
allowed, one kill, one run with `--retry-blocked`, one source per run, under weak
fairness of the scheduled start and of the run's steps. No content succeeds twice,
successes are logged, retries end, no bytes are lost, packs are of their hash and
nothing is processed without a record (`HashesAreTrue`), and every source settles,
although a cap of one source per run serves failing sources first. `HashesAreTrue`
excuses the disturbed contents, and must: one edit during the distillation, and the
move takes content nobody recorded, although `lib.rs:249` promises "never an orphaned
source in 03-Processed without a record". Two paths and two contents are what
deduplication needs: same content twice, and different ones under the same path.

The write-log event promised for every success exists only for successes with a pack;
an index-only closeout appends none (`lib.rs:324-333`), so `PackedIsLogged` speaks of
packs.

### Intake

`SweepStep(p)` handles one file in the sweep's order: hash, skip what is flagged or
known, parse, flag or accept, convert an office file, move, append the event, append
the record. A flagged file to be fetched again is read a second time, for its url
(`Reoffer`). `EnrichStep` fetches and rewrites, `Journal` appends the event of each
rewrite, `Attempt` counts, `Close` ends a url that used up its attempts. If the
journal cannot be written, the batch is `halted`: what it fetched is still counted and
closed, and then the run ends without its reader phase. The reader
phase is one step (`Read`), since `DailyLoop` is its model.

`intake_live`: two notes of the same url and an office file, one edit, one kill or
failing write, one `--retry-unavailable` run, two attempts per url, weak fairness of
the scheduled start and of the run. The edit may come between any two steps. What a
file held or was given while it was under way, between its hash and its move or
between the choice of its url and the record of the fetch, is collected in the history
variable `disturbed`, and the properties excuse exactly that, since there the code does
go wrong: the hash is not compared again, so one content is recorded and another
moved; a file missing or half written when it is parsed gets the hash of its good
content flagged for good; an attempt that failed for one content counts against
another, which nobody flagged (`enrich_attempts.rs:200`), and a content flagged for
another can be fetched without end, since each success resets its failures. People
do not capture the text of a document by itself (`Texts`).

The bound of `FetchesAreCapped` is what the code gives: the attempts of a content,
one fetch of each note for the run that spends the last of them (identical thin files
are all fetched before any is counted), the same again for each lost run and each
forced one, and a whole budget for each edit. An edit costs that much when it gives a
file its old body back between the rewrite and the record of its success:
`record_enrich_outcomes` rereads the file and resets the failures of what it finds.
With the three attempts of the code, two failures, such a success and three more
failures are five fetches in vain. A url that keeps serving too little resets its failures
for ever (the KNOWN GAP of `enrich_verdict`); in the run it serves enough.

`dispose_duplicate` reads the title and url of a note from its old path after moving
it away, so its records never carry them, though its comment says they may
("Capture title/url when possible"); the model's Duplicate records have no url.

### SourceWorkQueue

Every queue operation holds the write lock, rereads the file and commits with one
rename, so each is one action on the sequence `items`; what a process remembers of
the file is never written back. `pc` is where the worker is, `job` the item as it was
claimed, `thread` what its task threads do. `Launch`, `Mark` and `Close` are the steps
of `run_source_work_item` and of the loop around it. A worker's write can be lost to a
busy lock, a setup can fail or panic, the process can die.

`queue_live`: translate (with a notification) and summarize (without) of one article requested apart, so that they
merge into one item or make two, one cancel or remove at any point, transient and
permanent failures with two attempts, and a death or a lost write. Fairness: the
worker is restarted, its loop and threads go on (model calls have timeouts), backoffs
end, and the console polls. Clients owe nothing. Two items are enough for one to wait
behind the other; the 40 retained items are 0 here, so that pruning happens.

`queue_clicks` is the same request twice within one second. Item ids are the second
and the start of the hash, and every operation takes the first item with an id: when
the first was claimed before the second request came, its successor stays running for
good and the queue stands still. `SameSecond` says whether such ids can arise; it is
FALSE in `queue_live` and in the theorems, whose invariant rests on `OneOfEach`.

Three things the model made plain that no run checks. A softly cancelled item is
recomputed by the worker's cleanup and ends as done or failed, sometimes after
running again. `reorder` changes the order shown and not the order of claims, which
goes by priority and age. A forced new run that dies is promoted to done by the
artifact of the old run.

### Scheduler

Time is wall-clock hours of a small calendar; a cadence is daily, weekly or every so
many hours, and `MostRecent` is `most_recent_occurrence` as the code computes it,
compared by `CadencesAreRight` with the definition by the set of all occurrences.
The built-ins are the three of `default_registry` (`DailyId`, `ThemesId`,
`CrystallizeId`); a migration puts one that is missing at its place among the defaults
(`With`). A registry is the file as written; `UsableEntries` are what `partition`
leaves, and `Plan` lists the due ones in their order and then those owed a retry.
A command holds `scheduler.lock` from its reads to its writes, so `pc` is the one
process: `Tick` reads both files and plans (due jobs, then owed retries), `StartJob`
and `EndJob` run a child, `Save` stores its outcome and goes on to the next.
`RunNow`, `InitRegistry`, `Install`, `SetEnabled` and `SeedMissing` are the other
commands. `Abort` is a kill at any step, or a save that fails; `Edit` is the operator's
editor, which holds no lock, and `FallBack` sets the clock back.

`CadencesParse` is what `Cadence::parse` lets through: an hour of the day, a day of
the week, an interval shorter than the day. `ThemesComeFirst` says which registries a
vault starts with: none, or one written by a release, where the daily job or one of
the operator's stands ahead of `crystallize`; and that the editor touches neither of
the two jobs. A migration inserts `themes` second, so a file that begins with
`crystallize`, which only an editor makes, would put it behind.

`schedule_live`: days of three hours and weeks of two days, from the start of a week
to the midnight after its first day; a vault with no registry, an old one, or one with
a broken entry and an operator's job; a daily that may fail three times; two troubles
(forced runs, commands, edits, kills, clock changes). The calendar is the smallest
where an interval does not divide the day and a weekly slot is seen before and after its hour. Fairness: the OS timer
ticks, the clock goes on and a started child ends. A forced run stamps a failure with
its start, so its retry does not wait; `RetriesAreMeasured` leaves those out.

### ReadModel

A generation is the version of the vault a file was built from; every write gets an
mtime of its own. A builder scans, writes `index.json`, then `evidence.json`, then
promotes the shadow, and may be killed or give the promotion up in between; which of
the steps it takes is its kind (daily, `index`, publish, `doctor --fix`). A request
takes its stamp in two reads of the disk, looks at the cache, chooses its store,
loads under the write lock and files what it loaded under the stamp it took before;
`Refresh` and the curations through the portal take no lock while they load.
`offered` remembers what the disk offered since a request began.

`read_model_safe`: two builders with two builds, two request threads, one curation or
refresh, one killed build or failed promotion. `AnswersAreRegular` is regularity of
the cache as a register; `FiledUnderItsStamp` is why. `NothingOlderComesBack` excuses
what read the vault before the newer generation, and there the code has a gap that no
property covers: freshness is by mtime, so a shadow built before a curation and promoted after it is served instead
of the curated JSON until the next build, although `lib.rs:570-584` says "never a
valid but older shadow generation". With three builders there is another way, found
by the proof and excused too: a build that has replaced `index.json` loses it to an
older build before it writes its own `evidence.json`. The evidence cache is the same code. Not
modelled: the fallback when SQLite fails to read, two writes within one mtime tick,
and concurrent curations (`tags_write_lock` serializes them).

### CrystalStore

Every command holds the run lock, so `command` is the next step of the one process;
a command is a sequence of writes of different files. The ledger is a sequence of
events; `Status` says of each claim what the last event about it says, which
`StatusIsTheFold` compares with the fold of the code (`fold_ledger`) over small
ledgers, so that it can be proved about. The queue maps claim ids to entries; an
id is a synthesis's short id, which the next synthesis uses again, or the key of a
retracted claim. `kind` stands for lane, strength and theme. A review of durable
claims (`regate`, `citation-review`) saves its plan, edits the queue and retracts; its
rollback re-activates and takes the entries out, in the opposite order for the two
commands. `left` remembers how the entry of a retracted claim left the queue.

`crystal_undo`: five commands in any order over two durable claims and a revision
that extends the first, one of them killed between any two writes. Five is apply,
rollback and apply again with a synthesis and a decision between; three claims are a
claim both reviews suspect, one only the citation review does, and one that
supersedes. A session decides one entry, and what a batch has written counts as
active for the rest of it (`AppendedKeys`), as in `write_durable`; ids of syntheses
sort after keys. Ledger appends are whole: this ledger is read strictly
(`crystal_write.rs:97-120`, `TornLines::Fail`), so after a line torn by a kill every
command refuses until an operator removes it, as the error says, and does nothing that
could lose a claim.

What the model shows and no run asks for: a citation review that is killed before its
retraction refuses its own entries with CONFLICT on the retry
(`crystal_citation_review.rs:290`), although the comment at 325 calls the retry
idempotent; the rollback of `regate` re-activates claims a reviewer has decided
meanwhile; `review.json` is overwritten in place by syntheses and sessions, so a kill
can tear it; a superseded claim that is synthesized again becomes active again; a kill
between the ledger and the queue of a revision leaves the claim queued and active.

### RunStatus

`step[r]` is where a run is: acquire, write "running", work (with progress writes),
write its end or, in a panic, "aborted" from the guard's drop, release. A request of
the portal stats the file, looks at the cache, reads, probes the PID and files the
verdict under the time it saw first; `/api/refresh` reads and probes, then stats
(`Stamp`), and only then waits for the cache's write lock (`Store`).
A click goes on from its verdict to the manual-run slot, and a thread gives the slot
back when the child has ended. "ended" stands for completed and failed. `lost` and
`raced` are history: a run whose last write failed, a refresh before whose stat the
file was written again.

`run_status`: two runs, one kill or lost write, one progress write, a polling thread
and one with a click (on run now, or a refresh), unreliable probes. Fairness: runs end, requests
are answered, the console keeps polling; clicks and new runs are owed by nobody. PIDs
are not used again, the portal is not restarted, and dry runs write nothing.

Again and again the button comes back, unless the record says running for ever (or a
refresh has raced with a write); and there the code has a gap that no property covers. A run killed after the portal has cached it
as running leaves a file that never changes again, so the portal never probes again,
and shows the dead run and refuses manual runs until something else writes the file,
although `heartbeat.rs` says of the resolved status that every live surface must show
it "or a dead run shows as 'in progress' forever".

### Pinboard

A bookmark has a url, a day (or no usable time) and its place in the sort by time and
url; posting a url again replaces its bookmark. `synced` is the sync ledger, `floors`
the backfill ledger; `WatermarkHigh`, `WatermarkLow` and `CoverageFloor` are derived
from them as in the code. `Sync`, `AutoSync` and `Backfill` begin a run with its window
and its selection (what is new, the newest `--max` of it, or nothing if the flood
guard refuses); `WriteNote`, `LogNote`, `RecordNote` follow for each bookmark, oldest
first, and `Finish` records the floor of a window that `--max` did not cut short.
`Post` and `NextDay` are the account, `TakeIn` is the intake that records a url of a
note or of a clipping of the same page.

`pinboard`: three days, four dated bookmarks of three urls and an undated one; five
shapes of a first sync, daily runs, windows of one or two days capped at one or not
at all; one sync killed between any two writes. A window of two days is the smallest
that can be left half done, three days leave something above and below it. `DateOf`
counts days from seven dates (the theorem: from any), so that windows lie over the ends of months, years,
leap years and centuries. Fairness: a run goes on, the schedule starts a daily run,
and the operator repeats `--backfill`: the command asks for a rerun of an unfinished
window and says when the history is exhausted.
Explicit syncs and intake are owed by nobody.

Left out of the run because they do leave gaps: daily runs with `--pinboard-max` (the
newest are taken, the watermark passes over the others) and a second explicit sync
far from the first; the operator asked for both, but the command's line "beyond --max
(left for later runs)" is true only of later explicit syncs. `pinboard_killed` is what nobody
asked for: a window of two days stopped after its oldest note lowers the floor below
the rest of the window, which no later run fetches.

## Proofs

`DailyLoopProofs`, "The loop", for any paths, contents, caps, bounds and edits:

- `DailyInvariant`: `DailyInv` is inductive. "No content succeeds twice" needs: a plan
  names no content twice and none that has succeeded, up to the current source's own
  record; the record follows the event, the event the pack. `NoContentSucceedsTwice`
  and `PackedSuccessIsLogged` follow.
- `HashInvariant`: `HashInv` is inductive beside it. From its hash check to its move
  the current source holds what was planned, or both contents are disturbed; what is
  distilled is what was checked, and what is moved has its record, which is never
  lost (`SuccessIsForever`). `WhatCarriesAHashIsOfIt` (`HashesAreTrue`) follows.
- `BlockedStaysBlocked` (`RetriesAreCapped`), by `CapInv`: what is planned and still
  waiting is not blocked, unless the run is forced. It needs that a plan names a
  content once, or the first of two equal sources would block the second under way.
- `MovesLoseNothing` (`NothingIsLost`), from the types and the freedom of target names.

`DailyLoopProofs`, "The ledgers", for any writers, records and batches, assuming
`OneFailure`:

- `LedgerInvariant`: `LedgerInv` is inductive. Every record opens a line, and what
  ends it follows at once (`Shaped`); a torn one is the last, or a marker stands
  behind it (`TearsAreMarked`). What a writer saw still holds when it writes or cuts
  (`WriterInv`): a tail it saw whole is whole, since the only failure has not been or
  the writer has been alone; what a cut removes is the writer's own. And acknowledged
  records are in the file up to what is synced (`StoreInv`).
- Lemmas about reading take no induction over the file: a record stands whole at a
  place if and only if that line reads as it (`StoredIsReadable`), a shaped file with
  marked tears reads (`ShapedFilesRead`), and of two shaped files one of which begins
  with the other, the longer reads as a continuation (`ReadContinues`).
- `ReadersNeverStop` (`NeverStopsReaders`), `AckedIsReadable` (`AckedStaysReadable`),
  `UndoneIsGone` (`UndoneBatchIsGone`).
- `LedgerIsALedger` (`ImplementsLedger`): a write is `Grow`, its last sync `Promise`, a
  cut or a power loss `Lose`, and every other step leaves the list alone.

`DailyLoopProofs`, "The lock", for any number of threads and processes, assuming
`QuietExit`. `run.lock` and `scheduler.lock` are both such locks.

- `LockInvariant`: `LockInv` is inductive. Exclusion alone is not: the deletions are
  by path, so the invariant says whose file lies at each path (`HolderOwnsFile`,
  `ReclaimerOwnsGuard`), that stamps name their creators, and that what a deleter saw
  dead is still what it deletes (`ProbesStayTrue`, `DeletesOnlyTheDead`). One lemma
  for a thread's step, one for a death, where the assumption is used.
- `RunLockIsExclusive` (`MutualExclusion`) and `LiveLocksStay` (`LiveLockStays`)
  follow from it.
- `RunLockIsALock` (`ImplementsLock`): a step of a thread takes the abstract lock,
  gives it back or leaves it alone, and a death is the abstract `End`. That a creation
  finds nobody holding is `LockInv`: a running holder's file lies at its path.

`SchedulerProofs`, for any calendar, registries, cadences that parse, backoffs and
bounds:

- `CadencesHold` (`CadencesAreRight`): quotients and remainders split an hour into
  weeks, days and hours, and between two occurrences there is none
  (`CadenceIsRight`), also for intervals that do not divide the day.
- `SchedulerInvariant`: `SchedulerInv` is inductive. The watermark on disk is that of
  the last start or seeding, but for the job in flight and for the jobs that a kill or
  an edit has excused; a usable job that nobody knows is about to be seeded, or
  excused; retries are fewer than recorded failures; and a failure's stamp is when it
  ended. It needs that a tick plans no job twice, which rests on what `Plan` returns
  for any registry (`PlanIsRight`), and lemmas on which entries are usable after each
  way to rewrite the registry.
- `DueHolds` (`DueIsDue`) and `RetriesHold` (`RetriesAreMeasured`) follow.
- `RegistryHolds` (`RegistryIsKept`), assuming `ThemesComeFirst`: no command drops an
  entry or changes a cadence but the daily job's, and migrations and edits keep
  `ThemesAhead`, which every plan inherits.

`IntakeProofs`, for any captures, contents, bounds and edits:

- `IntakeInvariant`: `IntakeInv` is inductive. `ItemInv` follows the file in hand from
  its hash to its record: what lies at its path is what was hashed, or both contents
  are disturbed; the move stands before the event, the event before the record.
  `FetchInv` says that what is offered for fetching, counted and closed is thin or
  disturbed, `JournalInv` that a rewritten body without its event is the current one
  or cost a problem. One lemma per action for `ItemInv`, and one per ledger on who
  writes it.
- `LedgersStayTrue` (`LedgersAreTrue`) follows.
- `WhatWasReadStaysRead` (`NothingReadComesBack`), by `ViewInv`: while it goes on, the
  sweep knows all that was read, and takes in only what it does not know.
- `SourcesAreTakenInOnce` (`TakenInOnce`), by `CopyInv`: of the copies of a url one is
  recorded, and each other one lost its record with its run, is moved and still to be
  recorded, or was taken in under the hash of another content. Such a content is
  disturbed and was not known, so it is recorded as taken in only once (`Mistaken`),
  and the disturbed contents pay for it. It assumes that the text of a document names
  no url: `format_as_raw_markdown` writes no `source`.
- `FetchesRunOut` (`FetchesAreCapped`), by `CapInv`, assuming `EnoughText`: no url
  serves a body that is itself too thin. Until a content is closed, each of its
  fetches is counted in the ledger, still to be counted in this run, or granted by a
  lost run, a forced one or an edit (`Counted`); what is offered leaves room for one
  more (`MayFetch`). A success not yet recorded is charged as the failures it will
  reset (`Spent`), which is what an edit pays for. The first bound, without that
  charge, was not inductive and, from four attempts on, false.

`ReadModelProofs`, for any builders, request threads and bounds:

- `CacheInv` is inductive: a cache entry under the present stamp is what the disk
  offers (`PresentIsOffered`), and whatever a request may still be answered with was
  offered since it began (`AimedAtIsOffered`): the entry under the stamp it aims at,
  and what threads that aim at the same stamp have loaded. One lemma per builder's
  write and per step of a request.
- `TypesHold` (with it, that the write lock is with the thread that loads for a get),
  `CacheIsTrueToItsStamp` (`FiledUnderItsStamp`), `ResponsesAreRegular`
  (`AnswersAreRegular`).
- `OnlyOldReadersBringBack` (`NothingOlderComesBack`), for any number of builders: the
  two excuses for builds and the one for curations are all there are.

`CrystalStoreProofs`, for any claims, syntheses and bounds:

- `UndoInvariant`: `UndoInv` is inductive. Plans have ids of their own
  (`PlansAreNamed`), a retraction names a saved plan that lists its claim, a key in
  the queue is its claim's, a retracted claim is in the queue or left it in a way that
  is recorded, and what the command under way has read or done still holds at its next
  write (`StillHolds`). Lemmas on an appended event carry `Status` and the events
  since a retraction over every append.
- `RetractedClaimsAreKept` (`RetractedStaysQueued`), `EveryRetractionHasItsPlan`
  (`RetractionsAreUndoable`), `RollbacksAreExact` (`RollbackIsExact`) follow.

`PinboardProofs`, for any bookmarks, days, windows and bounds:

- `NoteInvariant`: a run writes urls nobody knew when it began, each once, and only
  the one in hand has a note without a record. `BookmarksCostOneNote` (`OneNoteEach`)
  follows, for every kind of run and kill.
- `CoverInvariant` and `TheFloorIsTrue` (`FloorIsTrue`), assuming `NoGaps`: what is
  not captured lies below everything covered and all the run has to write, or above
  it. `NoGaps` excludes exactly what does leave gaps, and each was seen to: a window
  killed half way (`pinboard_killed`), a daily run with `--pinboard-max`, a second
  explicit sync. Daily runs and first syncs may be killed anywhere.
- `CalendarHolds` (`CalendarIsRight`), from any date on and for any number of days: a
  year is split into its era of 400, its century, its four years and itself
  (`YearsSplit`), on which both formulas are linear; `days_from_civil` counts one more
  for the day after, inside a month, over a month's end, over the end of February and
  of a year (`DayAfterCounts`), and `civil_from_days` inverts it (`CivilInverts`). The
  dates themselves are a recursive function; that it exists and what it returns is an
  induction over an interval, by its least element (`IntervalInduction`).
  `EpochsAreDates` asks only that the calendar begins with a date.

`SourceWorkQueueProofs`, for any articles, requests and bounds, assuming that items
of one second are of different articles (`SameSecond = FALSE`; otherwise
`queue_clicks`):

- `QueueInvariant`: `QueueInv` is inductive. One item per id; the worker changes the
  item it claimed and no other; a task the worker holds is running in that item until
  its thread has ended; and each start is paid for by a failed attempt, by a fault, or
  is the last (`TaskInv`). Removal, pruning and reordering are lemmas about which
  items a sequence holds, so each client's operation is a step of one item or of none.
- `NothingRunsUnattended` (`RunningIsWorkedOn`), `EveryStartIsPaidFor`
  (`StartsAreCapped`), `WhatIsOverStaysOver` (`FinalIsFinal`) follow.

`RunStatusProofs`, for any runs, request threads and bounds, reliable probes or not:

- `RecordsComeInOrder` (`NewestRecordStays`): between acquisition and release a run
  owns the lock and is the last that took it, every run takes it once, and the file is
  of one of them (`LockInv`).
- `EndedRunsSaySo` (`NobodyLeavesRunning`), inductive with the types.
- `NoRunAtWorkIsCalledDead` (`NoFalseAlarm`): whatever is said of a run, in the file,
  the cache, an answer or a thread's hands, is said of one that has begun, and
  "aborted" only of one past its work (`VerdictInv`); runs only go forward.

The steps are one lemma per group of actions, with a leaf per conjunct. Assumptions
on constants are the named `ASSUME`s of the modules; TLC evaluates them in every run.

Every safety property the passing runs check is stated by a theorem. Only
model-checked: the liveness properties (of the lock, the loop, intake, the queue, the
scheduler, the status and Pinboard), since liveness under fairness and `ENABLED` are
beyond the prover. What a recursive definition computes is proved only where it is a
function on an interval.

## Not modelled, and why

Model replies, parsing of text, rendering, ranking and numerics: their correctness
is in the data, and a finite model holds none of it. Read-only surfaces (MCP, doctor,
lint, console, API projection, publish) change no state. The demoted layers (`ovp-run`,
`ovp-auto`, `ovp-rag`, `ovp-query`, `ovp-app`) are no longer on the product's path.
Inside modelled parts: GitHub enrichment, image download, the parking of legacy
duplicates and dry runs of intake; titles and urls in records; the launchd, systemd
and Task Scheduler entries; the synthesis pipeline and the patch ledger of crystals;
ask slots, the publish job and the single-file caches of the portal. Most of the
repository's lines are of these kinds.

## Plan

Done, in this order: `RunLock`, `LedgerAppend` over `AppendOnlyLedger`, `DailyLoop`,
`Intake`, `SourceWorkQueue`, `Scheduler`, `ReadModel`, `CrystalStore`, `RunStatus`,
`Pinboard`; proofs of all of them; `RunLock` as an implementation of `ExclusiveLock`
and `LedgerAppend` as one of `AppendOnlyLedger`.

Next modules, most important first: `SessionLock` (OsLock and the chat session lock)
composed with the election of the queue's worker, the patch ledger of `CrystalStore`,
`ModelClient` (retry and cassette), `PlanApply`.

Compositions: `Intake` and `DailyLoop` over one inbox, with `AppendOnlyLedger` as what
both use of a ledger; `ExclusiveLock` in place of the lock that `RunStatus`,
`Scheduler` and `CrystalStore` build in.

Next theorem: that the slot of a manual run is free when no child runs (`RunStatus`).
