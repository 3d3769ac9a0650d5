------------------------------- MODULE Intake -------------------------------
(***************************************************************************)
(* The capture side of a daily run: the sweep of the capture directories   *)
(* into 01-Raw (crates/ovp-intake/src/sweep.rs), the enrichment of         *)
(* captures too thin to read (crates/ovp-enrich/src/web_fetch.rs, called   *)
(* from crates/ovp-cli/src/commands/daily.rs) and the closing of those     *)
(* that cannot be enriched (crates/ovp-intake/src/enrich_attempts.rs).     *)
(* What the reader loop does with 01-Raw is DailyLoop; here it is one step.*)
(*                                                                         *)
(* The run holds the RunLock; people edit the capture directories at any   *)
(* moment, and a run may stop between any two of its steps.                *)
(***************************************************************************)
EXTENDS Naturals, FiniteSets

CONSTANTS
    Captures,    \* the files of the capture directories
    Contents,    \* what a file can hold; stands for its sha256
    Absent,      \* the content of a file that is not there
    Urls,        \* url_key of the sources
    NoUrl,       \* a source without one
    UrlOf,       \* the url a content names
    Full,        \* contents with enough body for the reader, or ovp/force
    Thin,        \* contents with less
    Excluded,    \* contents tagged ovp/skip; what is in none of the three does not parse
    Documents,   \* contents that are office documents
    DocumentFiles, \* the captures with an office extension
    MarkdownOf,  \* the content of the raw note a content is ingested as
    Enriched,    \* a content with its body replaced by what its url serves
    Rank,        \* the sweep's order of the files
    MaxAttempts, \* MAX_ENRICH_ATTEMPTS
    MaxEdits,    \* bound: edits of the capture directories
    MaxProblems, \* bound: kills and failing writes
    MaxRetries   \* bound: runs with --retry-unavailable

ASSUME IntakeConstants ==
    /\ Absent \notin Contents /\ NoUrl \notin Urls
    /\ UrlOf \in [Contents -> Urls \cup {NoUrl}]
    /\ Full \subseteq Contents /\ Thin \subseteq Contents /\ Excluded \subseteq Contents
    /\ \A c \in Contents \ (Full \cup Thin \cup Excluded) : UrlOf[c] = NoUrl
    /\ MarkdownOf \in [Contents -> Contents] /\ \A c \in Contents \ Documents : MarkdownOf[c] = c
    \* format_as_raw_markdown writes no `source`
    /\ \A c \in Documents : UrlOf[c] = NoUrl /\ UrlOf[MarkdownOf[c]] = NoUrl
    /\ Enriched \in [Contents -> Contents]
    /\ \A c \in Contents : Enriched[c] \in Documents <=> c \in Documents
    /\ IsFiniteSet(Captures)
    /\ Rank \in [Captures -> Nat] /\ \A p, q \in Captures : Rank[p] = Rank[q] => p = q
    /\ MaxAttempts \in Nat \ {0}
    /\ MaxEdits \in Nat /\ MaxProblems \in Nat /\ MaxRetries \in Nat

VARIABLES
    capture,    \* the capture directories
    raw,        \* 01-Raw: how many files hold each content
    processed,  \* 03-Processed
    parked,     \* 03-Processed/duplicates
    ingested,   \* .ovp/intake.jsonl: Ingested records per content,
    duplicate,  \*   the contents with a Duplicate record,
    recorded,   \*   the urls of the Ingested ones,
    flag,       \*   and the last flag recorded for each content
    failures,   \* .ovp/enrich-attempts.jsonl, folded: failures in a row
    done,       \* .ovp/daily-runs.jsonl: the contents that succeeded
    log,        \* 60-Logs/pipeline.jsonl
    pc,         \* the step of the run, "off" between runs
    retry,      \* --retry-unavailable
    todo,       \* the files still to be swept
    known,      \* the sweep's view of the ledgers: contents,
    urls,       \*   urls,
    flagged,    \*   and flags
    item,       \* the file being swept: its hash, what it parsed as, its fate
    offer,      \* the url to fetch for each file, NoUrl if none
    result,     \* the outcome of each fetch
    halted,     \* the batch stopped at a failed journal append
    fetched,    \* history: fetches that failed, per content not disturbed
    rewritten,  \* history: contents whose body was replaced
    disturbed,  \* history: contents mixed up by an edit of a file under way
    edits, problems, retries

files   == <<raw, processed, parked>>
ledgers == <<ingested, duplicate, recorded, flag, failures, done, log>>
sweep   == <<todo, known, urls, flagged, item>>
enrich  == <<offer, result, halted>>
history == <<fetched, rewritten, disturbed>>
bounds  == <<edits, problems, retries>>
vars == <<capture, files, ledgers, pc, retry, sweep, enrich, history, bounds>>

Held == Contents \cup {Absent}
Kinds == {"none", "needs_content", "unparseable", "skipped", "content_unavailable"}
NoItem == [hash |-> Absent, source |-> Absent, as |-> "none"]
Parses == Full \cup Thin \cup Excluded
None == [c \in Contents |-> 0]
Unflagged == [c \in Contents |-> "none"]
NoOffers == [p \in Captures |-> NoUrl]
NoResults == [p \in Captures |-> "none"]
\* Office files hold documents, notes do not; the text of a document is not
\* captured by itself.
Texts == {MarkdownOf[d] : d \in Documents}
Fits(p, c) == c = Absent \/ (c \notin Texts /\ (c \in Documents <=> p \in DocumentFiles))

Init ==
    /\ capture \in [Captures -> Held] /\ \A p \in Captures : Fits(p, capture[p])
    /\ raw = None /\ processed = None /\ parked = None
    /\ ingested = None /\ duplicate = {} /\ recorded = {} /\ flag = Unflagged
    /\ failures = None /\ done = {} /\ log = {}
    /\ pc = "off" /\ retry = FALSE /\ todo = {} /\ known = {} /\ urls = {}
    /\ flagged = Unflagged /\ item = NoItem /\ offer = NoOffers /\ result = NoResults /\ halted = FALSE
    /\ fetched = None /\ rewritten = {} /\ disturbed = {}
    /\ edits = 0 /\ problems = 0 /\ retries = 0

----------------------------------------------------------------------------
(* sweep_intake                                                            *)

ReofferedClosed(k) == k \in {"needs_content", "unparseable", "content_unavailable"}
ReofferedNever(k) == FALSE
Reoffered(k) == k \in {"needs_content", "unparseable"} \/ (retry /\ k = "content_unavailable")

KnownContents == {c \in Contents : ingested[c] > 0} \cup duplicate \cup done
InTree(c) == processed[c] + parked[c] > 0

Start(retryUnavailable) ==
    /\ pc = "off"
    /\ \E p \in Captures : capture[p] # Absent
    /\ retryUnavailable => /\ retries < MaxRetries
                           /\ \E c \in Contents : flag[c] = "content_unavailable"
    /\ retries' = IF retryUnavailable THEN retries + 1 ELSE retries
    /\ retry' = retryUnavailable
    /\ known' = KnownContents
    /\ urls' = recorded \cup ({UrlOf[c] : c \in {d \in Contents : InTree(d)}} \ {NoUrl})
    /\ flagged' = flag
    /\ todo' = {p \in Captures : capture[p] # Absent}
    /\ pc' = "sweep"
    /\ UNCHANGED <<capture, files, ledgers, item, enrich, history, edits, problems>>

IsNext(p) == p \in todo /\ \A q \in todo : Rank[p] <= Rank[q]

\* What the sweep knows goes with it, and the rest with the run.
SweepOver == todo' = {} /\ known' = {} /\ urls' = {} /\ flagged' = Unflagged /\ retry' = FALSE
Stop ==
    /\ pc' = "off" /\ SweepOver /\ item' = NoItem
    /\ offer' = NoOffers /\ result' = NoResults /\ halted' = FALSE
Sweeping(p) == pc = "sweep" /\ IsNext(p)
Untouched == UNCHANGED <<files, ledgers, retry, known, urls, flagged, history, bounds>>

\* The hash is looked up before the file is parsed.
SkipFlagged(p) ==
    /\ Sweeping(p)
    /\ capture[p] # Absent /\ flagged[capture[p]] # "none"
    /\ IF Reoffered(flagged[capture[p]])
       THEN pc' = "offer" /\ item' = [NoItem EXCEPT !.hash = capture[p]] /\ UNCHANGED todo
       ELSE todo' = todo \ {p} /\ UNCHANGED <<pc, item>>
    /\ Untouched /\ UNCHANGED <<capture, enrich>>

\* The file is read again for its url, if it is still there and parses.
Reoffer(p) ==
    /\ pc = "offer" /\ IsNext(p)
    /\ offer' = [offer EXCEPT ![p] = IF capture[p] = Absent THEN NoUrl ELSE UrlOf[capture[p]]]
    /\ todo' = todo \ {p} /\ pc' = "sweep" /\ item' = NoItem
    /\ Untouched /\ UNCHANGED <<capture, result, halted>>

TakeUp(p) ==
    /\ Sweeping(p)
    /\ capture[p] # Absent /\ flagged[capture[p]] = "none"
    /\ LET dup == capture[p] \in known IN
       /\ item' = [hash |-> capture[p], source |-> Absent, as |-> IF dup THEN "duplicate" ELSE "none"]
       /\ pc' = IF dup THEN "move" ELSE "parse"
    /\ Untouched /\ UNCHANGED <<capture, todo, enrich>>

\* A file gone when its turn comes ends the run.
Vanished(p) ==
    /\ IsNext(p) /\ pc \in {"sweep", "move"} /\ capture[p] = Absent
    /\ Stop
    /\ UNCHANGED <<capture, files, ledgers, history, bounds>>

IsDuplicate(s) == s \in Parses /\ UrlOf[s] \in urls

\* The file is read again and parsed; a flag leaves it in place.
Flag(p, kind) ==
    /\ pc = "parse" /\ IsNext(p)
    /\ CASE capture[p] \notin Parses -> kind = "unparseable"
         [] capture[p] \in Excluded  -> kind = "skipped" /\ ~IsDuplicate(capture[p])
         [] capture[p] \in Thin      -> kind = "needs_content" /\ ~IsDuplicate(capture[p])
         [] OTHER -> FALSE
    /\ flag' = [flag EXCEPT ![item.hash] = kind]
    /\ offer' = IF kind = "needs_content" THEN [offer EXCEPT ![p] = UrlOf[capture[p]]] ELSE offer
    /\ todo' = todo \ {p} /\ pc' = "sweep" /\ item' = NoItem
    /\ UNCHANGED <<capture, files, ingested, duplicate, recorded, failures, done, log,
                   retry, known, urls, flagged, result, halted, history, bounds>>

Accept(p) ==
    /\ pc = "parse" /\ IsNext(p)
    /\ LET s == capture[p] IN
       \/ /\ IsDuplicate(s)
          /\ item' = [item EXCEPT !.source = s, !.as = "duplicate"] /\ pc' = "move"
       \/ /\ s \in Full /\ ~IsDuplicate(s)
          /\ item' = [item EXCEPT !.source = s, !.as = "ingested"]
          /\ pc' = IF s \in Documents THEN "convert" ELSE "move"
    /\ Untouched /\ UNCHANGED <<capture, todo, enrich>>

\* An office document: its text is written to 01-Raw, then the file is moved.
Convert(p) ==
    /\ pc = "convert" /\ IsNext(p)
    /\ raw' = [raw EXCEPT ![MarkdownOf[item.source]] = @ + 1]
    /\ pc' = "move"
    /\ UNCHANGED <<capture, processed, parked, ledgers, retry, sweep, enrich, history, bounds>>

\* safe_move, of whatever the file holds now.
Move(p) ==
    /\ pc = "move" /\ IsNext(p)
    /\ capture[p] # Absent
    /\ LET c == capture[p] IN
       \/ /\ item.as = "duplicate"
          /\ parked' = [parked EXCEPT ![c] = @ + 1] /\ UNCHANGED <<raw, processed>>
       \/ /\ item.as = "ingested" /\ item.source \in Documents
          /\ processed' = [processed EXCEPT ![c] = @ + 1] /\ UNCHANGED <<raw, parked>>
       \/ /\ item.as = "ingested" /\ item.source \notin Documents
          /\ raw' = [raw EXCEPT ![c] = @ + 1] /\ UNCHANGED <<processed, parked>>
    /\ capture' = [capture EXCEPT ![p] = Absent]
    /\ pc' = "log"
    /\ UNCHANGED <<ledgers, retry, sweep, enrich, history, bounds>>

LogNothing(p) ==
    /\ pc = "log" /\ IsNext(p)
    /\ pc' = "record"
    /\ UNCHANGED <<capture, files, ledgers, retry, sweep, enrich, history, bounds>>

LogMove(p) ==
    /\ pc = "log" /\ IsNext(p)
    /\ log' = log \cup {<<item.as, item.hash>>}
    /\ pc' = "record"
    /\ UNCHANGED <<capture, files, ingested, duplicate, recorded, flag, failures, done,
                   retry, sweep, enrich, history, bounds>>

RecordKeepingStaleView(p) ==
    /\ pc = "record" /\ IsNext(p)
    /\ ingested' = [ingested EXCEPT ![item.hash] = IF item.as = "ingested" THEN @ + 1 ELSE @]
    /\ duplicate' = duplicate \cup (IF item.as = "duplicate" THEN {item.hash} ELSE {})
    /\ recorded' = recorded \cup (IF item.as = "duplicate" THEN {} ELSE {UrlOf[item.source]} \ {NoUrl})
    /\ todo' = todo \ {p} /\ pc' = "sweep" /\ item' = NoItem
    /\ UNCHANGED <<capture, files, flag, failures, done, log, retry, known, urls, flagged,
                   enrich, history, bounds>>

Record(p) ==
    /\ pc = "record" /\ IsNext(p)
    /\ \/ /\ item.as = "duplicate"
          /\ duplicate' = duplicate \cup {item.hash}
          /\ UNCHANGED <<ingested, recorded, known, urls>>
       \/ /\ item.as = "ingested"
          /\ ingested' = [ingested EXCEPT ![item.hash] = @ + 1]
          /\ known' = known \cup {item.hash}
          /\ recorded' = recorded \cup ({UrlOf[item.source]} \ {NoUrl})
          /\ urls' = urls \cup ({UrlOf[item.source]} \ {NoUrl})
          /\ UNCHANGED duplicate
    /\ todo' = todo \ {p} /\ pc' = "sweep" /\ item' = NoItem
    /\ UNCHANGED <<capture, files, flag, failures, done, log, retry, flagged, enrich, history, bounds>>

SweepStep(p) ==
    \/ SkipFlagged(p) \/ Reoffer(p) \/ TakeUp(p) \/ Vanished(p) \/ \E k \in Kinds : Flag(p, k)
    \/ Accept(p) \/ Convert(p) \/ Move(p) \/ LogMove(p) \/ Record(p)

----------------------------------------------------------------------------
(* enrich_needs_content_with_progress and record_enrich_outcomes           *)

Done(from, to) == pc = from /\ pc' = to
Fetching(p) == pc = "fetch" /\ offer[p] # NoUrl /\ offer' = [offer EXCEPT ![p] = NoUrl]

FetchFails(p) ==
    /\ Fetching(p)
    /\ result' = [result EXCEPT ![p] = "failed"]
    /\ fetched' = IF capture[p] \in {Absent} \cup disturbed THEN fetched
                  ELSE [fetched EXCEPT ![capture[p]] = @ + 1]
    /\ UNCHANGED <<capture, files, ledgers, pc, retry, sweep, halted, rewritten, disturbed, bounds>>

\* update_source_body reads the file as it is now and replaces its body.
Rewrite(p) ==
    /\ Fetching(p) /\ capture[p] # Absent
    /\ capture' = [capture EXCEPT ![p] = Enriched[@]]
    /\ rewritten' = rewritten \cup {capture[p]}
    /\ result' = [result EXCEPT ![p] = "enriched"]
    /\ item' = [NoItem EXCEPT !.hash = capture[p]]
    /\ pc' = "journal"
    /\ UNCHANGED <<files, ledgers, retry, todo, known, urls, flagged, halted, fetched, disturbed,
                   bounds>>

\* Fetched, but not written: not counted as an attempt.
LocalFailure(p) ==
    /\ Fetching(p)
    /\ \/ capture[p] = Absent /\ UNCHANGED problems
       \/ problems < MaxProblems /\ problems' = problems + 1
    /\ UNCHANGED <<capture, files, ledgers, pc, retry, sweep, result, halted, history, edits, retries>>

JournalLater ==
    /\ pc = "journal" /\ pc' = "fetch" /\ item' = NoItem
    /\ UNCHANGED <<capture, files, ledgers, retry, todo, known, urls, flagged,
                   enrich, history, bounds>>

\* A failed append halts the batch; its results are still recorded.
Journal ==
    /\ pc = "journal"
    /\ \/ /\ log' = log \cup {<<"source_enriched", item.hash>>}
          /\ UNCHANGED <<offer, halted, problems>>
       \/ /\ problems < MaxProblems /\ problems' = problems + 1
          /\ offer' = NoOffers /\ halted' = TRUE /\ UNCHANGED log
    /\ pc' = "fetch" /\ item' = NoItem
    /\ UNCHANGED <<capture, files, ingested, duplicate, recorded, flag, failures, done, retry,
                   todo, known, urls, flagged, result, history, edits, retries>>

\* The attempt is keyed by the file as it is now; `late` is the 72 hour budget.
Exhausted(n, late) == n >= MaxAttempts \/ (late /\ n >= 2)

Attempt(p) ==
    /\ pc = "attempts" /\ result[p] # "none"
    /\ result' = [result EXCEPT ![p] = "none"]
    /\ \/ capture[p] = Absent /\ UNCHANGED <<failures, pc, item>>
       \/ /\ capture[p] # Absent /\ result[p] = "enriched"
          /\ failures' = [failures EXCEPT ![capture[p]] = 0] /\ UNCHANGED <<pc, item>>
       \/ /\ capture[p] # Absent /\ result[p] = "failed"
          /\ failures' = [failures EXCEPT ![capture[p]] = @ + 1]
          /\ \E late \in BOOLEAN :
                IF Exhausted(failures'[capture[p]], late)
                THEN pc' = "close" /\ item' = [NoItem EXCEPT !.hash = capture[p]]
                ELSE UNCHANGED <<pc, item>>
    /\ UNCHANGED <<capture, files, ingested, duplicate, recorded, flag, done, log, retry,
                   todo, known, urls, flagged, offer, halted, history, bounds>>

Close ==
    /\ pc = "close"
    /\ flag' = [flag EXCEPT ![item.hash] = "content_unavailable"]
    /\ pc' = "attempts" /\ item' = NoItem
    /\ UNCHANGED <<capture, files, ingested, duplicate, recorded, failures, done, log, retry,
                   todo, known, urls, flagged, enrich, history, bounds>>

\* The reader loop: some of the raw files succeed, and most of those move on.
Read(c) ==
    /\ pc = "read" /\ raw[c] > 0 /\ c \notin done
    /\ done' = done \cup {c}
    /\ \/ raw' = [raw EXCEPT ![c] = @ - 1] /\ processed' = [processed EXCEPT ![c] = @ + 1]
       \/ UNCHANGED <<raw, processed>>
    /\ UNCHANGED <<capture, parked, ingested, duplicate, recorded, flag, failures, log,
                   pc, retry, sweep, enrich, history, bounds>>

\* After a halted batch run_inner returns its error: the reader is not reached.
Phase ==
    /\ \/ todo = {} /\ Done("sweep", "fetch") /\ SweepOver
       \/ /\ \/ offer = NoOffers /\ Done("fetch", "attempts")
             \/ result = NoResults /\ Done("attempts", IF halted THEN "off" ELSE "read")
             \/ Done("read", "off")
          /\ UNCHANGED <<retry, todo, known, urls, flagged>>
    /\ halted' = (halted /\ pc # "attempts")
    /\ UNCHANGED <<capture, files, ledgers, item, offer, result, history, bounds>>

EnrichStep ==
    \/ \E p \in Captures : FetchFails(p) \/ Rewrite(p) \/ LocalFailure(p) \/ Attempt(p)
    \/ Journal \/ Close

----------------------------------------------------------------------------
\* A file between its hash and its move, or between the choice of its url and
\* the record of the fetch.
UnderWay(p) ==
    \/ IsNext(p) /\ pc \in {"offer", "parse", "convert", "move"}
    \/ offer[p] # NoUrl \/ result[p] = "failed"

\* Someone writes or removes a capture, at any time.
Edit(p, c) ==
    /\ edits < MaxEdits
    /\ capture[p] # c /\ Fits(p, c)
    /\ capture' = [capture EXCEPT ![p] = c]
    /\ edits' = edits + 1
    /\ disturbed' = IF UnderWay(p) THEN disturbed \cup ({item.hash, c} \ {Absent}) ELSE disturbed
    /\ UNCHANGED <<files, ledgers, pc, retry, sweep, enrich, fetched, rewritten, problems, retries>>

\* The run is killed, or an append returns an error.
Crash ==
    /\ pc # "off" /\ problems < MaxProblems
    /\ Stop /\ problems' = problems + 1
    /\ UNCHANGED <<capture, files, ledgers, history, edits, retries>>

Run == Phase \/ EnrichStep \/ \E p \in Captures : SweepStep(p)

Next ==
    \/ \E b \in BOOLEAN : Start(b)
    \/ Run \/ \E c \in Contents : Read(c)
    \/ \E p \in Captures, c \in Held : Edit(p, c)
    \/ Crash

Spec == Init /\ [][Next]_vars

\* The schedule starts a run every few hours, and a run goes on while it lives.
FairSpec == Spec /\ WF_vars(Start(FALSE)) /\ WF_vars(Run)
----------------------------------------------------------------------------
TypeOK ==
    /\ capture \in [Captures -> Held]
    /\ raw \in [Contents -> Nat] /\ processed \in [Contents -> Nat] /\ parked \in [Contents -> Nat]
    /\ ingested \in [Contents -> Nat] /\ failures \in [Contents -> Nat] /\ fetched \in [Contents -> Nat]
    /\ duplicate \subseteq Contents /\ recorded \subseteq Urls /\ done \subseteq Contents
    /\ rewritten \subseteq Contents /\ disturbed \subseteq Contents
    /\ known \subseteq Contents /\ urls \subseteq Urls
    /\ flag \in [Contents -> Kinds] /\ flagged \in [Contents -> Kinds]
    /\ log \subseteq {"ingested", "duplicate", "source_enriched"} \X Contents
    /\ pc \in {"off", "sweep", "offer", "parse", "convert", "move", "log", "record",
              "fetch", "journal", "attempts", "close", "read"}
    /\ retry \in BOOLEAN /\ todo \subseteq Captures
    /\ item \in [hash : Held, source : Held, as : {"none", "ingested", "duplicate"}]
    /\ offer \in [Captures -> Urls \cup {NoUrl}]
    /\ result \in [Captures -> {"none", "failed", "enriched"}] /\ halted \in BOOLEAN
    /\ edits \in 0 .. MaxEdits /\ problems \in 0 .. MaxProblems /\ retries \in 0 .. MaxRetries

\* Intake takes a source in once.  One copy of a url is in the queue or
\* processed, one more for each run that stopped between a move and its record
\* (ledger.rs, "the authority for URL/content dedup"), and one more for each
\* content a file was given under way; and "content the reader already processed
\* must never be re-ingested" (sweep.rs), unless a file is given it under way.
NothingReadComesBack == [][\A c \in done \ (Texts \cup disturbed) : raw'[c] <= raw[c]]_vars
CopiesOf(u) == UNION {{c} \X (1 .. raw[c] + processed[c]) : c \in {d \in Contents : UrlOf[d] = u}}
Copies(u) == Cardinality(CopiesOf(u))
TakenInOnce ==
    /\ [](\A u \in Urls : Copies(u) <= 1 + problems + Cardinality(disturbed))
    /\ NothingReadComesBack

\* "A ledger record always implies its event exists and the move really
\* happened" (sweep.rs): the move of that content, if the file was left alone.
Taken(c) == raw[MarkdownOf[c]] + processed[MarkdownOf[c]] > 0
RecordImpliesMove ==
    /\ \A c \in Contents : ingested[c] > 0 => <<"ingested", c>> \in log /\ (Taken(c) \/ c \in disturbed)
    /\ \A c \in duplicate : <<"duplicate", c>> \in log /\ (parked[c] > 0 \/ c \in disturbed)

\* A flag says what its content is, so that nothing readable waits for ever
\* behind one.
Describes(kind, c) ==
    CASE kind = "unparseable" -> c \notin Parses
      [] kind = "skipped"     -> c \in Excluded
      [] kind \in {"needs_content", "content_unavailable"} -> c \in Thin
      [] OTHER -> TRUE
FlagsAreTrue == \A c \in Contents : Describes(flag[c], c) \/ c \in disturbed

\* "Per-result means the audit trail is never behind the writes" (web_fetch.rs):
\* but for the current one, a body is lost without a trace only when its run is.
Untraced == {c \in rewritten : <<"source_enriched", c>> \notin log}
RewritesAreJournaled ==
    Cardinality(Untraced) <= problems + (IF pc = "journal" THEN 1 ELSE 0)

\* What the intake ledger and the event log say of a content is what was done
\* to it, whatever run is lost and whatever is edited, but for the contents a
\* file held or was given while it was under way.
LedgersAreTrue == RecordImpliesMove /\ RewritesAreJournaled /\ FlagsAreTrue

\* Why: what was hashed is what was parsed and moved, or disturbed; the event
\* stands before the record is written; and what is fetched, counted and closed
\* is thin, or disturbed.
ItemSteps == {"offer", "parse", "convert", "move", "log", "record"}
ItemInv ==
    /\ pc \in ItemSteps => todo # {} /\ item.hash \in Contents
    /\ pc \in ItemSteps \ {"offer", "parse"} => item.as \in {"ingested", "duplicate"}
    /\ pc = "convert" => item.as = "ingested"
    /\ pc \in {"journal", "close"} => item.hash \in Contents
    /\ \A p \in todo : IsNext(p) /\ pc \in {"offer", "parse", "convert", "move"} =>
          capture[p] = item.hash \/ {item.hash, capture[p]} \subseteq disturbed \cup {Absent}
    /\ pc \in {"convert", "move", "log", "record"} /\ item.as = "ingested" =>
          item.source \in Contents /\ (item.source = item.hash \/ item.hash \in disturbed)
    /\ pc = "move" /\ item.as = "ingested" /\ item.source \in Documents =>
          Taken(item.hash) \/ item.hash \in disturbed
    /\ pc \in {"log", "record"} =>
          \/ item.hash \in disturbed
          \/ item.as = "ingested" /\ Taken(item.hash)
          \/ item.as = "duplicate" /\ parked[item.hash] > 0
    /\ pc = "record" => <<item.as, item.hash>> \in log
FetchInv ==
    /\ \A c \in Contents : Describes(flagged[c], c) \/ c \in disturbed
    /\ pc = "offer" => Reoffered(flagged[item.hash])
    /\ \A p \in Captures : offer[p] # NoUrl \/ result[p] = "failed" =>
          capture[p] \in Thin \cup disturbed \cup {Absent}
    /\ pc = "close" => item.hash \in Thin \cup disturbed
JournalInv ==
    /\ IsFiniteSet(rewritten)
    /\ Cardinality(Untraced \ (IF pc = "journal" THEN {item.hash} ELSE {})) <= problems
\* The sweep knows everything that was read, takes in what it does not know, and
\* converts documents.
ViewInv ==
    /\ pc = "convert" => item.source \in Documents
    /\ pc \in {"sweep"} \cup ItemSteps => done \subseteq known
    /\ pc = "parse" => item.hash \notin known
    /\ pc \in {"convert", "move", "log", "record"} /\ item.as = "ingested" => item.hash \notin known
\* One copy of a url is recorded; each other one lost its record with its run, is
\* still to be recorded, or was taken in under the hash of another content, which
\* is disturbed and is recorded once.
Mistaken == {c \in disturbed : ingested[c] > 0}
AtHand(u) == /\ pc \in {"log", "record"} /\ item.as = "ingested"
             /\ UrlOf[item.source] = u \/ item.hash \in disturbed
UrlView ==
    /\ pc \in {"sweep"} \cup ItemSteps =>
          recorded \subseteq urls /\ \A c \in Contents : ingested[c] > 0 => c \in known
    /\ pc \in {"convert", "move", "log", "record"} /\ item.as = "ingested" =>
          UrlOf[item.source] \notin urls
FewCopies(u) ==
    /\ IsFiniteSet(CopiesOf(u))
    /\ Copies(u) <= problems + Cardinality(Mistaken) + (IF u \in recorded THEN 1 ELSE 0)
                      + (IF AtHand(u) THEN 1 ELSE 0)
CopyInv == UrlView /\ IsFiniteSet(disturbed) /\ \A u \in Urls : FewCopies(u)
IntakeInv == TypeOK /\ ItemInv /\ FetchInv /\ JournalInv /\ RecordImpliesMove /\ FlagsAreTrue

\* A url that serves nothing is not "re-fetched on every run, forever"
\* (IntakeAction::ContentUnavailable): a content is closed by the run that
\* spends its last attempt, and only runs lost, forced or edited into cost more.
\* A content flagged for another that replaced it under way may be fetched again
\* and again: each success resets its failures, and its flag stays.
Notes == Captures \ DocumentFiles
PerRun == Cardinality(Notes)
Granted == PerRun * (problems + retries) + MaxAttempts * edits
FetchesAreCapped ==
    \A c \in Contents \ disturbed : fetched[c] <= (MaxAttempts - 1) + PerRun + Granted

\* Why, if what a url serves is enough text (else see "KNOWN GAP",
\* enrich_verdict): until it is closed, a content's fetches are counted as
\* failures, or still to be counted in this run, or were granted by a lost run, a
\* forced one or an edit.  An edit costs most when it
\* gives a file its old body back between the rewrite and the record of its success,
\* which then resets the failures of that content.
EnoughText == \A c \in Contents : Enriched[c] \notin Thin
Sweeps == {"sweep"} \cup ItemSteps
Closed(c) == flag[c] = "content_unavailable"
Offered(c) == {p \in Captures : capture[p] = c /\ offer[p] # NoUrl}
Uncounted(c) == {p \in Captures : capture[p] = c /\ result[p] = "failed"}
Resetting(c) == {p \in Captures : capture[p] = c /\ result[p] = "enriched"}
Spent(c) == fetched[c] + (MaxAttempts - 1) * Cardinality(Resetting(c))
Counted(c) == Spent(c) <= failures[c] + Cardinality(Uncounted(c)) + Granted
MayFetch(c) == Spent(c) <= (MaxAttempts - 1) + Cardinality(Uncounted(c)) + Granted
BudgetInv(c) ==
    /\ fetched[c] <= (MaxAttempts - 1) + PerRun + Granted
    /\ ~Closed(c) => Counted(c)
    /\ ~Closed(c) /\ ~(pc = "close" /\ item.hash = c) => MayFetch(c)
    /\ Offered(c) # {} \/ (retry /\ pc \in Sweeps) => MayFetch(c)
PhaseInv ==
    /\ pc \notin {"fetch", "journal", "attempts", "close"} => result = NoResults
    /\ pc \notin Sweeps \cup {"fetch", "journal"} => offer = NoOffers
    /\ \A p \in Captures :
          /\ offer[p] # NoUrl => result[p] = "none"
          /\ capture[p] # Absent => (capture[p] \in Documents <=> p \in DocumentFiles)
          /\ offer[p] # NoUrl \/ result[p] = "failed" =>
                capture[p] \in disturbed \cup {Absent} \/ UrlOf[capture[p]] # NoUrl
    /\ pc \in Sweeps => \A c \in Contents : Closed(c) <=> flagged[c] = "content_unavailable"
    /\ pc = "parse" => ~Closed(item.hash)
CapInv ==
    /\ PhaseInv
    /\ \A c \in Contents \ disturbed : IF c \in Thin THEN BudgetInv(c) ELSE fetched[c] = 0

\* Again and again every capture has left, or waits for the operator, but for
\* what was disturbed.
Waits(c) == \/ flag[c] \in {"unparseable", "skipped", "content_unavailable"}
            \/ flag[c] = "needs_content" /\ UrlOf[c] = NoUrl
CapturesSettle == []<>(\A p \in Captures : capture[p] \in {Absent} \cup disturbed \/ Waits(capture[p]))
=============================================================================
