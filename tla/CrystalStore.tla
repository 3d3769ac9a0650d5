---------------------------- MODULE CrystalStore ----------------------------
(***************************************************************************)
(* The durable crystal store under .ovp/crystal: the claim ledger, the     *)
(* review queue and the plans of the two commands that send durable claims *)
(* back to review (ovp-cli/commands/crystal_write.rs,                      *)
(* crystal_review_session.rs, crystal_regate.rs, crystal_citation_review   *)
(* .rs, and fold_ledger of ovp-domain/crystal.rs).                         *)
(*                                                                         *)
(* Every command holds the vault's run lock (RunLock), so one runs at a    *)
(* time; it is a sequence of writes of different files, and it may be      *)
(* killed between any two.  Nobody repairs what it leaves but the next     *)
(* command.                                                                *)
(*                                                                         *)
(* A claim is its claim_key.  An entry of the queue is found by claim_id:  *)
(* the short id of a synthesis, which the next one uses again for another  *)
(* claim, or the key of a claim that a plan retracted.                     *)
(***************************************************************************)
EXTENDS Naturals, FiniteSets, SequencesExt

CONSTANTS
    Claims,      \* claim_keys
    Ids,         \* the short claim_ids of synthesized and revised claims
    Order,       \* the sequence of all claim_ids as they sort
    Written,     \* the claims that are durable at the start
    OneSource,   \* claims whose citations the present gate counts as one source
    Disputed,    \* claims that fall below two sources by their citation verdicts
    Extends,     \* <<new, old>>: the same text with strictly more citations
    Twins,       \* <<new, old>>: the same text, essentially the same citations
    Candidates,  \* what a synthesis may offer: sequences of [id, claim]
    Revisions,   \* what a reviewer may write instead of a claim: [id, claim]
    None,        \* no entry, no claim
    Torn,        \* a review.json that does not parse
    MaxCommands, \* bound on the commands of a behavior
    MaxKills     \* bound on those that are killed

ClaimIds == Ids \cup Claims

\* An entry of the queue.  kind stands for the fields that keep entries apart:
\* lane, strength, theme.
Entries == [claim : Claims, kind : {"insight", "review"}, deferred : BOOLEAN]

ASSUME CrystalConstants ==
    /\ Ids \cap Claims = {} /\ None \notin ClaimIds /\ Torn \notin ClaimIds
    /\ None \notin Entries /\ IsFiniteSet(Claims)
    /\ ToSet(Order) = ClaimIds
    /\ Written \subseteq Claims /\ OneSource \subseteq Claims /\ Disputed \subseteq Claims
    /\ Candidates \subseteq Seq([id : Ids, claim : Claims])
    /\ Revisions \subseteq [id : Ids, claim : Claims]
    /\ MaxCommands \in Nat /\ MaxKills \in Nat

VARIABLES
    ledger,    \* ledger.jsonl: a sequence of StoreEvents
    queue,     \* review.json: claim_id -> entry, or Torn
    plans,     \* the plans of regate/ and citation-review/, in the order applied
    command,   \* what the process that holds the run lock does next
    left,      \* how the entry of a retracted claim last left the queue (history)
    commands,  \* commands started
    kills      \* commands killed

vars == <<ledger, queue, plans, command, left, commands, kills>>

----------------------------------------------------------------------------
(* The ledger.  An event carries in "by" the plan whose id its reason      *)
(* names: the one that retracted, or the one whose rollback re-wrote.      *)

Event(op, key, over, by) == [op |-> op, key |-> key, over |-> over, by |-> by]

\* The batch that does the same to each of some claims (append_events).
Batch(op, keys, by) == SetToSeq({Event(op, c, None, by) : c \in keys})

\* fold_ledger's loop.  Write and Supersede make their claim active, a
\* Supersede then flips its predecessor, and a Retract marks its claim.
Folded(status, e) ==
    LET own == [status EXCEPT ![e.key] = IF e.op = "retract" THEN "retracted" ELSE "active"]
    IN  IF e.op = "supersede" /\ own[e.over] # "none"
        THEN [own EXCEPT ![e.over] = "superseded"]
        ELSE own
FoldLedger(events) == FoldLeft(Folded, [c \in Claims |-> "none"], events)

\* What the loop comes to ("the latest event decides"): the last event that is
\* of the claim, or supersedes it once it is present.
Touching(events, c) ==
    {n \in DOMAIN events :
        \/ events[n].key = c
        \/ /\ events[n].op = "supersede" /\ events[n].over = c
           /\ \E m \in 1..n : events[m].key = c}

Marks(e, c) ==
    IF e.op = "supersede" /\ e.over = c THEN "superseded"
    ELSE IF e.op = "retract" THEN "retracted" ELSE "active"

Status(events) ==
    [c \in Claims |-> LET touching == Touching(events, c)
                      IN  IF touching = {} THEN "none" ELSE Marks(events[Max(touching)], c)]
Active(events) == {c \in Claims : Status(events)[c] = "active"}

OwnEvents(events, c) == {n \in DOMAIN events : events[n].key = c}
LastOf(events, c) ==
    LET own == OwnEvents(events, c)
    IN  IF own = {} THEN Event("none", c, None, 0) ELSE events[Max(own)]

----------------------------------------------------------------------------
(* The review queue.                                                       *)

Entry(claim, kind) == [claim |-> claim, kind |-> kind, deferred |-> FALSE]

EmptyQueue == [i \in ClaimIds |-> None]

\* merge_review_queue: by claim_id, new entries last.
Merged(q, processed, new) ==
    [i \in ClaimIds |-> IF new[i] # None THEN new[i] ELSE IF i \in processed THEN None ELSE q[i]]

\* collapse_review_duplicates: in the order of ids, the first of its matter stays.
SameMatter(e, f) ==
    /\ e # None /\ f # None /\ e.kind = f.kind
    /\ \/ e.claim = f.claim
       \/ {<<e.claim, f.claim>>, <<f.claim, e.claim>>} \cap (Twins \cup Extends) # {}

Before(i, j) == \E m, n \in DOMAIN Order : m < n /\ Order[m] = i /\ Order[n] = j

Kept(q) ==
    CHOOSE kept \in SUBSET ClaimIds : \A i \in ClaimIds :
        i \in kept <=> /\ q[i] # None
                      /\ \A j \in kept : Before(j, i) => ~SameMatter(q[j], q[i])

Collapsed(q) == [i \in ClaimIds |-> IF i \in Kept(q) THEN q[i] ELSE None]

\* The claims whose entry under their own key is gone after the write.
Dropped(q, q2) == {c \in Claims : q[c] # None /\ q2[c] = None}
Leaves(cs, how) == left' = [c \in Claims |-> IF c \in cs THEN how ELSE left[c]]

----------------------------------------------------------------------------
(* The commands.                                                           *)

Idle == [step |-> "idle"]
Free == command = Idle /\ commands < MaxCommands

Init ==
    /\ ledger = Batch("write", Written, 0)
    /\ queue = EmptyQueue
    /\ plans = <<>>
    /\ command = Idle
    /\ left = [c \in Claims |-> "no"]
    /\ commands = 0
    /\ kills = 0

Begin(what) == command' = what /\ commands' = commands + 1

\* The strength gate and the count of sources route each claim: a model's
\* verdict, but never durable on one source.
Routes(batch) ==
    {r \in [DOMAIN batch -> {"durable", "insight", "review"}] :
        \A i \in DOMAIN batch : batch[i].claim \in OneSource => r[i] # "durable"}

Write(batch, routes, processed, edits, over) ==
    [step |-> "append", batch |-> batch, routes |-> routes,
     processed |-> processed, edits |-> edits, over |-> over,
     next |-> 1, events |-> <<>>]

\* crystal-synth and crystal-write.
Synthesize ==
    /\ Free
    /\ \E batch \in Candidates : \E routes \in Routes(batch) :
          Begin(Write(batch, routes, {}, <<>>, None))
    /\ UNCHANGED <<ledger, queue, plans, left, kills>>

\* crystal-review-session-apply with one decision: the entry goes (reject), is
\* changed in place (demote, defer), or is replaced by a revision that passes
\* the gate again, superseding a claim the reviewer names or not.
Decide ==
    /\ Free
    /\ queue # Torn
    /\ \E id \in {i \in ClaimIds : queue[i] # None} :
          \/ Begin([Write(<<>>, <<>>, {id}, <<>>, None) EXCEPT !.step = "review"])
          \/ \E how \in {"demote", "defer"} :
                Begin([Write(<<>>, <<>>, {}, [i \in {id} |-> how], None) EXCEPT !.step = "review"])
          \/ \E r \in Revisions : \E routes \in Routes(<<r>>) : \E over \in Claims \cup {None} :
                Begin(Write(<<r>>, routes, {id}, <<>>, over))
    /\ UNCHANGED <<ledger, queue, plans, left, kills>>

\* write_durable, first half: a claim active before the batch, or already in it,
\* is passed over; any other is decided against what is active after the ones
\* before it (decide_lineage; a reviewer's choice wins), and one batch of events
\* goes to the ledger.
AppendedKeys == Active(ledger) \cup {command.events[n].key : n \in DOMAIN command.events}

EventsFor(events, c, over) ==
    LET active == Active(events)
        older  == {old \in active : <<c, old>> \in Extends}
    IN  CASE over # None -> <<Event("supersede", c, over, 0)>>
          [] over = None /\ older # {} ->
                <<Event("supersede", c, CHOOSE old \in older : TRUE, 0)>>
          [] OTHER ->
                IF \E old \in active : <<c, old>> \in Twins THEN <<>> ELSE <<Event("write", c, None, 0)>>

DecideClaim ==
    /\ command.step = "append" /\ command.next \in DOMAIN command.batch
    /\ LET n    == command.next
           c    == command.batch[n].claim
           made == IF command.routes[n] = "durable" /\ c \notin AppendedKeys
                   THEN EventsFor(ledger \o command.events, c, command.over)
                   ELSE <<>>
       IN  command' = [command EXCEPT !.next = n + 1, !.events = command.events \o made]
    /\ UNCHANGED <<ledger, queue, plans, left, commands, kills>>

AppendEvents ==
    /\ command.step = "append" /\ command.next \notin DOMAIN command.batch
    /\ ledger' = ledger \o command.events
    /\ command' = [command EXCEPT !.step = "review"]
    /\ UNCHANGED <<queue, plans, left, commands, kills>>

\* Its second half, and all of a session without revisions: read the queue,
\* merge, and write it over itself.  An unreadable queue fails the command here.
NewEntries ==
    [i \in ClaimIds |->
        LET parked == {n \in DOMAIN command.batch :
                          command.batch[n].id = i /\ command.routes[n] # "durable"}
        IN  IF parked = {} THEN None
            ELSE Entry(command.batch[Max(parked)].claim, command.routes[Max(parked)])]

Changed(e, how) ==
    IF how = "demote" THEN [e EXCEPT !.kind = "insight"] ELSE [e EXCEPT !.deferred = TRUE]

NextQueue ==
    LET kept == Merged(queue, command.processed, NewEntries)
    IN  IF command.batch # <<>> THEN Collapsed(kept)
        ELSE [i \in ClaimIds |-> IF i \in DOMAIN command.edits
                                 THEN Changed(kept[i], command.edits[i]) ELSE kept[i]]

WriteReview ==
    /\ command.step = "review"
    /\ IF queue = Torn THEN UNCHANGED <<queue, left>>
       ELSE /\ queue' = NextQueue
            /\ Leaves(Dropped(queue, queue'),
                      IF command.processed = {} THEN "collapsed" ELSE "decided")
    /\ command' = Idle
    /\ UNCHANGED <<ledger, plans, commands, kills>>

----------------------------------------------------------------------------
(* crystal-regate-sources and crystal-citation-review: apply.              *)

\* The saved plans of the same claims.
SamePlans(who, keys) == {i \in DOMAIN plans : plans[i].who = who /\ plans[i].keys = keys}

NamedByHash(who, keys) == [id |-> <<who, keys, 1>>, who |-> who, keys |-> keys]

\* A run is named after the hash of its plan, with a number if a saved plan has
\* that name.  The hash is abstracted to the claims: plans of the same claims
\* clash here always, also when a citation review's verdicts or entries, which
\* it hashes too, would tell them apart.
Named(who, keys) ==
    [id |-> <<who, keys, Cardinality(SamePlans(who, keys)) + 1>>, who |-> who, keys |-> keys]

Plan(who) ==
    IF who = "regate" THEN Active(ledger) \cap OneSource ELSE Active(ledger) \cap Disputed

\* The citation review refuses while the queue has an entry of a planned claim.
Conflicts(keys) == {c \in keys : queue[c] # None}

SavePlan(who) ==
    /\ Free
    /\ Plan(who) # {}
    /\ who = "citations" => queue # Torn /\ Conflicts(Plan(who)) = {}
    /\ plans' = Append(plans, Named(who, Plan(who)))
    /\ Begin([step |-> "queue", run |-> Len(plans) + 1])
    /\ UNCHANGED <<ledger, queue, left, kills>>

Queued(i, c) == Entry(c, IF plans[i].who = "regate" THEN "insight" ELSE "review")

QueueClaimsByShortId ==
    /\ command.step = "queue" /\ queue # Torn
    /\ \E id \in Ids : queue' = [i \in ClaimIds |->
          IF i = id THEN Queued(command.run, CHOOSE c \in plans[command.run].keys : TRUE) ELSE queue[i]]
    /\ Leaves(plans[command.run].keys, "no")
    /\ command' = [command EXCEPT !.step = "retract"]
    /\ UNCHANGED <<ledger, plans, commands, kills>>

\* edit_review replaces the file by a rename, or fails on a torn one.
QueueClaims ==
    /\ command.step = "queue"
    /\ IF queue = Torn
       THEN command' = Idle /\ UNCHANGED <<queue, left>>
       ELSE /\ queue' = [c \in ClaimIds |-> IF c \in plans[command.run].keys
                                            THEN Queued(command.run, c) ELSE queue[c]]
            /\ Leaves(plans[command.run].keys, "no")
            /\ command' = [command EXCEPT !.step = "retract"]
    /\ UNCHANGED <<ledger, plans, commands, kills>>

Retract ==
    /\ command.step = "retract"
    /\ ledger' = ledger \o Batch("retract", plans[command.run].keys, command.run)
    /\ command' = Idle
    /\ UNCHANGED <<queue, plans, left, commands, kills>>

----------------------------------------------------------------------------
(* Their rollbacks.                                                        *)

\* What the ledger still shows as this run's retraction: a later Supersede
\* flips a claim without an event of its own key.
LastRetracted(i) ==
    {c \in plans[i].keys : LET e == LastOf(ledger, c) IN e.op = "retract" /\ plans[e.by].id = plans[i].id}
Retracted(i) == {c \in LastRetracted(i) : Status(ledger)[c] = "retracted"}

\* The citation review asks the queue too: a person who acted on the claim
\* changed its entry.
Untouched(i) == {c \in plans[i].keys : queue[c] = Queued(i, c)}
Rewritten(i) == {c \in plans[i].keys : LET e == LastOf(ledger, c) IN e.op = "write" /\ e.by = i}

\* regate: the queue first, the ledger second.
RollbackRegate(i) ==
    /\ Free
    /\ plans[i].who = "regate"
    /\ Begin([step |-> "unqueue", run |-> i, keys |-> Retracted(i), queued |-> Retracted(i)])
    /\ UNCHANGED <<ledger, queue, plans, left, kills>>

\* citation review: the ledger first, the queue second; what an earlier attempt
\* re-wrote is unqueued by the next.
ToUnqueueOwned(i) == Untouched(i) \cap Retracted(i)
ToUnqueue(i) == Untouched(i) \cap (Retracted(i) \cup Rewritten(i))
RollbackCitations(i) ==
    /\ Free
    /\ plans[i].who = "citations" /\ queue # Torn
    /\ Begin([step |-> "rewrite", run |-> i, keys |-> Untouched(i) \cap Retracted(i),
              queued |-> ToUnqueue(i)])
    /\ UNCHANGED <<ledger, queue, plans, left, kills>>

Unqueue ==
    /\ command.step = "unqueue"
    /\ IF queue = Torn THEN UNCHANGED <<queue, left>>
       ELSE /\ queue' = [c \in ClaimIds |-> IF c \in command.queued THEN None ELSE queue[c]]
            /\ Leaves(Dropped(queue, queue'), "unqueued")
    /\ command' = IF queue # Torn /\ plans[command.run].who = "regate"
                  THEN [command EXCEPT !.step = "rewrite"] ELSE Idle
    /\ UNCHANGED <<ledger, plans, commands, kills>>

Rewrite ==
    /\ command.step = "rewrite"
    /\ ledger' = ledger \o Batch("write", command.keys, command.run)
    /\ command' = IF plans[command.run].who = "regate" THEN Idle ELSE [command EXCEPT !.step = "unqueue"]
    /\ UNCHANGED <<queue, plans, left, commands, kills>>

----------------------------------------------------------------------------
\* The process dies between two writes; a plain write of the queue (fs::write)
\* can be cut, the others are atomic.
Kill ==
    /\ command # Idle
    /\ kills < MaxKills
    /\ kills' = kills + 1
    /\ command' = Idle
    /\ queue' \in {queue} \cup (IF command.step = "review" THEN {Torn} ELSE {})
    /\ UNCHANGED <<ledger, plans, left, commands>>

Next ==
    \/ Synthesize \/ Decide \/ DecideClaim \/ AppendEvents \/ WriteReview
    \/ \E who \in {"regate", "citations"} : SavePlan(who)
    \/ QueueClaims \/ Retract
    \/ \E i \in DOMAIN plans : RollbackRegate(i) \/ RollbackCitations(i)
    \/ Unqueue \/ Rewrite
    \/ Kill

Spec == Init /\ [][Next]_vars

----------------------------------------------------------------------------
(* What the proofs (CrystalStoreProofs) carry from step to step.           *)

Events(ops) == [op : ops, key : Claims, over : Claims \cup {None}, by : Nat]

WriteCommands ==
    [step : {"append", "review"}, batch : Seq([id : Ids, claim : Claims]),
     routes : UNION {[D -> {"durable", "insight", "review"}] : D \in SUBSET Nat},
     processed : SUBSET ClaimIds,
     edits : UNION {[I -> {"demote", "defer"}] : I \in SUBSET ClaimIds},
     over : Claims \cup {None}, next : Nat, events : Seq(Events({"write", "supersede"}))]
PlanCommands == [step : {"queue", "retract"}, run : DOMAIN plans]
UndoCommands ==
    [step : {"unqueue", "rewrite"}, run : DOMAIN plans,
     keys : SUBSET Claims, queued : SUBSET Claims]

TypeOK ==
    /\ ledger \in Seq(Events({"write", "supersede", "retract"}))
    /\ queue = Torn \/ queue \in [ClaimIds -> Entries \cup {None}]
    /\ plans \in Seq([id : {"regate", "citations"} \X (SUBSET Claims) \X Nat,
                     who : {"regate", "citations"}, keys : SUBSET Claims])
    /\ \/ command = Idle
       \/ command \in WriteCommands /\ DOMAIN command.routes = DOMAIN command.batch
       \/ command \in PlanCommands
       \/ command \in UndoCommands
    /\ left \in [Claims -> {"no", "collapsed", "decided", "unqueued"}]

\* No two plans share an id.
PlansAreNamed ==
    \A i \in DOMAIN plans :
        /\ plans[i].id[1] = plans[i].who /\ plans[i].id[2] = plans[i].keys
        /\ plans[i].id[3] <= Cardinality(SamePlans(plans[i].who, plans[i].keys))
        /\ \A j \in DOMAIN plans : plans[j].id = plans[i].id => j = i

RetractionsAreNamed ==
    \A n \in DOMAIN ledger :
        ledger[n].op = "retract" =>
            ledger[n].by \in DOMAIN plans /\ ledger[n].key \in plans[ledger[n].by].keys

\* A claim that a plan queued is found under its own key, and only it.
KeyedEntriesAreTheirClaims ==
    queue # Torn => \A c \in Claims : queue[c] # None => queue[c].claim = c

RetractedIsAccounted ==
    queue # Torn => \A c \in Claims :
        Status(ledger)[c] = "retracted" => queue[c] # None \/ left[c] # "no"

\* What the command under way has already read or done still holds.
StillHolds ==
    /\ command.step = "append" => DOMAIN command.edits = {}
    /\ command.step = "review" /\ command.batch = <<>> /\ queue # Torn =>
          \A i \in DOMAIN command.edits : queue[i] # None /\ i \notin command.processed
    /\ command.step = "retract" => \A c \in plans[command.run].keys : queue[c] # None
    /\ command.step = "rewrite" =>
          /\ command.keys \subseteq Retracted(command.run)
          /\ plans[command.run].who = "citations" =>
                /\ queue # Torn /\ command.keys \subseteq Untouched(command.run)
                /\ ToUnqueue(command.run) \subseteq command.queued
    /\ command.step = "unqueue" =>
          /\ plans[command.run].who = "regate" => command.keys \subseteq Retracted(command.run)
          /\ plans[command.run].who = "citations" =>
                /\ queue # Torn
                /\ Untouched(command.run) \cap Rewritten(command.run) \subseteq command.queued

UndoInv ==
    /\ TypeOK /\ PlansAreNamed /\ RetractionsAreNamed
    /\ KeyedEntriesAreTheirClaims /\ RetractedIsAccounted /\ StillHolds

----------------------------------------------------------------------------
\* "Nothing is deleted: the claim stays readable as caveated"
\* (crystal_regate.rs): a claim that a plan took out of the durable set has an
\* entry in the queue until a person decides it, a recorded collapse absorbs
\* it or a rollback takes it out, whatever is synthesized and wherever a command
\* is killed.  A queue cut short by fs::write loses its entries.
RetractedStaysQueued ==
    \A c \in Claims : Status(ledger)[c] = "retracted" =>
        \/ queue = Torn
        \/ \E i \in ClaimIds : queue[i] # None /\ queue[i].claim = c
        \/ left[c] # "no"

\* "The plan goes to disk BEFORE the ledger moves, so whatever happens next the
\* run can be rolled back": each retraction names a saved plan that lists its
\* claim, and no other plan of the same name.
RetractionsAreUndoable ==
    \A n \in DOMAIN ledger : LET e == ledger[n] IN
        e.op = "retract" =>
            /\ e.by \in DOMAIN plans /\ e.key \in plans[e.by].keys
            /\ \A i \in DOMAIN plans : plans[i].id = plans[e.by].id => i = e.by

\* A rollback re-activates what its own run retracted and nobody has touched
\* since: not what another run retracted, not what a later claim superseded,
\* and, in the citation review, not what a person has acted on.  When it has run
\* to its end, nothing that it or an interrupted attempt re-activated is in the
\* queue as the review put it there: "a retry ... finishes the unqueue instead
\* of stranding the claim".
ReactivatesItsOwn ==
    [][command.step = "rewrite" /\ ledger' # ledger =>
         \A c \in command.keys : LET e == LastOf(ledger, c) IN
            /\ Status(ledger)[c] = "retracted"
            /\ e.op = "retract" /\ e.by = command.run
            /\ plans[command.run].who = "citations" => queue[c] = Queued(command.run, c)]_vars
UndoneIsUnqueued ==
    [][Unqueue /\ plans[command.run].who = "citations" =>
         \A c \in plans[command.run].keys :
             LET e == LastOf(ledger', c)
             IN  e.op = "write" /\ e.by = command.run => queue'[c] # Queued(command.run, c)]_vars
RollbackIsExact == ReactivatesItsOwn /\ UndoneIsUnqueued
=============================================================================
