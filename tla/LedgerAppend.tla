---------------------------- MODULE LedgerAppend ----------------------------
(***************************************************************************)
(* Appending to and reading the vault's JSONL ledgers                      *)
(* (crates/ovp-domain/src/jsonl.rs, crates/ovp-intake/src/vaultops.rs).    *)
(*                                                                         *)
(* A file is a sequence of pieces.  A record, and the marker line that     *)
(* closes a torn one, is written as two pieces and a newline, so that a    *)
(* write can be torn inside a record, after it, or inside the marker.      *)
(* append_jsonl appends one record and syncs it; append_batch appends      *)
(* several and does not.  One action is one system call; a writer may be   *)
(* killed between two of them, and the machine may lose power.             *)
(***************************************************************************)
EXTENDS Integers, FiniteSetsExt, SequencesExt

CONSTANTS
    Writers,     \* the appends of a history, one each
    RecordsOf,   \* the records each of them appends
    Batches,     \* the writers that call append_batch, the others append_jsonl
    NL, Mark,    \* the newline, and the content of TORN_MARKER
    Settings     \* the circumstances to check, one of them per behavior: "locked"
                 \* (every writer holds the vault's RunLock), "new" (no ledger
                 \* exists yet), and the bounds "shorts" (writes that come up
                 \* short) and "losses" (power losses)

Records == UNION {ToSet(RecordsOf[w]) : w \in Writers}
Pieces  == {NL} \cup (Records \cup {Mark}) \X {1, 2}

ASSUME LedgerConstants ==
    /\ Batches \subseteq Writers
    /\ \A w \in Writers : RecordsOf[w] \in Seq(Records)
    /\ \A v, w \in Writers : v # w => ToSet(RecordsOf[v]) \cap ToSet(RecordsOf[w]) = {}
    /\ Mark \notin Records /\ NL \notin (Records \cup {Mark}) \X {1, 2}
    /\ Settings \subseteq [locked : BOOLEAN, new : BOOLEAN, shorts : Nat, losses : Nat]

VARIABLES
    setting,   \* the circumstances of this behavior
    file,      \* what a reader sees
    durable,   \* how many pieces of it are on disk
    entry,     \* the ledger's directory entry: "none", "cached" or "durable"
    doing,     \* the next system call of each writer, or how it ended
    creator,   \* whether the writer's open created the ledger
    closes,    \* whether its probe saw a torn tail
    before,    \* the length an exclusive batch can be cut back to
    shorts, losses

ledgerVars == <<setting, file, durable, entry, doing, creator, closes, before, shorts, losses>>

Opening(x) == <<x, 1>>
Ending(x)  == <<x, 2>>
Body(x) == <<Opening(x), Ending(x)>>
Line(x) == <<Opening(x), Ending(x), NL>>
Running(w) == doing[w] \in {"probe", "write", "cut", "sync", "sync_dir"}

LedgerInit ==
    /\ setting \in Settings
    /\ file = <<>>
    /\ durable = 0
    /\ entry = IF setting.new THEN "none" ELSE "durable"
    /\ doing = [w \in Writers |-> "idle"]
    /\ creator = [w \in Writers |-> FALSE]
    /\ closes = [w \in Writers |-> FALSE]
    /\ before = [w \in Writers |-> 0]
    /\ shorts = 0
    /\ losses = 0

Proceed(w, l) == doing' = [doing EXCEPT ![w] = l]

----------------------------------------------------------------------------
(* Reading: parse_ledger, with the Skip policy of read_jsonl               *)

LineStarts(f) == {1} \cup {i + 1 : i \in {j \in DOMAIN f : f[j] = NL}}
LineAt(f, i) == SubSeq(f, i, Min({j \in i .. Len(f) : f[j] = NL} \cup {Len(f) + 1}) - 1)
NextStart(f, i) == i + Len(LineAt(f, i)) + 1

IsRecord(l) == \E r \in Records : l = Body(r)
IsTruncated(l) == \E x \in Records \cup {Mark} : l = <<Opening(x)>>

\* A truncated line is a torn append only where nothing follows it, or the
\* marker does.
IsExcused(f, i) == NextStart(f, i) > Len(f) + 1 \/ LineAt(f, NextStart(f, i)) = Body(Mark)

Reads(f) ==
    \A i \in LineStarts(f) :
        \/ LineAt(f, i) \in {<<>>, Body(Mark)}
        \/ IsRecord(LineAt(f, i))
        \/ IsTruncated(LineAt(f, i)) /\ IsExcused(f, i)

\* The records of a ledger that reads, each at its place in the file.
RecordStarts(f) == {i \in LineStarts(f) : IsRecord(LineAt(f, i))}
Read(f) == [i \in RecordStarts(f) |-> f[i][1]]
Readable(f) == Range(Read(f))

----------------------------------------------------------------------------
(* Writing: append_jsonl with append_line and write_once; append_batch     *)
(* with write_or_cut_back                                                  *)

\* create_new, or open for appending.  An exclusive batch notes the length:
\* nobody else can change it before the write.
Open(w) ==
    /\ doing[w] = "idle"
    /\ setting.locked => \A v \in Writers : ~Running(v)
    /\ creator' = [creator EXCEPT ![w] = (entry = "none")]
    /\ entry' = IF entry = "none" THEN "cached" ELSE entry
    /\ before' = [before EXCEPT ![w] = Len(file)]
    /\ Proceed(w, "probe")
    /\ UNCHANGED <<setting, file, durable, closes, shorts, losses>>

\* ends_with_newline_or_empty
ProbeTailNever(w) ==
    /\ doing[w] = "probe"
    /\ closes' = [closes EXCEPT ![w] = FALSE]
    /\ Proceed(w, "write")
    /\ UNCHANGED <<setting, file, durable, entry, creator, before, shorts, losses>>

ProbeTail(w) ==
    /\ doing[w] = "probe"
    /\ closes' = [closes EXCEPT ![w] = file # <<>> /\ Last(file) # NL]
    /\ Proceed(w, "write")
    /\ UNCHANGED <<setting, file, durable, entry, creator, before, shorts, losses>>

ClosingWithoutMarker(w) == IF closes[w] THEN <<NL>> ELSE <<>>

Closing(w) == IF closes[w] THEN <<NL>> \o Line(Mark) ELSE <<>>

Lines(s) == [i \in 1 .. 3 * Len(s) |-> Line(s[(i + 2) \div 3])[((i - 1) % 3) + 1]]
Buffer(w) == Closing(w) \o Lines(RecordsOf[w])

\* The one write, whole or short.  A short one is not retried.
WriteWhole(w) ==
    /\ doing[w] = "write"
    /\ file' = file \o Buffer(w)
    /\ Proceed(w, IF w \in Batches THEN "done" ELSE "sync")
    /\ UNCHANGED <<setting, durable, entry, creator, closes, before, shorts, losses>>

WriteShort(w) ==
    /\ doing[w] = "write" /\ shorts < setting.shorts
    /\ \E n \in 0 .. Len(Buffer(w)) - 1 : file' = file \o SubSeq(Buffer(w), 1, n)
    /\ Proceed(w, IF w \in Batches /\ setting.locked THEN "cut" ELSE "failed")
    /\ shorts' = shorts + 1
    /\ UNCHANGED <<setting, durable, entry, creator, closes, before, losses>>

\* Cut a failed exclusive batch off the file; cutting may itself fail.  The
\* length check in front of it cannot fail here: the lock keeps others out.
CutBackToTheEnd(w) ==
    /\ doing[w] = "cut"
    /\ Proceed(w, "undone")
    /\ UNCHANGED <<setting, file, durable, entry, creator, closes, before, shorts, losses>>

CutBack(w) ==
    /\ doing[w] = "cut"
    /\ \/ /\ file' = SubSeq(file, 1, before[w])
          /\ durable' = Min({durable, before[w]})
          /\ Proceed(w, "undone")
       \/ Proceed(w, "failed") /\ UNCHANGED <<file, durable>>
    /\ UNCHANGED <<setting, entry, creator, closes, before, shorts, losses>>

SyncNothing(w) ==
    /\ doing[w] = "sync"
    /\ Proceed(w, IF creator[w] THEN "sync_dir" ELSE "done")
    /\ UNCHANGED <<setting, file, durable, entry, creator, closes, before, shorts, losses>>

Sync(w) ==
    /\ doing[w] = "sync"
    /\ durable' = Len(file)
    /\ Proceed(w, IF creator[w] THEN "sync_dir" ELSE "done")
    /\ UNCHANGED <<setting, file, entry, creator, closes, before, shorts, losses>>

SyncDir(w) ==
    /\ doing[w] = "sync_dir"
    /\ entry' = "durable"
    /\ Proceed(w, "done")
    /\ UNCHANGED <<setting, file, durable, creator, closes, before, shorts, losses>>

----------------------------------------------------------------------------
\* The process is killed, or a call other than the write returns an error.
Kill(w) ==
    /\ Running(w)
    /\ Proceed(w, "failed")
    /\ UNCHANGED <<setting, file, durable, entry, creator, closes, before, shorts, losses>>

\* What was not synced survives up to any point; an entry that was not, maybe.
PowerLoss ==
    /\ losses < setting.losses
    /\ losses' = losses + 1
    /\ \/ /\ \E n \in durable .. Len(file) : file' = SubSeq(file, 1, n) /\ durable' = n
          /\ entry' = IF entry = "cached" THEN "durable" ELSE entry
       \/ entry = "cached" /\ entry' = "none" /\ file' = <<>> /\ durable' = 0
    /\ doing' = [w \in Writers |-> IF Running(w) THEN "failed" ELSE doing[w]]
    /\ UNCHANGED <<setting, creator, closes, before, shorts>>

LedgerNext ==
    \/ \E w \in Writers :
          \/ Open(w) \/ ProbeTail(w) \/ WriteWhole(w) \/ WriteShort(w)
          \/ CutBack(w) \/ Sync(w) \/ SyncDir(w) \/ Kill(w)
    \/ PowerLoss

LedgerSpec == LedgerInit /\ [][LedgerNext]_ledgerVars

----------------------------------------------------------------------------
\* No sequence of failures within the bounds makes the whole ledger
\* unreadable: "one torn append must not stop every run" (TornLines::Skip).
NeverStopsReaders == Reads(file)

Appended(W) == UNION {ToSet(RecordsOf[w]) : w \in {v \in W : doing[v] = "done"}}

\* A record whose append_jsonl returned Ok is in every later read: it is not
\* glued to a torn one, not cut off, and not lost with the power.  The batches of
\* the crystal ledger are not synced: theirs are as long as the power stays on.
AckedStaysReadable ==
    /\ Appended(Writers \ Batches) \subseteq Readable(file)
    /\ losses = 0 => Appended(Batches) \subseteq Readable(file)

\* Cutting back a failed batch takes every piece of it, and no record of
\* another writer ("leaving no partial record for a strict reader to fail on").
UndoneBatchIsGone ==
    [][\A w \in Batches : doing[w] = "cut" /\ doing'[w] = "undone"
         => /\ \A i \in DOMAIN file' : file'[i] # NL => file'[i][1] \notin ToSet(RecordsOf[w])
            /\ Readable(file) \ ToSet(RecordsOf[w]) \subseteq Readable(file')]_ledgerVars

\* For every reader the file is an append-only list of records.
Ledger == INSTANCE AppendOnlyLedger WITH
              log <- Read(file), promised <- Appended(Writers \ Batches)
ImplementsLedger == Ledger!Spec

----------------------------------------------------------------------------
(* Why                                                                     *)

\* What may go wrong between two records: one short write with the others locked
\* out, or one power loss once the ledger's entry is on disk.
OneFailure ==
    \A s \in Settings :
        /\ s.shorts + s.losses <= 1
        /\ s.shorts > 0 => s.locked
        /\ s.losses > 0 => ~s.new

LedgerTypeOK ==
    /\ setting \in Settings
    /\ file \in Seq(Pieces)
    /\ durable \in 0 .. Len(file)
    /\ entry \in {"none", "cached", "durable"}
    /\ doing \in [Writers -> {"idle", "probe", "write", "cut", "sync", "sync_dir",
                              "done", "undone", "failed"}]
    /\ creator \in [Writers -> BOOLEAN]
    /\ closes \in [Writers -> BOOLEAN]
    /\ before \in [Writers -> Nat]
    /\ shorts \in 0 .. setting.shorts
    /\ losses \in 0 .. setting.losses

\* A record opens a line, and what ends it follows at once.
Shaped(f) ==
    \A i \in DOMAIN f, x \in Records \cup {Mark} :
        /\ f[i] = Opening(x) => i = 1 \/ f[i - 1] = NL
        /\ f[i] = Ending(x) => i > 1 /\ f[i - 1] = Opening(x)

EndsLine(f) == f # <<>> => f[Len(f)] = NL

\* No record is torn, or only the last one is.
Untorn(f) ==
    \A i \in DOMAIN f, x \in Records \cup {Mark} :
        f[i] = Opening(x) /\ i < Len(f) => f[i + 1] = Ending(x)

\* Every torn record but the last is followed by a marker.
TearsAreMarked(f) ==
    \A i \in DOMAIN f, x \in Records \cup {Mark} :
        f[i] = Opening(x) /\ i < Len(f) =>
            \/ f[i + 1] = Ending(x)
            \/ /\ f[i + 1] = NL /\ i + 3 <= Len(f)
               /\ f[i + 2] = Opening(Mark) /\ f[i + 3] = Ending(Mark)

StoredIn(f, r, n) ==
    \E i \in DOMAIN f : i < n /\ f[i] = Opening(r) /\ i < Len(f) /\ f[i + 1] = Ending(r)
IsOf(w, p) == \E r \in ToSet(RecordsOf[w]) : p = Opening(r) \/ p = Ending(r)

FileInv ==
    /\ Shaped(file) /\ TearsAreMarked(file)
    /\ shorts + losses = 0 => Untorn(file) /\ EndsLine(file)

\* What a writer has seen still holds when it writes or cuts.
WriterInv ==
    /\ ~setting.new => entry = "durable"
    /\ setting.locked => \A v, w \in Writers : Running(v) /\ Running(w) => v = w
    /\ \A w \in Writers :
        /\ setting.locked /\ doing[w] \in {"probe", "write"} => before[w] = Len(file)
        /\ doing[w] = "write" =>
              IF closes[w] THEN shorts + losses > 0 ELSE EndsLine(file)
        /\ doing[w] \in {"idle", "probe", "write"} => \A i \in DOMAIN file : ~IsOf(w, file[i])
        /\ doing[w] = "cut" =>
              /\ setting.locked /\ shorts > 0
              /\ before[w] <= Len(file) /\ Untorn(file)
              /\ \A i \in DOMAIN file : IF i <= before[w] THEN ~IsOf(w, file[i])
                                        ELSE file[i] = NL \/ IsOf(w, file[i])
        /\ IF w \in Batches THEN doing[w] \notin {"sync", "sync_dir"}
                            ELSE doing[w] \notin {"cut", "undone"}

\* Where the records of an append are, from its write on.
StoreInv ==
    \A w \in Writers : \A r \in ToSet(RecordsOf[w]) :
        /\ w \notin Batches =>
              /\ doing[w] = "sync" => StoredIn(file, r, Len(file))
              /\ doing[w] \in {"sync_dir", "done"} => StoredIn(file, r, durable)
        /\ w \in Batches /\ doing[w] = "done" /\ losses = 0 => StoredIn(file, r, Len(file))

LedgerInv == LedgerTypeOK /\ FileInv /\ WriterInv /\ StoreInv
=============================================================================
