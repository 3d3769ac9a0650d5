-------------------------- MODULE DailyLoopProofs --------------------------
(***************************************************************************)
(* Proofs about the daily run: its loop (DailyLoop), the ledgers that it   *)
(* and the other commands append to (LedgerAppend), and the lock it runs   *)
(* under (RunLock).                                                        *)
(*                                                                         *)
(* The loop, for any inbox, any contents and any number of edits, crashes  *)
(* and forced runs.                                                        *)
(*                                                                         *)
(* The ledgers, for any writers and records, under OneFailure.  LedgerInv  *)
(* is inductive: every record opens a line and only the last one may be    *)
(* torn without a marker behind it, what a writer saw still holds when it  *)
(* writes or cuts, and acknowledged records are on disk.  A file of that   *)
(* shape is one parse_ledger reads (ShapedFilesRead), and its records are  *)
(* those stored whole (StoredIsReadable).  Of two such files, one of which *)
(* begins with the other, one reads as a continuation of the other         *)
(* (ReadContinues): that makes every step one of AppendOnlyLedger.         *)
(*                                                                         *)
(* The lock, for any number of threads and processes.  It rests on         *)
(* QuietExit.  LockInv is inductive under it: the file a holder or         *)
(* reclaimer counts on carries its name, a stamp tells the truth about its *)
(* creator, and what a deleter learned from a probe is still so when it    *)
(* deletes.                                                                *)
(***************************************************************************)
EXTENDS DailyLoop, LedgerAppend, RunLock, FiniteSetTheorems, SequenceTheorems, TLAPS

----------------------------------------------------------------------------
(* The loop                                                                *)

LEMMA ScanOrderIsStrict ==
  ASSUME NEW p \in Paths, NEW q \in Paths, Rank[p] <= Rank[q], Rank[q] <= Rank[p]
  PROVE  p = q
  BY DailyConstants

\* Two files are never both the first in scan order.
LEMMA CurrentIsUnique ==
  ASSUME NEW p \in Paths, NEW q \in Paths, IsCurrent(p), IsCurrent(q)
  PROVE  p = q
  BY ScanOrderIsStrict DEF IsCurrent, Waiting

LEMMA InitEstablishesDailyInv == Init => DailyInv
  <1> SUFFICES ASSUME Init PROVE DailyInv
    OBVIOUS
  <1> USE DailyConstants DEF Init, Held, NoAttempts, Nothing, Waiting
  <1>1. TypeOK
    BY DEF TypeOK, Steps
  <1>2. SucceedsOnce /\ PackedIsLogged
    BY DEF SucceedsOnce, PackedIsLogged
  <1> QED
    BY <1>1, <1>2 DEF DailyInv

\* A new plan: todo holds each content once and none that succeeded.
LEMMA StartKeepsDailyInv ==
  ASSUME DailyInv, NEW b \in BOOLEAN, Start(b)
  PROVE  DailyInv'
  <1> USE DailyConstants DEF DailyInv, TypeOK, Held, Steps
  <1> DEFINE batch == Batch(Todo(b))
  <1>1. batch \subseteq Todo(b) /\ batch \subseteq Paths
    BY DEF Batch, Todo
  <1>2. planned' = [p \in Paths |-> IF p \in batch THEN raw[p] ELSE NoFile]
    BY DEF Start
  <1>3. Waiting' = batch
    BY <1>1, <1>2 DEF Waiting, Todo
  <1>4. UNCHANGED <<raw, processed, ledger, log, packs, text, disturbed, edits, crashes>> /\ pc' = "check"
    BY DEF Start, disk
  <1>5. TypeOK'
    BY <1>2, <1>4 DEF Start
  <1>6. \A p \in batch : planned'[p] = raw[p]
    BY <1>1, <1>2
  <1>7. \A p, q \in Waiting' : planned'[p] = planned'[q] => p = q
    <2> SUFFICES ASSUME NEW p \in batch, NEW q \in batch, raw[p] = raw[q]
                 PROVE  p = q
      BY <1>3, <1>6
    <2>1. p \in Paths /\ q \in Paths /\ FirstOfItsContent(p) /\ FirstOfItsContent(q)
      BY <1>1 DEF Todo
    <2>2. Rank[p] <= Rank[q] /\ Rank[q] <= Rank[p]
      BY <2>1 DEF FirstOfItsContent
    <2> QED
      BY <2>1, <2>2, ScanOrderIsStrict
  <1>8. \A p \in Waiting' : ~Succeeded(planned[p])'
    BY <1>1, <1>3, <1>4, <1>6 DEF Todo, Succeeded
  <1>9. SucceedsOnce' /\ PackedIsLogged'
    BY <1>4 DEF SucceedsOnce, PackedIsLogged
  <1> QED
    BY <1>4, <1>5, <1>7, <1>8, <1>9

\* Steps that leave the ledger and the plan alone.
LEMMA WorkKeepsDailyInv ==
  ASSUME DailyInv, NEW p \in Paths, IsCurrent(p),
         CheckHash(p) \/ ParseSource(p) \/ Distil(p) \/ LogPack(p)
  PROVE  DailyInv'
  <1> USE DailyConstants DEF DailyInv, TypeOK, Held, Steps, disk, bounds
  <1>1. planned' = planned /\ ledger' = ledger
    BY DEF CheckHash, ParseSource, Distil, LogPack
  <1>2. Waiting' = Waiting /\ \A q \in Paths : IsCurrent(q)' <=> IsCurrent(q)
    BY <1>1 DEF Waiting, IsCurrent
  <1>3. \A q \in Waiting : IsCurrent(q) => q = p
    BY CurrentIsUnique DEF Waiting
  <1>4. p \in Waiting /\ planned[p] \in Contents
    BY DEF IsCurrent, Waiting
  <1>5. \A q \in Waiting : ~Succeeded(planned[q])
    BY DEF CheckHash, ParseSource, Distil, LogPack
  <1>6. \A q \in Waiting' : ~Succeeded(planned[q])'
    BY <1>1, <1>2, <1>5 DEF Succeeded
  <1>7. SucceedsOnce' /\ packs \subseteq packs' /\ log \subseteq log'
    BY <1>1 DEF SucceedsOnce, CheckHash, ParseSource, Distil, LogPack
  <1>8. PackedIsLogged'
    BY <1>1, <1>7 DEF PackedIsLogged
  <1> DEFINE Progress(q) ==
          /\ pc \in {"distil", "index_only", "log_pack", "packed"} => text # NoFile
          /\ pc \in {"log_pack", "packed"} => \E t \in Contents : <<planned[q], t>> \in packs
          /\ pc = "packed" => <<"reader_pack_write", planned[q]>> \in log
  <1>9. Progress(p)
    BY <1>4
  <1>10. TypeOK' /\ pc' # "off" /\ Progress(p)'
    <2>1. CASE CheckHash(p)
      BY <1>1, <1>4, <2>1 DEF CheckHash
    <2>2. CASE ParseSource(p)
      BY <1>1, <1>4, <2>2 DEF ParseSource
    <2>3. CASE Distil(p)
      <3>1. text \in Contents
        BY <1>9, <2>3 DEF Distil
      <3>2. UNCHANGED <<raw, processed, ledger, log, planned, text, forced, disturbed, bounds>>
        BY <2>3 DEF Distil
      <3>3. \/ packs' = packs \cup {<<planned[p], text>>} /\ pc' \in {"log_pack", "failed"}
            \/ packs' = packs /\ pc' = "failed"
        BY <2>3 DEF Distil
      <3> QED
        BY <1>4, <3>1, <3>2, <3>3
    <2>4. CASE LogPack(p)
      <3>1. UNCHANGED <<raw, processed, ledger, packs, planned, text, forced, disturbed, bounds>>
        BY <2>4 DEF LogPack
      <3>2. pc = "log_pack" /\ pc' = "packed"
            /\ log' = log \cup {<<"reader_pack_write", planned[p]>>}
        BY <2>4 DEF LogPack
      <3>3. TypeOK'
        BY <1>4, <3>1, <3>2
      <3> QED
        BY <1>4, <1>9, <3>1, <3>2, <3>3
    <2> QED
      BY <2>1, <2>2, <2>3, <2>4
  <1>11. \A q \in Waiting' : IsCurrent(q)' => Progress(q)'
    <2> SUFFICES ASSUME NEW q \in Waiting, IsCurrent(q)' PROVE Progress(q)'
      BY <1>2
    <2>1. q = p
      BY <1>2, <1>3 DEF Waiting
    <2> QED
      BY <1>10, <2>1
  <1> QED
    BY <1>1, <1>2, <1>6, <1>7, <1>8, <1>10, <1>11

\* The end of a source: the plan loses it, and the next one is not recorded.
LEMMA FinishLeavesTheRest ==
  ASSUME DailyInv, NEW p \in Paths, IsCurrent(p), Finish(p)
  PROVE  /\ Waiting' = Waiting \ {p}
         /\ \A q \in Waiting' : planned'[q] = planned[q]
         /\ pc' \in {"off", "check"} /\ (pc' = "off" => Waiting' = {})
         /\ planned' \in [Paths -> Held] /\ text' = NoFile
  BY DailyConstants DEF DailyInv, TypeOK, Finish, IsCurrent, Waiting, Held

\* Recording an attempt, success or failure.
LEMMA RecordKeepsDailyInv ==
  ASSUME DailyInv, NEW p \in Paths, IsCurrent(p), RecordFailure(p) \/ RecordSuccess(p)
  PROVE  DailyInv'
  <1> USE DEF disk, bounds
  <1>1. TypeOK /\ SucceedsOnce /\ PackedIsLogged
    BY DEF DailyInv
  <1>2. p \in Waiting /\ planned[p] \in Contents
    BY <1>1 DEF IsCurrent, Waiting, TypeOK, Held
  <1>3. \A q \in Waiting : Succeeded(planned[q]) => pc \in {"move", "log_move"}
    BY DEF DailyInv
  <1>4. ~Succeeded(planned[p])
    BY <1>2, <1>3 DEF RecordFailure, RecordSuccess
  <1>5. \A q \in Waiting : q # p => planned[q] # planned[p]
    BY <1>2 DEF DailyInv
  <1>6. CASE RecordFailure(p)
    <2>1. ledger' = [ledger EXCEPT ![planned[p]].failed = @ + 1] /\ Finish(p)
      BY <1>6 DEF RecordFailure
    <2>2. UNCHANGED <<raw, processed, log, packs, forced, disturbed, bounds>>
      BY <1>6 DEF RecordFailure
    <2>3. TypeOK'
      BY <1>1, <1>2, <2>1, <2>2, FinishLeavesTheRest DEF TypeOK, Held, Steps
    <2>4. \A h \in Contents : ledger'[h].packed = ledger[h].packed
                             /\ ledger'[h].indexed = ledger[h].indexed
      BY <1>1, <2>1 DEF TypeOK
    <2>5. SucceedsOnce' /\ PackedIsLogged'
      BY <1>1, <2>2, <2>4 DEF SucceedsOnce, PackedIsLogged
    <2>6. \A q \in Waiting' : ~Succeeded(planned[q])'
      <3> SUFFICES ASSUME NEW q \in Waiting' PROVE ~Succeeded(planned[q])'
        OBVIOUS
      <3>1. q \in Waiting /\ planned'[q] = planned[q] /\ planned[q] \in Contents
        BY <1>1, <2>1, FinishLeavesTheRest DEF Waiting, TypeOK, Held
      <3>2. ~Succeeded(planned[q])
        BY <1>3, <1>6, <3>1 DEF RecordFailure
      <3> QED
        BY <2>4, <3>1, <3>2 DEF Succeeded
    <2>7. \A q, r \in Waiting' : planned'[q] = planned'[r] => q = r
      BY <2>1, FinishLeavesTheRest DEF DailyInv
    <2> QED
      BY <2>1, <2>3, <2>5, <2>6, <2>7, FinishLeavesTheRest DEF DailyInv
  <1>7. CASE RecordSuccess(p)
    <2>1. UNCHANGED <<raw, processed, log, packs, planned, text, forced, disturbed, bounds>> /\ pc' = "move"
      BY <1>7 DEF RecordSuccess
    <2>2. \/ pc = "packed" /\ ledger' = [ledger EXCEPT ![planned[p]].packed = @ + 1]
          \/ pc = "index_only" /\ ledger' = [ledger EXCEPT ![planned[p]].indexed = @ + 1]
      BY <1>7 DEF RecordSuccess
    <2>3. TypeOK' /\ SucceedsOnce'
      <3>1. CASE ledger' = [ledger EXCEPT ![planned[p]].packed = @ + 1]
        BY <1>1, <1>2, <1>4, <2>1, <3>1 DEF SucceedsOnce, Succeeded, TypeOK, Steps
      <3>2. CASE ledger' = [ledger EXCEPT ![planned[p]].indexed = @ + 1]
        BY <1>1, <1>2, <1>4, <2>1, <3>2 DEF SucceedsOnce, Succeeded, TypeOK, Steps
      <3> QED
        BY <2>2, <3>1, <3>2
    <2>5. pc = "packed" => /\ <<"reader_pack_write", planned[p]>> \in log
                           /\ \E t \in Contents : <<planned[p], t>> \in packs
      BY <1>2 DEF DailyInv
    <2>6. PackedIsLogged'
      BY <1>1, <1>2, <2>1, <2>2, <2>5 DEF PackedIsLogged, TypeOK
    <2>7. Waiting' = Waiting /\ \A q \in Paths : IsCurrent(q)' <=> IsCurrent(q)
      BY <2>1 DEF Waiting, IsCurrent
    <2>8. \A q \in Waiting' : Succeeded(planned[q])' => q = p
      <3> SUFFICES ASSUME NEW q \in Waiting, q # p PROVE ~Succeeded(planned[q])'
        BY <2>7
      <3>1. planned[q] # planned[p] /\ planned[q] \in Contents
        BY <1>1, <1>5 DEF Waiting, TypeOK, Held
      <3>2. ~Succeeded(planned[q])
        BY <1>3, <2>2
      <3> QED
        BY <1>1, <1>2, <2>1, <2>2, <3>1, <3>2 DEF Succeeded, TypeOK
    <2>9. \A q, r \in Waiting' : planned'[q] = planned'[r] => q = r
      BY <2>1, <2>7 DEF DailyInv
    <2> QED
      BY <1>2, <2>1, <2>3, <2>6, <2>7, <2>8, <2>9 DEF DailyInv, Waiting
  <1> QED
    BY <1>6, <1>7

\* Moving the current source, once its success is recorded.
LEMMA MoveKeepsDailyInv ==
  ASSUME DailyInv, NEW p \in Paths, IsCurrent(p), Move(p) \/ LogMove(p)
  PROVE  DailyInv'
  <1> USE DEF disk, bounds
  <1>1. TypeOK /\ SucceedsOnce /\ PackedIsLogged
    BY DEF DailyInv
  <1>2. p \in Waiting /\ Waiting \subseteq Paths
    BY DEF IsCurrent, Waiting
  <1>3. UNCHANGED <<ledger, packs, forced, disturbed, bounds>> /\ log \subseteq log'
    BY DEF Move, LogMove
  <1>4. SucceedsOnce' /\ PackedIsLogged'
    BY <1>1, <1>3 DEF SucceedsOnce, PackedIsLogged
  <1>5. raw' \in [Paths -> Held] /\ processed' \in [Paths \X NameSuffixes -> Held]
        /\ log' \subseteq ({"reader_pack_write"} \X Contents) \cup ({"source_processed_move"} \X Paths)
    <2>1. CASE LogMove(p)
      <3>1. log' \in {log, log \cup {<<"source_processed_move", p>>}}
        BY <2>1 DEF LogMove
      <3>2. UNCHANGED <<raw, processed>>
        BY <2>1 DEF LogMove
      <3> QED
        BY <1>1, <3>1, <3>2 DEF TypeOK
    <2>2. CASE Move(p)
      <3>1. CASE UNCHANGED <<raw, processed>>
        BY <1>1, <2>2, <3>1 DEF TypeOK, Move
      <3>2. CASE \E n \in NameSuffixes : processed' = [processed EXCEPT ![<<p, n>>] = raw[p]]
                                 /\ raw' = [raw EXCEPT ![p] = NoFile]
        BY <1>1, <2>2, <3>2 DEF TypeOK, Move, Held
      <3> QED
        BY <2>2, <3>1, <3>2 DEF Move
    <2> QED
      BY <2>1, <2>2
  <1>6. CASE Finish(p)
    <2>1. TypeOK'
      BY <1>1, <1>3, <1>5, <1>6, FinishLeavesTheRest DEF TypeOK, Steps, Held
    <2>2. \A q \in Waiting' : ~Succeeded(planned[q])'
      <3> SUFFICES ASSUME NEW q \in Waiting' PROVE ~Succeeded(planned[q])'
        OBVIOUS
      <3>1. q \in Waiting /\ q # p /\ planned'[q] = planned[q]
        BY <1>6, FinishLeavesTheRest
      <3>2. ~IsCurrent(q)
        BY <1>2, <3>1, CurrentIsUnique
      <3> QED
        BY <1>3, <3>1, <3>2 DEF Succeeded, DailyInv
    <2>3. \A q, r \in Waiting' : planned'[q] = planned'[r] => q = r
      BY <1>6, FinishLeavesTheRest DEF DailyInv
    <2> QED
      BY <1>4, <1>6, <2>1, <2>2, <2>3, FinishLeavesTheRest DEF DailyInv
  <1>7. CASE ~Finish(p)
    <2>1. pc = "move" /\ pc' = "log_move" /\ UNCHANGED <<planned, text>>
      BY <1>7 DEF Move, LogMove
    <2>2. TypeOK'
      BY <1>1, <1>3, <1>5, <2>1 DEF TypeOK, Steps
    <2>3. Waiting' = Waiting /\ \A q \in Paths : IsCurrent(q)' <=> IsCurrent(q)
      BY <2>1 DEF Waiting, IsCurrent
    <2>4. \A q \in Waiting' : Succeeded(planned[q])' => IsCurrent(q)'
      BY <1>2, <1>3, <2>1, <2>3 DEF Succeeded, DailyInv
    <2>5. \A q, r \in Waiting' : planned'[q] = planned'[r] => q = r
      BY <2>1, <2>3 DEF DailyInv
    <2> QED
      BY <1>4, <2>1, <2>2, <2>3, <2>4, <2>5 DEF DailyInv
  <1> QED
    BY <1>6, <1>7

\* Edits by others, and the end of the run.
LEMMA OthersKeepDailyInv ==
  ASSUME DailyInv, Crash \/ (\E p \in Paths, c \in Held : Edit(p, c))
  PROVE  DailyInv'
  <1> USE DEF disk, run, bounds
  <1>1. TypeOK /\ SucceedsOnce /\ PackedIsLogged
    BY DEF DailyInv
  <1>2. UNCHANGED <<processed, ledger, log, packs>>
    BY DEF Crash, Edit
  <1>3. SucceedsOnce' /\ PackedIsLogged'
    BY <1>1, <1>2 DEF SucceedsOnce, PackedIsLogged
  <1>4. CASE Crash
    <2>1. Waiting' = {} /\ TypeOK'
      BY <1>1, <1>4 DEF Crash, Nothing, Waiting, TypeOK, Held, Steps
    <2> QED
      BY <1>3, <2>1 DEF DailyInv
  <1>5. ASSUME NEW p \in Paths, NEW c \in Held, Edit(p, c) PROVE DailyInv'
    <2>1. UNCHANGED <<ledger, log, packs, pc, planned, text, forced>>
      BY <1>5 DEF Edit
    <2>2. TypeOK'
      BY <1>1, <1>5, <2>1 DEF Edit, TypeOK, Held, Steps, IsCurrent, Waiting
    <2>3. Waiting' = Waiting /\ \A q \in Paths : IsCurrent(q)' <=> IsCurrent(q)
      BY <2>1 DEF Waiting, IsCurrent
    <2>4. Waiting \subseteq Paths /\ \A q \in Paths : Succeeded(planned[q])' <=> Succeeded(planned[q])
      BY <2>1 DEF Succeeded, Waiting
    <2> QED
      BY <1>3, <2>1, <2>2, <2>3, <2>4 DEF DailyInv
  <1> QED
    BY <1>4, <1>5

\* The inductive invariant of the daily loop.
THEOREM DailyInvariant == Spec => []DailyInv
  <1>1. DailyInv /\ Next => DailyInv'
    BY StartKeepsDailyInv, WorkKeepsDailyInv, RecordKeepsDailyInv, MoveKeepsDailyInv,
       OthersKeepDailyInv DEF Next, Process
  <1>2. DailyInv /\ UNCHANGED vars => DailyInv'
    BY DEF vars, disk, run, bounds, DailyInv, TypeOK, SucceedsOnce, PackedIsLogged,
           Waiting, IsCurrent, Succeeded
  <1> QED
    BY InitEstablishesDailyInv, <1>1, <1>2, PTL DEF Spec

\* Whatever is edited or killed, no content is recorded as succeeded twice.
THEOREM NoContentSucceedsTwice == Spec => []SucceedsOnce
  <1>1. DailyInv => SucceedsOnce
    BY DEF DailyInv
  <1> QED
    BY DailyInvariant, <1>1, PTL

\* A success that names a pack has the pack and its write-log event.
THEOREM PackedSuccessIsLogged == Spec => []PackedIsLogged
  <1>1. DailyInv => PackedIsLogged
    BY DEF DailyInv
  <1> QED
    BY DailyInvariant, <1>1, PTL

----------------------------------------------------------------------------
(* What is distilled and what is moved, under edits of the inbox.          *)

\* What succeeded once has succeeded for good.
LEMMA SuccessIsForever ==
  ASSUME TypeOK, Next, NEW h \in Contents, Succeeded(h)
  PROVE  Succeeded(h)'
  <1>1. CASE ledger' = ledger
    BY <1>1 DEF Succeeded
  <1>2. CASE \E p \in Paths : IsCurrent(p) /\ (RecordFailure(p) \/ RecordSuccess(p))
    <2> PICK p \in Paths : IsCurrent(p) /\ (RecordFailure(p) \/ RecordSuccess(p))
      BY <1>2
    <2>1. planned[p] \in Contents
      BY DEF TypeOK, IsCurrent, Waiting, Held
    <2>2. CASE ledger' = [ledger EXCEPT ![planned[p]].failed = @ + 1]
      BY <2>1, <2>2 DEF TypeOK, Succeeded
    <2>3. CASE ledger' = [ledger EXCEPT ![planned[p]].packed = @ + 1]
      BY <2>1, <2>3 DEF TypeOK, Succeeded
    <2>4. CASE ledger' = [ledger EXCEPT ![planned[p]].indexed = @ + 1]
      BY <2>1, <2>4 DEF TypeOK, Succeeded
    <2> QED
      BY <2>2, <2>3, <2>4 DEF RecordFailure, RecordSuccess
  <1> QED
    BY <1>1, <1>2 DEF Next, Process, Start, CheckHash, ParseSource, Distil, LogPack, Move,
       LogMove, Edit, Crash, disk

\* A step leaves the current source current, or moves on to a check.
LEMMA CurrentStaysOrIsChecked ==
  ASSUME DailyInv, NEW p \in Paths, IsCurrent(p), Process(p)
  PROVE  \/ Finish(p)
         \/ planned' = planned /\ Waiting' = Waiting
            /\ \A q \in Waiting' : IsCurrent(q)' => q = p
  <1>1. CASE planned' = planned
    BY <1>1, CurrentIsUnique DEF Waiting, IsCurrent
  <1> QED
    BY <1>1 DEF Process, CheckHash, ParseSource, Distil, LogPack, RecordFailure,
       RecordSuccess, Move, LogMove

\* The step of a source keeps HashInv.
LEMMA ProcessKeepsHashInv ==
  ASSUME DailyInv, HashInv, NEW p \in Paths, Process(p)
  PROVE  HashInv'
  <1> USE DEF disk, bounds
  <1>1. IsCurrent(p) /\ p \in Waiting /\ planned[p] \in Contents /\ disturbed' = disturbed
    BY DEF Process, IsCurrent, Waiting, DailyInv, TypeOK, Held, CheckHash, ParseSource, Distil,
       LogPack, RecordFailure, RecordSuccess, Move, LogMove
  <1>2. TypeOK /\ Next
    BY DEF DailyInv, Next
  <1>3. \A h \in Contents : Succeeded(h) => Succeeded(h)'
    BY <1>2, SuccessIsForever
  <1>4. ProcessedIsRecorded'
    <2>1. CASE processed' = processed
      BY <1>1, <1>2, <1>3, <2>1 DEF HashInv, HashesAreTrue, ProcessedIsRecorded, TypeOK, Held
    <2>2. CASE Move(p) /\ processed' # processed
      <3>1. PICK n \in NameSuffixes : processed' = [processed EXCEPT ![<<p, n>>] = raw[p]]
        BY <2>2 DEF Move
      <3>2. Succeeded(raw[p]) \/ raw[p] \in disturbed
        BY <1>1, <2>2 DEF Move, HashInv, CheckedSteps
      <3>3. raw[p] \in Contents
        BY <1>1, <1>2, <2>2, FinishLeavesTheRest DEF Move, TypeOK, Held
      <3> QED
        BY <1>1, <1>2, <1>3, <3>1, <3>2, <3>3 DEF HashInv, HashesAreTrue, ProcessedIsRecorded, TypeOK, Held
    <2> QED
      BY <2>1, <2>2 DEF Process, CheckHash, ParseSource, Distil, LogPack, RecordFailure,
         RecordSuccess, LogMove
  <1>5. PackIsOfItsHash'
    <2>1. CASE packs' = packs
      BY <1>1, <2>1 DEF HashInv, HashesAreTrue, PackIsOfItsHash
    <2>2. CASE Distil(p)
      BY <1>1, <2>2 DEF Distil, HashInv, HashesAreTrue, PackIsOfItsHash
    <2> QED
      BY <2>1, <2>2 DEF Process, CheckHash, ParseSource, LogPack, RecordFailure,
         RecordSuccess, Move, LogMove
  <1>6. CASE Finish(p)
    BY <1>1, <1>4, <1>5, <1>6, FinishLeavesTheRest DEF HashInv, HashesAreTrue, CheckedSteps
  <1>7. CASE planned' = planned /\ Waiting' = Waiting /\ (\A q \in Waiting' : IsCurrent(q)' => q = p)
    <2>1. pc' \in CheckedSteps => raw'[p] = planned[p] \/ {raw'[p], planned[p]} \subseteq disturbed
      BY <1>1, <1>7, FinishLeavesTheRest DEF Process, CheckHash, ParseSource, Distil, LogPack,
         RecordFailure, RecordSuccess, Move, LogMove, HashInv, CheckedSteps
    <2>2. pc' = "distil" => text' = planned[p] \/ planned[p] \in disturbed
      BY <1>1, <1>7, FinishLeavesTheRest DEF Process, CheckHash, ParseSource, Distil, LogPack,
         RecordFailure, RecordSuccess, Move, LogMove, HashInv, CheckedSteps
    <2>3. pc' = "move" => Succeeded(planned[p])'
      <3> SUFFICES ASSUME RecordSuccess(p) PROVE Succeeded(planned[p])'
        BY <1>1, <1>7, FinishLeavesTheRest DEF Process, CheckHash, ParseSource, Distil,
           LogPack, RecordFailure, Move, LogMove
      <3>1. CASE ledger' = [ledger EXCEPT ![planned[p]].packed = @ + 1]
        BY <1>1, <1>2, <1>7, <3>1 DEF Succeeded, TypeOK
      <3>2. CASE ledger' = [ledger EXCEPT ![planned[p]].indexed = @ + 1]
        BY <1>1, <1>2, <1>7, <3>2 DEF Succeeded, TypeOK
      <3> QED
        BY <3>1, <3>2 DEF RecordSuccess
    <2> QED
      BY <1>1, <1>4, <1>5, <1>7, <2>1, <2>2, <2>3 DEF HashInv, HashesAreTrue
  <1> QED
    BY <1>1, <1>6, <1>7, CurrentStaysOrIsChecked

\* An edit of the source being processed disturbs what is planned for it.
LEMMA EditKeepsHashInv ==
  ASSUME DailyInv, HashInv, NEW q \in Paths, NEW c \in Held, Edit(q, c)
  PROVE  HashInv'
  <1>1. /\ UNCHANGED <<packs, processed, ledger, pc, planned, text>>
        /\ raw' = [raw EXCEPT ![q] = c] /\ disturbed \subseteq disturbed'
    BY DEF Edit, run
  <1>2. Waiting' = Waiting /\ \A p \in Paths : IsCurrent(p)' <=> IsCurrent(p)
    BY <1>1 DEF Waiting, IsCurrent
  <1>3. HashesAreTrue'
    BY <1>1 DEF HashInv, HashesAreTrue, PackIsOfItsHash, ProcessedIsRecorded, Succeeded
  <1>4. ASSUME NEW p \in Waiting, IsCurrent(p), pc \in CheckedSteps
        PROVE  raw'[p] = planned[p] \/ {raw'[p], planned[p]} \subseteq disturbed'
    <2>1. CASE p = q
      BY <1>1, <1>4, <2>1 DEF Edit, DailyInv, TypeOK
    <2>2. CASE p # q
      BY <1>1, <1>4, <2>2 DEF HashInv, Waiting, DailyInv, TypeOK
    <2> QED
      BY <2>1, <2>2
  <1> QED
    BY <1>1, <1>2, <1>3, <1>4 DEF HashInv, Waiting, Succeeded

\* What is read, distilled and moved is what was planned, unless it is edited
\* while it is processed.
THEOREM HashInvariant == Spec => []HashInv
  <1>1. Init => HashInv
    BY DEF Init, HashInv, Waiting, Nothing, HashesAreTrue, PackIsOfItsHash, ProcessedIsRecorded
  <1>2. ASSUME DailyInv, HashInv, NEW b \in BOOLEAN, Start(b) PROVE HashInv'
    BY <1>2 DEF Start, disk, HashInv, CheckedSteps, HashesAreTrue, PackIsOfItsHash,
       ProcessedIsRecorded, Succeeded
  <1>3. ASSUME DailyInv, HashInv, Crash PROVE HashInv'
    BY <1>3 DEF Crash, disk, HashInv, CheckedSteps, HashesAreTrue, PackIsOfItsHash,
       ProcessedIsRecorded, Succeeded
  <1>4. HashInv /\ UNCHANGED vars => HashInv'
    BY DEF vars, disk, run, bounds, HashInv, Waiting, IsCurrent, Succeeded, HashesAreTrue,
       PackIsOfItsHash, ProcessedIsRecorded
  <1>5. DailyInv /\ HashInv /\ [Next]_vars => HashInv'
    BY <1>2, <1>3, <1>4, ProcessKeepsHashInv, EditKeepsHashInv DEF Next
  <1> QED
    BY DailyInvariant, <1>1, <1>5, PTL DEF Spec

\* Packs carry the hash of the text they were distilled from, and 03-Processed
\* holds only what the ledger knows, but for sources edited under the run.
THEOREM WhatCarriesAHashIsOfIt == Spec => []HashesAreTrue
  <1>1. HashInv => HashesAreTrue
    BY DEF HashInv
  <1> QED
    BY HashInvariant, <1>1, PTL

----------------------------------------------------------------------------
(* What a step may never do.                                               *)

\* A content that a run plans against the retry cap was asked for explicitly.
CapInv == \A p \in Waiting : Blocked(planned[p]) => forced

\* Only the failure of a planned content counts, and only once per run.
LEMMA OnlyRecordedFailuresCount ==
  ASSUME TypeOK, Next, NEW h \in Contents, ledger'[h].failed # ledger[h].failed
  PROVE  \E p \in Waiting : IsCurrent(p) /\ RecordFailure(p) /\ planned[p] = h
                            /\ ledger'[h].failed = ledger[h].failed + 1
  <1>1. ledger' # ledger
    OBVIOUS
  <1>2. PICK p \in Paths : IsCurrent(p) /\ (RecordFailure(p) \/ RecordSuccess(p))
    BY <1>1 DEF Next, Process, Start, CheckHash, ParseSource, Distil, LogPack, Move,
       LogMove, Edit, Crash, disk
  <1>3. p \in Waiting /\ planned[p] \in Contents
    BY <1>2 DEF TypeOK, IsCurrent, Waiting, Held
  <1>4. CASE RecordFailure(p)
    BY <1>2, <1>3, <1>4 DEF RecordFailure, TypeOK
  <1>5. CASE RecordSuccess(p)
    <2>1. \/ ledger' = [ledger EXCEPT ![planned[p]].packed = @ + 1]
          \/ ledger' = [ledger EXCEPT ![planned[p]].indexed = @ + 1]
      BY <1>5 DEF RecordSuccess
    <2> QED
      BY <1>3, <2>1 DEF TypeOK
  <1> QED
    BY <1>2, <1>4, <1>5

LEMMA StepKeepsCapInv ==
  ASSUME DailyInv, CapInv, Next
  PROVE  CapInv'
  <1> USE DEF disk, run, bounds
  <1>1. TypeOK
    BY DEF DailyInv
  <1>2. ASSUME NEW b \in BOOLEAN, Start(b) PROVE CapInv'
    <2> DEFINE batch == Batch(Todo(b))
    <2>1. planned' = [p \in Paths |-> IF p \in batch THEN raw[p] ELSE NoFile]
          /\ forced' = b /\ ledger' = ledger
      BY <1>2 DEF Start
    <2>2. batch \subseteq Todo(b) /\ batch \subseteq Paths
      BY DEF Batch, Todo
    <2>3. \A p \in Waiting' : p \in batch /\ planned'[p] = raw[p]
      BY <2>1, <2>2 DEF Waiting
    <2> QED
      BY <2>1, <2>2, <2>3 DEF CapInv, Todo, Blocked
  <1>3. ASSUME NEW p \in Paths, IsCurrent(p), RecordFailure(p) PROVE CapInv'
    <2>1. \A q \in Waiting' : q \in Waiting /\ q # p /\ planned'[q] = planned[q]
      BY <1>3, FinishLeavesTheRest DEF RecordFailure
    <2>2. p \in Waiting /\ forced' = forced
          /\ ledger' = [ledger EXCEPT ![planned[p]].failed = @ + 1]
      BY <1>3 DEF RecordFailure, IsCurrent
    <2>3. \A q \in Waiting' : planned[q] # planned[p]
      BY <2>1, <2>2 DEF DailyInv
    <2>4. \A q \in Waiting' : planned[q] \in Contents
      BY <1>1, <2>1 DEF Waiting, TypeOK, Held
    <2> QED
      BY <1>1, <2>1, <2>2, <2>3, <2>4 DEF CapInv, Blocked, TypeOK
  <1>4. ASSUME NEW p \in Paths, Process(p), ~RecordFailure(p) PROVE CapInv'
    <2>1. \A q \in Waiting' : q \in Waiting /\ planned'[q] = planned[q]
      BY <1>4, CurrentStaysOrIsChecked, FinishLeavesTheRest DEF Process
    <2>2. forced' = forced
      BY <1>4 DEF Process, CheckHash, ParseSource, Distil, LogPack, RecordSuccess, Move, LogMove
    <2>3. \A q \in Waiting : planned[q] \in Contents
      BY <1>1 DEF Waiting, TypeOK, Held
    <2>4. \A h \in Contents : ledger'[h].failed = ledger[h].failed
      <3>1. CASE ledger' = ledger
        BY <3>1
      <3>2. CASE RecordSuccess(p)
        <4>1. \/ ledger' = [ledger EXCEPT ![planned[p]].packed = @ + 1]
              \/ ledger' = [ledger EXCEPT ![planned[p]].indexed = @ + 1]
          BY <3>2 DEF RecordSuccess
        <4>2. CASE ledger' = [ledger EXCEPT ![planned[p]].packed = @ + 1]
          BY <1>1, <4>2 DEF TypeOK
        <4>3. CASE ledger' = [ledger EXCEPT ![planned[p]].indexed = @ + 1]
          BY <1>1, <4>3 DEF TypeOK
        <4> QED
          BY <4>1, <4>2, <4>3
      <3> QED
        BY <1>4, <3>1, <3>2 DEF Process, CheckHash, ParseSource, Distil, LogPack, Move, LogMove
    <2> QED
      BY <2>1, <2>2, <2>3, <2>4 DEF CapInv, Blocked
  <1>5. CASE \E p \in Paths, c \in Held : Edit(p, c)
    BY <1>5 DEF Edit, CapInv, Waiting, Blocked
  <1>6. CASE Crash
    BY <1>6 DEF Crash, CapInv, Waiting, Nothing
  <1> QED
    BY <1>2, <1>3, <1>4, <1>5, <1>6 DEF Next, Process

THEOREM CapInvariant == Spec => []CapInv
  <1>1. Init => CapInv
    BY DEF Init, CapInv, Waiting, Nothing
  <1>2. CapInv /\ UNCHANGED vars => CapInv'
    BY DEF vars, disk, run, CapInv, Waiting, Blocked
  <1>3. DailyInv /\ CapInv /\ [Next]_vars => CapInv'
    BY <1>2, StepKeepsCapInv
  <1> QED
    BY DailyInvariant, <1>1, <1>3, PTL DEF Spec

\* A content that failed as often as the cap allows fails again only in a run
\* started with --retry-blocked, whatever is edited under the run.
THEOREM BlockedStaysBlocked == Spec => RetriesAreCapped
  <1> DEFINE Capped == \A h \in Contents :
                         ledger'[h].failed > ledger[h].failed => ~Blocked(h) \/ forced
  <1>1. DailyInv /\ CapInv /\ [Next]_vars => [Capped]_vars
    <2> SUFFICES ASSUME DailyInv, CapInv, Next, NEW h \in Contents,
                        ledger'[h].failed > ledger[h].failed
                 PROVE  ~Blocked(h) \/ forced
      OBVIOUS
    <2>1. TypeOK
      BY DEF DailyInv
    <2>2. ledger'[h].failed # ledger[h].failed
      BY <2>1 DEF TypeOK
    <2>3. \E p \in Waiting : planned[p] = h
      BY <2>1, <2>2, OnlyRecordedFailuresCount
    <2> QED
      BY <2>3 DEF CapInv
  <1> QED
    BY DailyInvariant, CapInvariant, <1>1, PTL DEF Spec, RetriesAreCapped

\* The loop moves a file to a name that was free, so every content that was in
\* the inbox or in 03-Processed is still in one of them.
THEOREM MovesLoseNothing == Spec => NothingIsLost
  <1>1. TypeOK /\ [Next]_vars => [edits' = edits => Everything \ {NoFile} \subseteq Everything']_vars
    <2> SUFFICES ASSUME TypeOK, Next, edits' = edits,
                        NEW x \in Everything, x # NoFile
                 PROVE  x \in Everything'
      OBVIOUS
    <2>1. CASE UNCHANGED <<raw, processed>>
      BY <2>1 DEF Everything
    <2>2. CASE \E p \in Paths : Move(p) /\ ~UNCHANGED <<raw, processed>>
      <3>1. PICK p \in Paths : Move(p) /\ ~UNCHANGED <<raw, processed>>
        BY <2>2
      <3>2. PICK n \in NameSuffixes : IsTarget(p, n) /\ processed' = [processed EXCEPT ![<<p, n>>] = raw[p]]
                                 /\ raw' = [raw EXCEPT ![p] = NoFile]
        BY <3>1 DEF Move
      <3>3. <<p, n>> \in Paths \X NameSuffixes /\ processed[<<p, n>>] = NoFile
        BY <3>2 DEF IsTarget, Free
      <3>4. processed'[<<p, n>>] = raw[p]
        BY <3>2, <3>3 DEF TypeOK
      <3>5. CASE \E q \in Paths : x = raw[q]
        <4> PICK q \in Paths : x = raw[q]
          BY <3>5
        <4>1. CASE q = p
          BY <3>3, <3>4, <4>1 DEF Everything
        <4>2. CASE q # p
          BY <3>2, <4>2 DEF Everything, TypeOK
        <4> QED
          BY <4>1, <4>2
      <3>6. CASE \E m \in Paths \X NameSuffixes : x = processed[m]
        <4> PICK m \in Paths \X NameSuffixes : x = processed[m]
          BY <3>6
        <4>1. m # <<p, n>>
          BY <3>3
        <4>2. processed'[m] = x
          BY <3>2, <4>1 DEF TypeOK
        <4> QED
          BY <4>2 DEF Everything
      <3> QED
        BY <3>5, <3>6 DEF Everything
    <2>3. ASSUME NEW p \in Paths, NEW c \in Held, Edit(p, c) PROVE FALSE
      BY <2>3 DEF Edit, TypeOK
    <2> QED
      BY <2>1, <2>2, <2>3 DEF Next, Process, Start, CheckHash, ParseSource, Distil, LogPack,
         RecordFailure, RecordSuccess, LogMove, Crash, disk
  <1>2. DailyInv => TypeOK
    BY DEF DailyInv
  <1> QED
    BY DailyInvariant, <1>1, <1>2, PTL DEF Spec, NothingIsLost

----------------------------------------------------------------------------
(* The ledgers: what is written                                            *)

\* The pieces of different lines differ.
LEMMA PiecesDiffer ==
  /\ NL \in Pieces
  /\ \A x \in Records \cup {Mark} :
        /\ Opening(x) \in Pieces /\ Ending(x) \in Pieces
        /\ Opening(x) # NL /\ Ending(x) # NL
        /\ Opening(x)[1] = x
  /\ \A x, y : Opening(x) # Ending(y)
  /\ \A x, y : Opening(x) = Opening(y) => x = y
  /\ \A x, y : Ending(x) = Ending(y) => x = y
  <1>1. \A x \in Records \cup {Mark} : \A k \in {1, 2} : <<x, k>> \in Pieces /\ <<x, k>> # NL
    BY LedgerConstants DEF Pieces
  <1>2. NL \in Pieces
    BY DEF Pieces
  <1> QED
    BY <1>1, <1>2 DEF Opening, Ending

\* A piece is a newline, or opens or ends a line.
LEMMA PieceIsOneOf ==
  ASSUME NEW p \in Pieces
  PROVE  p = NL \/ \E x \in Records \cup {Mark} : p = Opening(x) \/ p = Ending(x)
  BY DEF Pieces, Opening, Ending

\* Where the pieces of an appended file are.
LEMMA Concatenated ==
  ASSUME NEW f \in Seq(Pieces), NEW g \in Seq(Pieces)
  PROVE  /\ Len(f) \in Nat /\ Len(g) \in Nat
         /\ DOMAIN f = 1 .. Len(f) /\ DOMAIN g = 1 .. Len(g)
         /\ f \o g \in Seq(Pieces) /\ Len(f \o g) = Len(f) + Len(g)
         /\ DOMAIN (f \o g) = 1 .. Len(f) + Len(g)
         /\ \A i \in 1 .. Len(f) : (f \o g)[i] = f[i]
         /\ \A i \in 1 .. Len(g) : (f \o g)[Len(f) + i] = g[i]
  OBVIOUS

\* Cutting the end off a file tears nothing but the end.
LEMMA PrefixIsShaped ==
  ASSUME NEW f \in Seq(Pieces), NEW n \in 0 .. Len(f), Shaped(f)
  PROVE  /\ SubSeq(f, 1, n) \in Seq(Pieces) /\ Len(SubSeq(f, 1, n)) = n
         /\ \A i \in 1 .. n : SubSeq(f, 1, n)[i] = f[i]
         /\ Shaped(SubSeq(f, 1, n))
         /\ Untorn(f) => Untorn(SubSeq(f, 1, n))
  <1> DEFINE g == SubSeq(f, 1, n)
  <1>1. /\ g \in Seq(Pieces) /\ Len(g) = n
        /\ \A i \in 1 .. n : g[i] = f[i]
    OBVIOUS
  <1>2. DOMAIN g = 1 .. n /\ DOMAIN f = 1 .. Len(f)
    BY <1>1
  <1> HIDE DEF g
  <1>3. Shaped(g)
    BY <1>1, <1>2 DEF Shaped
  <1>4. Untorn(f) => Untorn(g)
    BY <1>1, <1>2 DEF Untorn
  <1> QED
    BY <1>1, <1>3, <1>4 DEF g

\* What is appended after a newline, or begins with one, keeps the shape.
LEMMA AppendedIsShaped ==
  ASSUME NEW f \in Seq(Pieces), NEW g \in Seq(Pieces), Shaped(f), Shaped(g),
         EndsLine(f) \/ g = <<>> \/ g[1] = NL
  PROVE  Shaped(f \o g)
  <1> DEFINE h == f \o g
  <1>1. /\ DOMAIN h = 1 .. Len(f) + Len(g) /\ Len(h) = Len(f) + Len(g)
        /\ DOMAIN f = 1 .. Len(f) /\ DOMAIN g = 1 .. Len(g)
        /\ \A i \in 1 .. Len(f) : h[i] = f[i]
        /\ \A i \in 1 .. Len(g) : h[Len(f) + i] = g[i]
    BY Concatenated
  <1>0. Len(f) \in Nat /\ Len(g) \in Nat
    BY Concatenated
  <1> HIDE DEF h
  <1>2. SUFFICES ASSUME NEW i \in DOMAIN h, NEW x \in Records \cup {Mark}
                 PROVE  /\ h[i] = Opening(x) => i = 1 \/ h[i - 1] = NL
                        /\ h[i] = Ending(x) => i > 1 /\ h[i - 1] = Opening(x)
    BY DEF Shaped, h
  <1>3. CASE i <= Len(f)
    BY <1>1, <1>3 DEF Shaped
  <1>4. CASE i > Len(f) + 1
    <2>0. i - Len(f) \in 2 .. Len(g)
      BY <1>0, <1>1, <1>4
    <2>1. PICK j \in 2 .. Len(g) : i = Len(f) + j
      BY <1>0, <1>1, <2>0
    <2>2. h[i] = g[j] /\ h[i - 1] = g[j - 1] /\ i # 1
      <3>1. j \in 1 .. Len(g) /\ j - 1 \in 1 .. Len(g) /\ i - 1 = Len(f) + (j - 1)
        BY <1>0, <2>1
      <3>2. h[Len(f) + j] = g[j] /\ h[Len(f) + (j - 1)] = g[j - 1]
        BY <1>1, <3>1
      <3> QED
        BY <1>0, <2>1, <3>1, <3>2
    <2>3. j \in DOMAIN g /\ j # 1
      BY <1>1, <2>1
    <2>4. /\ g[j] = Opening(x) => j = 1 \/ g[j - 1] = NL
          /\ g[j] = Ending(x) => j > 1 /\ g[j - 1] = Opening(x)
      BY <2>3 DEF Shaped
    <2>5. i > 1
      BY <1>1, <2>1
    <2> QED
      BY <2>2, <2>3, <2>4, <2>5
  <1>5. CASE i = Len(f) + 1
    <2>1. h[i] = g[1] /\ 1 \in DOMAIN g /\ g # <<>>
      BY <1>1, <1>5
    <2>2. \A y \in Records \cup {Mark} : g[1] # Ending(y)
      <3>1. \A y \in Records \cup {Mark} : g[1] = Ending(y) => 1 > 1
        BY <2>1 DEF Shaped
      <3> QED
        BY <3>1
    <2>3. g[1] = NL \/ Len(f) = 0 \/ h[i - 1] = NL
      BY <1>1, <1>5, <2>1 DEF EndsLine
    <2> QED
      BY <1>5, <2>1, <2>2, <2>3, PiecesDiffer
  <1> QED
    BY <1>1, <1>3, <1>4, <1>5

\* With nothing torn there is nothing to mark.
LEMMA UntornIsMarked ==
  ASSUME NEW f, Untorn(f)
  PROVE  TearsAreMarked(f)
  BY DEF Untorn, TearsAreMarked

\* Whole lines behind whole lines are whole.
LEMMA AppendedIsUntorn ==
  ASSUME NEW f \in Seq(Pieces), NEW g \in Seq(Pieces), Untorn(f), Untorn(g), EndsLine(f)
  PROVE  Untorn(f \o g)
  <1> DEFINE h == f \o g
  <1>1. /\ DOMAIN h = 1 .. Len(f) + Len(g) /\ Len(h) = Len(f) + Len(g)
        /\ DOMAIN f = 1 .. Len(f) /\ DOMAIN g = 1 .. Len(g)
        /\ \A i \in 1 .. Len(f) : h[i] = f[i]
        /\ \A i \in 1 .. Len(g) : h[Len(f) + i] = g[i]
    BY Concatenated
  <1>0. Len(f) \in Nat /\ Len(g) \in Nat
    BY Concatenated
  <1> HIDE DEF h
  <1>2. SUFFICES ASSUME NEW i \in DOMAIN h, NEW x \in Records \cup {Mark},
                        h[i] = Opening(x), i < Len(h)
                 PROVE  h[i + 1] = Ending(x)
    BY DEF Untorn, h
  <1>3. CASE i < Len(f)
    BY <1>1, <1>2, <1>3 DEF Untorn
  <1>4. CASE i > Len(f)
    <2>0. i - Len(f) \in 1 .. Len(g)
      BY <1>0, <1>1, <1>4
    <2>1. PICK j \in 1 .. Len(g) : i = Len(f) + j
      BY <1>0, <1>1, <2>0
    <2>2. h[i] = g[j] /\ h[i + 1] = g[j + 1] /\ j < Len(g)
      BY <1>1, <1>2, <2>1
    <2> QED
      BY <1>1, <1>2, <2>1, <2>2 DEF Untorn
  <1>5. CASE i = Len(f)
    BY <1>1, <1>2, <1>5, PiecesDiffer DEF EndsLine
  <1> QED
    BY <1>1, <1>3, <1>4, <1>5

\* A torn record that is not the last stays marked, one that was the last must be
\* marked by what is appended.
LEMMA AppendedIsMarked ==
  ASSUME NEW f \in Seq(Pieces), NEW g \in Seq(Pieces), TearsAreMarked(f), TearsAreMarked(g),
         \/ EndsLine(f)
         \/ Len(g) >= 3 /\ g[1] = NL /\ g[2] = Opening(Mark) /\ g[3] = Ending(Mark)
  PROVE  TearsAreMarked(f \o g)
  <1> DEFINE h == f \o g
  <1>1. /\ DOMAIN h = 1 .. Len(f) + Len(g) /\ Len(h) = Len(f) + Len(g)
        /\ DOMAIN f = 1 .. Len(f) /\ DOMAIN g = 1 .. Len(g)
        /\ \A i \in 1 .. Len(f) : h[i] = f[i]
        /\ \A i \in 1 .. Len(g) : h[Len(f) + i] = g[i]
    BY Concatenated
  <1>0. Len(f) \in Nat /\ Len(g) \in Nat
    BY Concatenated
  <1> HIDE DEF h
  <1>2. SUFFICES ASSUME NEW i \in DOMAIN h, NEW x \in Records \cup {Mark},
                        h[i] = Opening(x), i < Len(h)
                 PROVE  \/ h[i + 1] = Ending(x)
                        \/ /\ h[i + 1] = NL /\ i + 3 <= Len(h)
                           /\ h[i + 2] = Opening(Mark) /\ h[i + 3] = Ending(Mark)
    BY DEF TearsAreMarked, h
  <1>3. CASE i < Len(f)
    <2>1. \/ f[i + 1] = Ending(x)
          \/ /\ f[i + 1] = NL /\ i + 3 <= Len(f)
             /\ f[i + 2] = Opening(Mark) /\ f[i + 3] = Ending(Mark)
      BY <1>1, <1>2, <1>3 DEF TearsAreMarked
    <2>2. i \in Nat /\ i + 1 \in 1 .. Len(f)
      BY <1>0, <1>1, <1>3
    <2>3. h[i + 1] = f[i + 1]
      BY <1>1, <2>2
    <2>4. i + 3 <= Len(f) => h[i + 2] = f[i + 2] /\ h[i + 3] = f[i + 3] /\ i + 3 <= Len(h)
      <3>1. i + 3 <= Len(f) => i + 2 \in 1 .. Len(f) /\ i + 3 \in 1 .. Len(f)
        BY <1>0, <2>2
      <3> QED
        BY <1>0, <1>1, <2>2, <3>1
    <2> QED
      BY <2>1, <2>3, <2>4
  <1>4. CASE i > Len(f)
    <2>0. i - Len(f) \in 1 .. Len(g) /\ i - Len(f) < Len(g)
      BY <1>0, <1>1, <1>2, <1>4
    <2>1. PICK j \in 1 .. Len(g) : i = Len(f) + j /\ j < Len(g)
      BY <1>0, <1>1, <2>0
    <2>2. h[i] = g[j]
      BY <1>1, <2>1
    <2>3. \/ g[j + 1] = Ending(x)
          \/ /\ g[j + 1] = NL /\ j + 3 <= Len(g)
             /\ g[j + 2] = Opening(Mark) /\ g[j + 3] = Ending(Mark)
      BY <1>1, <1>2, <2>1, <2>2 DEF TearsAreMarked
    <2>4. h[i + 1] = g[j + 1]
      <3>1. j + 1 \in 1 .. Len(g) /\ i + 1 = Len(f) + (j + 1)
        BY <1>0, <2>1
      <3> QED
        BY SMTT(30), <1>1, <3>1
    <2>5. j + 3 <= Len(g) => h[i + 2] = g[j + 2] /\ h[i + 3] = g[j + 3] /\ i + 3 <= Len(h)
      <3>1. ASSUME j + 3 <= Len(g)
            PROVE  /\ j + 2 \in 1 .. Len(g) /\ i + 2 = Len(f) + (j + 2)
                   /\ j + 3 \in 1 .. Len(g) /\ i + 3 = Len(f) + (j + 3)
        BY <1>0, <2>1, <3>1
      <3> QED
        BY <1>0, <1>1, <2>1, <3>1
    <2> QED
      BY <2>3, <2>4, <2>5
  <1>5. CASE i = Len(f)
    <2>1. f # <<>> /\ f[Len(f)] = Opening(x)
      BY <1>1, <1>2, <1>5
    <2>2. ~EndsLine(f)
      BY <2>1, PiecesDiffer DEF EndsLine
    <2>3. Len(g) >= 3 /\ g[1] = NL /\ g[2] = Opening(Mark) /\ g[3] = Ending(Mark)
      BY <2>2
    <2>4. 1 \in 1 .. Len(g) /\ 2 \in 1 .. Len(g) /\ 3 \in 1 .. Len(g)
      BY <1>0, <2>3
    <2>5. h[Len(f) + 1] = NL /\ h[Len(f) + 2] = Opening(Mark) /\ h[Len(f) + 3] = Ending(Mark)
      BY <1>1, <2>3, <2>4
    <2>6. Len(f) + 3 <= Len(h)
      BY <1>0, <1>1, <2>3
    <2> QED
      BY <1>5, <2>5, <2>6
  <1> QED
    BY <1>0, <1>1, <1>3, <1>4, <1>5

\* Lines of records are whole.
LEMMA LinesAreWhole ==
  ASSUME NEW s \in Seq(Records)
  PROVE  /\ Lines(s) \in Seq(Pieces) /\ Len(Lines(s)) = 3 * Len(s)
         /\ \A k \in 1 .. Len(s) : /\ Lines(s)[3 * k - 2] = Opening(s[k])
                                   /\ Lines(s)[3 * k - 1] = Ending(s[k])
                                   /\ Lines(s)[3 * k] = NL
         /\ \A i \in 1 .. 3 * Len(s) : \E k \in 1 .. Len(s) : i \in {3 * k - 2, 3 * k - 1, 3 * k}
  <1> DEFINE l == Lines(s)
             n == Len(s)
  <1>1. n \in Nat /\ \A k \in 1 .. n : s[k] \in Records
    OBVIOUS
  <1>2. \A x : Line(x)[1] = Opening(x) /\ Line(x)[2] = Ending(x) /\ Line(x)[3] = NL
    BY DEF Line
  <1>3. l = [i \in 1 .. 3 * n |-> Line(s[(i + 2) \div 3])[((i - 1) % 3) + 1]]
    BY DEF Lines
  <1> HIDE DEF l, n
  <1>4. ASSUME NEW k \in 1 .. n
        PROVE  l[3 * k - 2] = Opening(s[k]) /\ l[3 * k - 1] = Ending(s[k]) /\ l[3 * k] = NL
    <2>1. /\ 3 * k - 2 \in 1 .. 3 * n /\ 3 * k - 1 \in 1 .. 3 * n /\ 3 * k \in 1 .. 3 * n
      BY <1>1
    <2>2. /\ ((3 * k - 2) + 2) \div 3 = k /\ ((3 * k - 2) - 1) % 3 = 0
          /\ ((3 * k - 1) + 2) \div 3 = k /\ ((3 * k - 1) - 1) % 3 = 1
          /\ (3 * k + 2) \div 3 = k /\ (3 * k - 1) % 3 = 2
      BY <1>1
    <2>3. /\ l[3 * k - 2] = Line(s[k])[0 + 1] /\ l[3 * k - 1] = Line(s[k])[1 + 1]
          /\ l[3 * k] = Line(s[k])[2 + 1]
      BY <1>3, <2>1, <2>2
    <2> QED
      BY <1>2, <2>3
  <1>5. ASSUME NEW i \in 1 .. 3 * n
        PROVE  \E k \in 1 .. n : i \in {3 * k - 2, 3 * k - 1, 3 * k}
    <2>1. (i + 2) \div 3 \in 1 .. n
      BY <1>1
    <2>2. i \in {3 * ((i + 2) \div 3) - 2, 3 * ((i + 2) \div 3) - 1, 3 * ((i + 2) \div 3)}
      BY <1>1
    <2> QED
      BY <2>1, <2>2
  <1>6. \A i \in 1 .. 3 * n : l[i] \in Pieces
    <2> SUFFICES ASSUME NEW i \in 1 .. 3 * n PROVE l[i] \in Pieces
      OBVIOUS
    <2>1. PICK k \in 1 .. n : i \in {3 * k - 2, 3 * k - 1, 3 * k}
      BY <1>5
    <2>2. s[k] \in Records \cup {Mark}
      BY <1>1
    <2>3. Opening(s[k]) \in Pieces /\ Ending(s[k]) \in Pieces /\ NL \in Pieces
      BY <2>2, PiecesDiffer
    <2> QED
      BY <1>4, <2>1, <2>3
  <1>7. l \in [1 .. 3 * n -> Pieces] /\ 3 * n \in Nat
    BY <1>1, <1>3, <1>6
  <1>8. l \in Seq(Pieces) /\ Len(l) = 3 * n
    BY <1>7, SeqDef, LenProperties
  <1> QED
    BY <1>4, <1>5, <1>8 DEF l, n

\* Lines of records have the shape, and nothing in them is torn.
LEMMA LinesAreShaped ==
  ASSUME NEW s \in Seq(Records)
  PROVE  Shaped(Lines(s)) /\ Untorn(Lines(s)) /\ EndsLine(Lines(s))
  <1> DEFINE l == Lines(s)
             n == Len(s)
  <1>1. /\ n \in Nat /\ DOMAIN l = 1 .. 3 * n /\ Len(l) = 3 * n
        /\ \A k \in 1 .. n : l[3 * k - 2] = Opening(s[k]) /\ l[3 * k - 1] = Ending(s[k]) /\ l[3 * k] = NL
        /\ \A i \in 1 .. 3 * n : \E k \in 1 .. n : i \in {3 * k - 2, 3 * k - 1, 3 * k}
        /\ l = <<>> <=> Len(l) = 0
    BY LinesAreWhole
  <1>2. \A k \in 1 .. n : s[k] \in Records \cup {Mark}
    OBVIOUS
  <1> HIDE DEF l, n
  <1>3. ASSUME NEW i \in DOMAIN l, NEW x \in Records \cup {Mark}
        PROVE  /\ l[i] = Opening(x) => i = 1 \/ l[i - 1] = NL
               /\ l[i] = Ending(x) => i > 1 /\ l[i - 1] = Opening(x)
               /\ l[i] = Opening(x) => l[i + 1] = Ending(x)
    <2>1. PICK k \in 1 .. n : i \in {3 * k - 2, 3 * k - 1, 3 * k}
      BY <1>1
    <2>2. l[3 * k - 2] = Opening(s[k]) /\ l[3 * k - 1] = Ending(s[k]) /\ l[3 * k] = NL
      BY <1>1
    <2>3. CASE i = 3 * k - 2
      <3>1. l[i + 1] = Ending(s[k])
        BY <1>1, <2>2, <2>3
      <3>2. i = 1 \/ l[i - 1] = NL
        <4>1. CASE k = 1
          BY <2>3, <4>1
        <4>2. CASE k > 1
          <5>1. k - 1 \in 1 .. n /\ i - 1 = 3 * (k - 1)
            BY <1>1, <2>3, <4>2
          <5> QED
            BY <1>1, <5>1
        <4> QED
          BY <1>1, <4>1, <4>2
      <3> QED
        BY <1>2, <2>2, <2>3, <3>1, <3>2, PiecesDiffer
    <2>4. CASE i = 3 * k - 1
      <3>1. i > 1 /\ l[i - 1] = Opening(s[k])
        BY <1>1, <2>2, <2>4
      <3> QED
        BY <1>2, <2>2, <2>4, <3>1, PiecesDiffer
    <2>5. CASE i = 3 * k
      BY <1>2, <2>2, <2>5, PiecesDiffer
    <2> QED
      BY <2>1, <2>3, <2>4, <2>5
  <1>4. EndsLine(l)
    <2>1. ASSUME l # <<>> PROVE l[Len(l)] = NL
      <3>1. n \in 1 .. n
        BY <1>1, <2>1
      <3> QED
        BY <1>1, <3>1
    <2> QED
      BY <2>1 DEF EndsLine
  <1> QED
    BY <1>3, <1>4 DEF Shaped, Untorn, l

\* So do the newline and the marker that close a torn record.
LEMMA ClosingIsShaped ==
  LET c == <<NL>> \o Line(Mark)
  IN  /\ c \in Seq(Pieces) /\ Len(c) = 4
      /\ c[1] = NL /\ c[2] = Opening(Mark) /\ c[3] = Ending(Mark) /\ c[4] = NL
      /\ Shaped(c) /\ Untorn(c) /\ EndsLine(c)
  <1> DEFINE c == <<NL>> \o Line(Mark)
  <1>2. NL \in Pieces /\ Opening(Mark) \in Pieces /\ Ending(Mark) \in Pieces
    BY PiecesDiffer
  <1>7. /\ <<NL>> \in Seq(Pieces) /\ Len(<<NL>>) = 1 /\ <<NL>>[1] = NL
        /\ Line(Mark) \in Seq(Pieces) /\ Len(Line(Mark)) = 3
        /\ Line(Mark)[1] = Opening(Mark) /\ Line(Mark)[2] = Ending(Mark) /\ Line(Mark)[3] = NL
    BY <1>2 DEF Line
  <1>1. /\ c \in Seq(Pieces) /\ Len(c) = 4 /\ c[1] = <<NL>>[1]
        /\ c[1 + 1] = Line(Mark)[1] /\ c[1 + 2] = Line(Mark)[2] /\ c[1 + 3] = Line(Mark)[3]
    <2> DEFINE n == <<NL>>
               m == Line(Mark)
    <2>1. n \in Seq(Pieces) /\ Len(n) = 1 /\ m \in Seq(Pieces) /\ Len(m) = 3 /\ c = n \o m
      BY <1>7
    <2> HIDE DEF n, m, c
    <2>2. /\ n \o m \in Seq(Pieces) /\ Len(n \o m) = Len(n) + Len(m)
          /\ \A i \in 1 .. Len(n) : (n \o m)[i] = n[i]
          /\ \A i \in 1 .. Len(m) : (n \o m)[Len(n) + i] = m[i]
      BY <2>1, Concatenated
    <2>3. c \in Seq(Pieces) /\ Len(c) = 4 /\ c[1] = n[1] /\ c[1 + 1] = m[1] /\ c[1 + 2] = m[2] /\ c[1 + 3] = m[3]
      BY <2>1, <2>2
    <2> QED
      BY <2>3 DEF n, m
  <1> HIDE DEF c
  <1>3. c \in Seq(Pieces) /\ Len(c) = 4 /\ DOMAIN c = 1 .. 4
    BY <1>1
  <1>4. c[1] = NL /\ c[2] = Opening(Mark) /\ c[3] = Ending(Mark) /\ c[4] = NL
    BY <1>1, <1>7
  <1>5. \A i \in 1 .. 4 : i = 1 \/ i = 2 \/ i = 3 \/ i = 4
    OBVIOUS
  <1>6. ASSUME NEW i \in DOMAIN c, NEW x \in Records \cup {Mark}
        PROVE  /\ c[i] = Opening(x) => i = 1 \/ c[i - 1] = NL
               /\ c[i] = Ending(x) => i > 1 /\ c[i - 1] = Opening(x)
               /\ c[i] = Opening(x) => c[i + 1] = Ending(x)
    <2>0. Mark \in Records \cup {Mark}
      OBVIOUS
    <2>1. CASE i = 1
      BY <1>4, <2>1, PiecesDiffer
    <2>2. CASE i = 2
      BY <1>4, <2>2, PiecesDiffer
    <2>3. CASE i = 3
      BY <1>4, <2>3, PiecesDiffer
    <2>4. CASE i = 4
      BY <1>4, <2>4, PiecesDiffer
    <2> QED
      BY <1>3, <1>5, <2>1, <2>2, <2>3, <2>4
  <1> QED
    BY <1>3, <1>4, <1>6 DEF Shaped, Untorn, EndsLine, c

\* What a writer writes: lines, behind a closed torn one if its probe saw one.
LEMMA BufferIsShaped ==
  ASSUME NEW w \in Writers, closes \in [Writers -> BOOLEAN]
  PROVE  /\ Buffer(w) \in Seq(Pieces)
         /\ Shaped(Buffer(w)) /\ Untorn(Buffer(w)) /\ EndsLine(Buffer(w))
         /\ closes[w] => /\ Len(Buffer(w)) >= 3 /\ Buffer(w)[1] = NL
                         /\ Buffer(w)[2] = Opening(Mark) /\ Buffer(w)[3] = Ending(Mark)
         /\ \E n \in Nat : /\ Len(Buffer(w)) = n + Len(Lines(RecordsOf[w]))
                           /\ \A i \in 1 .. Len(Lines(RecordsOf[w])) :
                                 Buffer(w)[n + i] = Lines(RecordsOf[w])[i]
  <1> DEFINE l == Lines(RecordsOf[w])
             c == <<NL>> \o Line(Mark)
  <1>1. l \in Seq(Pieces) /\ Shaped(l) /\ Untorn(l) /\ EndsLine(l)
    BY LinesAreWhole, LinesAreShaped, LedgerConstants
  <1>2. /\ c \in Seq(Pieces) /\ Len(c) = 4
        /\ c[1] = NL /\ c[2] = Opening(Mark) /\ c[3] = Ending(Mark) /\ c[4] = NL
        /\ Shaped(c) /\ Untorn(c) /\ EndsLine(c)
    BY ClosingIsShaped
  <1>3. Buffer(w) = IF closes[w] THEN c \o l ELSE <<>> \o l
    BY DEF Buffer, Closing
  <1> HIDE DEF l, c
  <1>4. CASE closes[w]
    <2>1. Buffer(w) = c \o l
      BY <1>3, <1>4
    <2>2. /\ c \o l \in Seq(Pieces) /\ Len(c \o l) = 4 + Len(l) /\ Len(l) \in Nat
          /\ \A i \in 1 .. 4 : (c \o l)[i] = c[i]
          /\ \A i \in 1 .. Len(l) : (c \o l)[4 + i] = l[i]
      <3>1. /\ c \o l \in Seq(Pieces) /\ Len(c \o l) = Len(c) + Len(l) /\ Len(l) \in Nat
            /\ \A i \in 1 .. Len(c) : (c \o l)[i] = c[i]
            /\ \A i \in 1 .. Len(l) : (c \o l)[Len(c) + i] = l[i]
        BY <1>1, <1>2, Concatenated
      <3> QED
        BY <1>2, <3>1
    <2>3. Shaped(c \o l) /\ Untorn(c \o l)
      BY <1>1, <1>2, AppendedIsShaped, AppendedIsUntorn
    <2>4. EndsLine(c \o l)
      <3>1. CASE Len(l) = 0
        <4>1. (c \o l)[Len(c \o l)] = c[4]
          <5>1. Len(c \o l) = 4 /\ 4 \in 1 .. 4
            BY <2>2, <3>1
          <5> QED
            BY <2>2, <5>1
        <4> QED
          BY <1>2, <4>1 DEF EndsLine
      <3>2. CASE Len(l) > 0
        <4>1. l # <<>> /\ Len(l) \in 1 .. Len(l)
          BY <2>2, <3>2
        <4>2. (c \o l)[4 + Len(l)] = NL
          BY <1>1, <2>2, <4>1 DEF EndsLine
        <4> QED
          BY <2>2, <4>2 DEF EndsLine
      <3> QED
        BY <2>2, <3>1, <3>2
    <2>5. 4 \in Nat /\ 1 \in 1 .. 4 /\ 2 \in 1 .. 4 /\ 3 \in 1 .. 4
      OBVIOUS
    <2>6. /\ Len(c \o l) >= 3 /\ (c \o l)[1] = NL
          /\ (c \o l)[2] = Opening(Mark) /\ (c \o l)[3] = Ending(Mark)
      BY <1>2, <2>2, <2>5
    <2>7. \E n \in Nat : /\ Len(c \o l) = n + Len(l)
                         /\ \A i \in 1 .. Len(l) : (c \o l)[n + i] = l[i]
      BY <2>2, <2>5
    <2> QED
      BY SMTT(30), <2>1, <2>2, <2>3, <2>4, <2>6, <2>7 DEF l
  <1>5. CASE ~closes[w]
    <2>1. Buffer(w) = l
      BY <1>1, <1>3, <1>5, ConcatEmptySeq
    <2>2. Len(l) = 0 + Len(l) /\ \A i \in 1 .. Len(l) : l[0 + i] = l[i]
      BY <1>1
    <2> QED
      BY <1>1, <1>5, <2>1, <2>2 DEF l
  <1> QED
    BY <1>4, <1>5

----------------------------------------------------------------------------
(* The ledgers: what is read                                               *)

\* The least of a set of positions.
LEMMA LeastOf ==
  ASSUME NEW S, S \subseteq Int, NEW m \in S, \A j \in S : m <= j
  PROVE  Min(S) = m
  <1>1. \E x \in S : \A y \in S : x <= y
    OBVIOUS
  <1>2. Min(S) \in S /\ \A y \in S : Min(S) <= y
    BY <1>1 DEF Min
  <1>3. Min(S) <= m /\ m <= Min(S) /\ m \in Int /\ Min(S) \in Int
    BY <1>2
  <1> QED
    BY <1>3

\* The smaller of two.
LEMMA SmallerOf ==
  ASSUME NEW a \in Int, NEW b \in Int
  PROVE  Min({a, b}) = IF a <= b THEN a ELSE b
  <1>1. CASE a <= b
    BY <1>1, LeastOf
  <1>2. CASE ~(a <= b)
    BY <1>2, LeastOf
  <1> QED
    BY <1>1, <1>2

\* A line ends in front of the next newline.
LEMMA LineEndsAt ==
  ASSUME NEW f \in Seq(Pieces), NEW i \in 1 .. Len(f) + 1, NEW e \in i .. Len(f) + 1,
         \A j \in i .. e - 1 : f[j] # NL, e <= Len(f) => f[e] = NL
  PROVE  /\ LineAt(f, i) = SubSeq(f, i, e - 1)
         /\ NextStart(f, i) = e + 1
  <1> DEFINE S == {j \in i .. Len(f) : f[j] = NL} \cup {Len(f) + 1}
  <1>1. Len(f) \in Nat /\ i \in Nat /\ e \in Nat
    OBVIOUS
  <1>2. e \in S /\ S \subseteq Int /\ \A j \in S : e <= j
    BY <1>1
  <1>3. Min(S) = e
    <2> HIDE DEF S
    <2> QED
      BY <1>2, LeastOf
  <1>4. LineAt(f, i) = SubSeq(f, i, e - 1)
    BY <1>3 DEF LineAt
  <1>5. Len(SubSeq(f, i, e - 1)) = e - i
    <2>1. \A j \in i .. e - 1 : f[j] \in Pieces
      <3>1. \A j \in i .. e - 1 : j \in 1 .. Len(f)
        BY <1>1
      <3> QED
        BY <3>1
    <2>2. Len(SubSeq(f, i, e - 1)) = IF i <= e - 1 THEN (e - 1) - i + 1 ELSE 0
      BY <1>1, <2>1, SubSeqProperties
    <2> QED
      BY <1>1, <2>2
  <1> QED
    BY <1>1, <1>4, <1>5 DEF NextStart

\* A newline at its start makes a line empty.
LEMMA EmptyLine ==
  ASSUME NEW f \in Seq(Pieces), NEW i \in 1 .. Len(f) + 1, i <= Len(f) => f[i] = NL
  PROVE  LineAt(f, i) = <<>>
  <1>1. Len(f) \in Nat /\ i \in Nat /\ i \in i .. Len(f) + 1 /\ ~\E j \in i .. i - 1 : TRUE
    OBVIOUS
  <1>2. LineAt(f, i) = SubSeq(f, i, i - 1)
    BY <1>1, LineEndsAt
  <1>3. i - 1 < i /\ i - 1 \in Int /\ i \in Int
    BY <1>1
  <1> QED
    BY <1>2, <1>3, SubSeqEmpty

\* What is at an opening: a record, or a torn one.
LEMMA OpenedLine ==
  ASSUME NEW f \in Seq(Pieces), Shaped(f), NEW i \in DOMAIN f, NEW x \in Records \cup {Mark},
         f[i] = Opening(x)
  PROVE  /\ i = Len(f) => LineAt(f, i) = <<Opening(x)>> /\ NextStart(f, i) = Len(f) + 2
         /\ i < Len(f) /\ f[i + 1] = NL => LineAt(f, i) = <<Opening(x)>> /\ NextStart(f, i) = i + 2
         /\ i < Len(f) /\ f[i + 1] = Ending(x) => LineAt(f, i) = Body(x)
         /\ i < Len(f) => f[i + 1] \in {NL, Ending(x)}
  <1>1. /\ Len(f) \in Nat /\ DOMAIN f = 1 .. Len(f) /\ i \in 1 .. Len(f)
        /\ \A j \in 1 .. Len(f) : f[j] \in Pieces
    OBVIOUS
  <1>2. \A j \in i .. i : j = i
    BY <1>1
  <1>3. f[i] # NL
    BY PiecesDiffer
  <1>4. \A j \in DOMAIN f, y \in Records \cup {Mark} :
           /\ f[j] = Opening(y) => j = 1 \/ f[j - 1] = NL
           /\ f[j] = Ending(y) => j > 1 /\ f[j - 1] = Opening(y)
    BY DEF Shaped
  <1>5. SubSeq(f, i, i) = <<Opening(x)>>
    <2>1. SubSeq(f, i, i) = [k \in 1 .. 1 |-> f[i + k - 1]]
      BY <1>1
    <2>2. \A k \in 1 .. 1 : f[i + k - 1] = Opening(x)
      BY <1>1
    <2>3. SubSeq(f, i, i) = [k \in 1 .. 1 |-> Opening(x)]
      BY <2>1, <2>2
    <2> QED
      BY <2>3
  <1>6. ASSUME i = Len(f) PROVE LineAt(f, i) = <<Opening(x)>> /\ NextStart(f, i) = Len(f) + 2
    <2>1. /\ i \in 1 .. Len(f) + 1 /\ i + 1 \in i .. Len(f) + 1 /\ ~(i + 1 <= Len(f))
          /\ (i + 1) - 1 = i /\ (i + 1) + 1 = Len(f) + 2
      BY <1>1, <1>6
    <2>2. LineAt(f, i) = SubSeq(f, i, (i + 1) - 1) /\ NextStart(f, i) = (i + 1) + 1
      BY ZenonT(60), <1>2, <1>3, <2>1, LineEndsAt
    <2> QED
      BY <1>5, <2>1, <2>2
  <1>7. ASSUME i < Len(f), f[i + 1] = NL
        PROVE  LineAt(f, i) = <<Opening(x)>> /\ NextStart(f, i) = i + 2
    <2>1. /\ i \in 1 .. Len(f) + 1 /\ i + 1 \in i .. Len(f) + 1
          /\ (i + 1) - 1 = i /\ (i + 1) + 1 = i + 2
      BY <1>1, <1>7
    <2>2. LineAt(f, i) = SubSeq(f, i, (i + 1) - 1) /\ NextStart(f, i) = (i + 1) + 1
      BY SMTT(30), <1>2, <1>3, <1>7, <2>1, LineEndsAt
    <2> QED
      BY <1>5, <2>1, <2>2
  <1>8. ASSUME i < Len(f), f[i + 1] = Ending(x)
        PROVE  LineAt(f, i) = Body(x)
    <2>1. /\ i \in 1 .. Len(f) + 1 /\ i + 2 \in i .. Len(f) + 1 /\ i + 1 \in DOMAIN f
          /\ (i + 2) - 1 = i + 1 /\ \A j \in i .. i + 1 : j = i \/ j = i + 1
      BY <1>1, <1>8
    <2>2. f[i + 1] # NL
      BY <1>8, PiecesDiffer
    <2>3. i + 2 <= Len(f) => f[i + 2] = NL
      <3> SUFFICES ASSUME i + 2 <= Len(f), f[i + 2] # NL PROVE FALSE
        OBVIOUS
      <3>1. i + 2 \in DOMAIN f /\ (i + 2) - 1 = i + 1 /\ i + 2 # 1
        BY <1>1
      <3>2. PICK y \in Records \cup {Mark} : f[i + 2] = Opening(y) \/ f[i + 2] = Ending(y)
        BY <1>1, <3>1, PieceIsOneOf
      <3>3. f[i + 1] = NL \/ f[i + 1] = Opening(y)
        BY <1>4, <3>1, <3>2
      <3> QED
        BY <1>8, <2>2, <3>3, PiecesDiffer
    <2>4. LineAt(f, i) = SubSeq(f, i, (i + 2) - 1)
      BY <1>3, <2>1, <2>2, <2>3, LineEndsAt
    <2>5. SubSeq(f, i, i + 1) = [k \in 1 .. 2 |-> f[i + k - 1]]
      BY <1>1
    <2>6. /\ f[i + 1 - 1] = Opening(x) /\ f[i + 2 - 1] = Ending(x)
          /\ \A k \in 1 .. 2 : k = 1 \/ k = 2
      BY <1>1, <1>8
    <2>7. \A k \in 1 .. 2 : f[i + k - 1] = Body(x)[k]
      BY <2>6 DEF Body
    <2>8. Body(x) = [k \in 1 .. 2 |-> Body(x)[k]]
      BY DEF Body
    <2> QED
      BY <2>1, <2>4, <2>5, <2>7, <2>8
  <1>9. ASSUME i < Len(f) PROVE f[i + 1] \in {NL, Ending(x)}
    <2> SUFFICES ASSUME f[i + 1] # NL PROVE f[i + 1] = Ending(x)
      OBVIOUS
    <2>1. i + 1 \in DOMAIN f /\ (i + 1) - 1 = i /\ i + 1 # 1
      BY <1>1, <1>9
    <2>2. PICK y \in Records \cup {Mark} : f[i + 1] = Opening(y) \/ f[i + 1] = Ending(y)
      BY <1>1, <2>1, PieceIsOneOf
    <2>3. f[i] = NL \/ (f[i + 1] = Ending(y) /\ f[i] = Opening(y))
      BY <1>4, <2>1, <2>2
    <2> QED
      BY <1>3, <2>3, PiecesDiffer
  <1> QED
    BY <1>6, <1>7, <1>8, <1>9

\* Lines start at the beginning and behind newlines.
LEMMA StartsAre ==
  ASSUME NEW f \in Seq(Pieces), NEW i
  PROVE  i \in LineStarts(f) <=> i = 1 \/ (i \in 2 .. Len(f) + 1 /\ f[i - 1] = NL)
  <1>1. DOMAIN f = 1 .. Len(f) /\ Len(f) \in Nat
    OBVIOUS
  <1>2. ASSUME i \in LineStarts(f) PROVE i = 1 \/ (i \in 2 .. Len(f) + 1 /\ f[i - 1] = NL)
    <2>1. CASE i # 1
      <3>1. PICK j \in {k \in DOMAIN f : f[k] = NL} : i = j + 1
        BY <1>2, <2>1 DEF LineStarts
      <3>2. j \in 1 .. Len(f) /\ f[j] = NL
        BY <1>1, <3>1
      <3>3. i - 1 = j /\ i \in 2 .. Len(f) + 1
        BY <1>1, <3>1, <3>2
      <3> QED
        BY <3>2, <3>3
    <2> QED
      BY <2>1
  <1>3. ASSUME i \in 2 .. Len(f) + 1, f[i - 1] = NL PROVE i \in LineStarts(f)
    <2>1. i - 1 \in DOMAIN f /\ (i - 1) + 1 = i
      BY <1>1, <1>3
    <2> QED
      BY <1>3, <2>1 DEF LineStarts
  <1>4. 1 \in LineStarts(f)
    BY DEF LineStarts
  <1> QED
    BY <1>2, <1>3, <1>4

\* A line of a shaped file is empty or begins with an opening.
LEMMA LineIs ==
  ASSUME NEW f \in Seq(Pieces), Shaped(f), NEW i \in LineStarts(f)
  PROVE  /\ i \in 1 .. Len(f) + 1
         /\ \/ LineAt(f, i) = <<>>
            \/ i \in DOMAIN f /\ \E x \in Records \cup {Mark} : f[i] = Opening(x)
  <1>1. DOMAIN f = 1 .. Len(f) /\ Len(f) \in Nat /\ \A j \in 1 .. Len(f) : f[j] \in Pieces
    OBVIOUS
  <1>2. i = 1 \/ (i \in 2 .. Len(f) + 1 /\ f[i - 1] = NL)
    BY StartsAre
  <1>3. i \in 1 .. Len(f) + 1
    BY <1>1, <1>2
  <1>4. CASE i <= Len(f) => f[i] = NL
    BY <1>3, <1>4, EmptyLine
  <1>5. CASE i <= Len(f) /\ f[i] # NL
    <2>1. i \in DOMAIN f
      BY <1>1, <1>3, <1>5
    <2>2. PICK x \in Records \cup {Mark} : f[i] = Opening(x) \/ f[i] = Ending(x)
      BY <1>1, <1>5, <2>1, PieceIsOneOf
    <2>3. f[i] = Ending(x) => i > 1 /\ f[i - 1] = Opening(x)
      BY <2>1 DEF Shaped
    <2>4. f[i] # Ending(x)
      <3> SUFFICES ASSUME f[i] = Ending(x) PROVE FALSE
        OBVIOUS
      <3>1. i > 1 /\ f[i - 1] = Opening(x) /\ Opening(x) # NL
        BY <2>3, PiecesDiffer
      <3> QED
        BY <1>2, <3>1
    <2> QED
      BY <1>3, <2>1, <2>2, <2>4
  <1> QED
    BY <1>3, <1>4, <1>5

\* The records a reader gets are those that are stored whole.
LEMMA StoredIsReadable ==
  ASSUME NEW f \in Seq(Pieces), Shaped(f)
  PROVE  /\ \A i : i \in RecordStarts(f) <=>
               i \in DOMAIN f /\ i < Len(f) /\ \E r \in Records : f[i] = Opening(r) /\ f[i + 1] = Ending(r)
         /\ \A r \in Records : r \in Readable(f) <=> StoredIn(f, r, Len(f))
         /\ Readable(f) \subseteq Records
  <1>1. DOMAIN f = 1 .. Len(f) /\ Len(f) \in Nat
    OBVIOUS
  <1>2. ASSUME NEW i \in RecordStarts(f)
        PROVE  i \in DOMAIN f /\ i < Len(f) /\ \E r \in Records : f[i] = Opening(r) /\ f[i + 1] = Ending(r)
    <2>1. i \in LineStarts(f) /\ IsRecord(LineAt(f, i))
      BY DEF RecordStarts
    <2>2. PICK r \in Records : LineAt(f, i) = Body(r)
      BY <2>1 DEF IsRecord
    <2>3. Body(r) # <<>> /\ Len(Body(r)) = 2 /\ Body(r)[1] = Opening(r)
      BY DEF Body
    <2>4. PICK x \in Records \cup {Mark} : i \in DOMAIN f /\ f[i] = Opening(x)
      BY <2>1, <2>2, <2>3, LineIs
    <2>5. /\ i = Len(f) => LineAt(f, i) = <<Opening(x)>>
          /\ i < Len(f) /\ f[i + 1] = NL => LineAt(f, i) = <<Opening(x)>>
          /\ i < Len(f) /\ f[i + 1] = Ending(x) => LineAt(f, i) = Body(x)
          /\ i < Len(f) => f[i + 1] \in {NL, Ending(x)}
      BY <2>4, OpenedLine
    <2>6. Len(<<Opening(x)>>) = 1
      OBVIOUS
    <2>7. i < Len(f) /\ f[i + 1] = Ending(x) /\ Body(x) = Body(r)
      <3>1. i <= Len(f)
        BY <1>1, <2>4
      <3>2. LineAt(f, i) # <<Opening(x)>>
        BY <2>2, <2>3, <2>6
      <3>3. i # Len(f)
        BY <2>5, <3>2
      <3>4. i < Len(f)
        BY <1>1, <2>4, <3>1, <3>3
      <3> QED
        BY <2>2, <2>5, <3>2, <3>4
    <2>8. Body(x)[1] = Opening(x)
      BY DEF Body
    <2>9. x = r
      BY <2>3, <2>7, <2>8, PiecesDiffer
    <2> QED
      BY <2>4, <2>7, <2>9
  <1>3. ASSUME NEW i \in DOMAIN f, i < Len(f), NEW r \in Records, f[i] = Opening(r), f[i + 1] = Ending(r)
        PROVE  i \in RecordStarts(f)
    <2>1. LineAt(f, i) = Body(r)
      BY <1>3, OpenedLine
    <2>2. i = 1 \/ f[i - 1] = NL
      BY <1>3 DEF Shaped
    <2>3. i \in LineStarts(f)
      <3>1. i # 1 => i \in 2 .. Len(f) + 1
        BY <1>1
      <3> QED
        BY <2>2, <3>1, StartsAre
    <2> QED
      BY <2>1, <2>3 DEF RecordStarts, IsRecord
  <1>4. ASSUME NEW i \in RecordStarts(f)
        PROVE  \E r \in Records : /\ i \in DOMAIN f /\ i < Len(f) /\ f[i] = Opening(r) /\ f[i + 1] = Ending(r)
                                  /\ f[i][1] = r
    BY <1>2, PiecesDiffer
  <1>5. ASSUME NEW r \in Readable(f) PROVE r \in Records /\ StoredIn(f, r, Len(f))
    BY <1>4 DEF Readable, Read, Range, StoredIn
  <1>6. ASSUME NEW r \in Records, StoredIn(f, r, Len(f)) PROVE r \in Readable(f)
    <2>1. PICK i \in DOMAIN f : i < Len(f) /\ f[i] = Opening(r) /\ f[i + 1] = Ending(r)
      BY <1>6 DEF StoredIn
    <2>2. i \in RecordStarts(f) /\ f[i][1] = r
      BY <1>3, <2>1, PiecesDiffer
    <2> QED
      BY <2>2 DEF Readable, Read, Range
  <1> QED
    BY <1>2, <1>3, <1>5, <1>6

\* Every line of a shaped file whose torn records are marked is one that
\* parse_ledger lets through.
LEMMA ShapedFilesRead ==
  ASSUME NEW f \in Seq(Pieces), Shaped(f), TearsAreMarked(f)
  PROVE  Reads(f)
  <1>1. DOMAIN f = 1 .. Len(f) /\ Len(f) \in Nat
    OBVIOUS
  <1>2. SUFFICES ASSUME NEW i \in LineStarts(f), LineAt(f, i) # <<>>
                 PROVE  \/ LineAt(f, i) = Body(Mark)
                        \/ IsRecord(LineAt(f, i))
                        \/ IsTruncated(LineAt(f, i)) /\ IsExcused(f, i)
    BY DEF Reads
  <1>3. PICK x \in Records \cup {Mark} : i \in DOMAIN f /\ f[i] = Opening(x)
    BY <1>2, LineIs
  <1>4. /\ i = Len(f) => LineAt(f, i) = <<Opening(x)>> /\ NextStart(f, i) = Len(f) + 2
        /\ i < Len(f) /\ f[i + 1] = NL => LineAt(f, i) = <<Opening(x)>> /\ NextStart(f, i) = i + 2
        /\ i < Len(f) /\ f[i + 1] = Ending(x) => LineAt(f, i) = Body(x)
        /\ i < Len(f) => f[i + 1] \in {NL, Ending(x)}
    BY <1>3, OpenedLine
  <1>5. CASE i = Len(f)
    <2>1. NextStart(f, i) > Len(f) + 1
      BY <1>1, <1>4, <1>5
    <2> QED
      BY <1>4, <1>5, <2>1 DEF IsTruncated, IsExcused
  <1>6. CASE i < Len(f) /\ f[i + 1] = Ending(x)
    BY <1>4, <1>6 DEF IsRecord
  <1>7. CASE i < Len(f) /\ f[i + 1] = NL
    <2>1. f[i + 1] # Ending(x)
      BY <1>7, PiecesDiffer
    <2>2. i + 3 <= Len(f) /\ f[i + 2] = Opening(Mark) /\ f[i + 3] = Ending(Mark)
      BY <1>3, <1>7, <2>1 DEF TearsAreMarked
    <2>3. i + 2 \in DOMAIN f /\ i + 2 < Len(f) /\ (i + 2) + 1 = i + 3
      BY <1>1, <1>3, <2>2
    <2>4. LineAt(f, i + 2) = Body(Mark)
      BY <2>2, <2>3, OpenedLine
    <2> QED
      BY <1>4, <1>7, <2>4 DEF IsTruncated, IsExcused
  <1> QED
    BY <1>1, <1>3, <1>4, <1>5, <1>6, <1>7

----------------------------------------------------------------------------
(* The ledgers: the invariant, and what the runs check                     *)

\* A record that is stored whole stays so as long as its pieces are there.
LEMMA StoredStays ==
  ASSUME NEW f \in Seq(Pieces), NEW r \in Records, NEW n \in Nat, StoredIn(f, r, n)
  PROVE  /\ \A m \in Nat : n <= m => StoredIn(f, r, m)
         /\ StoredIn(f, r, Len(f))
         /\ \A g \in Seq(Pieces) : StoredIn(f \o g, r, n) /\ StoredIn(f \o g, r, Len(f \o g))
         /\ \A m \in 0 .. Len(f) : n <= m => StoredIn(SubSeq(f, 1, m), r, n)
  <1>1. PICK i \in DOMAIN f : i < n /\ f[i] = Opening(r) /\ i < Len(f) /\ f[i + 1] = Ending(r)
    BY DEF StoredIn
  <1>2. DOMAIN f = 1 .. Len(f) /\ Len(f) \in Nat /\ i \in Nat /\ i + 1 \in 1 .. Len(f)
    <2>1. DOMAIN f = 1 .. Len(f) /\ Len(f) \in Nat
      OBVIOUS
    <2> QED
      BY <1>1, <2>1
  <1>3. \A m \in Nat : n <= m => StoredIn(f, r, m)
    BY <1>1, <1>2 DEF StoredIn
  <1>4. StoredIn(f, r, Len(f))
    BY <1>1, <1>2 DEF StoredIn
  <1>5. ASSUME NEW g \in Seq(Pieces)
        PROVE  StoredIn(f \o g, r, n) /\ StoredIn(f \o g, r, Len(f \o g))
    <2> DEFINE h == f \o g
    <2>1. /\ Len(g) \in Nat /\ Len(h) = Len(f) + Len(g) /\ DOMAIN h = 1 .. Len(f) + Len(g)
          /\ \A j \in 1 .. Len(f) : h[j] = f[j]
      BY Concatenated
    <2> HIDE DEF h
    <2>2. i \in DOMAIN h /\ i < Len(h) /\ h[i] = Opening(r) /\ h[i + 1] = Ending(r)
      BY <1>1, <1>2, <2>1
    <2>3. StoredIn(h, r, n) /\ StoredIn(h, r, Len(h))
      BY <1>1, <2>2 DEF StoredIn
    <2> QED
      BY <2>3 DEF h
  <1>6. ASSUME NEW m \in 0 .. Len(f), n <= m PROVE StoredIn(SubSeq(f, 1, m), r, n)
    <2> DEFINE h == SubSeq(f, 1, m)
    <2>1. Len(h) = m /\ DOMAIN h = 1 .. m /\ \A j \in 1 .. m : h[j] = f[j]
      BY <1>2
    <2> HIDE DEF h
    <2>2. i \in DOMAIN h /\ i < Len(h) /\ h[i] = Opening(r) /\ h[i + 1] = Ending(r)
      BY <1>1, <1>2, <1>6, <2>1
    <2>3. StoredIn(h, r, n)
      BY <1>1, <2>2 DEF StoredIn
    <2> QED
      BY <2>3 DEF h
  <1> QED
    BY <1>3, <1>4, <1>5, <1>6

\* The pieces of one append are nobody else's, nor a marker.
LEMMA RecordsAre ==
  ASSUME NEW w \in Writers
  PROVE  /\ RecordsOf[w] \in Seq(Records) /\ ToSet(RecordsOf[w]) \subseteq Records
         /\ \A k \in 1 .. Len(RecordsOf[w]) : RecordsOf[w][k] \in ToSet(RecordsOf[w])
         /\ \A r \in ToSet(RecordsOf[w]) : \E k \in 1 .. Len(RecordsOf[w]) : r = RecordsOf[w][k]
         /\ \A v \in Writers : \A p : IsOf(v, p) /\ IsOf(w, p) => v = w
         /\ ~IsOf(w, NL) /\ ~IsOf(w, Opening(Mark)) /\ ~IsOf(w, Ending(Mark))
  <1>1. RecordsOf[w] \in Seq(Records)
    BY LedgerConstants
  <1>2. DOMAIN RecordsOf[w] = 1 .. Len(RecordsOf[w]) /\ \A k \in 1 .. Len(RecordsOf[w]) : RecordsOf[w][k] \in Records
    BY <1>1
  <1>3. ToSet(RecordsOf[w]) = {RecordsOf[w][k] : k \in 1 .. Len(RecordsOf[w])}
    BY <1>2 DEF ToSet
  <1>4. ToSet(RecordsOf[w]) \subseteq Records
    BY <1>2, <1>3
  <1>5. ASSUME NEW v \in Writers, NEW p, IsOf(v, p), IsOf(w, p) PROVE v = w
    <2>1. PICK r \in ToSet(RecordsOf[v]) : p = Opening(r) \/ p = Ending(r)
      BY <1>5 DEF IsOf
    <2>2. PICK s \in ToSet(RecordsOf[w]) : p = Opening(s) \/ p = Ending(s)
      BY <1>5 DEF IsOf
    <2>3. r = s
      BY <2>1, <2>2, PiecesDiffer
    <2> QED
      BY <2>3, LedgerConstants
  <1>6. ~IsOf(w, NL)
    BY <1>4, PiecesDiffer DEF IsOf
  <1>7. ~IsOf(w, Opening(Mark)) /\ ~IsOf(w, Ending(Mark))
    <2> SUFFICES ASSUME NEW r \in ToSet(RecordsOf[w]), Opening(Mark) = Opening(r) \/ Ending(Mark) = Ending(r)
                 PROVE  FALSE
      BY PiecesDiffer DEF IsOf
    <2>1. Mark = r
      BY PiecesDiffer
    <2> QED
      BY <1>4, <2>1, LedgerConstants
  <1> QED
    BY <1>1, <1>3, <1>4, <1>5, <1>6, <1>7

\* A write holds the records of its append, each of them whole.
LEMMA BufferHolds ==
  ASSUME NEW w \in Writers, closes \in [Writers -> BOOLEAN]
  PROVE  /\ \A i \in DOMAIN Buffer(w) :
               \/ Buffer(w)[i] = NL \/ IsOf(w, Buffer(w)[i])
               \/ closes[w] /\ Buffer(w)[i] \in {Opening(Mark), Ending(Mark)}
         /\ \A f \in Seq(Pieces) : \A r \in ToSet(RecordsOf[w]) :
               StoredIn(f \o Buffer(w), r, Len(f \o Buffer(w)))
  <1> DEFINE s == RecordsOf[w]
             l == Lines(s)
             b == Buffer(w)
             c == <<NL>> \o Line(Mark)
  <1>1. s \in Seq(Records) /\ Len(s) \in Nat
    BY RecordsAre
  <1>2. /\ \A k \in 1 .. Len(s) : s[k] \in ToSet(s)
        /\ \A r \in ToSet(s) : \E k \in 1 .. Len(s) : r = s[k]
    BY RecordsAre
  <1>3. /\ l \in Seq(Pieces) /\ Len(l) = 3 * Len(s) /\ DOMAIN l = 1 .. 3 * Len(s)
        /\ \A k \in 1 .. Len(s) : l[3 * k - 2] = Opening(s[k]) /\ l[3 * k - 1] = Ending(s[k]) /\ l[3 * k] = NL
        /\ \A i \in 1 .. 3 * Len(s) : \E k \in 1 .. Len(s) : i \in {3 * k - 2, 3 * k - 1, 3 * k}
    BY <1>1, LinesAreWhole
  <1>4. /\ c \in Seq(Pieces) /\ Len(c) = 4
        /\ c[1] = NL /\ c[2] = Opening(Mark) /\ c[3] = Ending(Mark) /\ c[4] = NL
    BY ClosingIsShaped
  <1>5. b = IF closes[w] THEN c \o l ELSE <<>> \o l
    BY DEF Buffer, Closing
  <1>6. b \in Seq(Pieces)
    BY BufferIsShaped
  <1>7. PICK n \in Nat : Len(b) = n + Len(l) /\ \A i \in 1 .. Len(l) : b[n + i] = l[i]
    BY BufferIsShaped
  <1> HIDE DEF l, b, c
  <1>8. ASSUME NEW i \in DOMAIN l PROVE l[i] = NL \/ IsOf(w, l[i])
    <2>1. PICK k \in 1 .. Len(s) : i \in {3 * k - 2, 3 * k - 1, 3 * k}
      BY <1>3
    <2>2. l[i] \in {Opening(s[k]), Ending(s[k]), NL}
      BY <1>3, <2>1
    <2> QED
      BY <1>2, <2>2 DEF IsOf
  <1>9. ASSUME NEW i \in DOMAIN b
        PROVE  b[i] = NL \/ IsOf(w, b[i]) \/ (closes[w] /\ b[i] \in {Opening(Mark), Ending(Mark)})
    <2>1. CASE closes[w]
      <3>1. b = c \o l
        BY <1>5, <2>1
      <3>2. /\ DOMAIN b = 1 .. Len(c) + Len(l) /\ Len(l) \in Nat /\ DOMAIN l = 1 .. Len(l)
            /\ \A j \in 1 .. Len(c) : b[j] = c[j]
            /\ \A j \in 1 .. Len(l) : b[Len(c) + j] = l[j]
        BY <1>3, <1>4, <3>1, Concatenated
      <3>3. CASE i <= 4
        <4>1. i \in 1 .. Len(c) /\ i \in {1, 2, 3, 4}
          BY <1>4, <3>2, <3>3
        <4> QED
          BY <1>4, <2>1, <3>2, <4>1
      <3>4. CASE i > 4
        <4>1. i - 4 \in 1 .. Len(l)
          BY <1>4, <3>2, <3>4
        <4>2. b[4 + (i - 4)] = l[i - 4]
          BY <1>4, <3>2, <4>1
        <4>3. 4 + (i - 4) = i
          BY <3>2
        <4> QED
          BY <1>8, <3>2, <4>1, <4>2, <4>3
      <3> QED
        BY <3>2, <3>3, <3>4
    <2>2. CASE ~closes[w]
      <3>1. b = l
        BY <1>3, <1>5, <2>2, ConcatEmptySeq
      <3> QED
        BY <1>8, <3>1
    <2> QED
      BY <2>1, <2>2
  <1>10. ASSUME NEW f \in Seq(Pieces), NEW r \in ToSet(s) PROVE StoredIn(f \o b, r, Len(f \o b))
    <2> DEFINE h == f \o b
    <2>1. /\ Len(f) \in Nat /\ Len(h) = Len(f) + Len(b) /\ DOMAIN h = 1 .. Len(f) + Len(b)
          /\ \A j \in 1 .. Len(b) : h[Len(f) + j] = b[j]
      BY <1>6, Concatenated
    <2> HIDE DEF h
    <2>2. PICK k \in 1 .. Len(s) : r = s[k]
      BY <1>2
    <2> DEFINE j == 3 * k - 2
    <2>3. j \in 1 .. Len(l) /\ j + 1 \in 1 .. Len(l) /\ j + 1 = 3 * k - 1
      BY <1>1, <1>3
    <2>4. b[n + j] = Opening(r) /\ b[n + (j + 1)] = Ending(r)
      BY <1>3, <1>7, <2>2, <2>3
    <2> HIDE DEF j
    <2>5. n + j \in 1 .. Len(b) /\ n + (j + 1) \in 1 .. Len(b)
      BY <1>1, <1>3, <1>7, <2>3
    <2>6. h[Len(f) + (n + j)] = Opening(r) /\ h[Len(f) + (n + (j + 1))] = Ending(r)
      BY <2>1, <2>4, <2>5
    <2>7. /\ Len(f) + (n + (j + 1)) = (Len(f) + (n + j)) + 1
          /\ Len(f) + (n + j) \in DOMAIN h /\ Len(f) + (n + j) < Len(h)
      BY SMTT(30), <1>1, <1>3, <1>7, <2>1, <2>3, <2>5
    <2>8. StoredIn(h, r, Len(h))
      BY <2>6, <2>7 DEF StoredIn
    <2> QED
      BY <2>8 DEF h
  <1> QED
    BY <1>9, <1>10 DEF b

\* An empty ledger satisfies the invariant.
LEMMA LedgerBegins ==
  ASSUME LedgerInit PROVE LedgerInv
  <1>1. LedgerTypeOK
    <2>1. file \in Seq(Pieces) /\ Len(file) = 0
      BY DEF LedgerInit
    <2>2. setting.shorts \in Nat /\ setting.losses \in Nat
      BY LedgerConstants DEF LedgerInit
    <2> QED
      BY <2>1, <2>2 DEF LedgerInit, LedgerTypeOK
  <1>2. DOMAIN file = {}
    BY DEF LedgerInit
  <1>3. FileInv
    BY <1>2 DEF LedgerInit, FileInv, Shaped, TearsAreMarked, Untorn, EndsLine
  <1>4. WriterInv
    BY <1>2 DEF LedgerInit, WriterInv, Running
  <1>5. StoreInv
    BY DEF LedgerInit, StoreInv
  <1> QED
    BY <1>1, <1>3, <1>4, <1>5 DEF LedgerInv

LEMMA OpenKeeps ==
  ASSUME LedgerInv, NEW w \in Writers, Open(w)
  PROVE  LedgerInv'
  <1> USE DEF LedgerInv, Open, Proceed
  <1>0. Len(file) \in Nat
    BY DEF LedgerTypeOK
  <1>1. LedgerTypeOK'
    BY <1>0 DEF LedgerTypeOK
  <1>2. FileInv'
    BY DEF FileInv
  <1>3. WriterInv'
    BY <1>0 DEF WriterInv, LedgerTypeOK, Running
  <1>4. StoreInv'
    BY DEF StoreInv, LedgerTypeOK
  <1> QED
    BY <1>1, <1>2, <1>3, <1>4

LEMMA ProbeKeeps ==
  ASSUME LedgerInv, NEW w \in Writers, ProbeTail(w)
  PROVE  LedgerInv'
  <1> USE DEF LedgerInv, ProbeTail, Proceed
  <1>0. Len(file) \in Nat /\ (file # <<>> => Last(file) = file[Len(file)])
    BY DEF LedgerTypeOK, Last
  <1>1. LedgerTypeOK'
    BY DEF LedgerTypeOK
  <1>2. FileInv'
    BY DEF FileInv
  <1>3. IF closes'[w] THEN shorts + losses > 0 ELSE EndsLine(file)
    <2>1. closes'[w] = (file # <<>> /\ Last(file) # NL)
      BY DEF LedgerTypeOK
    <2>2. shorts \in Nat /\ losses \in Nat
      BY LedgerConstants DEF LedgerTypeOK
    <2>3. CASE file # <<>> /\ Last(file) # NL
      <3>1. closes'[w] /\ ~EndsLine(file)
        BY <1>0, <2>1, <2>3 DEF EndsLine
      <3> QED
        BY <2>2, <3>1 DEF FileInv
    <2>4. CASE ~(file # <<>> /\ Last(file) # NL)
      <3>1. ~closes'[w] /\ EndsLine(file)
        BY <1>0, <2>1, <2>4 DEF EndsLine
      <3> QED
        BY <3>1
    <2> QED
      BY <2>3, <2>4
  <1>4. WriterInv'
    BY <1>0, <1>3 DEF WriterInv, LedgerTypeOK, Running
  <1>5. StoreInv'
    BY DEF StoreInv, LedgerTypeOK
  <1> QED
    BY <1>1, <1>2, <1>4, <1>5

LEMMA KillKeeps ==
  ASSUME LedgerInv, NEW w \in Writers, Kill(w)
  PROVE  LedgerInv'
  <1> USE DEF LedgerInv, Kill, Proceed
  <1>1. LedgerTypeOK'
    BY DEF LedgerTypeOK
  <1>2. FileInv'
    BY DEF FileInv
  <1>3. WriterInv'
    BY DEF WriterInv, LedgerTypeOK, Running
  <1>4. StoreInv'
    BY DEF StoreInv, LedgerTypeOK
  <1> QED
    BY <1>1, <1>2, <1>3, <1>4

LEMMA SyncDirKeeps ==
  ASSUME LedgerInv, NEW w \in Writers, SyncDir(w)
  PROVE  LedgerInv'
  <1> USE DEF LedgerInv, SyncDir, Proceed
  <1>1. LedgerTypeOK'
    BY DEF LedgerTypeOK
  <1>2. FileInv'
    BY DEF FileInv
  <1>3. WriterInv'
    BY DEF WriterInv, LedgerTypeOK, Running
  <1>4. StoreInv'
    BY DEF StoreInv, LedgerTypeOK, WriterInv
  <1> QED
    BY <1>1, <1>2, <1>3, <1>4

LEMMA SyncKeeps ==
  ASSUME LedgerInv, NEW w \in Writers, Sync(w)
  PROVE  LedgerInv'
  <1> USE DEF LedgerInv, Sync, Proceed
  <1>0. Len(file) \in Nat /\ durable \in Nat /\ durable <= Len(file)
    BY DEF LedgerTypeOK
  <1>1. LedgerTypeOK'
    BY <1>0 DEF LedgerTypeOK
  <1>2. FileInv'
    BY DEF FileInv
  <1>3. WriterInv'
    BY DEF WriterInv, LedgerTypeOK, Running
  <1>4. StoreInv'
    <2> SUFFICES ASSUME NEW v \in Writers, NEW r \in ToSet(RecordsOf[v])
                 PROVE  /\ v \notin Batches =>
                              /\ doing'[v] = "sync" => StoredIn(file, r, Len(file))
                              /\ doing'[v] \in {"sync_dir", "done"} => StoredIn(file, r, durable')
                        /\ v \in Batches /\ doing'[v] = "done" /\ losses = 0 => StoredIn(file, r, Len(file))
      BY DEF StoreInv
    <2>1. r \in Records /\ file \in Seq(Pieces)
      BY RecordsAre DEF LedgerTypeOK
    <2>2. StoredIn(file, r, durable) => StoredIn(file, r, Len(file))
      BY <1>0, <2>1, StoredStays
    <2> QED
      BY <2>1, <2>2 DEF StoreInv, LedgerTypeOK, WriterInv
  <1> QED
    BY <1>1, <1>2, <1>3, <1>4

\* Whole lines behind whole lines leave the file at the end of a line.
LEMMA AppendedEnds ==
  ASSUME NEW f \in Seq(Pieces), NEW g \in Seq(Pieces), EndsLine(f), EndsLine(g)
  PROVE  EndsLine(f \o g)
  <1>1. /\ Len(f) \in Nat /\ Len(g) \in Nat /\ Len(f \o g) = Len(f) + Len(g)
        /\ \A i \in 1 .. Len(g) : (f \o g)[Len(f) + i] = g[i]
    BY Concatenated
  <1>2. CASE g = <<>>
    BY <1>2, ConcatEmptySeq
  <1>3. CASE g # <<>>
    <2>1. Len(g) \in 1 .. Len(g)
      BY <1>1, <1>3, EmptySeq
    <2> QED
      BY <1>1, <1>3, <2>1 DEF EndsLine
  <1> QED
    BY <1>2, <1>3

\* What the others have written or not is not touched by an append.
LEMMA AppendedPieces ==
  ASSUME NEW f \in Seq(Pieces), NEW g \in Seq(Pieces), NEW v \in Writers,
         \A i \in DOMAIN f : ~IsOf(v, f[i]), \A i \in DOMAIN g : ~IsOf(v, g[i])
  PROVE  \A i \in DOMAIN (f \o g) : ~IsOf(v, (f \o g)[i])
  <1>1. /\ Len(f) \in Nat /\ Len(g) \in Nat /\ DOMAIN (f \o g) = 1 .. Len(f) + Len(g)
        /\ DOMAIN f = 1 .. Len(f) /\ DOMAIN g = 1 .. Len(g)
        /\ \A i \in 1 .. Len(f) : (f \o g)[i] = f[i]
        /\ \A i \in 1 .. Len(g) : (f \o g)[Len(f) + i] = g[i]
    BY Concatenated
  <1> SUFFICES ASSUME NEW i \in 1 .. Len(f) + Len(g) PROVE ~IsOf(v, (f \o g)[i])
    BY <1>1
  <1>2. CASE i <= Len(f)
    BY <1>1, <1>2
  <1>3. CASE i > Len(f)
    <2>1. i - Len(f) \in 1 .. Len(g) /\ Len(f) + (i - Len(f)) = i
      BY <1>1, <1>3
    <2> QED
      BY <1>1, <2>1
  <1> QED
    BY <1>1, <1>2, <1>3

\* An append takes no stored record away.
LEMMA StoredInAppended ==
  ASSUME LedgerTypeOK, StoreInv, NEW g \in Seq(Pieces), file' = file \o g, durable' = durable,
         NEW v \in Writers, NEW r \in ToSet(RecordsOf[v])
  PROVE  /\ v \notin Batches =>
               /\ doing[v] = "sync" => StoredIn(file', r, Len(file'))
               /\ doing[v] \in {"sync_dir", "done"} => StoredIn(file', r, durable')
         /\ v \in Batches /\ doing[v] = "done" /\ losses = 0 => StoredIn(file', r, Len(file'))
  <1>1. r \in Records /\ file \in Seq(Pieces) /\ Len(file) \in Nat /\ durable \in Nat
    BY RecordsAre DEF LedgerTypeOK
  <1>2. StoredIn(file, r, Len(file)) => StoredIn(file', r, Len(file'))
    BY <1>1, StoredStays
  <1>3. StoredIn(file, r, durable) => StoredIn(file', r, durable')
    BY <1>1, StoredStays
  <1> QED
    BY <1>2, <1>3 DEF StoreInv

LEMMA WriteWholeKeeps ==
  ASSUME LedgerInv, NEW w \in Writers, WriteWhole(w)
  PROVE  LedgerInv'
  <1> DEFINE b == Buffer(w)
  <1>0. /\ file \in Seq(Pieces) /\ Len(file) \in Nat /\ durable \in Nat /\ durable <= Len(file)
        /\ closes \in [Writers -> BOOLEAN] /\ doing[w] = "write" /\ file' = file \o b
        /\ \A v \in Writers : v # w => doing'[v] = doing[v]
        /\ doing'[w] = IF w \in Batches THEN "done" ELSE "sync"
        /\ shorts \in Nat /\ losses \in Nat
    BY LedgerConstants DEF LedgerInv, LedgerTypeOK, WriteWhole, Proceed
  <1>1. /\ b \in Seq(Pieces) /\ Shaped(b) /\ Untorn(b) /\ EndsLine(b)
        /\ closes[w] => Len(b) >= 3 /\ b[1] = NL /\ b[2] = Opening(Mark) /\ b[3] = Ending(Mark)
    BY <1>0, BufferIsShaped
  <1>2. /\ \A i \in DOMAIN b : \/ b[i] = NL \/ IsOf(w, b[i])
                               \/ closes[w] /\ b[i] \in {Opening(Mark), Ending(Mark)}
        /\ \A r \in ToSet(RecordsOf[w]) : StoredIn(file \o b, r, Len(file \o b))
    BY <1>0, BufferHolds
  <1> HIDE DEF b
  <1>3. closes[w] \/ EndsLine(file)
    BY <1>0 DEF LedgerInv, WriterInv
  <1>4. file \o b \in Seq(Pieces) /\ Len(file \o b) = Len(file) + Len(b) /\ Len(b) \in Nat
    BY <1>0, <1>1, Concatenated
  <1>5. LedgerTypeOK'
    <2>1. doing' \in [Writers -> {"idle", "probe", "write", "cut", "sync", "sync_dir",
                                  "done", "undone", "failed"}]
      BY DEF LedgerInv, LedgerTypeOK, WriteWhole, Proceed
    <2> QED
      BY <1>0, <1>4, <2>1 DEF LedgerInv, LedgerTypeOK, WriteWhole
  <1>6. FileInv'
    <2>1. Shaped(file \o b)
      BY <1>0, <1>1, <1>3, AppendedIsShaped DEF LedgerInv, FileInv
    <2>2. TearsAreMarked(file \o b)
      BY <1>0, <1>1, <1>3, AppendedIsMarked, UntornIsMarked DEF LedgerInv, FileInv
    <2>3. shorts + losses = 0 => Untorn(file \o b) /\ EndsLine(file \o b)
      BY <1>0, <1>1, AppendedIsUntorn, AppendedEnds DEF LedgerInv, FileInv
    <2> QED
      BY <1>0, <2>1, <2>2, <2>3 DEF FileInv, WriteWhole
  <1>7. WriterInv'
    <2>1. \A v \in Writers : v # w /\ setting.locked => ~Running(v)
      BY <1>0 DEF LedgerInv, WriterInv, Running
    <2>2. \A v \in Writers : v # w /\ EndsLine(file) => EndsLine(file \o b)
      BY <1>0, <1>1, AppendedEnds
    <2>3. ASSUME NEW v \in Writers, v # w, doing[v] \in {"idle", "probe", "write"}
          PROVE  \A i \in DOMAIN (file \o b) : ~IsOf(v, (file \o b)[i])
      <3>1. \A i \in DOMAIN file : ~IsOf(v, file[i])
        BY <2>3 DEF LedgerInv, WriterInv
      <3>2. \A i \in DOMAIN b : ~IsOf(v, b[i])
        BY <1>2, <2>3, RecordsAre
      <3> QED
        BY <1>0, <1>1, <3>1, <3>2, AppendedPieces
    <2>4. ~setting.new => entry = "durable"
      BY DEF LedgerInv, WriterInv
    <2>5. setting.locked => \A u, v \in Writers : Running(u)' /\ Running(v)' => u = v
      BY <1>0, <2>1 DEF Running
    <2>6. ASSUME NEW v \in Writers
          PROVE  /\ setting.locked => doing'[v] \notin {"probe", "write"}
                 /\ doing'[v] = "write" => IF closes[v] THEN shorts + losses > 0 ELSE EndsLine(file \o b)
                 /\ doing'[v] \in {"idle", "probe", "write"} =>
                       \A i \in DOMAIN (file \o b) : ~IsOf(v, (file \o b)[i])
                 /\ doing'[v] # "cut"
                 /\ IF v \in Batches THEN doing'[v] \notin {"sync", "sync_dir"}
                                     ELSE doing'[v] \notin {"cut", "undone"}
      <3>1. CASE v = w
        BY <1>0, <3>1
      <3>2. CASE v # w
        <4>1. doing'[v] = doing[v]
          BY <1>0, <3>2
        <4>2. doing[v] # "cut"
          BY <2>1, <3>2 DEF LedgerInv, WriterInv, Running
        <4>3. setting.locked => doing[v] \notin {"probe", "write"}
          BY <2>1, <3>2 DEF Running
        <4> QED
          BY <2>2, <2>3, <3>2, <4>1, <4>2, <4>3 DEF LedgerInv, WriterInv
      <3> QED
        BY <3>1, <3>2
    <2> QED
      BY <1>0, <2>4, <2>5, <2>6 DEF WriterInv, WriteWhole
  <1>8. StoreInv'
    <2> SUFFICES ASSUME NEW v \in Writers, NEW r \in ToSet(RecordsOf[v])
                 PROVE  /\ v \notin Batches =>
                              /\ doing'[v] = "sync" => StoredIn(file', r, Len(file'))
                              /\ doing'[v] \in {"sync_dir", "done"} => StoredIn(file', r, durable')
                        /\ v \in Batches /\ doing'[v] = "done" /\ losses' = 0 => StoredIn(file', r, Len(file'))
      BY DEF StoreInv
    <2>1. CASE v = w
      BY <1>0, <1>2, <2>1
    <2>2. CASE v # w
      BY <1>0, <1>1, <2>2, StoredInAppended DEF LedgerInv, WriteWhole
    <2> QED
      BY <2>1, <2>2
  <1> QED
    BY <1>5, <1>6, <1>7, <1>8 DEF LedgerInv

LEMMA WriteShortKeeps ==
  ASSUME OneFailure, LedgerInv, NEW w \in Writers, WriteShort(w)
  PROVE  LedgerInv'
  <1> DEFINE b == Buffer(w)
  <1>0. /\ file \in Seq(Pieces) /\ Len(file) \in Nat /\ durable \in Nat /\ durable <= Len(file)
        /\ closes \in [Writers -> BOOLEAN] /\ doing[w] = "write"
        /\ \A v \in Writers : v # w => doing'[v] = doing[v]
        /\ doing'[w] = IF w \in Batches /\ setting.locked THEN "cut" ELSE "failed"
        /\ setting \in Settings /\ shorts' = shorts + 1
    BY DEF LedgerInv, LedgerTypeOK, WriteShort, Proceed
  <1>1. shorts = 0 /\ losses = 0 /\ setting.shorts = 1 /\ setting.locked
    <2>1. /\ setting.shorts \in Nat /\ setting.losses \in Nat /\ setting.shorts + setting.losses <= 1
          /\ setting.shorts > 0 => setting.locked
      BY <1>0, LedgerConstants DEF OneFailure
    <2>2. shorts \in 0 .. setting.shorts /\ losses \in 0 .. setting.losses /\ shorts < setting.shorts
      BY DEF LedgerInv, LedgerTypeOK, WriteShort
    <2> QED
      BY <2>1, <2>2
  <1>2. ~closes[w] /\ EndsLine(file) /\ Untorn(file) /\ Shaped(file)
    BY <1>0, <1>1 DEF LedgerInv, FileInv, WriterInv
  <1>3. b \in Seq(Pieces) /\ Shaped(b) /\ Untorn(b)
    BY <1>0, BufferIsShaped
  <1>4. \A i \in DOMAIN b : b[i] = NL \/ IsOf(w, b[i])
    BY <1>0, <1>2, BufferHolds
  <1>5. PICK n \in 0 .. Len(b) - 1 : file' = file \o SubSeq(b, 1, n)
    BY DEF WriteShort
  <1> DEFINE g == SubSeq(b, 1, n)
  <1>6. /\ g \in Seq(Pieces) /\ Shaped(g) /\ Untorn(g) /\ DOMAIN g = 1 .. Len(g)
        /\ \A i \in DOMAIN g : g[i] = NL \/ IsOf(w, g[i])
    <2> HIDE DEF b
    <2>1. n \in 0 .. Len(b) /\ Len(b) \in Nat /\ DOMAIN b = 1 .. Len(b)
      BY <1>3
    <2>2. /\ SubSeq(b, 1, n) \in Seq(Pieces) /\ Len(SubSeq(b, 1, n)) = n
          /\ \A i \in 1 .. n : SubSeq(b, 1, n)[i] = b[i]
          /\ Shaped(SubSeq(b, 1, n)) /\ Untorn(SubSeq(b, 1, n))
      BY <1>3, <2>1, PrefixIsShaped
    <2> HIDE DEF g
    <2>3. DOMAIN g = 1 .. n /\ Len(g) = n
      BY <2>2 DEF g
    <2>4. \A i \in 1 .. n : i \in DOMAIN b /\ g[i] = b[i]
      BY <2>1, <2>2 DEF g
    <2> QED
      BY <1>4, <2>2, <2>3, <2>4 DEF g
  <1> HIDE DEF b, g
  <1>7. file' = file \o g /\ Shaped(file') /\ Untorn(file')
    BY <1>0, <1>2, <1>5, <1>6, AppendedIsShaped, AppendedIsUntorn DEF g
  <1>8. /\ file' \in Seq(Pieces) /\ Len(file') = Len(file) + Len(g) /\ Len(g) \in Nat
        /\ DOMAIN file' = 1 .. Len(file) + Len(g) /\ DOMAIN file = 1 .. Len(file)
        /\ \A i \in 1 .. Len(file) : file'[i] = file[i]
        /\ \A i \in 1 .. Len(g) : file'[Len(file) + i] = g[i]
    BY <1>0, <1>6, <1>7, Concatenated
  <1>9. LedgerTypeOK'
    <2>1. doing' \in [Writers -> {"idle", "probe", "write", "cut", "sync", "sync_dir",
                                  "done", "undone", "failed"}]
      BY DEF LedgerInv, LedgerTypeOK, WriteShort, Proceed
    <2>2. durable \in 0 .. Len(file')
      BY <1>0, <1>8
    <2> QED
      BY <1>0, <1>1, <1>8, <2>1, <2>2 DEF LedgerInv, LedgerTypeOK, WriteShort
  <1>10. FileInv'
    <2>1. shorts' + losses' # 0
      BY <1>0, <1>1 DEF WriteShort
    <2> QED
      BY <1>7, <2>1, UntornIsMarked DEF FileInv
  <1>11. WriterInv'
    <2>1. \A v \in Writers : v # w => ~Running(v)
      BY <1>0, <1>1 DEF LedgerInv, WriterInv, Running
    <2>2. before[w] = Len(file) /\ \A i \in DOMAIN file : ~IsOf(w, file[i])
      BY <1>0, <1>1 DEF LedgerInv, WriterInv
    <2>3. ~setting.new => entry = "durable"
      BY DEF LedgerInv, WriterInv
    <2>4. \A u, v \in Writers : Running(u)' /\ Running(v)' => u = v
      BY <1>0, <2>1 DEF Running
    <2>5. ASSUME NEW i \in DOMAIN file'
          PROVE  IF i <= before[w] THEN ~IsOf(w, file'[i]) ELSE file'[i] = NL \/ IsOf(w, file'[i])
      <3>1. CASE i <= Len(file)
        BY <1>8, <2>2, <3>1
      <3>2. CASE i > Len(file)
        <4>1. i - Len(file) \in DOMAIN g /\ Len(file) + (i - Len(file)) = i
          BY <1>0, <1>6, <1>8, <3>2
        <4>2. file'[i] = g[i - Len(file)]
          BY <1>6, <1>8, <4>1
        <4> QED
          BY <1>0, <1>6, <1>8, <2>2, <3>2, <4>1, <4>2
      <3> QED
        BY <1>0, <1>8, <3>1, <3>2
    <2>6. before[w] <= Len(file')
      BY <1>0, <1>8, <2>2
    <2>7. ASSUME NEW v \in Writers
          PROVE  /\ doing'[v] \notin {"probe", "write"}
                 /\ doing'[v] = "idle" => \A i \in DOMAIN file' : ~IsOf(v, file'[i])
                 /\ doing'[v] = "cut" => v = w
                 /\ IF v \in Batches THEN doing'[v] \notin {"sync", "sync_dir"}
                                     ELSE doing'[v] \notin {"cut", "undone"}
      <3>1. CASE v = w
        BY <1>0, <3>1
      <3>2. CASE v # w
        <4>1. doing'[v] = doing[v] /\ doing[v] \notin {"probe", "write", "cut"}
          BY <1>0, <2>1, <3>2 DEF Running
        <4>2. doing[v] = "idle" => \A i \in DOMAIN file : ~IsOf(v, file[i])
          BY DEF LedgerInv, WriterInv
        <4>3. \A i \in DOMAIN g : ~IsOf(v, g[i])
          BY <1>6, <3>2, RecordsAre
        <4>4. doing[v] = "idle" => \A i \in DOMAIN file' : ~IsOf(v, file'[i])
          BY <1>0, <1>6, <1>7, <4>2, <4>3, AppendedPieces
        <4>5. IF v \in Batches THEN doing[v] \notin {"sync", "sync_dir"}
                               ELSE doing[v] \notin {"cut", "undone"}
          BY DEF LedgerInv, WriterInv
        <4> QED
          BY <4>1, <4>4, <4>5
      <3> QED
        BY <3>1, <3>2
    <2>8. /\ setting' = setting /\ entry' = entry /\ before' = before /\ closes' = closes
          /\ losses' = losses /\ shorts' = 1
      BY <1>0, <1>1 DEF WriteShort
    <2>9. ASSUME NEW v \in Writers, doing'[v] = "cut"
          PROVE  /\ setting.locked /\ shorts' > 0 /\ before[v] <= Len(file') /\ Untorn(file')
                 /\ \A i \in DOMAIN file' : IF i <= before[v] THEN ~IsOf(v, file'[i])
                                            ELSE file'[i] = NL \/ IsOf(v, file'[i])
      <3>1. v = w
        BY <2>7, <2>9
      <3> QED
        BY <1>1, <1>7, <2>5, <2>6, <2>8, <3>1
    <2>10. (setting.locked => \A u, v \in Writers : Running(u) /\ Running(v) => u = v)'
      BY <2>4
    <2> QED
      BY <2>3, <2>7, <2>8, <2>9, <2>10 DEF WriterInv
  <1>12. StoreInv'
    <2> SUFFICES ASSUME NEW v \in Writers, NEW r \in ToSet(RecordsOf[v])
                 PROVE  /\ v \notin Batches =>
                              /\ doing'[v] = "sync" => StoredIn(file', r, Len(file'))
                              /\ doing'[v] \in {"sync_dir", "done"} => StoredIn(file', r, durable')
                        /\ v \in Batches /\ doing'[v] = "done" /\ losses' = 0 => StoredIn(file', r, Len(file'))
      BY DEF StoreInv
    <2>1. CASE v = w
      BY <1>0, <2>1
    <2>2. CASE v # w
      BY <1>0, <1>6, <1>7, <2>2, StoredInAppended DEF LedgerInv, WriteShort
    <2> QED
      BY <2>1, <2>2
  <1> QED
    BY <1>9, <1>10, <1>11, <1>12 DEF LedgerInv

\* A record that is stored whole, in front of where a batch is cut off or of
\* another writer's, is stored whole afterwards.
LEMMA StoredAheadOfCut ==
  ASSUME LedgerInv, NEW w \in Writers, doing[w] = "cut", NEW v \in Writers, v # w,
         NEW r \in ToSet(RecordsOf[v]), NEW n \in Nat, StoredIn(file, r, n)
  PROVE  /\ before[w] \in 0 .. Len(file)
         /\ StoredIn(SubSeq(file, 1, before[w]), r, n)
         /\ StoredIn(SubSeq(file, 1, before[w]), r, before[w])
  <1> DEFINE m == before[w]
             h == SubSeq(file, 1, m)
  <1>1. /\ file \in Seq(Pieces) /\ Len(file) \in Nat /\ DOMAIN file = 1 .. Len(file)
        /\ m \in 0 .. Len(file)
        /\ \A i \in DOMAIN file : i > m => file[i] = NL \/ IsOf(w, file[i])
    BY DEF LedgerInv, LedgerTypeOK, WriterInv
  <1>2. PICK i \in DOMAIN file : i < n /\ file[i] = Opening(r) /\ i < Len(file) /\ file[i + 1] = Ending(r)
    BY DEF StoredIn
  <1>3. i + 1 \in DOMAIN file /\ i \in Nat
    BY <1>1, <1>2
  <1>4. file[i + 1] # NL /\ ~IsOf(w, file[i + 1])
    <2>1. IsOf(v, file[i + 1])
      BY <1>2 DEF IsOf
    <2> QED
      BY <2>1, RecordsAre
  <1>5. i + 1 <= m
    BY <1>1, <1>3, <1>4
  <1>6. Len(h) = m /\ DOMAIN h = 1 .. m /\ \A j \in 1 .. m : h[j] = file[j]
    BY <1>1
  <1> HIDE DEF h, m
  <1>7. i \in DOMAIN h /\ i < Len(h) /\ i < m /\ h[i] = Opening(r) /\ h[i + 1] = Ending(r)
    BY <1>1, <1>2, <1>3, <1>5, <1>6
  <1>8. StoredIn(h, r, n) /\ StoredIn(h, r, m)
    BY <1>2, <1>7 DEF StoredIn
  <1> QED
    BY <1>1, <1>8 DEF h, m

LEMMA CutBackKeeps ==
  ASSUME OneFailure, LedgerInv, NEW w \in Writers, CutBack(w)
  PROVE  LedgerInv'
  <1>1. CASE Proceed(w, "failed") /\ UNCHANGED <<file, durable>>
    <2> USE <1>1 DEF LedgerInv, CutBack, Proceed
    <2>1. LedgerTypeOK'
      BY DEF LedgerTypeOK
    <2>2. FileInv'
      BY DEF FileInv
    <2>3. WriterInv'
      BY DEF WriterInv, LedgerTypeOK, Running
    <2>4. StoreInv'
      BY DEF StoreInv, LedgerTypeOK
    <2> QED
      BY <2>1, <2>2, <2>3, <2>4
  <1>2. CASE /\ file' = SubSeq(file, 1, before[w])
             /\ durable' = Min({durable, before[w]})
             /\ Proceed(w, "undone")
    <2> DEFINE m == before[w]
    <2>0. /\ file \in Seq(Pieces) /\ Len(file) \in Nat /\ durable \in Nat /\ durable <= Len(file)
          /\ doing[w] = "cut" /\ doing'[w] = "undone"
          /\ \A v \in Writers : v # w => doing'[v] = doing[v]
          /\ UNCHANGED <<setting, entry, creator, closes, before, shorts, losses>>
      BY <1>2 DEF LedgerInv, LedgerTypeOK, CutBack, Proceed
    <2>1. /\ setting.locked /\ shorts > 0 /\ m \in 0 .. Len(file) /\ Untorn(file) /\ Shaped(file)
          /\ shorts \in Nat /\ losses \in Nat /\ w \in Batches
      BY <2>0, LedgerConstants DEF LedgerInv, LedgerTypeOK, WriterInv, FileInv
    <2>2. /\ file' \in Seq(Pieces) /\ Len(file') = m /\ Shaped(file') /\ Untorn(file')
          /\ \A i \in 1 .. m : file'[i] = file[i]
          /\ DOMAIN file' = 1 .. m /\ DOMAIN file = 1 .. Len(file)
      BY <1>2, <2>0, <2>1, PrefixIsShaped
    <2>3. durable' = IF durable <= m THEN durable ELSE m
      BY <1>2, <2>0, <2>1, SmallerOf
    <2>4. LedgerTypeOK'
      <3>1. doing' \in [Writers -> {"idle", "probe", "write", "cut", "sync", "sync_dir",
                                    "done", "undone", "failed"}]
        BY <1>2 DEF LedgerInv, LedgerTypeOK, Proceed
      <3>2. durable' \in 0 .. Len(file')
        BY <2>0, <2>1, <2>2, <2>3
      <3> QED
        BY <2>0, <2>2, <3>1, <3>2 DEF LedgerInv, LedgerTypeOK
    <2>5. FileInv'
      <3>1. shorts' + losses' # 0
        BY <2>0, <2>1
      <3> QED
        BY <2>2, <3>1, UntornIsMarked DEF FileInv
    <2>6. WriterInv'
      <3>1. \A v \in Writers : v # w => ~Running(v)
        BY <2>0, <2>1 DEF LedgerInv, WriterInv, Running
      <3>2. ASSUME NEW v \in Writers
            PROVE  /\ doing'[v] \notin {"probe", "write", "cut"}
                   /\ doing'[v] = "idle" => \A i \in DOMAIN file' : ~IsOf(v, file'[i])
                   /\ IF v \in Batches THEN doing'[v] \notin {"sync", "sync_dir"}
                                       ELSE doing'[v] \notin {"cut", "undone"}
        <4>1. CASE v = w
          BY <2>0, <2>1, <4>1
        <4>2. CASE v # w
          <5>1. doing'[v] = doing[v] /\ doing[v] \notin {"probe", "write", "cut"}
            BY <2>0, <3>1, <4>2 DEF Running
          <5>2. doing[v] = "idle" => \A i \in DOMAIN file : ~IsOf(v, file[i])
            BY DEF LedgerInv, WriterInv
          <5>3. \A i \in DOMAIN file' : i \in DOMAIN file /\ file'[i] = file[i]
            BY <2>0, <2>1, <2>2
          <5>4. IF v \in Batches THEN doing[v] \notin {"sync", "sync_dir"}
                                 ELSE doing[v] \notin {"cut", "undone"}
            BY DEF LedgerInv, WriterInv
          <5> QED
            BY <5>1, <5>2, <5>3, <5>4
        <4> QED
          BY <4>1, <4>2
      <3>3. \A u, v \in Writers : Running(u)' /\ Running(v)' => u = v
        BY <2>0, <3>1 DEF Running
      <3>4. ~setting.new => entry = "durable"
        BY DEF LedgerInv, WriterInv
      <3> QED
        BY <2>0, <3>2, <3>3, <3>4 DEF WriterInv
    <2>7. StoreInv'
      <3> SUFFICES ASSUME NEW v \in Writers, NEW r \in ToSet(RecordsOf[v])
                   PROVE  /\ v \notin Batches =>
                                /\ doing'[v] = "sync" => StoredIn(file', r, Len(file'))
                                /\ doing'[v] \in {"sync_dir", "done"} => StoredIn(file', r, durable')
                          /\ v \in Batches /\ doing'[v] = "done" /\ losses' = 0 => StoredIn(file', r, Len(file'))
        BY DEF StoreInv
      <3>1. CASE v = w
        BY <2>0, <3>1
      <3>2. CASE v # w
        <4>1. StoredIn(file, r, Len(file)) => StoredIn(file', r, Len(file'))
          BY <1>2, <2>0, <2>2, <3>2, StoredAheadOfCut
        <4>2. StoredIn(file, r, durable) => StoredIn(file', r, durable')
          BY <1>2, <2>0, <2>3, <3>2, StoredAheadOfCut
        <4> QED
          BY <2>0, <3>2, <4>1, <4>2 DEF LedgerInv, StoreInv
      <3> QED
        BY <3>1, <3>2
    <2> QED
      BY <2>4, <2>5, <2>6, <2>7 DEF LedgerInv
  <1> QED
    BY <1>1, <1>2 DEF CutBack

LEMMA PowerLossKeeps ==
  ASSUME OneFailure, LedgerInv, PowerLoss
  PROVE  LedgerInv'
  <1>0. /\ file \in Seq(Pieces) /\ Len(file) \in Nat /\ durable \in Nat /\ durable <= Len(file)
        /\ setting \in Settings
        /\ \A v \in Writers : doing'[v] = IF Running(v) THEN "failed" ELSE doing[v]
        /\ UNCHANGED <<setting, creator, closes, before, shorts>>
    BY DEF LedgerInv, LedgerTypeOK, PowerLoss
  <1>1. shorts = 0 /\ losses = 0 /\ losses' = 1 /\ setting.losses = 1 /\ ~setting.new
    <2>1. /\ setting.shorts \in Nat /\ setting.losses \in Nat /\ setting.shorts + setting.losses <= 1
          /\ setting.losses > 0 => ~setting.new
      BY <1>0, LedgerConstants DEF OneFailure
    <2>2. /\ shorts \in 0 .. setting.shorts /\ losses \in 0 .. setting.losses
          /\ losses < setting.losses /\ losses' = losses + 1
      BY DEF LedgerInv, LedgerTypeOK, PowerLoss
    <2> QED
      BY <2>1, <2>2
  <1>2. Untorn(file) /\ Shaped(file) /\ entry = "durable"
    BY <1>1 DEF LedgerInv, FileInv, WriterInv
  <1>3. PICK n \in durable .. Len(file) : file' = SubSeq(file, 1, n) /\ durable' = n /\ entry' = entry
    BY <1>2 DEF PowerLoss
  <1>4. n \in 0 .. Len(file) /\ n \in Nat /\ durable <= n
    BY <1>0
  <1>5. /\ file' \in Seq(Pieces) /\ Len(file') = n /\ Shaped(file') /\ Untorn(file')
        /\ \A i \in 1 .. n : file'[i] = file[i]
        /\ DOMAIN file' = 1 .. n /\ DOMAIN file = 1 .. Len(file)
    BY <1>0, <1>2, <1>3, <1>4, PrefixIsShaped
  <1>6. LedgerTypeOK'
    <2>1. doing' \in [Writers -> {"idle", "probe", "write", "cut", "sync", "sync_dir",
                                  "done", "undone", "failed"}]
      BY DEF LedgerInv, LedgerTypeOK, PowerLoss
    <2> QED
      BY <1>0, <1>1, <1>3, <1>4, <1>5, <2>1 DEF LedgerInv, LedgerTypeOK
  <1>7. FileInv'
    <2>1. shorts' + losses' # 0
      BY <1>0, <1>1
    <2> QED
      BY <1>5, <2>1, UntornIsMarked DEF FileInv
  <1>8. WriterInv'
    <2>1. \A v \in Writers : doing'[v] \notin {"probe", "write", "cut", "sync", "sync_dir"}
      BY <1>0 DEF Running
    <2>2. ASSUME NEW v \in Writers
          PROVE  /\ doing'[v] = "idle" => \A i \in DOMAIN file' : ~IsOf(v, file'[i])
                 /\ v \notin Batches => doing'[v] \notin {"cut", "undone"}
      <3>1. doing'[v] = doing[v] \/ doing'[v] = "failed"
        BY <1>0
      <3>2. doing[v] = "idle" => \A i \in DOMAIN file : ~IsOf(v, file[i])
        BY DEF LedgerInv, WriterInv
      <3>3. \A i \in DOMAIN file' : i \in DOMAIN file /\ file'[i] = file[i]
        BY <1>0, <1>4, <1>5
      <3>4. v \notin Batches => doing[v] \notin {"cut", "undone"}
        BY DEF LedgerInv, WriterInv
      <3> QED
        BY <3>1, <3>2, <3>3, <3>4
    <2> QED
      BY <1>0, <1>2, <1>3, <2>1, <2>2 DEF WriterInv, Running
  <1>9. StoreInv'
    <2> SUFFICES ASSUME NEW v \in Writers, NEW r \in ToSet(RecordsOf[v])
                 PROVE  v \notin Batches =>
                              /\ doing'[v] = "sync" => StoredIn(file', r, Len(file'))
                              /\ doing'[v] \in {"sync_dir", "done"} => StoredIn(file', r, durable')
      BY <1>1 DEF StoreInv
    <2>1. r \in Records
      BY RecordsAre
    <2>2. StoredIn(file, r, durable) => StoredIn(file', r, durable')
      <3> SUFFICES ASSUME StoredIn(file, r, durable) PROVE StoredIn(file', r, durable')
        OBVIOUS
      <3>1. StoredIn(file', r, durable)
        BY <1>0, <1>3, <1>4, <2>1, StoredStays
      <3> QED
        BY <1>0, <1>3, <1>4, <1>5, <2>1, <3>1, StoredStays
    <2>3. doing'[v] \notin {"sync", "sync_dir"} /\ (doing'[v] = "done" => doing[v] = "done")
      BY <1>0 DEF Running
    <2> QED
      BY <2>2, <2>3 DEF LedgerInv, StoreInv
  <1> QED
    BY <1>6, <1>7, <1>8, <1>9 DEF LedgerInv

LEMMA StutterKeepsLedger ==
  ASSUME LedgerInv, UNCHANGED ledgerVars
  PROVE  LedgerInv'
  BY DEF LedgerInv, LedgerTypeOK, FileInv, WriterInv, StoreInv, Running, ledgerVars

\* The inductive invariant of the ledger.
THEOREM LedgerInvariant ==
  ASSUME OneFailure
  PROVE  LedgerSpec => []LedgerInv
  <1>1. LedgerInv /\ [LedgerNext]_ledgerVars => LedgerInv'
    BY OpenKeeps, ProbeKeeps, WriteWholeKeeps, WriteShortKeeps, CutBackKeeps, SyncKeeps,
       SyncDirKeeps, KillKeeps, PowerLossKeeps, StutterKeepsLedger DEF LedgerNext
  <1> QED
    BY LedgerBegins, <1>1, PTL DEF LedgerSpec

\* One torn append does not stop any reader, and one power loss does not either.
THEOREM ReadersNeverStop ==
  ASSUME OneFailure
  PROVE  LedgerSpec => []NeverStopsReaders
  <1>1. LedgerInv => NeverStopsReaders
    BY ShapedFilesRead DEF LedgerInv, LedgerTypeOK, FileInv, NeverStopsReaders
  <1> QED
    BY LedgerInvariant, <1>1, PTL

\* The records that LedgerInv says are stored are records that readers get.
LEMMA AckedHolds ==
  LedgerInv => AckedStaysReadable
  <1> SUFFICES ASSUME LedgerInv PROVE AckedStaysReadable
    OBVIOUS
  <1>1. file \in Seq(Pieces) /\ Shaped(file) /\ durable \in Nat
    BY DEF LedgerInv, LedgerTypeOK, FileInv
  <1>2. \A r \in Records : StoredIn(file, r, Len(file)) => r \in Readable(file)
    BY <1>1, StoredIsReadable
  <1>3. ASSUME NEW w \in Writers, doing[w] = "done", w \notin Batches \/ losses = 0,
               NEW r \in ToSet(RecordsOf[w])
        PROVE  r \in Readable(file)
    <2>1. r \in Records
      BY RecordsAre
    <2>2. StoredIn(file, r, durable) \/ StoredIn(file, r, Len(file))
      BY <1>3 DEF LedgerInv, StoreInv
    <2>3. StoredIn(file, r, Len(file))
      BY <1>1, <2>1, <2>2, StoredStays
    <2> QED
      BY <1>2, <2>1, <2>3
  <1>4. Batches \subseteq Writers
    BY LedgerConstants
  <1> QED
    BY <1>3, <1>4 DEF AckedStaysReadable, Appended

\* What append_jsonl acknowledged is in every later read, and what append_batch
\* did as long as the power stays on.
THEOREM AckedIsReadable ==
  ASSUME OneFailure
  PROVE  LedgerSpec => []AckedStaysReadable
  BY LedgerInvariant, AckedHolds, PTL

\* Cutting a failed batch off takes all of it and nothing else.
THEOREM UndoneIsGone ==
  ASSUME OneFailure
  PROVE  LedgerSpec => UndoneBatchIsGone
  <1> DEFINE Gone == \A w \in Batches : doing[w] = "cut" /\ doing'[w] = "undone"
         => /\ \A i \in DOMAIN file' : file'[i] # NL => file'[i][1] \notin ToSet(RecordsOf[w])
            /\ Readable(file) \ ToSet(RecordsOf[w]) \subseteq Readable(file')
  <1>1. ASSUME LedgerInv, LedgerNext PROVE Gone
    <2> SUFFICES ASSUME NEW w \in Batches, doing[w] = "cut", doing'[w] = "undone"
                 PROVE  /\ \A i \in DOMAIN file' : file'[i] # NL => file'[i][1] \notin ToSet(RecordsOf[w])
                        /\ Readable(file) \ ToSet(RecordsOf[w]) \subseteq Readable(file')
      OBVIOUS
    <2>0. w \in Writers
      BY LedgerConstants
    <2> DEFINE m == before[w]
    <2>1. file' = SubSeq(file, 1, m)
      <3>1. doing \in [Writers -> {"idle", "probe", "write", "cut", "sync", "sync_dir",
                                   "done", "undone", "failed"}]
        BY <1>1 DEF LedgerInv, LedgerTypeOK
      <3>2. ~PowerLoss
        BY <2>0 DEF PowerLoss, Running
      <3>3. PICK v \in Writers : \/ Open(v) \/ ProbeTail(v) \/ WriteWhole(v) \/ WriteShort(v)
                                 \/ CutBack(v) \/ Sync(v) \/ SyncDir(v) \/ Kill(v)
        BY <1>1, <3>2 DEF LedgerNext
      <3>4. \E l : Proceed(v, l)
        BY <3>3 DEF Open, ProbeTail, WriteWhole, WriteShort, CutBack, Sync, SyncDir, Kill
      <3>5. v = w
        BY <2>0, <3>1, <3>4 DEF Proceed
      <3>6. ~Kill(w)
        BY <2>0, <3>1 DEF Kill, Proceed
      <3>7. CutBack(w)
        BY <3>3, <3>5, <3>6 DEF Open, ProbeTail, WriteWhole, WriteShort, Sync, SyncDir
      <3>8. ~Proceed(w, "failed")
        BY <2>0, <3>1 DEF Proceed
      <3> QED
        BY <3>7, <3>8 DEF CutBack
    <2>2. /\ file \in Seq(Pieces) /\ Shaped(file) /\ m \in 0 .. Len(file)
          /\ Len(file) \in Nat /\ DOMAIN file = 1 .. Len(file)
          /\ \A i \in DOMAIN file : i <= m => ~IsOf(w, file[i])
      BY <1>1, <2>0 DEF LedgerInv, LedgerTypeOK, FileInv, WriterInv
    <2>3. /\ file' \in Seq(Pieces) /\ Shaped(file') /\ Len(file') = m /\ DOMAIN file' = 1 .. m
          /\ \A i \in 1 .. m : file'[i] = file[i]
      BY <2>1, <2>2, PrefixIsShaped
    <2>4. ASSUME NEW i \in DOMAIN file', file'[i] # NL, file'[i][1] \in ToSet(RecordsOf[w])
          PROVE  FALSE
      <3>1. file'[i] \in Pieces /\ i \in DOMAIN file /\ i <= m /\ file'[i] = file[i]
        BY <2>2, <2>3
      <3>2. PICK x \in Records \cup {Mark} : file'[i] = Opening(x) \/ file'[i] = Ending(x)
        BY <2>4, <3>1, PieceIsOneOf
      <3>3. file'[i][1] = x
        BY <3>2 DEF Opening, Ending
      <3>4. IsOf(w, file[i])
        BY <2>4, <3>1, <3>2, <3>3 DEF IsOf
      <3> QED
        BY <2>2, <3>1, <3>4
    <2>5. ASSUME NEW r \in Readable(file), r \notin ToSet(RecordsOf[w])
          PROVE  r \in Readable(file')
      <3>1. r \in Records /\ StoredIn(file, r, Len(file))
        BY <2>2, StoredIsReadable
      <3>2. PICK v \in Writers : r \in ToSet(RecordsOf[v])
        BY <3>1 DEF Records
      <3>3. v # w
        BY <2>5, <3>2
      <3>4. StoredIn(file', r, m)
        BY <1>1, <2>0, <2>1, <2>2, <3>1, <3>2, <3>3, StoredAheadOfCut
      <3> QED
        BY <2>3, <3>1, <3>4, StoredIsReadable
    <2> QED
      BY <2>4, <2>5
  <1>2. ASSUME UNCHANGED ledgerVars PROVE Gone
    BY <1>2 DEF ledgerVars
  <1> QED
    BY LedgerInvariant, <1>1, <1>2, PTL DEF LedgerSpec, UndoneBatchIsGone

----------------------------------------------------------------------------
(* The ledgers: an append-only list                                        *)

\* A file that goes on from another reads as that one's continuation.
LEMMA ReadContinues ==
  ASSUME NEW f \in Seq(Pieces), Shaped(f), NEW h \in Seq(Pieces), Shaped(h),
         Len(f) <= Len(h), \A i \in 1 .. Len(f) : h[i] = f[i]
  PROVE  Ledger!Continues(Read(h), Read(f)) /\ Read(h) \in [DOMAIN Read(h) -> Records]
  <1>1. /\ Len(f) \in Nat /\ Len(h) \in Nat /\ DOMAIN f = 1 .. Len(f) /\ DOMAIN h = 1 .. Len(h)
        /\ DOMAIN Read(f) = RecordStarts(f) /\ DOMAIN Read(h) = RecordStarts(h)
        /\ \A i \in RecordStarts(f) : Read(f)[i] = f[i][1]
        /\ \A i \in RecordStarts(h) : Read(h)[i] = h[i][1]
    BY DEF Read
  <1>2. ASSUME NEW i \in RecordStarts(f)
        PROVE  i \in RecordStarts(h) /\ i \in DOMAIN f /\ i < Len(f) /\ f[i] = h[i]
    <2>1. i \in DOMAIN f /\ i < Len(f) /\ \E r \in Records : f[i] = Opening(r) /\ f[i + 1] = Ending(r)
      BY StoredIsReadable
    <2>2. i \in DOMAIN h /\ i < Len(h) /\ h[i] = f[i] /\ h[i + 1] = f[i + 1]
      BY <1>1, <2>1
    <2> QED
      BY <2>1, <2>2, StoredIsReadable
  <1>3. ASSUME NEW i \in RecordStarts(f), NEW j \in RecordStarts(h) \ RecordStarts(f) PROVE i < j
    <2>1. j \in DOMAIN h /\ j < Len(h) /\ \E r \in Records : h[j] = Opening(r) /\ h[j + 1] = Ending(r)
      BY StoredIsReadable
    <2>2. ~(j < Len(f))
      <3> SUFFICES ASSUME j < Len(f) PROVE FALSE
        OBVIOUS
      <3>1. j \in DOMAIN f /\ h[j] = f[j] /\ h[j + 1] = f[j + 1]
        BY <1>1, <2>1
      <3>2. j \in RecordStarts(f)
        BY <2>1, <3>1, StoredIsReadable
      <3> QED
        BY <3>2
    <2> QED
      BY <1>1, <1>2, <2>1, <2>2
  <1>4. \A i \in RecordStarts(h) : Read(h)[i] \in Records
    <2> SUFFICES ASSUME NEW i \in RecordStarts(h) PROVE h[i][1] \in Records
      BY <1>1
    <2>1. PICK r \in Records : h[i] = Opening(r)
      BY StoredIsReadable
    <2> QED
      BY <2>1 DEF Opening
  <1>5. Read(f) = [i \in DOMAIN Read(f) |-> Read(h)[i]]
    BY <1>1, <1>2 DEF Read
  <1>6. Read(h) \in [DOMAIN Read(h) -> Records]
    BY <1>1, <1>4 DEF Read
  <1> QED
    BY <1>1, <1>2, <1>3, <1>5, <1>6 DEF Ledger!Continues, Ledger!Restrict, Restrict

\* Only an append that ends as done adds to the promises.
LEMMA PromisesStay ==
  ASSUME \A v \in Writers \ Batches : doing'[v] = "done" <=> doing[v] = "done"
  PROVE  Appended(Writers \ Batches)' = Appended(Writers \ Batches)
  <1>1. {v \in Writers \ Batches : doing'[v] = "done"} = {v \in Writers \ Batches : doing[v] = "done"}
    OBVIOUS
  <1> QED
    BY <1>1 DEF Appended

\* The writes only add to what is read.
LEMMA WritesGrow ==
  ASSUME LedgerInv, LedgerInv', NEW w \in Writers, WriteWhole(w) \/ WriteShort(w)
  PROVE  Ledger!Grow
  <1>1. /\ file \in Seq(Pieces) /\ Shaped(file) /\ file' \in Seq(Pieces) /\ Shaped(file')
        /\ closes \in [Writers -> BOOLEAN]
    BY DEF LedgerInv, LedgerTypeOK, FileInv
  <1>2. Buffer(w) \in Seq(Pieces)
    BY <1>1, BufferIsShaped
  <1>3. \E g \in Seq(Pieces) : file' = file \o g
    <2>1. CASE WriteWhole(w)
      BY <1>2, <2>1 DEF WriteWhole
    <2>2. CASE WriteShort(w)
      <3>1. PICK n \in 0 .. Len(Buffer(w)) - 1 : file' = file \o SubSeq(Buffer(w), 1, n)
        BY <2>2 DEF WriteShort
      <3> DEFINE b == Buffer(w)
      <3>2. b \in Seq(Pieces)
        BY <1>2
      <3>3. n \in 0 .. Len(b) - 1 /\ file' = file \o SubSeq(b, 1, n)
        BY <3>1
      <3> HIDE DEF b
      <3>4. SubSeq(b, 1, n) \in Seq(Pieces)
        BY <3>2, <3>3
      <3> QED
        BY <3>3, <3>4
    <2> QED
      BY <2>1, <2>2
  <1>4. Ledger!Continues(Read(file'), Read(file)) /\ Read(file') \in [DOMAIN Read(file') -> Records]
    <2>1. Len(file) <= Len(file') /\ \A i \in 1 .. Len(file) : file'[i] = file[i]
      <3>1. PICK g \in Seq(Pieces) : file' = file \o g
        BY <1>3
      <3>2. Len(file) \in Nat /\ Len(g) \in Nat /\ Len(file') = Len(file) + Len(g)
            /\ \A i \in 1 .. Len(file) : file'[i] = file[i]
        BY <1>1, <3>1, Concatenated
      <3> QED
        BY <3>2
    <2> QED
      BY <1>1, <2>1, ReadContinues
  <1>5. \A v \in Writers \ Batches : doing'[v] = "done" <=> doing[v] = "done"
    BY DEF LedgerInv, LedgerTypeOK, WriteWhole, WriteShort, Proceed
  <1>6. Appended(Writers \ Batches)' = Appended(Writers \ Batches)
    BY <1>5, PromisesStay
  <1>7. Read(file)' = Read(file')
    BY DEF Read, RecordStarts, LineStarts, LineAt, IsRecord
  <1> QED
    BY <1>4, <1>6, <1>7 DEF Ledger!Grow, Ledger!Continues

\* Cutting back and losing power take records back from the end, and none that
\* was acknowledged.
LEMMA CutsLose ==
  ASSUME LedgerInv, LedgerInv', NEW n \in 0 .. Len(file), file' = SubSeq(file, 1, n),
         \A v \in Writers \ Batches : doing'[v] = "done" <=> doing[v] = "done"
  PROVE  Ledger!Lose
  <1>1. file \in Seq(Pieces) /\ Shaped(file)
    BY DEF LedgerInv, LedgerTypeOK, FileInv
  <1>2. Ledger!Continues(Read(file), Read(file'))
    <2>1. /\ file' \in Seq(Pieces) /\ Len(file') = n /\ Shaped(file')
          /\ \A i \in 1 .. n : file[i] = file'[i]
      BY <1>1, PrefixIsShaped
    <2>2. Len(file') <= Len(file) /\ \A i \in 1 .. Len(file') : file[i] = file'[i]
      BY <2>1
    <2> QED
      BY <1>1, <2>1, <2>2, ReadContinues
  <1>3. Appended(Writers \ Batches)' = Appended(Writers \ Batches)
    BY PromisesStay
  <1>4. Read(file)' = Read(file')
    BY DEF Read, RecordStarts, LineStarts, LineAt, IsRecord
  <1>5. AckedStaysReadable'
    BY AckedHolds, PTL
  <1>6. Appended(Writers \ Batches) \subseteq Range(Read(file'))
    BY <1>3, <1>4, <1>5 DEF AckedStaysReadable, Readable, Range
  <1> QED
    BY <1>2, <1>3, <1>4, <1>6 DEF Ledger!Lose, Ledger!Continues, Ledger!Range, Range

\* A sync that was the last call of an append acknowledges its records.
LEMMA SyncsPromise ==
  ASSUME LedgerInv, LedgerInv', NEW w \in Writers, Sync(w) \/ SyncDir(w), doing'[w] = "done"
  PROVE  \E S \in SUBSET Records : Ledger!Promise(S)
  <1> DEFINE S == ToSet(RecordsOf[w])
  <1>1. S \subseteq Records /\ w \in Writers \ Batches
    BY RecordsAre DEF LedgerInv, WriterInv, Sync, SyncDir
  <1>2. file' = file /\ \A v \in Writers : v # w => doing'[v] = doing[v]
    BY DEF LedgerInv, LedgerTypeOK, Sync, SyncDir, Proceed
  <1>3. doing[w] # "done"
    BY DEF Sync, SyncDir
  <1>4. Appended(Writers \ Batches)' = Appended(Writers \ Batches) \cup S
    <2>1. {v \in Writers \ Batches : doing'[v] = "done"} = {v \in Writers \ Batches : doing[v] = "done"} \cup {w}
      BY <1>1, <1>2
    <2>2. \A A : UNION {ToSet(RecordsOf[v]) : v \in A \cup {w}}
                    = (UNION {ToSet(RecordsOf[v]) : v \in A}) \cup S
      OBVIOUS
    <2> QED
      BY <2>1, <2>2 DEF Appended
  <1>5. Read(file)' = Read(file) /\ Readable(file)' = Readable(file)
    BY <1>2 DEF Read, RecordStarts, LineStarts, LineAt, IsRecord, Readable, Range
  <1>6. AckedStaysReadable'
    BY AckedHolds, PTL
  <1>7. S \subseteq Readable(file)
    BY <1>4, <1>5, <1>6 DEF AckedStaysReadable
  <1> HIDE DEF S
  <1>8. Ledger!Promise(S)
    BY <1>4, <1>5, <1>7 DEF Ledger!Promise, Ledger!Range, Readable, Range
  <1> QED
    BY <1>1, <1>8

\* Everything else leaves the list and the promises alone.
LEMMA RestIsSilent ==
  ASSUME LedgerInv, NEW w \in Writers,
         \/ Open(w) \/ ProbeTail(w) \/ Kill(w)
         \/ (Sync(w) \/ SyncDir(w)) /\ doing'[w] # "done"
         \/ CutBack(w) /\ UNCHANGED file
  PROVE  UNCHANGED <<Read(file), Appended(Writers \ Batches)>>
  <1>1. file' = file
    BY DEF Open, ProbeTail, Kill, Sync, SyncDir
  <1>2. \A v \in Writers \ Batches : doing'[v] = "done" <=> doing[v] = "done"
    BY DEF LedgerInv, LedgerTypeOK, Open, ProbeTail, Kill, Sync, SyncDir, CutBack, Proceed, Running
  <1>3. Read(file)' = Read(file)
    BY <1>1 DEF Read, RecordStarts, LineStarts, LineAt, IsRecord
  <1> QED
    BY <1>2, <1>3, PromisesStay

\* For its readers the file is an append-only list of records: every system
\* call of a writer, every kill and a power loss is a step of AppendOnlyLedger or
\* leaves it alone.
THEOREM LedgerIsALedger ==
  ASSUME OneFailure
  PROVE  LedgerSpec => ImplementsLedger
  <1>1. ASSUME LedgerInit PROVE Ledger!Init
    <2>1. file = <<>> /\ file \in Seq(Pieces) /\ Shaped(file)
      BY <1>1 DEF LedgerInit, Shaped
    <2>2. RecordStarts(file) = {}
      <3>1. DOMAIN file = {}
        BY <2>1
      <3> QED
        BY <2>1, <3>1, StoredIsReadable
    <2>3. Read(file) = [i \in {} |-> file[i][1]]
      BY <2>2 DEF Read
    <2>4. Read(file) = <<>>
      BY <2>3
    <2>5. Appended(Writers \ Batches) = {}
      BY <1>1 DEF LedgerInit, Appended
    <2> QED
      BY <2>4, <2>5 DEF Ledger!Init
  <1>2. ASSUME LedgerInv, LedgerInv', [LedgerNext]_ledgerVars
        PROVE  [Ledger!Next]_<<Read(file), Appended(Writers \ Batches)>>
    <2>1. CASE UNCHANGED ledgerVars
      <3>1. file' = file /\ doing' = doing
        BY <2>1 DEF ledgerVars
      <3> QED
        BY <3>1, PromisesStay DEF Read, RecordStarts, LineStarts, LineAt, IsRecord
    <2>2. CASE PowerLoss
      <3>1. entry # "cached"
        <4>1. setting.losses \in Nat /\ (setting.losses > 0 => ~setting.new)
          BY <1>2, LedgerConstants DEF LedgerInv, LedgerTypeOK, OneFailure
        <4>2. losses \in 0 .. setting.losses /\ losses < setting.losses
          BY <1>2, <2>2 DEF LedgerInv, LedgerTypeOK, PowerLoss
        <4>3. ~setting.new
          BY <4>1, <4>2
        <4> QED
          BY <1>2, <4>3 DEF LedgerInv, WriterInv
      <3>2. PICK n \in durable .. Len(file) : file' = SubSeq(file, 1, n)
        BY <2>2, <3>1 DEF PowerLoss
      <3>3. n \in 0 .. Len(file)
        BY <1>2 DEF LedgerInv, LedgerTypeOK
      <3>4. \A v \in Writers \ Batches : doing'[v] = "done" <=> doing[v] = "done"
        BY <2>2 DEF PowerLoss, Running
      <3> QED
        BY <1>2, <3>2, <3>3, <3>4, CutsLose DEF Ledger!Next
    <2>3. ASSUME NEW w \in Writers,
                 \/ Open(w) \/ ProbeTail(w) \/ WriteWhole(w) \/ WriteShort(w)
                 \/ CutBack(w) \/ Sync(w) \/ SyncDir(w) \/ Kill(w)
          PROVE  [Ledger!Next]_<<Read(file), Appended(Writers \ Batches)>>
      <3>1. CASE WriteWhole(w) \/ WriteShort(w)
        BY <1>2, <3>1, WritesGrow DEF Ledger!Next
      <3>2. CASE (Sync(w) \/ SyncDir(w)) /\ doing'[w] = "done"
        BY <1>2, <3>2, SyncsPromise DEF Ledger!Next
      <3>3. CASE CutBack(w) /\ file' # file
        <4>1. /\ file' = SubSeq(file, 1, before[w])
              /\ \A v \in Writers \ Batches : doing'[v] = "done" <=> doing[v] = "done"
          BY <1>2, <3>3 DEF LedgerInv, LedgerTypeOK, CutBack, Proceed
        <4>2. before[w] \in 0 .. Len(file)
          BY <1>2, <3>3 DEF LedgerInv, LedgerTypeOK, WriterInv, CutBack
        <4> QED
          BY <1>2, <4>1, <4>2, CutsLose DEF Ledger!Next
      <3>4. CASE \/ Open(w) \/ ProbeTail(w) \/ Kill(w)
                 \/ (Sync(w) \/ SyncDir(w)) /\ doing'[w] # "done"
                 \/ CutBack(w) /\ UNCHANGED file
        BY <1>2, <3>4, RestIsSilent
      <3> QED
        BY <2>3, <3>1, <3>2, <3>3, <3>4
    <2> QED
      BY <1>2, <2>1, <2>2, <2>3 DEF LedgerNext
  <1>3. LedgerInv /\ LedgerInv' /\ [LedgerNext]_ledgerVars
          => [Ledger!Next]_<<Read(file), Appended(Writers \ Batches)>>
    BY <1>2
  <1> QED
    BY LedgerInvariant, <1>1, <1>3, PTL DEF LedgerSpec, ImplementsLedger, Ledger!Spec

----------------------------------------------------------------------------
(* The lock                                                                *)

\* The initial files belong to nobody who runs, and nobody is past "idle".
LEMMA InitEstablishesLockInv == LockInit => LockInv
  <1> SUFFICES ASSUME LockInit PROVE LockInv
    OBVIOUS
  <1> USE LockConstants DEF LockInit, Absent, LeftOver
  <1>1. LockTypeOK
    BY DEF LockTypeOK, File, Creators, Texts, Labels
  <1>2. HolderOwnsFile /\ ReclaimerOwnsGuard
    BY DEF HolderOwnsFile, ReclaimerOwnsGuard, Owning, Reclaiming
  <1>3. HonestStamps
    BY DEF HonestStamps
  <1>4. ProbesStayTrue /\ DeletesOnlyTheDead
    BY DEF ProbesStayTrue, DeletesOnlyTheDead
  <1> QED
    BY <1>1, <1>2, <1>3, <1>4 DEF LockInv

\* An action of one thread.  Only three kinds of step can disturb ownership:
\* a deletion of the lock (RemoveStaleLock, Release), a deletion of the guard
\* (ClearGuard, LeaveReclaim) and a creation, which needs the file absent.
LEMMA StepKeepsLockInv ==
  ASSUME LockInv, NEW t \in Threads, Step(t)
  PROVE  LockInv'
  <1> USE LockConstants
          DEF LockInv, LockTypeOK, File, Creators, Texts, Labels, At, Goto, Live,
              Absent, Fresh, NamesTheDead, SeesDead
  <1> USE DEF HolderOwnsFile, ReclaimerOwnsGuard, Owning, Reclaiming,
              HonestStamps, ProbesStayTrue, DeletesOnlyTheDead
  <1>1. CASE TryCreate(t)
    BY <1>1 DEF TryCreate
  <1>2. CASE Stamp(t, "stamp", "guard_read") \/ Stamp(t, "restamp", "drop_guard_won")
    BY <1>2 DEF Stamp
  <1>3. CASE ReadOwner(t, guard, "guard_read", "guard_probe")
    BY <1>3 DEF ReadOwner
  <1>4. CASE ProbeGuard(t)
    BY <1>4 DEF ProbeGuard, ProbeOwner
  <1>5. CASE ClearGuard(t)
    BY <1>5 DEF ClearGuard
  <1>6. CASE \/ ReadOwner(t, lock, "lock_read", "lock_probe")
                 \/ ReadOwner(t, lock, "recheck_read", "recheck_probe")
    BY <1>6 DEF ReadOwner
  <1>7. CASE \/ ProbeOwner(t, "lock_probe", "claim", "advise_lock_read")
                 \/ ProbeOwner(t, "recheck_probe", "remove", "drop_guard_lost")
    BY <1>7 DEF ProbeOwner
  <1>8. CASE ClaimGuard(t)
    BY <1>8 DEF ClaimGuard
  <1>9. CASE StampGuard(t)
    BY <1>9 DEF StampGuard
  <1>10. CASE RemoveStaleLock(t)
    BY <1>10 DEF RemoveStaleLock
  <1>11. CASE CreateAgain(t)
    BY <1>11 DEF CreateAgain
  <1>12. CASE LeaveReclaim(t)
    BY <1>12 DEF LeaveReclaim, DropGuard
  <1>13. CASE Refuse(t) \/ Retry(t)
    BY <1>13 DEF Refuse, ReadOwner, ProbeOwner, Retry
  <1>14. CASE Release(t)
    BY <1>14 DEF Release
  <1> QED
    BY <1>1, <1>2, <1>3, <1>4, <1>5, <1>6, <1>7, <1>8, <1>9, <1>10, <1>11, <1>12, <1>13, <1>14
       DEF Step, Acquire, Reclaim

\* The end of a process.  This is where QuietExit is needed: it keeps a probe
\* about to be made truthful about the file it is about.
LEMMA DieKeepsLockInv ==
  ASSUME QuietExit, LockInv, NEW q \in Pids, Die(q)
  PROVE  LockInv'
  <1> USE LockConstants DEF LockInv, Die, Live
  <1>1. LockTypeOK'
    BY DEF LockTypeOK
  <1>2. HolderOwnsFile' /\ ReclaimerOwnsGuard'
    BY DEF HolderOwnsFile, ReclaimerOwnsGuard, Owning, Reclaiming
  <1>3. HonestStamps'
    BY DEF HonestStamps
  <1>4. ProbesStayTrue'
    <2> SUFFICES ASSUME NEW t \in Threads, Live(t), SeesDead(t)'
                 PROVE  /\ call[t] = "recheck_probe" => lock.text = seen[t]
                        /\ call[t] = "guard_probe" => guard.text = seen[t]
      BY DEF ProbesStayTrue, SeesDead
    <2>1. CASE seen[t] = q
      BY <2>1 DEF At
    <2>2. CASE seen[t] # q
      BY <2>2 DEF ProbesStayTrue, SeesDead
    <2> QED
      BY <2>1, <2>2
  <1>5. DeletesOnlyTheDead'
    BY DEF DeletesOnlyTheDead, NamesTheDead
  <1> QED
    BY <1>1, <1>2, <1>3, <1>4, <1>5

LEMMA StutterKeepsLockInv ==
  ASSUME LockInv, UNCHANGED lockVars
  PROVE  LockInv'
  BY DEF LockInv, LockTypeOK, HolderOwnsFile, ReclaimerOwnsGuard, HonestStamps, Owning, Reclaiming,
     ProbesStayTrue, DeletesOnlyTheDead, NamesTheDead, SeesDead, Live, lockVars

\* The inductive invariant holds in every behaviour with quiet exits.
THEOREM LockInvariant ==
  ASSUME QuietExit
  PROVE  LockSpec => []LockInv
  <1>1. LockInv /\ [LockNext]_lockVars => LockInv'
    BY StepKeepsLockInv, DieKeepsLockInv, StutterKeepsLockInv DEF LockNext
  <1> QED
    BY InitEstablishesLockInv, <1>1, PTL DEF LockSpec

\* Single writer: whatever crashes and whatever a probe fails to tell, two
\* running threads never both hold run.lock.
THEOREM RunLockIsExclusive ==
  ASSUME QuietExit
  PROVE  LockSpec => []MutualExclusion
  <1>1. LockInv => MutualExclusion
    BY DEF LockInv, HolderOwnsFile, MutualExclusion
  <1> QED
    BY LockInvariant, <1>1, PTL

\* A file disappears only by its owner's release or after its owner's death.
THEOREM LiveLocksStay ==
  ASSUME QuietExit
  PROVE  LockSpec => LiveLockStays
  <1> DEFINE Kept == lock.by \in Threads /\ lock' # lock /\ lock'.by # lock.by
                       => ~Live(lock.by) \/ call[lock.by] = "held"
  <1>1. ASSUME LockInv, LockNext PROVE Kept
    <2>1. CASE \E q \in Pids : Die(q)
      BY <2>1 DEF Die
    <2>2. ASSUME NEW t \in Threads, Step(t) PROVE Kept
      <3> USE LockConstants DEF LockInv, LockTypeOK, File, At
      <3>1. CASE TryCreate(t) \/ CreateAgain(t)
        BY <3>1 DEF TryCreate, CreateAgain, Absent
      <3>2. CASE Stamp(t, "stamp", "guard_read") \/ Stamp(t, "restamp", "drop_guard_won")
        BY <1>1, <3>2 DEF Stamp
      <3>3. CASE RemoveStaleLock(t)
        BY <1>1, <3>3 DEF RemoveStaleLock, DeletesOnlyTheDead, HonestStamps, NamesTheDead, Live
      <3>4. CASE Release(t)
        BY <1>1, <3>4 DEF Release, HolderOwnsFile, Owning
      <3>5. CASE UNCHANGED lock
        BY <3>5
      <3> QED
        BY <2>2, <3>1, <3>2, <3>3, <3>4, <3>5
           DEF Step, Acquire, Reclaim, Refuse, Retry, ReadOwner, ProbeOwner, ProbeGuard,
               ClearGuard, ClaimGuard, StampGuard, DropGuard, LeaveReclaim
    <2> QED
      BY <1>1, <2>1, <2>2 DEF LockNext
  <1>2. LockInv /\ [LockNext]_lockVars => [Kept]_lockVars
    BY <1>1 DEF lockVars
  <1> QED
    BY LockInvariant, <1>2, PTL DEF LockSpec, LiveLockStays

\* A step of a thread begins or ends its own hold of the lock, or is none of the
\* commands' business.
LEMMA StepIsOfALock ==
  ASSUME LockInv, NEW t \in Threads, Step(t)
  PROVE  Lock!Next \/ UNCHANGED <<Holders, alive>>
  <1> USE LockConstants DEF LockInv, LockTypeOK, File, At, Goto, Live
  <1>1. alive' = alive /\ Live(t) /\ \A s \in Threads \ {t} : call'[s] = call[s]
    BY DEF Step, Acquire, Reclaim, Refuse, Retry, Release, ReadOwner, ProbeOwner, TryCreate, Stamp,
           ProbeGuard, ClearGuard, ClaimGuard, StampGuard, RemoveStaleLock, CreateAgain, DropGuard,
           LeaveReclaim
  <1>2. ASSUME lock = Absent PROVE Holders = {}
    BY <1>2 DEF HolderOwnsFile, Holders, Absent
  <1>3. ASSUME lock = Absent, ~Owning(t), Owning(t)' PROVE Lock!Next
    <2>1. Holders' = {t}
      BY <1>1, <1>2, <1>3 DEF Holders, Owning
    <2>2. Lock!Take(t)
      BY <1>1, <1>2, <1>3, <2>1 DEF Lock!Take
    <2> QED
      BY <2>2 DEF Lock!Next
  <1>4. ASSUME Owning(t)' = Owning(t) PROVE UNCHANGED <<Holders, alive>>
    BY <1>1, <1>4 DEF Holders, Owning
  <1>5. CASE TryCreate(t) \/ CreateAgain(t)
    <2>1. \/ lock = Absent /\ ~Owning(t) /\ Owning(t)'
          \/ Owning(t)' = Owning(t)
      BY <1>5 DEF TryCreate, CreateAgain, Owning
    <2> QED
      BY <1>3, <1>4, <2>1
  <1>6. CASE Release(t)
    <2>1. Owning(t) /\ ~Owning(t)'
      BY <1>6 DEF Release, Owning
    <2>2. \A s \in Threads : Live(s) /\ Owning(s) => s = t
      BY <1>1, <2>1 DEF HolderOwnsFile
    <2>3. Holders = {t} /\ Holders' = {}
      BY <1>1, <2>1, <2>2 DEF Holders, Owning
    <2>4. Lock!GiveBack(t)
      BY <1>1, <2>3 DEF Lock!GiveBack
    <2> QED
      BY <2>4 DEF Lock!Next
  <1>7. CASE Acquire(t) /\ ~TryCreate(t)
    <2>1. Owning(t)' = Owning(t)
      BY <1>7 DEF Acquire, Stamp, ReadOwner, ProbeGuard, ProbeOwner, ClearGuard, Owning
    <2> QED
      BY <1>4, <2>1
  <1>8. CASE Reclaim(t) /\ ~CreateAgain(t)
    <2>1. Owning(t)' = Owning(t)
      BY <1>8 DEF Reclaim, ReadOwner, ProbeOwner, ClaimGuard, StampGuard, RemoveStaleLock, Stamp,
                  LeaveReclaim, DropGuard, Owning
    <2> QED
      BY <1>4, <2>1
  <1>9. CASE Refuse(t) \/ Retry(t)
    <2>1. Owning(t)' = Owning(t)
      BY <1>9 DEF Refuse, Retry, ReadOwner, ProbeOwner, Owning
    <2> QED
      BY <1>4, <2>1
  <1> QED
    BY <1>5, <1>6, <1>7, <1>8, <1>9 DEF Step

LEMMA DieIsOfALock ==
  ASSUME NEW q \in Pids, Die(q)
  PROVE  Lock!Next
  <1>1. Holders' = {t \in Holders : PidOf[t] # q}
    BY DEF Die, Holders, Live, Owning
  <1> QED
    BY <1>1 DEF Die, Lock!End, Lock!Next

\* What a command may take for granted, whatever crashes, retries and stale
\* files there are: the lock behaves as an exclusive lock whose holds end with
\* their processes.
THEOREM RunLockIsALock ==
  ASSUME QuietExit
  PROVE  LockSpec => ImplementsLock
  <1>1. LockInit => Lock!Init
    BY LockConstants DEF LockInit, Lock!Init, Holders, Owning
  <1>2. LockInv /\ [LockNext]_lockVars => [Lock!Next]_<<Holders, alive>>
    <2>1. ASSUME UNCHANGED lockVars PROVE UNCHANGED <<Holders, alive>>
      BY <2>1 DEF lockVars, Holders, Live, Owning
    <2> QED
      BY <2>1, StepIsOfALock, DieIsOfALock DEF LockNext
  <1> QED
    BY LockInvariant, <1>1, <1>2, PTL DEF LockSpec, ImplementsLock, Lock!Spec
=============================================================================
