-------------------------- MODULE AppendOnlyLedger --------------------------
(***************************************************************************)
(* What a JSONL ledger of the vault promises its readers: records at their *)
(* places in the file, which is read in that order.  New ones come behind  *)
(* those that are there, and none moves.  A failure may take back records  *)
(* at the end, but never one whose append was reported as done.            *)
(***************************************************************************)
EXTENDS Naturals, Functions

CONSTANT Records

VARIABLES
    log,        \* the record at each place where a reader finds one
    promised    \* the records whose append returned Ok

Init == log = <<>> /\ promised = {}

\* g has the records of f where f has them, and more only behind them.
Continues(g, f) ==
    /\ DOMAIN f \subseteq DOMAIN g
    /\ f = Restrict(g, DOMAIN f)
    /\ \A i \in DOMAIN f, j \in DOMAIN g \ DOMAIN f : i < j

Grow ==
    /\ log' \in [DOMAIN log' -> Records]
    /\ Continues(log', log)
    /\ UNCHANGED promised

Promise(S) ==
    /\ S \subseteq Range(log)
    /\ promised' = promised \cup S
    /\ UNCHANGED log

Lose ==
    /\ Continues(log, log')
    /\ promised \subseteq Range(log')
    /\ UNCHANGED promised

Next == Grow \/ Lose \/ \E S \in SUBSET Records : Promise(S)

Spec == Init /\ [][Next]_<<log, promised>>
=============================================================================
