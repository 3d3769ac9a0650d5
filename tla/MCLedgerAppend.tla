--------------------------- MODULE MCLedgerAppend ---------------------------
(* Two appends of one record and one batch of two.                         *)
EXTENDS LedgerAppend

CONSTANTS w1, w2, w3, a, b, c, d

MCWriters == {w1, w2, w3}
MCBatches == {w3}
MCRecordsOf == w1 :> <<a>> @@ w2 :> <<b>> @@ w3 :> <<c, d>>

\* One failure of each kind: a short write (and kills) under the run lock on a
\* new ledger, a power loss with no lock on an existing one.
MCSettings == {[locked |-> TRUE, new |-> TRUE, shorts |-> 1, losses |-> 0],
               [locked |-> FALSE, new |-> FALSE, shorts |-> 0, losses |-> 1]}

ASSUME OneFailure
=============================================================================
