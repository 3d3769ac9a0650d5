--------------------------- MODULE MCCrystalStore ---------------------------
(* A durable claim that both reviews suspect, one that only the citation   *)
(* review does, and a revision that extends the first.                     *)
EXTENDS CrystalStore

CONSTANTS k1, k2, k3, t1, r1

MCClaims == {k1, k2, k3}
MCIds == {t1, r1}
MCOrder == <<k1, k2, k3, t1, r1>>
MCExtends == {<<k3, k1>>}
Offer(id, c) == [id |-> id, claim |-> c]
MCCandidates == {<<Offer(t1, k1)>>, <<Offer(t1, k3)>>}
MCRevisions == {Offer(r1, k3)}

\* Every ledger of three events about two claims: what Status says of each claim
\* is what fold_ledger's loop leaves.
SmallLedgers ==
    LET events == {Event(op, c, None, 0) : op \in {"write", "retract"}, c \in {k1, k2}}
                    \cup {Event("supersede", c, o, 0) : c, o \in {k1, k2}}
    IN  UNION {[1..n -> events] : n \in 0..3}
ASSUME StatusIsTheFold == \A s \in SmallLedgers : Status(s) = FoldLedger(s)
=============================================================================
