--------------------------- MODULE ExclusiveLock ---------------------------
(***************************************************************************)
(* The lock that the commands of a vault take for granted (RunLock in      *)
(* crates/ovp-intake/src/vaultops.rs): one running caller holds it or      *)
(* nobody does, only its holder gives it back, and a process that ends     *)
(* takes its hold with it.                                                 *)
(***************************************************************************)
CONSTANTS
    Callers,
    Pids,
    PidOf       \* the process of each caller

VARIABLES
    holders,    \* the callers that hold the lock
    alive       \* the running processes

Init == holders = {} /\ alive = {PidOf[t] : t \in Callers}

Take(t) ==
    /\ PidOf[t] \in alive
    /\ holders = {}
    /\ holders' = {t}
    /\ UNCHANGED alive

GiveBack(t) ==
    /\ holders = {t}
    /\ holders' = {}
    /\ UNCHANGED alive

End(q) ==
    /\ q \in alive
    /\ alive' = alive \ {q}
    /\ holders' = {t \in holders : PidOf[t] # q}

Next == (\E t \in Callers : Take(t) \/ GiveBack(t)) \/ (\E q \in Pids : End(q))

Spec == Init /\ [][Next]_<<holders, alive>>
=============================================================================
