----------------------------- MODULE MCRunLock -----------------------------
(* Three callers, two of them threads of one process, and one PID that was *)
(* dead before the model starts.                                           *)
EXTENDS RunLock, TLC

CONSTANTS t1, t2, t3, p1, p2, ghost

MCThreads == {t1, t2, t3}
MCPids    == {p1, p2, ghost}
Shared    == (t1 :> p1) @@ (t2 :> p1) @@ (t3 :> p2)
=============================================================================
