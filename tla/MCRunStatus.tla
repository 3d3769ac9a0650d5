---------------------------- MODULE MCRunStatus -----------------------------
(* Two runs, one of which may be the portal's own, and two requests.       *)
EXTENDS RunStatus

CONSTANTS r1, r2, t1, t2
=============================================================================
