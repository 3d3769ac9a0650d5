---------------------------- MODULE MCReadModel ----------------------------
(* The daily, and a repair by doctor --fix beside it; two requests at a    *)
(* time.                                                                   *)
EXTENDS ReadModel

CONSTANTS daily, doctor, t1, t2
=============================================================================
