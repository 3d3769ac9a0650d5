------------------------- MODULE MCSourceWorkQueue -------------------------
(* The tasks of one article, requested apart: in time for one item, or for  *)
(* two.  One of them asks for a notification.                             *)
EXTENDS SourceWorkQueue

CONSTANT x

MCRequests == {[sha |-> x, wants |-> {"translate"}, notify |-> TRUE, priority |-> 0],
               [sha |-> x, wants |-> {"summarize"}, notify |-> FALSE, priority |-> 1]}
MCClicks == {[sha |-> x, wants |-> {"translate"}, notify |-> TRUE, priority |-> 1]}
=============================================================================
