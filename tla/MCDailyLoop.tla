---------------------------- MODULE MCDailyLoop ----------------------------
(* Two inbox files; an article and a bookmark not worth distilling.        *)
EXTENDS DailyLoop, TLC

CONSTANTS p1, p2, art, mark

MCPaths    == {p1, p2}
MCContents == {art, mark}
MCRank     == p1 :> 1 @@ p2 :> 2
MCUnworthy == {mark}
=============================================================================
