---------------------------- MODULE MCPinboard ----------------------------
(* Three days; b1 and b3 are one url, posted on the first day and again.    *)
EXTENDS Pinboard, TLC

CONSTANTS b1, b2, b3, b4, undated, u1, u2, u4, u5

MCBookmarks == {b1, b2, b3, b4, undated}
MCUrlOf == b1 :> u1 @@ b2 :> u2 @@ b3 :> u1 @@ b4 :> u4 @@ undated :> u5
MCDay   == b1 :> 1 @@ b2 :> 2 @@ b3 :> 2 @@ b4 :> 3 @@ undated :> NoDay
MCOrder == undated :> 0 @@ b1 :> 1 @@ b2 :> 2 @@ b3 :> 3 @@ b4 :> 4
None    == {NoMax}
OneOrAll == {1, NoMax}
Explicit(since, until, max, all) ==
    [since |-> since, until |-> until, max |-> max, yes_all |-> all]
MCSeeds == {Explicit(2, NoDay, NoMax, FALSE), Explicit(1, 2, 2, FALSE), Explicit(NoDay, NoDay, 1, FALSE),
            Explicit(NoDay, NoDay, NoMax, FALSE), Explicit(NoDay, NoDay, NoMax, TRUE)}
MCEpochs == {<<2023, 2, 26>>, <<2023, 12, 30>>, <<2024, 2, 27>>, <<1999, 12, 30>>,
             <<2000, 2, 27>>, <<2100, 2, 26>>, <<2024, 4, 29>>}
=============================================================================
