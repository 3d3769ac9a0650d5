------------------------------ MODULE MCIntake ------------------------------
(* Two notes and an office file; a bookmark, the article its url serves,   *)
(* and a document with its text.                                           *)
EXTENDS Intake, TLC

CONSTANTS n1, n2, o, page, bare, rich, doc, text

MCCaptures   == {n1, n2, o}
MCContents   == {bare, rich, doc, text}
MCUrlOf      == [c \in MCContents |-> IF c \in {bare, rich} THEN page ELSE NoUrl]
MCFull       == {rich, doc, text}
MCMarkdownOf == [c \in MCContents |-> IF c = doc THEN text ELSE c]
MCEnriched   == [c \in MCContents |-> IF c \in {bare, rich} THEN rich ELSE c]
MCRank       == n1 :> 1 @@ n2 :> 2 @@ o :> 3
=============================================================================
