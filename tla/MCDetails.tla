----------------------------- MODULE MCDetails -----------------------------
(* Small instances of Details.                                             *)
EXTENDS Details, TLC
CONSTANTS w1, w2, w3, r1, r2

MCKindOf == [w \in Writer |-> CASE w = w1 -> "comment"
                                [] w = w2 -> "report"
                                [] OTHER -> "undelete"]
=============================================================================
