---------------------------- MODULE MCServices -----------------------------
(* Small instances of Services.                                            *)
EXTENDS Services, TLC
CONSTANTS p1, k1, e1, c1, c2, c3, c4

\* A post, and a comment and a report that want the same row.
MixedKind == p1 :> "post" @@ k1 :> "comment" @@ e1 :> "report"
=============================================================================
