------------------------- MODULE MCRequestHandlers -------------------------
(* Two comments on one post; Services has the larger instance.             *)
EXTENDS RequestHandlers, TLC
CONSTANTS k1, k2

CommentsKind == k1 :> "comment" @@ k2 :> "comment"
=============================================================================
