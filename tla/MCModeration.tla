--------------------------- MODULE MCModeration ----------------------------
(* Small instances of Moderation: a post p and a comment k on it.          *)
EXTENDS Moderation, TLC
CONSTANTS u1, u2, d, e, a,          \* users
          p, k,                     \* items
          h1, h2, nsfw

MCRole == u1 :> "normal" @@ u2 :> "normal" @@ d :> "deleter"
          @@ e :> "undeleter" @@ a :> "admin"
MCRoleOf == [u \in User |-> MCRole[u]]

\* The users who see deleted items do not report them again (README, section 4).
MCRequests == u1 :> {"report", "fold", "delete"} @@ u2 :> {"report", "fold"}
              @@ d :> {"report", "fold", "delete_ban"} @@ e :> {"undelete_unban"}
              @@ a :> {"delete", "set_tag", "undelete_unban", "unban"}
MCAsks == [u \in User |-> MCRequests[u]]
MCBanLimit == [u \in User |-> IF u = d THEN 1 ELSE 0]
MCParent == [i \in Item |-> IF i = k THEN p ELSE i]
MCAuthor == [i \in Item |-> u1]

\* The handlers of the requests are alike.
Alike == Permutations(Handler)
=============================================================================
