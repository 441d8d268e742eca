--------------------------- MODULE MCDiscussion ----------------------------
(* A post with three users, one of them its author.                        *)
EXTENDS Discussion, TLC
CONSTANTS dz, u1, u2, h1, h2
\* The author comments only; the others do everything.
MCAsks == [u \in User |-> IF u = Dz THEN {"comment"} ELSE RequestKinds]
Newcomers == Permutations({u1, u2}) \cup Permutations({h1, h2})
=============================================================================
