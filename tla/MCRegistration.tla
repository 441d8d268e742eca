-------------------------- MODULE MCRegistration ---------------------------
(* A small instance of Registration: e1 is new, e2 a user of the v2 site.  *)
EXTENDS Registration, TLC
CONSTANTS e1, e2, c1, c2, d1, x1, p1, p2

\* The ids of v2 have gaps.
MCOldId == [e \in {e2} |-> 2]
MCOldSuper == [e \in {e2} |-> TRUE]

\* Nobody frees the e-mail of a v2 user while another request registers him.
MCAsks == [h \in {c1, c2, d1, x1} |-> IF h = d1 THEN {e1} ELSE {e1, e2}]

\* Passwords are alike, and so are the two registrations.
Alike == Permutations(Password) \cup Permutations(Creator)
=============================================================================
