---------------------------- MODULE MCSessions -----------------------------
(* A small instance of Sessions: an account that may have one device.      *)
EXTENDS Sessions, TLC
CONSTANTS t1, t2, t3, l1, l2, x1, r1

\* Tokens are random and logins alike; no property of a run is a liveness one.
Alike == Permutations(Token) \cup Permutations(Login)

\* Two logins at a time, or a lookup and what it left in the cache: neither reads
\* what the other writes but for the rows of the devices.
Apart ==
    \/ \E l \in Login : \A k \in Login \ {l} : lpc[k] = "idle"
    \/ /\ \A r \in Reader : rpc[r] = "idle"
       /\ \A t \in Token : cached[t] = None
=============================================================================
