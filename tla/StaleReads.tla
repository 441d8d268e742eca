---------------------------- MODULE StaleReads -----------------------------
(***************************************************************************)
(* What a read-through cache with a time to live promises: readers may be  *)
(* answered with an outdated version, but with none that was superseded    *)
(* more than Bound ticks ago.  The comments of pkg/base/cache.go implement *)
(* it (CommentCache).                                                      *)
(***************************************************************************)
EXTENDS Naturals

CONSTANTS
    Bound,      \* ticks an outdated version may still be answered
    MaxVersion  \* bound: versions after the first

VARIABLES
    version,    \* the version that is committed
    lag,        \* ticks since each version was superseded, counted to Bound + 1
    answer      \* how long ago the version last answered had been superseded

vars == <<version, lag, answer>>

Version == 0..MaxVersion

Init ==
    /\ version = 0
    /\ lag = [v \in Version |-> 0]
    /\ answer = 0

Change ==
    /\ version' \in {v \in Version : v = version + 1}
    /\ UNCHANGED <<lag, answer>>

\* One tick older, as long as it is counted.
Older(v) == IF v < version /\ lag[v] <= Bound THEN lag[v] + 1 ELSE lag[v]

Tick ==
    /\ lag' = [v \in Version |-> Older(v)]
    /\ UNCHANGED <<version, answer>>

Answer(v) ==
    /\ v <= version
    /\ lag[v] <= Bound
    /\ answer' = lag[v]
    /\ UNCHANGED <<version, lag>>

Next == Change \/ Tick \/ \E v \in Version : Answer(v)

Spec == Init /\ [][Next]_vars
=============================================================================
