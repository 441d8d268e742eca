--------------------------- MODULE CommentCache ----------------------------
(***************************************************************************)
(* The cache of one post's comments (pkg/base/cache.go): readers look into *)
(* Redis, read the database on a miss and store what they read; writers    *)
(* (SaveComment, DeleteByReport, SetTagByReport and the undelete of        *)
(* handleReport) delete the entry inside their transaction, BEFORE it      *)
(* commits, so that a reader between the two stores what was there before. *)
(*                                                                         *)
(* The comments are a version number that every commit raises.  Of the     *)
(* 5 hours of CommentCacheExpireTime, TTL ticks are left.                  *)
(***************************************************************************)
EXTENDS Naturals

CONSTANTS
    Writer,
    KindOf,     \* "comment", "report" or "undelete"
    Reader,
    Single,     \* readers of one post (GetCommentsWithCache); the others list
    TTL,        \* CommentCacheExpireTime
    FetchTicks, \* the longest time from reading the database to the answer
    MaxVersion, \* bound: commits
    RedisFails, \* whether calls to Redis may fail
    None, NoWriter

ASSUME KindAssumption == KindOf \in [Writer -> {"comment", "report", "undelete"}]
ASSUME ReaderAssumption == Single \subseteq Reader
ASSUME TimeAssumption == TTL \in Nat \ {0} /\ FetchTicks \in Nat
ASSUME BoundAssumption == MaxVersion \in Nat /\ RedisFails \in BOOLEAN
ASSUME NoneAssumption == None \notin Nat /\ NoWriter \notin Writer

VARIABLES
    version,    \* commits so far
    entry,      \* the version stored in Redis
    left,       \* ticks until it expires
    old,        \* the post is older than 365 days (~NeedCacheComment)
    wpc,        \* writers: "idle", "open" or "deleted" (the entry)
    row,        \* the writer that holds the row lock of the post
    rpc,        \* readers: "idle" or "fetched"
    fetched,    \* what each of them read
    took,       \* ticks since
    lag,        \* history: ticks since each version was superseded
    answer,     \* history: how outdated the last answer was, a value of lag
    raced,      \* history: a writer was under way while the reader had its version
    tainted     \* history: such a reader stored the entry, or it was not deleted

db == <<version, wpc, row>>
cache == <<entry, left, tainted>>
readers == <<rpc, fetched, took, raced>>
vars == <<version, entry, left, old, wpc, row, rpc, fetched, took, lag, answer,
          raced, tainted>>

Version == 0..MaxVersion
Bound == TTL + FetchTicks

TypeOK ==
    /\ version \in Version
    /\ entry \in Version \cup {None}
    /\ left \in 0..TTL
    /\ old \in BOOLEAN
    /\ wpc \in [Writer -> {"idle", "open", "deleted"}]
    /\ row \in Writer \cup {NoWriter}
    /\ rpc \in [Reader -> {"idle", "fetched"}]
    /\ fetched \in [Reader -> Version]
    /\ took \in [Reader -> 0..FetchTicks]
    /\ lag \in [Version -> 0..(Bound + 1)]
    /\ answer \in 0..(Bound + 1)
    /\ raced \in [Reader -> BOOLEAN]
    /\ tainted \in BOOLEAN

Init ==
    /\ version = 0
    /\ entry = None /\ left = 0
    /\ old = FALSE
    /\ wpc = [w \in Writer |-> "idle"]
    /\ row = NoWriter
    /\ rpc = [r \in Reader |-> "idle"]
    /\ fetched = [r \in Reader |-> 0]
    /\ took = [r \in Reader |-> 0]
    /\ lag = [v \in Version |-> 0]
    /\ answer = 0
    /\ raced = [r \in Reader |-> FALSE]
    /\ tainted = FALSE

-----------------------------------------------------------------------------
(* Writers.                                                                *)

\* The transaction writes the comments.  All but undelete have locked or written
\* the row of the post by then.
Open(w) ==
    /\ wpc[w] = "idle"
    /\ KindOf[w] # "undelete" => row = NoWriter
    /\ row' = IF KindOf[w] = "undelete" THEN row ELSE w
    /\ wpc' = [wpc EXCEPT ![w] = "open"]
    /\ UNCHANGED <<version, cache, old, readers, lag, answer>>

\* Mutant: DelCommentCache is not called.
NotDeleted(w) ==
    /\ wpc[w] = "open"
    /\ wpc' = [wpc EXCEPT ![w] = "deleted"]
    /\ UNCHANGED <<version, row, cache, old, readers, lag, answer>>

\* DelCommentCache; every reader that has read before has read too early.
DelCommentCache(w) ==
    /\ wpc[w] = "open"
    /\ wpc' = [wpc EXCEPT ![w] = "deleted"]
    /\ entry' = None /\ left' = 0 /\ tainted' = FALSE
    /\ raced' = [r \in Reader |-> raced[r] \/ rpc[r] = "fetched"]
    /\ UNCHANGED <<version, row, old, rpc, fetched, took, lag, answer>>

\* It fails.  A new comment is rolled back; handleReport answers the error and
\* commits, and what was stored or read before is outdated.
DelCommentCacheFails(w) ==
    /\ RedisFails
    /\ wpc[w] = "open"
    /\ wpc' = [wpc EXCEPT ![w] = IF KindOf[w] = "comment" THEN "idle" ELSE "deleted"]
    /\ row' = IF KindOf[w] = "comment" THEN NoWriter ELSE row
    /\ tainted' = (tainted \/ (entry # None /\ KindOf[w] # "comment"))
    /\ raced' = [r \in Reader |->
                   raced[r] \/ (rpc[r] = "fetched" /\ KindOf[w] # "comment")]
    /\ UNCHANGED <<version, entry, left, old, rpc, fetched, took, lag, answer>>

Commit(w) ==
    /\ wpc[w] = "deleted"
    /\ row \in {w, NoWriter}
    /\ version < MaxVersion
    /\ version' = version + 1
    /\ wpc' = [wpc EXCEPT ![w] = "idle"]
    /\ row' = NoWriter
    /\ UNCHANGED <<cache, old, readers, lag, answer>>

\* A later statement or the commit fails.
RollBack(w) ==
    /\ wpc[w] = "deleted"
    /\ wpc' = [wpc EXCEPT ![w] = "idle"]
    /\ row' = IF row = w THEN NoWriter ELSE row
    /\ UNCHANGED <<version, cache, old, readers, lag, answer>>

-----------------------------------------------------------------------------
(* Readers.                                                                *)

\* NeedCacheComment is false: GetComments only.
Bypass(r) ==
    /\ rpc[r] = "idle"
    /\ old /\ r \in Single
    /\ answer' = lag[version]
    /\ UNCHANGED <<db, cache, old, readers, lag>>

Hit(r) ==
    /\ rpc[r] = "idle"
    /\ ~old /\ entry # None
    /\ answer' = lag[entry]
    /\ UNCHANGED <<db, cache, old, readers, lag>>

\* No entry (or Redis fails): the database is read.  GetMultipleCommentsWithCache
\* does so for old posts too.
Fetch(r) ==
    /\ rpc[r] = "idle"
    /\ old => r \notin Single
    /\ old \/ entry = None \/ RedisFails
    /\ rpc' = [rpc EXCEPT ![r] = "fetched"]
    /\ fetched' = [fetched EXCEPT ![r] = version]
    /\ took' = [took EXCEPT ![r] = 0]
    /\ raced' = [raced EXCEPT ![r] = \E w \in Writer : wpc[w] = "deleted"]
    /\ UNCHANGED <<db, cache, old, lag, answer>>

\* The reader has its answer and is ready for another request.
Done(r) ==
    /\ rpc' = [rpc EXCEPT ![r] = "idle"]
    /\ fetched' = [fetched EXCEPT ![r] = 0]
    /\ took' = [took EXCEPT ![r] = 0]
    /\ raced' = [raced EXCEPT ![r] = FALSE]

\* Mutant: the time to live is given in a smaller unit.
StoreMinutes(r) ==
    /\ rpc[r] = "fetched"
    /\ Done(r)
    /\ entry' = fetched[r]
    /\ left' = 60 * TTL
    /\ tainted' = raced[r]
    /\ answer' = lag[fetched[r]]
    /\ UNCHANGED <<db, old, lag>>

\* Mutant: the item is stored without a TTL, which the redis client keeps for a
\* time that is long here.
StoreForever(r) ==
    /\ rpc[r] = "fetched"
    /\ Done(r)
    /\ entry' = fetched[r]
    /\ left' = 0
    /\ tainted' = raced[r]
    /\ answer' = lag[fetched[r]]
    /\ UNCHANGED <<db, old, lag>>

Store(r) ==
    /\ rpc[r] = "fetched"
    /\ Done(r)
    /\ entry' = fetched[r]
    /\ left' = TTL
    /\ tainted' = raced[r]
    /\ answer' = lag[fetched[r]]
    /\ UNCHANGED <<db, old, lag>>

\* Set fails and its error is the reader's.
StoreFails(r) ==
    /\ RedisFails
    /\ rpc[r] = "fetched"
    /\ Done(r)
    /\ UNCHANGED <<db, cache, old, lag, answer>>

-----------------------------------------------------------------------------
(* Time.                                                                   *)

Older(v) == IF v < version /\ lag[v] <= Bound THEN lag[v] + 1 ELSE lag[v]

\* External: Redis drops the entry when its time is over.
Tick ==
    /\ \A r \in Reader : rpc[r] = "fetched" => took[r] < FetchTicks
    /\ took' = [r \in Reader |-> IF rpc[r] = "fetched" THEN took[r] + 1 ELSE took[r]]
    /\ lag' = [v \in Version |-> Older(v)]
    /\ entry' = IF left = 1 THEN None ELSE entry
    /\ left' = IF left = 0 THEN 0 ELSE left - 1
    /\ tainted' = IF left = 1 THEN FALSE ELSE tainted
    /\ UNCHANGED <<db, old, rpc, fetched, raced, answer>>

GrowOld ==
    /\ ~old
    /\ old' = TRUE
    /\ UNCHANGED <<db, cache, readers, lag, answer>>

Write(w) ==
    \/ Open(w) \/ DelCommentCache(w) \/ DelCommentCacheFails(w)
    \/ Commit(w) \/ RollBack(w)
Finish(r) == Store(r) \/ StoreFails(r)
Read(r) == Bypass(r) \/ Hit(r) \/ Fetch(r) \/ Finish(r)

Next ==
    \/ \E w \in Writer : Write(w)
    \/ \E r \in Reader : Read(r)
    \/ Tick \/ GrowOld

\* Time passes and a reader that has its comments goes on.
Fairness == WF_vars(Tick) /\ \A r \in Reader : WF_vars(Finish(r))

Spec == Init /\ [][Next]_vars /\ Fairness

-----------------------------------------------------------------------------
(* What the cache owes its readers.                                        *)

\* No answer is older than the time to live and one read of the database, in
\* whatever order readers, writers, failures of Redis and expiries come: the
\* cache implements StaleReads with Bound = TTL + FetchTicks.
Promise == INSTANCE StaleReads WITH
    Bound <- Bound, MaxVersion <- MaxVersion, version <- version, lag <- lag, answer <- answer
BoundedStaleness == Promise!Spec

\* An outdated entry was stored by a reader that had its version while a writer
\* was between DelCommentCache and its commit, or Redis failed to delete it: reads
\* and writes that do not overlap leave none while Redis works.
StaleOnlyByRace == entry # None /\ entry < version => tainted

\* The comments are written at most MaxVersion times: in the end no outdated
\* entry is left, whoever stored one.
EventuallyFresh == <>[](entry \in {None, version})
=============================================================================
