--------------------------- MODULE DetailsProofs ----------------------------
(* Proofs about CommentCache and Details, for any writers and readers, any   *)
(* times, any number of commits, and a Redis that fails or does not.         *)
EXTENDS Details, TLAPS

\* The actions of Next one by one.
LEMMA NextCases ==
    ASSUME [Next]_vars, NEW P,
           \A w \in Writer : Open(w) => P,
           \A w \in Writer : DelCommentCache(w) => P,
           \A w \in Writer : DelCommentCacheFails(w) => P,
           \A w \in Writer : Commit(w) => P,
           \A w \in Writer : RollBack(w) => P,
           \A r \in Reader : Bypass(r) => P,
           \A r \in Reader : Hit(r) => P,
           \A r \in Reader : Fetch(r) => P,
           \A r \in Reader : Store(r) => P,
           \A r \in Reader : StoreFails(r) => P,
           Tick => P,
           GrowOld => P,
           UNCHANGED vars => P
    PROVE  P
BY DEF Next, Write, Read, Finish

\* detailPost makes the steps of the cache, or steps of its own.
LEMMA DetailStep ==
    ASSUME [DetailNext]_detailVars
    PROVE  [Next]_vars
<1>1. ASSUME NEW w \in Writer, WriteOn(w) PROVE [Next]_vars
  BY <1>1 DEF WriteOn, CommitAt, Next, Write
<1>2. ASSUME NEW r \in Single, ReadPost(r) \/ NotModified(r) PROVE [Next]_vars
  BY <1>2 DEF ReadPost, NotModified
<1>3. ASSUME NEW r \in Single, Modified(r) \/ FinishDetail(r) PROVE [Next]_vars
  BY <1>3, ReaderAssumption DEF Modified, FinishDetail, Next, Read, Finish
<1>4. ASSUME NEW r \in Reader \ Single, List(r) PROVE [Next]_vars
  BY <1>4 DEF List, Next
<1>5. ASSUME Pass PROVE [Next]_vars
  BY <1>5 DEF Pass, Next
<1>6. CASE UNCHANGED detailVars
  BY <1>6 DEF detailVars
<1> QED
  BY <1>1, <1>2, <1>3, <1>4, <1>5, <1>6 DEF DetailNext

\* The facts about the constants that the steps need.
LEMMA Times ==
    /\ TTL \in Nat /\ TTL >= 1 /\ FetchTicks \in Nat /\ Bound \in Nat
    /\ Bound = TTL + FetchTicks /\ MaxVersion \in Nat
    /\ Version \subseteq Nat /\ 0 \in Version
    /\ None \notin Version /\ NoWriter \notin Writer
BY TimeAssumption, BoundAssumption, NoneAssumption DEF Bound, Version

-----------------------------------------------------------------------------
\* Types, step by step.  The parts of the state that steps leave alone together.
LEMMA TypeStep ==
    ASSUME TypeOK, [Next]_vars
    PROVE  TypeOK'
<1> USE Times DEF TypeOK, db, cache, readers
<1>1. ASSUME NEW w \in Writer, Open(w) PROVE TypeOK'
  <2>1. wpc' \in [Writer -> {"idle", "open", "deleted"}] /\ row' \in Writer \cup {NoWriter}
    BY <1>1 DEF Open
  <2> QED
    BY <1>1, <2>1 DEF Open
<1>2. ASSUME NEW w \in Writer, DelCommentCache(w) PROVE TypeOK'
  <2>1. raced' \in [Reader -> BOOLEAN] /\ tainted' \in BOOLEAN
    BY <1>2, Zenon DEF DelCommentCache
  <2> QED
    BY <1>2, <2>1 DEF DelCommentCache
<1>3. ASSUME NEW w \in Writer, DelCommentCacheFails(w) PROVE TypeOK'
  <2>1. wpc' \in [Writer -> {"idle", "open", "deleted"}] /\ row' \in Writer \cup {NoWriter}
    BY <1>3 DEF DelCommentCacheFails
  <2>2. raced' \in [Reader -> BOOLEAN] /\ tainted' \in BOOLEAN
    BY <1>3, Zenon DEF DelCommentCacheFails
  <2> QED
    BY <1>3, <2>1, <2>2 DEF DelCommentCacheFails
<1>4. ASSUME NEW w \in Writer, Commit(w) PROVE TypeOK'
  <2>1. version' \in Version
    BY <1>4 DEF Commit, Version
  <2> QED
    BY <1>4, <2>1 DEF Commit
<1>5. ASSUME NEW w \in Writer, RollBack(w) PROVE TypeOK'
  BY <1>5 DEF RollBack
<1>6. ASSUME NEW r \in Reader, Bypass(r) PROVE TypeOK'
  BY <1>6 DEF Bypass
<1>7. ASSUME NEW r \in Reader, Hit(r) PROVE TypeOK'
  BY <1>7 DEF Hit
<1>8. ASSUME NEW r \in Reader, Fetch(r) PROVE TypeOK'
  BY <1>8 DEF Fetch
<1>9. ASSUME NEW r \in Reader, Store(r) PROVE TypeOK'
  BY <1>9 DEF Store, Done
<1>10. ASSUME NEW r \in Reader, StoreFails(r) PROVE TypeOK'
  BY <1>10 DEF StoreFails, Done
<1>11. ASSUME Tick PROVE TypeOK'
  <2>1. took' \in [Reader -> 0..FetchTicks]
    BY <1>11 DEF Tick
  <2>2. lag' \in [Version -> 0..(Bound + 1)]
    <3> SUFFICES ASSUME NEW v \in Version PROVE Older(v) \in 0..(Bound + 1)
      BY <1>11 DEF Tick
    <3>1. lag[v] \in 0..(Bound + 1)
      OBVIOUS
    <3> QED
      BY <3>1 DEF Older
  <2>3. left' \in 0..TTL /\ entry' \in Version \cup {None}
    BY <1>11 DEF Tick
  <2>4. tainted' \in BOOLEAN
    BY <1>11, Zenon DEF Tick
  <2> QED
    BY <1>11, <2>1, <2>2, <2>3, <2>4 DEF Tick
<1>12. ASSUME GrowOld PROVE TypeOK'
  BY <1>12 DEF GrowOld
<1>13. ASSUME UNCHANGED vars PROVE TypeOK'
  BY <1>13 DEF vars
<1> HIDE DEF TypeOK
<1> QED
  BY <1>1, <1>2, <1>3, <1>4, <1>5, <1>6, <1>7, <1>8, <1>9, <1>10, <1>11, <1>12, <1>13, NextCases

-----------------------------------------------------------------------------
\* What is stored or read is a version that was committed, and its age and the time the
\* entry has left, or that of the read, add up to the bound.
AgesInv ==
    /\ \A v \in Version : v >= version => lag[v] = 0
    /\ entry # None => entry <= version /\ left >= 1 /\ lag[entry] + left <= Bound
    /\ \A r \in Reader : rpc[r] = "fetched" =>
        fetched[r] <= version /\ lag[fetched[r]] <= took[r]

CacheInv == TypeOK /\ AgesInv

\* How versions grow old.
LEMMA OlderStep ==
    ASSUME CacheInv, Tick, NEW v \in Version
    PROVE  /\ lag'[v] \in Nat /\ lag[v] \in Nat /\ lag'[v] <= lag[v] + 1
           /\ v >= version => lag'[v] = 0
<1>1. lag'[v] = Older(v) /\ lag[v] \in Nat
  BY Times DEF Tick, CacheInv, TypeOK
<1>2. version \in Nat /\ v \in Nat
  BY Times DEF CacheInv, TypeOK
<1>3. v >= version => lag[v] = 0
  BY DEF CacheInv, AgesInv
<1> QED
  BY <1>1, <1>2, <1>3 DEF Older

\* Every step keeps the ages: only a tick raises them, and it takes as much from the
\* entry's time or adds it to the read's.
LEMMA AgesStep ==
    ASSUME CacheInv, [Next]_vars
    PROVE  AgesInv'
<1> DEFINE P == /\ \A v \in Version : v >= version' => lag'[v] = 0
                /\ entry' # None => /\ entry' <= version' /\ left' >= 1
                                    /\ lag'[entry'] + left' <= Bound
                /\ \A r \in Reader : rpc'[r] = "fetched" =>
                        fetched'[r] <= version' /\ lag'[fetched'[r]] <= took'[r]
<1>0. version \in Nat /\ entry \in Version \cup {None} /\ version \in Version
  BY Times DEF CacheInv, TypeOK
<1>1. ASSUME UNCHANGED <<version, lag>>, UNCHANGED <<entry, left>> \/ entry' = None,
             UNCHANGED <<rpc, fetched, took>>
      PROVE  P
  BY <1>1 DEF CacheInv, AgesInv
<1>2. ASSUME NEW w \in Writer, Open(w) PROVE P
  BY <1>1, <1>2 DEF Open, cache, readers
<1>3. ASSUME NEW w \in Writer, DelCommentCache(w) PROVE P
  BY <1>1, <1>3 DEF DelCommentCache
<1>4. ASSUME NEW w \in Writer, DelCommentCacheFails(w) PROVE P
  BY <1>1, <1>4 DEF DelCommentCacheFails
<1>5. ASSUME NEW w \in Writer, Commit(w) PROVE P
  <2>1. /\ version' = version + 1 /\ UNCHANGED <<lag, entry, left, rpc, fetched, took>>
        /\ Version \subseteq Nat
    BY <1>5, Times DEF Commit, cache, readers
  <2>2. \A v \in Version : v >= version' => v >= version
    BY <1>0, <2>1
  <2>3. \A v \in Nat : v <= version => v <= version'
    BY <1>0, <2>1
  <2>4. \A r \in Reader : fetched[r] \in Nat
    BY Times DEF CacheInv, TypeOK
  <2> QED
    BY <1>0, <2>1, <2>2, <2>3, <2>4, Times DEF CacheInv, AgesInv
<1>6. ASSUME NEW w \in Writer, RollBack(w) PROVE P
  BY <1>1, <1>6 DEF RollBack, cache, readers
<1>7. ASSUME NEW r \in Reader, Bypass(r) PROVE P
  BY <1>1, <1>7 DEF Bypass, db, cache, readers
<1>8. ASSUME NEW r \in Reader, Hit(r) PROVE P
  BY <1>1, <1>8 DEF Hit, db, cache, readers
<1>9. ASSUME NEW r \in Reader, Fetch(r) PROVE P
  <2>1. /\ UNCHANGED <<version, lag, entry, left>>
        /\ fetched'[r] = version /\ took'[r] = 0
        /\ \A q \in Reader : q # r =>
             rpc'[q] = rpc[q] /\ fetched'[q] = fetched[q] /\ took'[q] = took[q]
    BY <1>9 DEF Fetch, db, cache, CacheInv, TypeOK
  <2>2. lag[version] = 0 /\ version <= version
    BY <1>0 DEF CacheInv, AgesInv
  <2> QED
    BY <2>1, <2>2 DEF CacheInv, AgesInv
<1>10. ASSUME NEW r \in Reader, Done(r)
       PROVE  \A q \in Reader : rpc'[q] = "fetched" =>
                rpc[q] = "fetched" /\ fetched'[q] = fetched[q] /\ took'[q] = took[q]
  BY <1>10 DEF Done, CacheInv, TypeOK
<1>11. ASSUME NEW r \in Reader, Store(r) PROVE P
  <2>1. /\ UNCHANGED <<version, lag>> /\ Done(r)
        /\ entry' = fetched[r] /\ left' = TTL /\ rpc[r] = "fetched"
    BY <1>11 DEF Store, db
  <2>2. /\ fetched[r] \in Version /\ fetched[r] <= version
        /\ lag[fetched[r]] <= took[r] /\ took[r] \in 0..FetchTicks
        /\ lag[fetched[r]] \in 0..(Bound + 1)
    BY <2>1 DEF CacheInv, AgesInv, TypeOK
  <2>3. lag[fetched[r]] + TTL <= Bound /\ TTL >= 1
    BY <2>2, Times
  <2> QED
    BY <1>10, <2>1, <2>2, <2>3 DEF CacheInv, AgesInv
<1>12. ASSUME NEW r \in Reader, StoreFails(r) PROVE P
  <2>1. UNCHANGED <<version, lag, entry, left>> /\ Done(r)
    BY <1>12 DEF StoreFails, db, cache
  <2> QED
    BY <1>10, <2>1 DEF CacheInv, AgesInv
<1>13. ASSUME Tick PROVE P
  <2>1. version' = version /\ rpc' = rpc /\ fetched' = fetched
    BY <1>13 DEF Tick, db
  <2>2. \A v \in Version : v >= version' => lag'[v] = 0
    BY <1>13, <2>1, OlderStep
  <2>3. ASSUME entry' # None
        PROVE  entry' <= version' /\ left' >= 1 /\ lag'[entry'] + left' <= Bound
    <3>1. entry' = entry /\ left # 1
      BY <1>13, <2>3 DEF Tick
    <3>2. /\ entry \in Version /\ entry <= version /\ left >= 1 /\ left \in 0..TTL
          /\ lag[entry] + left <= Bound
      BY <1>0, <2>3, <3>1 DEF CacheInv, AgesInv, TypeOK
    <3>3. left' = left - 1
      BY <1>13, <3>2, Times DEF Tick
    <3>4. lag'[entry] \in Nat /\ lag[entry] \in Nat /\ lag'[entry] <= lag[entry] + 1
      BY <1>13, <3>2, OlderStep
    <3>5. left' >= 1 /\ lag'[entry] + left' <= Bound
      BY <3>1, <3>2, <3>3, <3>4, Times
    <3> QED
      BY <2>1, <3>1, <3>2, <3>5
  <2>4. ASSUME NEW r \in Reader, rpc'[r] = "fetched"
        PROVE  fetched'[r] <= version' /\ lag'[fetched'[r]] <= took'[r]
    <3>1. /\ rpc[r] = "fetched" /\ fetched[r] \in Version /\ fetched[r] <= version
          /\ lag[fetched[r]] <= took[r] /\ took[r] \in 0..FetchTicks
      BY <2>1, <2>4 DEF CacheInv, AgesInv, TypeOK
    <3>2. took'[r] = took[r] + 1
      BY <1>13, <3>1 DEF Tick
    <3>3. /\ lag'[fetched[r]] \in Nat /\ lag[fetched[r]] \in Nat
          /\ lag'[fetched[r]] <= lag[fetched[r]] + 1
      BY <1>13, <3>1, OlderStep
    <3>4. lag'[fetched[r]] <= took'[r]
      BY <3>1, <3>2, <3>3, Times
    <3> QED
      BY <2>1, <3>1, <3>4
  <2> QED
    BY <2>2, <2>3, <2>4
<1>14. ASSUME GrowOld PROVE P
  BY <1>1, <1>14 DEF GrowOld, db, cache, readers
<1>15. ASSUME UNCHANGED vars PROVE P
  BY <1>1, <1>15 DEF vars
<1>16. P
  BY <1>2, <1>3, <1>4, <1>5, <1>6, <1>7, <1>8, <1>9, <1>11, <1>12, <1>13, <1>14, <1>15, NextCases
<1> QED
  BY <1>16 DEF AgesInv

-----------------------------------------------------------------------------
(* The refinement: CommentCache implements StaleReads.                      *)

\* Initial states of the cache are initial states of the promise.
LEMMA InitMaps ==
    ASSUME Init
    PROVE  Promise!Init /\ CacheInv
<1>1. Promise!Init
  BY DEF Init, Promise!Init, Promise!Version, Version
<1>2. TypeOK
  <2>1. old \in BOOLEAN /\ raced \in [Reader -> BOOLEAN] /\ tainted \in BOOLEAN
    BY Zenon DEF Init
  <2>2. /\ version \in Version /\ entry \in Version \cup {None} /\ left \in 0..TTL
        /\ answer \in 0..(Bound + 1)
    BY Times DEF Init
  <2>3. /\ fetched \in [Reader -> Version] /\ took \in [Reader -> 0..FetchTicks]
        /\ lag \in [Version -> 0..(Bound + 1)]
    BY Times DEF Init
  <2>4. /\ wpc \in [Writer -> {"idle", "open", "deleted"}] /\ row \in Writer \cup {NoWriter}
        /\ rpc \in [Reader -> {"idle", "fetched"}]
    BY DEF Init
  <2> QED
    BY <2>1, <2>2, <2>3, <2>4 DEF TypeOK
<1>3. AgesInv
  BY Times DEF Init, AgesInv
<1> QED
  BY <1>1, <1>2, <1>3 DEF CacheInv

\* Every step of the cache is one of the promise or a stutter: a tick lets time pass, and
\* whatever answers, answers within the bound.
LEMMA StepMaps ==
    ASSUME CacheInv, [Next]_vars
    PROVE  [Promise!Next]_(Promise!vars)
<1> DEFINE P == [Promise!Next]_(Promise!vars)
<1>0. Promise!Version = Version
  BY DEF Promise!Version, Version
<1>1. ASSUME UNCHANGED <<version, lag, answer>> PROVE P
  BY <1>1 DEF Promise!vars
<1>2. ASSUME NEW v \in Version, v <= version, lag[v] <= Bound, answer' = lag[v],
             UNCHANGED <<version, lag>>
      PROVE  P
  BY <1>0, <1>2 DEF Promise!Next, Promise!Answer
<1>3. ASSUME NEW w \in Writer, Open(w) PROVE P
  BY <1>1, <1>3 DEF Open
<1>4. ASSUME NEW w \in Writer, DelCommentCache(w) PROVE P
  BY <1>1, <1>4 DEF DelCommentCache
<1>5. ASSUME NEW w \in Writer, DelCommentCacheFails(w) PROVE P
  BY <1>1, <1>5 DEF DelCommentCacheFails
<1>6. ASSUME NEW w \in Writer, Commit(w) PROVE P
  <2>1. version' = version + 1 /\ version < MaxVersion /\ UNCHANGED <<lag, answer>>
    BY <1>6 DEF Commit
  <2>2. version' \in Version
    BY <2>1, Times DEF CacheInv, TypeOK, Version
  <2> QED
    BY <1>0, <2>1, <2>2 DEF Promise!Next, Promise!Change
<1>7. ASSUME NEW w \in Writer, RollBack(w) PROVE P
  BY <1>1, <1>7 DEF RollBack
<1>8. ASSUME NEW r \in Reader, Bypass(r) PROVE P
  <2>1. version \in Version /\ lag[version] = 0 /\ version <= version
    BY Times DEF CacheInv, AgesInv, TypeOK
  <2> QED
    BY <1>2, <1>8, <2>1, Times DEF Bypass, db
<1>9. ASSUME NEW r \in Reader, Hit(r) PROVE P
  <2>1. /\ entry \in Version /\ entry <= version /\ left \in 0..TTL /\ lag[entry] \in 0..(Bound + 1)
        /\ left >= 1 /\ lag[entry] + left <= Bound
    BY <1>9 DEF Hit, CacheInv, AgesInv, TypeOK
  <2>2. lag[entry] <= Bound
    BY <2>1, Times
  <2> QED
    BY <1>2, <1>9, <2>1, <2>2 DEF Hit, db
<1>10. ASSUME NEW r \in Reader, Fetch(r) PROVE P
  BY <1>1, <1>10 DEF Fetch, db
<1>11. ASSUME NEW r \in Reader, Store(r) PROVE P
  <2>1. /\ fetched[r] \in Version /\ fetched[r] <= version /\ lag[fetched[r]] <= took[r]
        /\ took[r] \in 0..FetchTicks /\ lag[fetched[r]] \in 0..(Bound + 1)
    BY <1>11 DEF Store, CacheInv, AgesInv, TypeOK
  <2>2. lag[fetched[r]] <= Bound
    BY <2>1, Times
  <2> QED
    BY <1>2, <1>11, <2>1, <2>2 DEF Store, db
<1>12. ASSUME NEW r \in Reader, StoreFails(r) PROVE P
  BY <1>1, <1>12 DEF StoreFails, db
<1>13. ASSUME Tick PROVE P
  <2>1. lag' = [v \in Version |-> Older(v)] /\ UNCHANGED <<version, answer>>
    BY <1>13 DEF Tick, db
  <2>2. \A v \in Version : Older(v) = Promise!Older(v)
    BY DEF Older, Promise!Older
  <2> QED
    BY <1>0, <2>1, <2>2 DEF Promise!Next, Promise!Tick
<1>14. ASSUME GrowOld PROVE P
  BY <1>1, <1>14 DEF GrowOld, db
<1>15. ASSUME UNCHANGED vars PROVE P
  BY <1>1, <1>15 DEF vars
<1> QED
  BY <1>3, <1>4, <1>5, <1>6, <1>7, <1>8, <1>9, <1>10, <1>11, <1>12, <1>13, <1>14, <1>15, NextCases

\* The invariant under the refinement is inductive.
LEMMA CacheStep ==
    ASSUME CacheInv, [Next]_vars
    PROVE  CacheInv'
BY TypeStep, AgesStep DEF CacheInv

\* GetCommentsWithCache and GetMultipleCommentsWithCache (cache.go:58-137) against the
\* transactions that write comments: the cache implements the promise of StaleReads, no
\* answer older than a time to live and one read of the database.
THEOREM CacheImplements == Spec => BoundedStaleness
<1>1. Init => Promise!Init /\ CacheInv
  BY InitMaps
<1>2. CacheInv /\ [Next]_vars => CacheInv'
  BY CacheStep
<1>3. CacheInv /\ [Next]_vars => [Promise!Next]_(Promise!vars)
  BY StepMaps
<1> QED
  BY <1>1, <1>2, <1>3, PTL DEF Spec, BoundedStaleness, Promise!Spec

\* The same under detailPost, whose steps are the cache's or its own.
THEOREM DetailsImplement == DetailSpec => BoundedStaleness
<1>1. DetailInit => Promise!Init /\ CacheInv
  BY InitMaps DEF DetailInit
<1>2. [DetailNext]_detailVars => [Next]_vars
  BY DetailStep
<1>3. CacheInv /\ [Next]_vars => CacheInv'
  BY CacheStep
<1>4. CacheInv /\ [Next]_vars => [Promise!Next]_(Promise!vars)
  BY StepMaps
<1> QED
  BY <1>1, <1>2, <1>3, <1>4, PTL DEF DetailSpec, BoundedStaleness, Promise!Spec

-----------------------------------------------------------------------------
\* While a writer is between DelCommentCache and its commit, what is stored or read may
\* become outdated, and only then.
RaceInv ==
    /\ StaleOnlyByRace
    /\ \A r \in Reader : rpc[r] = "fetched" /\ fetched[r] < version => raced[r]
    /\ \A w \in Writer : wpc[w] = "deleted" =>
        /\ entry # None => tainted
        /\ \A r \in Reader : rpc[r] = "fetched" => raced[r]

\* Every step keeps the cause of an outdated entry: a commit while a reader has its list
\* is one of a writer that deleted before it, and this reader is marked.
LEMMA RaceStep ==
    ASSUME CacheInv, RaceInv, [Next]_vars
    PROVE  RaceInv'
<1> USE DEF RaceInv, StaleOnlyByRace
<1>0. /\ version \in Nat /\ entry \in Version \cup {None}
      /\ wpc \in [Writer -> {"idle", "open", "deleted"}]
      /\ rpc \in [Reader -> {"idle", "fetched"}] /\ fetched \in [Reader -> Version]
      /\ raced \in [Reader -> BOOLEAN]
  BY Times DEF CacheInv, TypeOK
<1>1. ASSUME UNCHANGED <<version, cache, readers>>,
             \A w \in Writer : wpc'[w] = "deleted" => wpc[w] = "deleted"
      PROVE  RaceInv'
  BY <1>1 DEF cache, readers
<1>2. ASSUME NEW w \in Writer, Open(w) PROVE RaceInv'
  BY <1>0, <1>1, <1>2 DEF Open
<1>3. ASSUME NEW w \in Writer, DelCommentCache(w) PROVE RaceInv'
  <2>1. /\ entry' = None /\ version' = version /\ rpc' = rpc /\ fetched' = fetched
        /\ \A r \in Reader : rpc[r] = "fetched" => raced'[r]
    BY <1>3 DEF DelCommentCache
  <2> QED
    BY <2>1
<1>4. ASSUME NEW w \in Writer, DelCommentCacheFails(w) PROVE RaceInv'
  <2>1. CASE KindOf[w] = "comment"
    <3>1. /\ version' = version /\ entry' = entry /\ rpc' = rpc /\ fetched' = fetched
          /\ \A v \in Writer : wpc'[v] = "deleted" => wpc[v] = "deleted"
          /\ tainted => tainted'
          /\ \A r \in Reader : raced[r] => raced'[r]
      BY <1>0, <1>4, <2>1 DEF DelCommentCacheFails
    <3> QED
      BY <3>1
  <2>2. CASE KindOf[w] # "comment"
    <3>1. /\ version' = version /\ entry' = entry /\ rpc' = rpc /\ fetched' = fetched
          /\ entry # None => tainted'
          /\ \A r \in Reader : rpc[r] = "fetched" => raced'[r]
      BY <1>0, <1>4, <2>2 DEF DelCommentCacheFails
    <3> QED
      BY <3>1
  <2> QED
    BY <2>1, <2>2
<1>5. ASSUME NEW w \in Writer, Commit(w) PROVE RaceInv'
  <2>1. /\ wpc[w] = "deleted" /\ UNCHANGED <<entry, tainted, rpc, fetched, raced>>
        /\ \A v \in Writer : wpc'[v] = "deleted" => wpc[v] = "deleted"
    BY <1>0, <1>5 DEF Commit, cache, readers
  <2>2. (entry # None => tainted) /\ \A r \in Reader : rpc[r] = "fetched" => raced[r]
    BY <2>1
  <2> QED
    BY <2>1, <2>2
<1>6. ASSUME NEW w \in Writer, RollBack(w) PROVE RaceInv'
  BY <1>0, <1>1, <1>6 DEF RollBack
<1>7. ASSUME NEW r \in Reader, Bypass(r) PROVE RaceInv'
  BY <1>1, <1>7 DEF Bypass, db
<1>8. ASSUME NEW r \in Reader, Hit(r) PROVE RaceInv'
  BY <1>1, <1>8 DEF Hit, db
<1>9. ASSUME NEW r \in Reader, Fetch(r) PROVE RaceInv'
  <2>1. /\ UNCHANGED <<version, wpc, entry, tainted>>
        /\ fetched'[r] = version
        /\ (\E w \in Writer : wpc[w] = "deleted") => raced'[r]
        /\ \A q \in Reader : q # r =>
             rpc'[q] = rpc[q] /\ fetched'[q] = fetched[q] /\ raced'[q] = raced[q]
    BY <1>0, <1>9 DEF Fetch, db, cache
  <2>2. ~(version < version)
    BY <1>0
  <2> QED
    BY <2>1, <2>2
<1>10. ASSUME NEW r \in Reader, Done(r)
       PROVE  \A q \in Reader : rpc'[q] = "fetched" =>
                rpc[q] = "fetched" /\ fetched'[q] = fetched[q] /\ raced'[q] = raced[q]
  BY <1>0, <1>10 DEF Done
<1>11. ASSUME NEW r \in Reader, Store(r) PROVE RaceInv'
  <2>1. /\ UNCHANGED <<version, wpc>> /\ Done(r) /\ rpc[r] = "fetched"
        /\ entry' = fetched[r] /\ tainted' = raced[r]
    BY <1>11 DEF Store, db
  <2> QED
    BY <1>10, <2>1
<1>12. ASSUME NEW r \in Reader, StoreFails(r) PROVE RaceInv'
  <2>1. UNCHANGED <<version, wpc, entry, tainted>> /\ Done(r)
    BY <1>12 DEF StoreFails, db, cache
  <2> QED
    BY <1>10, <2>1
<1>13. ASSUME Tick PROVE RaceInv'
  <2>1. /\ UNCHANGED <<version, wpc, rpc, fetched, raced>>
        /\ entry' # None => entry' = entry /\ tainted' = tainted
    BY <1>13 DEF Tick, db
  <2> QED
    BY <2>1
<1>14. ASSUME GrowOld PROVE RaceInv'
  BY <1>1, <1>14 DEF GrowOld, db
<1>15. ASSUME UNCHANGED vars PROVE RaceInv'
  BY <1>1, <1>15 DEF vars, cache, readers
<1> HIDE DEF RaceInv
<1> QED
  BY <1>2, <1>3, <1>4, <1>5, <1>6, <1>7, <1>8, <1>9, <1>11, <1>12, <1>13, <1>14, <1>15, NextCases

\* The invariants of the cache hold under detailPost.
THEOREM CacheCorrect == DetailSpec => [](CacheInv /\ RaceInv)
<1>1. DetailInit => CacheInv /\ RaceInv
  <2> SUFFICES ASSUME DetailInit PROVE CacheInv /\ RaceInv
    OBVIOUS
  <2>1. CacheInv
    BY InitMaps DEF DetailInit
  <2>2. RaceInv
    BY DEF DetailInit, Init, RaceInv, StaleOnlyByRace
  <2> QED
    BY <2>1, <2>2
<1>2. CacheInv /\ RaceInv /\ [DetailNext]_detailVars => CacheInv' /\ RaceInv'
  BY DetailStep, CacheStep, RaceStep
<1> QED
  BY <1>1, <1>2, PTL DEF DetailSpec

\* Why an entry is outdated: a reader had its version while a writer was between
\* DelCommentCache and its commit (cache.go:139, called inside the transactions), or Redis
\* failed to delete it.
THEOREM StaleByRace == DetailSpec => []StaleOnlyByRace
<1>1. RaceInv => StaleOnlyByRace
  BY DEF RaceInv
<1> QED
  BY <1>1, CacheCorrect, PTL

-----------------------------------------------------------------------------
(* detailPost's own part.                                                   *)

\* updated_at never goes back, and a client that did not get outdated comments from the
\* cache knows no later updated_at than that of its comments.
ClientInv ==
    /\ \A v \in Version : updatedAt[v] <= v
    /\ \A v, w \in Version : v <= w => updatedAt[v] <= updatedAt[w]
    /\ \A v \in Version : v >= version => updatedAt[v] = updatedAt[version]
    /\ \A r \in Single : held[r] # None => held[r] <= updatedAt[version]
    /\ \A r \in Single : rpc[r] = "fetched" =>
        held[r] # None /\ held[r] <= updatedAt[fetched[r]]
    /\ client.version <= version
    /\ client.stamp # None /\ ~client.misled => client.stamp <= updatedAt[client.version]

DetailInv == DetailTypeOK /\ ClientInv

\* The facts about types that the steps need.
LEMMA DetailTypes ==
    ASSUME CacheInv, DetailInv
    PROVE  /\ version \in Version /\ Version \subseteq Nat /\ None \notin Version
           /\ updatedAt \in [Version -> Version]
           /\ held \in [Single -> Version \cup {None}]
           /\ client.stamp \in Version \cup {None} /\ client.version \in Version
           /\ client.misled \in BOOLEAN
           /\ rpc \in [Reader -> {"idle", "fetched"}] /\ fetched \in [Reader -> Version]
           /\ \A r \in Single : r \in Reader
BY Times, ReaderAssumption DEF DetailInv, DetailTypeOK, CacheInv, TypeOK, Client

\* The cache's steps that are not detailPost's.
LEMMA AsideStep ==
    ASSUME CacheInv, DetailInv, TypeOK', version' = version, UNCHANGED <<updatedAt, held, client>>,
           \A r \in Single : rpc'[r] = "fetched" => rpc[r] = "fetched" /\ fetched'[r] = fetched[r]
    PROVE  DetailInv'
BY DEF DetailInv, DetailTypeOK, ClientInv

\* A commit falls in the second of the one before or in a later one, which nobody has seen.
LEMMA CommitAtStep ==
    ASSUME CacheInv, DetailInv, TypeOK', NEW w \in Writer, CommitAt(w)
    PROVE  DetailInv'
<1>1. PICK s \in {updatedAt[version], updatedAt[version] + 1} :
        updatedAt' = [v \in Version |-> IF v > version THEN s ELSE updatedAt[v]]
  BY DEF CommitAt
<1>2. /\ version' = version + 1 /\ version < MaxVersion /\ UNCHANGED <<held, client>>
      /\ UNCHANGED <<rpc, fetched>>
  BY DEF CommitAt, Commit, readers
<1>3. version \in Nat /\ version \in Version /\ \A v \in Version : v \in Nat
  BY DetailTypes
<1>4. updatedAt[version] \in Nat /\ updatedAt[version] <= version
  BY <1>3, DetailTypes DEF DetailInv, ClientInv
<1>5. s \in Nat /\ updatedAt[version] <= s /\ s <= version + 1
  BY <1>1, <1>3, <1>4
<1>6. version + 1 \in Version /\ s \in Version
  BY <1>2, <1>3, <1>5, Times DEF Version
<1>7. /\ updatedAt' \in [Version -> Version]
      /\ \A v \in Version : v > version => updatedAt'[v] = s
      /\ \A v \in Version : v <= version => updatedAt'[v] = updatedAt[v]
  <2>1. updatedAt \in [Version -> Version]
    BY DetailTypes
  <2>2. \A v \in Version : updatedAt'[v] = IF v > version THEN s ELSE updatedAt[v]
    BY <1>1
  <2>3. \A v \in Version : v <= version => ~(v > version)
    BY <1>3
  <2>4. updatedAt' \in [Version -> Version]
    BY <1>1, <1>6, <2>1
  <2> QED
    BY <2>2, <2>3, <2>4
<1>8. \A v \in Version : v <= version => updatedAt[v] <= updatedAt[version] /\ updatedAt[v] \in Nat
  BY <1>3, DetailTypes DEF DetailInv, ClientInv
<1>9. \A v \in Version : v <= version \/ v > version
  BY <1>3
<1>10. \A v \in Version : updatedAt'[v] <= v
  <2> SUFFICES ASSUME NEW v \in Version PROVE updatedAt'[v] <= v
    OBVIOUS
  <2>1. CASE v <= version
    BY <1>7, <2>1 DEF DetailInv, ClientInv
  <2>2. CASE v > version
    <3>1. version + 1 <= v
      BY <1>3, <2>2
    <3> QED
      BY <1>3, <1>5, <1>7, <2>2, <3>1
  <2> QED
    BY <1>9, <2>1, <2>2
<1>11. \A v, x \in Version : v <= x => updatedAt'[v] <= updatedAt'[x]
  <2> SUFFICES ASSUME NEW v \in Version, NEW x \in Version, v <= x
               PROVE  updatedAt'[v] <= updatedAt'[x]
    OBVIOUS
  <2>1. CASE x <= version
    <3>1. v <= version
      BY <1>3, <2>1
    <3> QED
      BY <1>7, <2>1, <3>1 DEF DetailInv, ClientInv
  <2>2. CASE x > version /\ v <= version
    <3>1. updatedAt[v] <= updatedAt[version] /\ updatedAt[v] \in Nat
      BY <1>8, <2>2
    <3>2. updatedAt[v] <= s
      BY <1>4, <1>5, <3>1
    <3> QED
      BY <1>7, <2>2, <3>2
  <2>3. CASE x > version /\ v > version
    BY <1>5, <1>7, <2>3
  <2> QED
    BY <1>9, <2>1, <2>2, <2>3
<1>12. updatedAt'[version'] = s /\ \A v \in Version : v >= version' => updatedAt'[v] = s
  <2>1. version + 1 > version /\ \A v \in Version : v >= version + 1 => v > version
    BY <1>3
  <2> QED
    BY <1>2, <1>6, <1>7, <2>1
<1>13. \A r \in Single : held'[r] # None => held'[r] <= updatedAt'[version']
  <2> SUFFICES ASSUME NEW r \in Single, held[r] # None PROVE held[r] <= s
    BY <1>2, <1>12
  <2>1. held[r] <= updatedAt[version] /\ held[r] \in Nat
    BY DetailTypes DEF DetailInv, ClientInv
  <2> QED
    BY <1>4, <1>5, <2>1
<1>14. \A r \in Single : rpc'[r] = "fetched" =>
         held'[r] # None /\ held'[r] <= updatedAt'[fetched'[r]]
  <2> SUFFICES ASSUME NEW r \in Single, rpc[r] = "fetched"
               PROVE  held[r] # None /\ held[r] <= updatedAt'[fetched[r]]
    BY <1>2
  <2>1. fetched[r] \in Version /\ fetched[r] <= version
    BY DetailTypes DEF CacheInv, AgesInv
  <2>2. updatedAt'[fetched[r]] = updatedAt[fetched[r]]
    BY <1>7, <2>1
  <2> QED
    BY <2>2 DEF DetailInv, ClientInv
<1>15. client.version \in Version /\ client.version <= version
  BY DetailTypes DEF DetailInv, ClientInv
<1>16. client'.version <= version'
  <2>1. client.version \in Nat /\ version \in Nat /\ client.version <= version
    BY <1>3, <1>15
  <2>2. client.version <= version + 1
    BY <2>1
  <2> QED
    BY <1>2, <2>2
<1>17. client'.stamp # None /\ ~client'.misled => client'.stamp <= updatedAt'[client'.version]
  <2>1. updatedAt'[client.version] = updatedAt[client.version]
    BY <1>7, <1>15
  <2> QED
    BY <1>2, <2>1 DEF DetailInv, ClientInv
<1>18. ClientInv'
  BY <1>10, <1>11, <1>12, <1>13, <1>14, <1>16, <1>17 DEF ClientInv
<1>19. DetailTypeOK'
  BY <1>2, <1>7 DEF DetailInv, DetailTypeOK
<1> QED
  BY <1>18, <1>19 DEF DetailInv

\* An answer is of the row that was read before the comments.
LEMMA AnswerStep ==
    ASSUME CacheInv, DetailInv, TypeOK', version' = version, updatedAt' = updatedAt,
           NEW r \in Single, NEW v \in Version, NEW b \in BOOLEAN,
           Answer(r, v, b), held[r] # None, v <= version, ~b => held[r] <= updatedAt[v],
           \A q \in Single : rpc'[q] = "fetched" =>
                q # r /\ rpc[q] = "fetched" /\ fetched'[q] = fetched[q]
    PROVE  DetailInv'
<1>1. /\ client' = [stamp |-> held[r], version |-> v, misled |-> b]
      /\ held[r] \in Version /\ held' \in [Single -> Version \cup {None}] /\ held'[r] = None
      /\ \A q \in Single : q # r => held'[q] = held[q]
  BY DetailTypes DEF Answer
<1>2. client' \in Client
  BY <1>1 DEF Client
<1>3. client'.stamp = held[r] /\ client'.version = v /\ client'.misled = b
  BY <1>1
<1>4. DetailTypeOK'
  BY <1>1, <1>2 DEF DetailInv, DetailTypeOK
<1>5. ClientInv'
  BY <1>1, <1>3 DEF DetailInv, ClientInv
<1> QED
  BY <1>4, <1>5 DEF DetailInv

\* The invariant of detailPost and its client is inductive.
LEMMA DetailInvStep ==
    ASSUME CacheInv, RaceInv, DetailInv, TypeOK', [DetailNext]_detailVars
    PROVE  DetailInv'
<1>1. ASSUME NEW w \in Writer, WriteOn(w) PROVE DetailInv'
  <2>1. CASE CommitAt(w)
    BY <2>1, CommitAtStep
  <2>2. CASE /\ Open(w) \/ DelCommentCache(w) \/ DelCommentCacheFails(w) \/ RollBack(w)
             /\ UNCHANGED <<updatedAt, held, client>>
    <3>1. UNCHANGED <<version, rpc, fetched>>
      BY <2>2 DEF Open, DelCommentCache, DelCommentCacheFails, RollBack, readers
    <3> QED
      BY <2>2, <3>1, AsideStep
  <2> QED
    BY <1>1, <2>1, <2>2 DEF WriteOn
<1>2. ASSUME NEW r \in Single, ReadPost(r) PROVE DetailInv'
  <2>1. /\ UNCHANGED <<version, rpc, fetched, updatedAt, client>>
        /\ held' = [held EXCEPT ![r] = updatedAt[version]] /\ rpc[r] = "idle"
    BY <1>2 DEF ReadPost, vars
  <2>2. updatedAt[version] \in Version /\ updatedAt[version] <= updatedAt[version]
    BY DetailTypes
  <2>3. held' \in [Single -> Version \cup {None}]
    BY <2>1, <2>2, DetailTypes
  <2>4. held'[r] = updatedAt[version] /\ \A q \in Single : q # r => held'[q] = held[q]
    BY <2>1, DetailTypes
  <2>5. DetailTypeOK'
    BY <2>1, <2>3 DEF DetailInv, DetailTypeOK
  <2>6. ClientInv'
    BY <2>1, <2>2, <2>4 DEF DetailInv, ClientInv
  <2> QED
    BY <2>5, <2>6 DEF DetailInv
<1>3. ASSUME NEW r \in Single, held' = [held EXCEPT ![r] = None], rpc'[r] # "fetched",
             UNCHANGED <<version, updatedAt, client>>,
             \A q \in Single : rpc'[q] = "fetched" => rpc[q] = "fetched" /\ fetched'[q] = fetched[q]
      PROVE  DetailInv'
  <2>1. /\ held' \in [Single -> Version \cup {None}]
        /\ held'[r] = None /\ \A q \in Single : q # r => held'[q] = held[q]
    BY <1>3, DetailTypes
  <2>2. DetailTypeOK'
    BY <1>3, <2>1 DEF DetailInv, DetailTypeOK
  <2>3. ClientInv'
    BY <1>3, <2>1 DEF DetailInv, ClientInv
  <2> QED
    BY <2>2, <2>3 DEF DetailInv
<1>4. ASSUME NEW r \in Single, NotModified(r) PROVE DetailInv'
  BY <1>3, <1>4 DEF NotModified, vars
<1>5. ASSUME NEW r \in Single, Modified(r) PROVE DetailInv'
  <2>1. held[r] # None /\ updatedAt' = updatedAt /\ held[r] <= updatedAt[version]
    BY <1>5 DEF Modified, DetailInv, ClientInv
  <2>2. CASE Bypass(r) /\ Answer(r, version, FALSE)
    <3>1. rpc[r] = "idle" /\ UNCHANGED <<version, rpc, fetched>>
      BY <2>2 DEF Bypass, db, readers
    <3>2. version \in Version /\ version <= version
      BY DetailTypes
    <3> QED
      BY <2>1, <2>2, <3>1, <3>2, AnswerStep
  <2>3. CASE Hit(r) /\ Answer(r, entry, tainted)
    <3>1. rpc[r] = "idle" /\ entry # None /\ UNCHANGED <<version, rpc, fetched>>
      BY <2>3 DEF Hit, db, readers
    <3>2. entry \in Version /\ entry <= version /\ tainted \in BOOLEAN
      BY <3>1 DEF CacheInv, TypeOK, AgesInv
    <3>3. ~tainted => entry = version
      <4>1. ~tainted => ~(entry < version)
        BY <3>1 DEF RaceInv, StaleOnlyByRace
      <4>2. entry \in Nat /\ version \in Nat
        BY <3>2, DetailTypes
      <4> QED
        BY <3>2, <4>1, <4>2
    <3> QED
      BY <2>1, <2>3, <3>1, <3>2, <3>3, AnswerStep
  <2>4. CASE Fetch(r) /\ UNCHANGED <<held, client>>
    <3>1. /\ version' = version /\ fetched'[r] = version
          /\ \A q \in Single : q # r => rpc'[q] = rpc[q] /\ fetched'[q] = fetched[q]
      BY <2>4, DetailTypes DEF Fetch, db
    <3>2. DetailTypeOK'
      BY <2>1, <2>4 DEF DetailInv, DetailTypeOK
    <3>3. ClientInv'
      BY <2>1, <2>4, <3>1 DEF DetailInv, ClientInv
    <3> QED
      BY <3>2, <3>3 DEF DetailInv
  <2> QED
    BY <1>5, <2>2, <2>3, <2>4 DEF Modified
<1>6. ASSUME NEW r \in Reader, Done(r)
      PROVE  \A q \in Single : rpc'[q] = "fetched" =>
                q # r /\ rpc[q] = "fetched" /\ fetched'[q] = fetched[q]
  BY <1>6, DetailTypes DEF Done
<1>7. ASSUME NEW r \in Single, FinishDetail(r) PROVE DetailInv'
  <2>0. r \in Reader /\ updatedAt' = updatedAt
    BY <1>7, ReaderAssumption DEF FinishDetail
  <2>1. CASE Store(r) /\ Answer(r, fetched[r], FALSE)
    <3>1. version' = version /\ rpc[r] = "fetched" /\ Done(r)
      BY <2>1 DEF Store, db
    <3>2. fetched[r] \in Version /\ fetched[r] <= version
      BY <2>0, <3>1, DetailTypes DEF CacheInv, AgesInv
    <3>3. held[r] # None /\ held[r] <= updatedAt[fetched[r]]
      BY <3>1 DEF DetailInv, ClientInv
    <3> QED
      BY <1>6, <2>0, <2>1, <3>1, <3>2, <3>3, AnswerStep
  <2>2. CASE /\ StoreFails(r)
             /\ held' = [held EXCEPT ![r] = None]
             /\ UNCHANGED client
    <3>1. version' = version /\ Done(r)
      BY <2>2 DEF StoreFails, db
    <3> QED
      BY <1>3, <1>6, <2>0, <2>2, <3>1
  <2> QED
    BY <1>7, <2>1, <2>2 DEF FinishDetail
<1>8. ASSUME NEW r \in Reader \ Single, List(r) PROVE DetailInv'
  <2>1. /\ version' = version /\ UNCHANGED <<updatedAt, held, client>>
        /\ \A q \in Single : q # r /\ rpc'[q] = rpc[q] /\ fetched'[q] = fetched[q]
    BY <1>8, DetailTypes
    DEF List, Read, Finish, Bypass, Hit, Fetch, Store, StoreFails, Done, db, readers
  <2> QED
    BY <2>1, AsideStep
<1>9. ASSUME Pass PROVE DetailInv'
  <2>1. UNCHANGED <<version, rpc, fetched, updatedAt, held, client>>
    BY <1>9 DEF Pass, Tick, GrowOld, db, readers
  <2> QED
    BY <2>1, AsideStep
<1>10. CASE UNCHANGED detailVars
  <2>1. UNCHANGED <<version, rpc, fetched, updatedAt, held, client>>
    BY <1>10 DEF detailVars, vars
  <2> QED
    BY <2>1, AsideStep
<1> QED
  BY <1>1, <1>2, <1>4, <1>5, <1>7, <1>8, <1>9, <1>10 DEF DetailNext

\* Under every interleaving with the writers a request's row is no newer than the comments
\* it fetches after it (detailPost, routeApiGET.go:59-113), and a client that was not misled
\* by the cache knows no later updated_at than that of its comments.
THEOREM DetailsCorrect == DetailSpec => []DetailInv
<1>1. DetailInit => DetailInv
  <2> SUFFICES ASSUME DetailInit PROVE DetailInv
    OBVIOUS
  <2>1. TypeOK
    BY InitMaps DEF DetailInit, CacheInv
  <2>2. DetailTypeOK
    BY <2>1, Times DEF DetailInit, DetailTypeOK, Client
  <2>3. ClientInv
    <3>1. /\ version = 0 /\ client.version = 0 /\ client.stamp = None
          /\ \A v \in Version : updatedAt[v] = 0 /\ v \in Nat
          /\ \A r \in Single : held[r] = None /\ rpc[r] = "idle"
      BY Times, ReaderAssumption DEF DetailInit, Init
    <3>2. updatedAt[version] = 0
      BY <3>1, Times
    <3> QED
      BY <3>1, <3>2 DEF ClientInv
  <2> QED
    BY <2>2, <2>3 DEF DetailInv
<1>2. CacheInv /\ RaceInv /\ DetailInv /\ CacheInv' /\ [DetailNext]_detailVars => DetailInv'
  BY DetailInvStep DEF CacheInv
<1> QED
  BY <1>1, <1>2, CacheCorrect, PTL DEF DetailSpec

\* The variables of the cache and of detailPost keep their types.
THEOREM DetailTypeCorrect == DetailSpec => []DetailTypeOK
<1>1. DetailInv => DetailTypeOK
  BY DEF DetailInv
<1> QED
  BY <1>1, DetailsCorrect, PTL

\* "Not modified" (routeApiGET.go:90-98, detailPost) tells a client to keep outdated
\* comments only if they came outdated from the cache, or changed twice within a second.
THEOREM NotModifiedIsRight == DetailSpec => []NotModifiedOnlyByRace
<1>1. CacheInv /\ DetailInv => NotModifiedOnlyByRace
  <2> SUFFICES ASSUME CacheInv, DetailInv, client.stamp = updatedAt[version],
                      client.version < version, ~client.misled
               PROVE  updatedAt[client.version] = updatedAt[version]
    BY DEF NotModifiedOnlyByRace
  <2>1. /\ version \in Version /\ client.version \in Version /\ client.version <= version
        /\ updatedAt[version] \in Nat /\ updatedAt[client.version] \in Nat
        /\ client.stamp # None
    BY DetailTypes DEF DetailInv, ClientInv
  <2>2. updatedAt[client.version] <= updatedAt[version]
    BY <2>1 DEF DetailInv, ClientInv
  <2>3. client.stamp <= updatedAt[client.version]
    BY <2>1 DEF DetailInv, ClientInv
  <2> QED
    BY <2>1, <2>2, <2>3
<1> QED
  BY <1>1, CacheCorrect, DetailsCorrect, PTL
=============================================================================
