--------------------------- MODULE ServicesProofs ---------------------------
(***************************************************************************)
(* Proofs about the services process: its variables keep their types, a    *)
(* post is never told of a timeout its upload did not cause, and the       *)
(* process ends after three commands at the least, for any number of       *)
(* requests, commands and ticks.                                           *)
(***************************************************************************)
EXTENDS Services, FiniteSetTheorems, TLAPS

-----------------------------------------------------------------------------
(* Types.                                                                  *)

\* Where a handler goes is a place it can be in.
LEMMA WrittenType ==
    \A r \in Request :
        /\ Written(r) \subseteq {"wait", "telegram", "done"}
        /\ AfterAnswer \subseteq {"telegram", "done"}
        /\ image[r] # "good" => "wait" \notin Written(r)
<1> TAKE r \in Request
<1>1. AfterAnswer \subseteq {"telegram", "done"}
  BY DEF AfterAnswer
<1>2. CASE image[r] = "good"
  BY <1>1, <1>2 DEF Written
<1>3. CASE image[r] # "good"
  <2>1. Written(r) = {"done"} \/ Written(r) = AfterAnswer
    BY <1>3 DEF Written
  <2>2. Written(r) \subseteq {"telegram", "done"}
    BY <1>1, <2>1
  <2> QED
    BY <1>1, <2>2
<1> QED
  BY <1>2, <1>3

\* A handler that moves on stays in the places the type invariant names.
LEMMA GotoType ==
    ASSUME TypeOK, NEW r \in Request,
           NEW l \in {"new", "lock", "body", "wait", "telegram", "done"},
           Goto(r, l)
    PROVE  pc' \in [Request -> {"new", "lock", "body", "wait", "telegram", "done"}]
BY DEF TypeOK, Goto

\* What Commit and RollBack write to cancelled is a Boolean.
LEMMA CancelType ==
    ASSUME TypeOK, NEW r \in Request, NEW b \in BOOLEAN,
           cancelled' = [cancelled EXCEPT ![r] = b]
    PROVE  cancelled' \in [Request -> BOOLEAN]
BY DEF TypeOK

\* The steps of the handlers keep the types.
LEMMA HandlersType ==
    ASSUME TypeOK, Next
    PROVE  TypeOK'
<1> USE KindAssumption, WaitTicksAssumption
<1>1. ASSUME NEW r \in Request, SavePost(r)
      PROVE  TypeOK'
  <2>1. PICK l \in Written(r) : Goto(r, l)
    BY <1>1 DEF SavePost
  <2>2. pc' \in [Request -> {"new", "lock", "body", "wait", "telegram", "done"}]
    BY <2>1, WrittenType, GotoType
  <2>3. upload' \in [Request -> {"none", "uploading", "uploaded", "ended"}]
    BY <1>1 DEF SavePost, TypeOK
  <2> QED
    BY <1>1, <2>2, <2>3 DEF SavePost, TypeOK
<1>2. ASSUME NEW r \in Request, BeginTransaction(r)
      PROVE  TypeOK'
  <2>1. pc' \in [Request -> {"new", "lock", "body", "wait", "telegram", "done"}]
    BY <1>2, GotoType DEF BeginTransaction
  <2> QED
    BY <1>2, <2>1 DEF BeginTransaction, TypeOK
<1>3. ASSUME NEW r \in Request, LockRow(r)
      PROVE  TypeOK'
  <2>1. pc' \in [Request -> {"new", "lock", "body", "wait", "telegram", "done"}]
    BY <1>3, GotoType DEF LockRow
  <2>2. upload' \in [Request -> {"none", "uploading", "uploaded", "ended"}]
    BY <1>3 DEF LockRow, TypeOK
  <2> QED
    BY <1>3, <2>1, <2>2 DEF LockRow, TypeOK
<1>4. ASSUME NEW r \in Request, Commit(r)
      PROVE  TypeOK'
  <2>1. PICK l \in Written(r) : Goto(r, l)
    BY <1>4 DEF Commit
  <2>2. pc' \in [Request -> {"new", "lock", "body", "wait", "telegram", "done"}]
    BY <2>1, WrittenType, GotoType
  <2>3. (Kind[r] = "comment") \in BOOLEAN
    OBVIOUS
  <2>4. cancelled' \in [Request -> BOOLEAN]
    BY <1>4, <2>3, CancelType, Zenon DEF Commit
  <2> QED
    BY <1>4, <2>2, <2>4 DEF Commit, TypeOK
<1>5. ASSUME NEW r \in Request, RollBack(r)
      PROVE  TypeOK'
  <2>1. pc' \in [Request -> {"new", "lock", "body", "wait", "telegram", "done"}]
    BY <1>5, GotoType DEF RollBack
  <2>2. (Kind[r] = "comment") \in BOOLEAN
    OBVIOUS
  <2>3. cancelled' \in [Request -> BOOLEAN]
    BY <1>5, <2>2, CancelType, Zenon DEF RollBack
  <2> QED
    BY <1>5, <2>1, <2>3 DEF RollBack, TypeOK
<1>6. ASSUME NEW r \in Request, Received(r)
      PROVE  TypeOK'
  <2>1. PICK l \in AfterAnswer : Goto(r, l)
    BY <1>6 DEF Received
  <2>2. pc' \in [Request -> {"new", "lock", "body", "wait", "telegram", "done"}]
    BY <2>1, WrittenType, GotoType
  <2>3. signal' \in [Request -> 0..1]
    BY <1>6 DEF Received, TypeOK
  <2> QED
    BY <1>6, <2>2, <2>3 DEF Received, TypeOK
<1>7. ASSUME NEW r \in Request, GiveUp(r)
      PROVE  TypeOK'
  <2>1. PICK l \in AfterAnswer : Goto(r, l)
    BY <1>7 DEF GiveUp
  <2>2. pc' \in [Request -> {"new", "lock", "body", "wait", "telegram", "done"}]
    BY <2>1, WrittenType, GotoType
  <2> QED
    BY <1>7, <2>2 DEF GiveUp, TypeOK
<1>8. ASSUME NEW r \in Request, TellBot(r)
      PROVE  TypeOK'
  <2>1. pc' \in [Request -> {"new", "lock", "body", "wait", "telegram", "done"}]
    BY <1>8, GotoType DEF TellBot
  <2> QED
    BY <1>8, <2>1 DEF TellBot, TypeOK
<1>9. ASSUME NEW r \in Request, Return(r)
      PROVE  TypeOK'
  BY <1>9 DEF Return, TypeOK
<1>10. ASSUME NEW r \in Request, Uploaded(r)
       PROVE  TypeOK'
  BY <1>10 DEF Uploaded, TypeOK
<1>11. ASSUME NEW r \in Request, Signal(r)
       PROVE  TypeOK'
  <2>1. signal' \in [Request -> 0..1]
    BY <1>11 DEF Signal, TypeOK
  <2>2. upload' \in [Request -> {"none", "uploading", "uploaded", "ended"}]
    BY <1>11 DEF Signal, TypeOK
  <2> QED
    BY <1>11, <2>1, <2>2 DEF Signal, TypeOK
<1>12. ASSUME BotSent
       PROVE  TypeOK'
  BY <1>12 DEF BotSent, TypeOK
<1>13. ASSUME Tick
       PROVE  TypeOK'
  <2>1. ASSUME NEW r \in Request
        PROVE  (IF pc[r] = "wait" THEN age[r] + 1 ELSE age[r]) \in 0..WaitTicks
    <3>1. Blocked(r) /\ age[r] \in 0..WaitTicks
      BY <1>13 DEF Tick, TypeOK
    <3>2. pc[r] = "wait" => age[r] < WaitTicks
      BY <3>1 DEF Blocked
    <3> QED
      BY <3>1, <3>2
  <2>2. age' \in [Request -> 0..WaitTicks]
    BY <1>13, <2>1 DEF Tick
  <2> QED
    BY <1>13, <2>2 DEF Tick, TypeOK
<1>14. ASSUME Finished
       PROVE  TypeOK'
  BY <1>14 DEF Finished, vars, TypeOK
<1> QED
  BY <1>1, <1>2, <1>3, <1>4, <1>5, <1>6, <1>7, <1>8, <1>9, <1>10, <1>11, <1>12,
     <1>13, <1>14 DEF Next, Arrive, Handle

\* The end of the process leaves every variable with a value of its type.
LEMMA DieType ==
    ASSUME Die
    PROVE  TypeOK'
BY WaitTicksAssumption DEF Die, TypeOK

\* Every step of the process keeps the types.
LEMMA TypeStep == ServiceTypeOK /\ [ServiceNext]_serviceVars => ServiceTypeOK'
<1> SUFFICES ASSUME ServiceTypeOK, [ServiceNext]_serviceVars
             PROVE  ServiceTypeOK'
  OBVIOUS
<1>1. ASSUME Next, Serving
      PROVE  ServiceTypeOK'
  <2>1. TypeOK'
    BY <1>1, HandlersType DEF ServiceTypeOK
  <2> QED
    BY <1>1, <2>1 DEF Serving, ServiceTypeOK
<1>2. ASSUME NEW k \in Command, Exit(k)
      PROVE  ServiceTypeOK'
  <2>1. TypeOK'
    BY <1>2, DieType DEF Exit
  <2>2. up' = FALSE
    BY <1>2 DEF Exit, Die
  <2> QED
    BY <1>2, <2>1, <2>2 DEF Exit, Move, ServiceTypeOK
<1>3. ASSUME NEW k \in Command, Tell(k)
      PROVE  ServiceTypeOK'
  BY <1>3 DEF Tell, Move, vars, ServiceTypeOK, TypeOK
<1>4. ASSUME NEW k \in Command, Load(k)
      PROVE  ServiceTypeOK'
  BY <1>4 DEF Load, Move, vars, ServiceTypeOK, TypeOK
<1>5. ASSUME NEW k \in Command, StoreDown(k)
      PROVE  ServiceTypeOK'
  <2>1. read[k] - 1 \in Int
    BY DEF ServiceTypeOK
  <2> QED
    BY <1>5, <2>1 DEF StoreDown, Move, vars, ServiceTypeOK, TypeOK
<1>6. ASSUME Down
      PROVE  ServiceTypeOK'
  BY <1>6 DEF Down, serviceVars, vars, ServiceTypeOK, TypeOK
<1>7. ASSUME UNCHANGED serviceVars
      PROVE  ServiceTypeOK'
  BY <1>7 DEF serviceVars, vars, ServiceTypeOK, TypeOK
<1> QED
  BY <1>1, <1>2, <1>3, <1>4, <1>5, <1>6, <1>7 DEF ServiceNext, Shutdown

\* The process starts with values of these types.
LEMMA TypeInit == ServiceInit => ServiceTypeOK
BY WaitTicksAssumption DEF ServiceInit, Init, ServiceTypeOK, TypeOK

\* The variables of the handlers and of the commands keep their types: a wait is
\* never longer than the 15 seconds of time.After (routeApiPOST.go:114, 299), and
\* uploadChan never holds a second message (routeApiPOST.go:88, 210).
THEOREM TypeCorrect == ServiceSpec => []ServiceTypeOK
BY TypeInit, TypeStep, PTL DEF ServiceSpec

-----------------------------------------------------------------------------
(* The countdown.                                                          *)

\* The commands that have decremented the countdown.
Decremented == {k \in Command : cpc[k] = "done"}

\* A lost update only makes the countdown higher than it should be: while the
\* process runs, the countdown, and every value a command is about to decrement,
\* is at least 2 less the commands that are done.
CountInv ==
    up =>
        /\ countDown + Cardinality(Decremented) >= 2
        /\ \A k \in Command :
               cpc[k] = "decrement" => read[k] + Cardinality(Decremented) >= 2

\* Sets of commands are finite.
LEMMA CommandsFinite ==
    ASSUME NEW S, S \subseteq Command
    PROVE  IsFiniteSet(S) /\ Cardinality(S) \in Nat
BY CommandAssumption, FS_Subset, FS_CardinalityType

\* A command that moves, but not to its end, leaves the number as it is.
LEMMA NotDoneYet ==
    ASSUME ServiceTypeOK, NEW k \in Command, NEW l \in {"new", "told"},
           NEW m \in {"told", "decrement"}, Move(k, l, m)
    PROVE  Decremented' = Decremented
BY DEF ServiceTypeOK, Move, Decremented

\* A command that ends counts once.
LEMMA OneMoreDone ==
    ASSUME ServiceTypeOK, NEW k \in Command, Move(k, "decrement", "done")
    PROVE  Cardinality(Decremented') = Cardinality(Decremented) + 1
<1>1. Decremented' = Decremented \cup {k}
  BY DEF ServiceTypeOK, Move, Decremented
<1>2. k \notin Decremented
  BY DEF Move, Decremented
<1>3. IsFiniteSet(Decremented)
  BY CommandsFinite DEF Decremented
<1> QED
  BY <1>1, <1>2, <1>3, FS_AddElement

\* Every step keeps the bound, and the one that ends the process finds it met by
\* two commands besides its own.
LEMMA CountStep ==
    ServiceTypeOK /\ CountInv /\ ExitNeedsThree /\ [ServiceNext]_serviceVars
        => CountInv' /\ ExitNeedsThree'
<1> SUFFICES ASSUME ServiceTypeOK, CountInv, ExitNeedsThree,
                    [ServiceNext]_serviceVars
             PROVE  CountInv' /\ ExitNeedsThree'
  OBVIOUS
<1>a. Cardinality(Decremented) \in Nat /\ countDown \in Int
  BY CommandsFinite DEF Decremented, ServiceTypeOK
<1>1. ASSUME UNCHANGED <<countDown, cpc, read, up>>
      PROVE  CountInv' /\ ExitNeedsThree'
  BY <1>1 DEF CountInv, ExitNeedsThree, Decremented
<1>2. ASSUME NEW k \in Command, Exit(k)
      PROVE  CountInv' /\ ExitNeedsThree'
  <2> DEFINE Began == {q \in Command : cpc[q] # "new"}
  <2>1. Cardinality(Decremented) >= 2
    BY <1>2, <1>a DEF Exit, Move, CountInv
  <2>2. /\ IsFiniteSet(Decremented \cup {k})
        /\ Cardinality(Decremented \cup {k}) = Cardinality(Decremented) + 1
    <3>1. k \notin Decremented
      BY <1>2 DEF Exit, Move, Decremented
    <3>2. IsFiniteSet(Decremented)
      BY CommandsFinite DEF Decremented
    <3> QED
      BY <3>1, <3>2, FS_AddElement
  <2>3. Decremented \cup {k} \subseteq Began'
    BY <1>2 DEF Exit, Move, Decremented, ServiceTypeOK
  <2>4. IsFiniteSet(Began') /\ Cardinality(Began') \in Nat
    BY CommandsFinite
  <2> HIDE DEF Began
  <2>5. Cardinality(Decremented \cup {k}) <= Cardinality(Began')
    BY <2>2, <2>3, <2>4, FS_Subset
  <2>6. Cardinality(Began') >= 3
    BY <1>a, <2>1, <2>2, <2>4, <2>5
  <2>7. up' = FALSE
    BY <1>2 DEF Exit, Die
  <2> QED
    BY <2>6, <2>7 DEF CountInv, ExitNeedsThree, Began
<1>3. ASSUME NEW k \in Command, Tell(k)
      PROVE  CountInv' /\ ExitNeedsThree'
  <2>1. Decremented' = Decremented
    BY <1>3, NotDoneYet DEF Tell
  <2> QED
    BY <1>3, <2>1 DEF Tell, Move, ServiceTypeOK, CountInv, ExitNeedsThree
<1>4. ASSUME NEW k \in Command, Load(k)
      PROVE  CountInv' /\ ExitNeedsThree'
  <2>1. Decremented' = Decremented
    BY <1>4, NotDoneYet DEF Load
  <2> QED
    BY <1>4, <2>1 DEF Load, Move, ServiceTypeOK, CountInv, ExitNeedsThree
<1>5. ASSUME NEW k \in Command, StoreDown(k)
      PROVE  CountInv' /\ ExitNeedsThree'
  <2>1. Cardinality(Decremented') = Cardinality(Decremented) + 1
    BY <1>5, OneMoreDone DEF StoreDown
  <2>2. /\ up /\ up' = up
        /\ cpc[k] = "decrement"
        /\ countDown' = read[k] - 1
    BY <1>5 DEF StoreDown, Move
  <2>3. countDown' + Cardinality(Decremented') >= 2
    BY <1>a, <2>1, <2>2 DEF CountInv, ServiceTypeOK
  <2>4. ASSUME NEW q \in Command, cpc'[q] = "decrement"
        PROVE  read'[q] + Cardinality(Decremented') >= 2
    <3>1. q # k /\ cpc[q] = "decrement" /\ read'[q] = read[q] /\ read[q] \in Int
      BY <1>5, <2>4 DEF StoreDown, Move, ServiceTypeOK
    <3> QED
      BY <1>a, <2>1, <2>2, <3>1 DEF CountInv
  <2> QED
    BY <2>2, <2>3, <2>4 DEF CountInv, ExitNeedsThree
<1> QED
  BY <1>1, <1>2, <1>3, <1>4, <1>5
  DEF ServiceNext, Shutdown, Serving, Down, serviceVars

\* The countdown starts at 2 and nobody has decremented it.
LEMMA CountStart == ServiceInit => CountInv /\ ExitNeedsThree
<1> SUFFICES ASSUME ServiceInit
             PROVE  CountInv /\ ExitNeedsThree
  OBVIOUS
<1>1. Cardinality(Decremented) \in Nat
  BY CommandsFinite DEF Decremented
<1>2. /\ countDown = 2 /\ up = TRUE
      /\ \A k \in Command : cpc[k] # "decrement"
  BY DEF ServiceInit
<1>3. countDown + Cardinality(Decremented) >= 2
  BY <1>1, <1>2
<1> QED
  BY <1>2, <1>3 DEF CountInv, ExitNeedsThree

\* The process ends after three shutdown commands at the least, however the
\* unsynchronised tests, loads and stores of any number of them interleave
\* (adminShutdownCommand, adminCommands.go:396-405).
THEOREM ExitsAfterThree == ServiceSpec => []ExitNeedsThree
<1>1. ServiceInit => CountInv /\ ExitNeedsThree
  BY CountStart
<1>2. ServiceTypeOK /\ CountInv /\ ExitNeedsThree /\ [ServiceNext]_serviceVars
        => CountInv' /\ ExitNeedsThree'
  BY CountStep
<1> QED
  BY <1>1, <1>2, TypeCorrect, PTL DEF ServiceSpec

-----------------------------------------------------------------------------
(* A post that waits for its picture.                                      *)

\* sendPost takes no row lock, and its context is not cancelled before it has
\* answered.  While it waits, the goroutine of its upload runs or has left its
\* message in uploadChan; one that is about to leave it does so in time.
PostOK(r) ==
    /\ pc[r] \notin {"lock", "body"}
    /\ pc[r] \in {"new", "wait"} => ~cancelled[r]
    /\ pc[r] = "wait" =>
           /\ upload[r] \in {"uploading", "uploaded", "ended"}
           /\ upload[r] = "ended" => signal[r] = 1
           /\ upload[r] = "uploaded" => age[r] < WaitTicks

PostInv == \A r \in Request : Kind[r] = "post" => PostOK(r)

\* The part of the state that PostOK(r) looks at.
Seen(r) == <<pc[r], upload[r], signal[r], cancelled[r], age[r]>>

\* What leaves that part alone keeps the invariant.
LEMMA PostUnseen ==
    ASSUME NEW r \in Request, PostOK(r), Seen(r)' = Seen(r)
    PROVE  PostOK(r)'
BY DEF PostOK, Seen

\* The steps of the other requests do.
LEMMA OthersUnseen ==
    ASSUME TypeOK, NEW r \in Request, NEW q \in Request, q # r,
           Arrive(q) \/ Handle(q) \/ Uploaded(q) \/ Signal(q)
    PROVE  Seen(r)' = Seen(r)
<1> USE DEF TypeOK, Goto, Seen
<1>1. CASE SavePost(q)
  BY <1>1 DEF SavePost
<1>2. CASE BeginTransaction(q)
  BY <1>2 DEF BeginTransaction
<1>3. CASE LockRow(q)
  BY <1>3 DEF LockRow
<1>4. CASE Commit(q)
  BY <1>4 DEF Commit
<1>5. CASE RollBack(q)
  BY <1>5 DEF RollBack
<1>6. CASE Received(q)
  BY <1>6 DEF Received
<1>7. CASE GiveUp(q)
  BY <1>7 DEF GiveUp
<1>8. CASE TellBot(q)
  BY <1>8 DEF TellBot
<1>9. CASE Return(q)
  BY <1>9 DEF Return
<1>10. CASE Uploaded(q)
  BY <1>10 DEF Uploaded
<1>11. CASE Signal(q)
  BY <1>11 DEF Signal
<1> QED
  BY <1>1, <1>2, <1>3, <1>4, <1>5, <1>6, <1>7, <1>8, <1>9, <1>10, <1>11
  DEF Arrive, Handle

\* A post's own steps keep the invariant.
LEMMA OwnStep ==
    ASSUME TypeOK, NEW r \in Request, Kind[r] = "post", PostOK(r),
           Arrive(r) \/ Handle(r) \/ Uploaded(r) \/ Signal(r)
    PROVE  PostOK(r)'
<1> USE DEF TypeOK, Goto
<1>1. CASE SavePost(r)
  <2>1. PICK l \in Written(r) : Goto(r, l)
    BY <1>1 DEF SavePost
  <2>2. /\ pc'[r] = l
        /\ l \in {"wait", "telegram", "done"}
        /\ l = "wait" => image[r] = "good"
    BY <2>1, WrittenType
  <2>3. ~cancelled'[r] /\ (image[r] = "good" => upload'[r] = "uploading")
    BY <1>1 DEF SavePost, PostOK
  <2> QED
    BY <2>2, <2>3 DEF PostOK
<1>2. CASE BeginTransaction(r) \/ LockRow(r) \/ Commit(r) \/ RollBack(r)
  BY <1>2 DEF BeginTransaction, LockRow, Commit, RollBack, PostOK
<1>3. CASE Received(r) \/ GiveUp(r)
  <2>1. PICK l \in AfterAnswer : Goto(r, l)
    BY <1>3 DEF Received, GiveUp
  <2>2. pc'[r] \in {"telegram", "done"}
    BY <2>1, WrittenType
  <2> QED
    BY <2>2 DEF PostOK
<1>4. CASE TellBot(r)
  <2>1. pc'[r] = "done"
    BY <1>4 DEF TellBot
  <2> QED
    BY <2>1 DEF PostOK
<1>5. CASE Return(r)
  <2>1. pc'[r] = "done"
    BY <1>5 DEF Return
  <2> QED
    BY <2>1 DEF PostOK
<1>6. CASE Uploaded(r)
  <2>1. /\ pc'[r] = pc[r] /\ cancelled'[r] = cancelled[r] /\ age'[r] = age[r]
        /\ upload'[r] = "uploaded"
        /\ pc[r] = "wait" => age[r] # WaitTicks
    BY <1>6 DEF Uploaded
  <2>2. age[r] \in 0..WaitTicks
    OBVIOUS
  <2> QED
    BY <2>1, <2>2, WaitTicksAssumption DEF PostOK
<1>7. CASE Signal(r)
  <2>1. /\ pc'[r] = pc[r] /\ cancelled'[r] = cancelled[r]
        /\ upload'[r] = "ended"
        /\ ~cancelled[r] => signal'[r] = 1
    BY <1>7 DEF Signal
  <2> QED
    BY <2>1 DEF PostOK
<1> QED
  BY <1>1, <1>2, <1>3, <1>4, <1>5, <1>6, <1>7 DEF Arrive, Handle

\* A tick finds no post whose message is about to be left.
LEMMA TickKeeps ==
    ASSUME TypeOK, Tick, NEW r \in Request, PostOK(r)
    PROVE  PostOK(r)'
<1>1. /\ pc'[r] = pc[r] /\ cancelled'[r] = cancelled[r]
      /\ upload'[r] = upload[r] /\ signal'[r] = signal[r]
  BY DEF Tick
<1>2. upload[r] # "uploaded"
  BY DEF Tick, Blocked
<1> QED
  BY <1>1, <1>2 DEF PostOK

\* Every step of the process keeps the invariant.
LEMMA PostStep ==
    ServiceTypeOK /\ PostInv /\ [ServiceNext]_serviceVars => PostInv'
<1> SUFFICES ASSUME ServiceTypeOK, PostInv, [ServiceNext]_serviceVars,
                    NEW r \in Request, Kind[r] = "post"
             PROVE  PostOK(r)'
  BY DEF PostInv
<1>a. TypeOK /\ PostOK(r)
  BY DEF ServiceTypeOK, PostInv
<1>1. ASSUME NEW q \in Request, Arrive(q) \/ Handle(q) \/ Uploaded(q) \/ Signal(q)
      PROVE  PostOK(r)'
  <2>1. CASE q = r
    BY <1>1, <1>a, <2>1, OwnStep
  <2>2. CASE q # r
    BY <1>1, <1>a, <2>2, OthersUnseen, PostUnseen
  <2> QED
    BY <2>1, <2>2
<1>2. ASSUME BotSent
      PROVE  PostOK(r)'
  BY <1>2, <1>a, PostUnseen DEF BotSent, Seen
<1>3. ASSUME Tick
      PROVE  PostOK(r)'
  BY <1>3, <1>a, TickKeeps
<1>4. ASSUME UNCHANGED vars
      PROVE  PostOK(r)'
  BY <1>4, <1>a, PostUnseen DEF vars, Seen
<1>5. ASSUME NEW k \in Command, Shutdown(k)
      PROVE  PostOK(r)'
  <2>1. CASE Exit(k)
    <3>1. pc'[r] = "done"
      BY <2>1 DEF Exit, Die
    <3> QED
      BY <3>1 DEF PostOK
  <2>2. CASE ~Exit(k)
    BY <1>4, <1>5, <2>2 DEF Shutdown, Tell, Load, StoreDown
  <2> QED
    BY <2>1, <2>2
<1> QED
  BY <1>1, <1>2, <1>3, <1>4, <1>5
  DEF ServiceNext, Next, Finished, Down, serviceVars

\* A handler gives up by GiveUp alone; if its post's invariant holds, the upload is
\* under way.
LEMMA GiveUpOnTheWay ==
    ServiceTypeOK /\ PostInv /\ [ServiceNext]_serviceVars
        => [\A r \in Request : ~gaveUp[r] /\ gaveUp'[r] =>
               upload[r] = "uploading" \/ Kind[r] # "post"]_vars
<1> SUFFICES ASSUME ServiceTypeOK, PostInv, [ServiceNext]_serviceVars,
                    NEW r \in Request, ~gaveUp[r], gaveUp'[r], Kind[r] = "post"
             PROVE  upload[r] = "uploading"
  OBVIOUS
<1>1. CASE GiveUp(r)
  <2>1. pc[r] = "wait" /\ age[r] = WaitTicks /\ signal[r] = 0
    BY <1>1 DEF GiveUp
  <2> QED
    BY <2>1, WaitTicksAssumption DEF PostInv, PostOK
<1>2. CASE ~GiveUp(r)
  <2>1. ASSUME NEW q \in Request, Arrive(q) \/ Handle(q) \/ Uploaded(q) \/ Signal(q)
        PROVE  gaveUp'[r] = gaveUp[r]
    <3>1. CASE GiveUp(q)
      BY <1>2, <3>1 DEF GiveUp, ServiceTypeOK, TypeOK
    <3>2. CASE ~GiveUp(q)
      BY <2>1, <3>2
      DEF Arrive, Handle, SavePost, BeginTransaction, LockRow, Commit, RollBack,
          Received, TellBot, Return, Uploaded, Signal
    <3> QED
      BY <3>1, <3>2
  <2>2. ASSUME BotSent \/ Tick \/ UNCHANGED vars
        PROVE  gaveUp'[r] = gaveUp[r]
    BY <2>2 DEF BotSent, Tick, vars
  <2>3. ASSUME NEW k \in Command, Shutdown(k)
        PROVE  ~gaveUp'[r] \/ gaveUp'[r] = gaveUp[r]
    BY <2>3 DEF Shutdown, Exit, Die, Tell, Load, StoreDown, vars
  <2> QED
    BY <2>1, <2>2, <2>3
    DEF ServiceNext, Next, Finished, Down, serviceVars
<1> QED
  BY <1>1, <1>2

\* sendPost gives up waiting only for a picture that is still on its way to the
\* store: no interleaving of its goroutine, its timer, other requests and the
\* shutdown lets it log a timeout of an upload that ended in time
\* (routeApiPOST.go:88-118).
THEOREM PostsWait == ServiceSpec => NoFalseTimeout
<1>1. ServiceInit => PostInv
  BY DEF ServiceInit, Init, PostInv, PostOK
<1>2. ServiceTypeOK /\ PostInv /\ [ServiceNext]_serviceVars => PostInv'
  BY PostStep
<1>3. ServiceTypeOK /\ PostInv /\ [ServiceNext]_serviceVars
        => [\A r \in Request : ~gaveUp[r] /\ gaveUp'[r] =>
               upload[r] = "uploading" \/ Kind[r] # "post"]_vars
  BY GiveUpOnTheWay
<1> QED
  BY <1>1, <1>2, <1>3, TypeCorrect, PTL DEF ServiceSpec, NoFalseTimeout
=============================================================================
