-------------------------- MODULE ModerationProofs --------------------------
(* Proofs about Moderation, for any users and roles, any posts and comments, *)
(* any threshold and any number of transactions.                             *)
EXTENDS Moderation, FiniteSetTheorems, WellFoundedInduction, TLAPS

\* An open transaction has its request, and the tables are finite.
RequestsInv ==
    /\ IsFiniteSet(reports) /\ IsFiniteSet(bans)
    /\ \A h \in Handler :
        /\ pc[h] # "idle" => req[h] \in Request /\ req[h].type \in Asks[req[h].user]
        /\ pc[h] = "peek" => req[h].type = "delete_ban"

\* A transaction that was admitted has its item's row locked.
LockInv == \A h \in Handler : pc[h] \in {"peek", "write"} => lock[req[h].item] = h

\* Reports are numbered by the table's auto increment.
IdsInv ==
    /\ \A r \in reports : r.id <= lastId
    /\ \A r, s \in reports : r.id = s.id => r = s

\* A fold that was admitted names one of the reportable tags.
FoldInv == \A h \in Handler :
    pc[h] = "write" /\ req[h].type = "fold" => req[h].reason \in Tags

TransactionInv == TypeOK /\ RequestsInv /\ LockInv /\ IdsInv /\ FoldInv

-----------------------------------------------------------------------------
\* The actions of Next one by one.
LEMMA NextCases ==
    ASSUME Next, NEW P,
           \A h \in Handler : \A q \in Request : Arrive(h, q) => P,
           \A h \in Handler : Lock(h) => P,
           \A h \in Handler : Refuse(h) => P,
           \A h \in Handler : Peek(h) => P,
           \A h \in Handler : PeekReached(h) => P,
           \A h \in Handler : CommitReport(h) => P,
           \A h \in Handler : CommitFold(h) => P,
           \A h \in Handler : CommitSetTag(h) => P,
           \A h \in Handler : CommitDelete(h) => P,
           \A h \in Handler : CommitDeleteBan(h) => P,
           \A h \in Handler : CommitUndelete(h) => P,
           \A h \in Handler : CommitUnban(h) => P,
           \A h \in Handler : RollBackUnban(h) => P,
           \A i \in Item : Grow(i) => P,
           \A i \in Item : TagByHashtag(i) => P,
           UNCHANGED vars => P
    PROVE  P
BY DEF Next, Write, Finished

\* A request's fields.
LEMMA RequestFields ==
    ASSUME TypeOK, RequestsInv, NEW h \in Handler, pc[h] # "idle"
    PROVE  /\ req[h].user \in User /\ req[h].item \in Item
           /\ req[h].type \in AllTypes /\ req[h].reason \in Reason
           /\ Parent[req[h].item] \in Item /\ Author[req[h].item] \in User
BY ItemAssumption DEF RequestsInv, Request

\* The report a transaction writes.
LEMMA CreatedFields ==
    ASSUME TypeOK, RequestsInv, NEW h \in Handler, pc[h] # "idle"
    PROVE  /\ Created(h) \in Report /\ Created(h).id = lastId + 1
           /\ Created(h).user = req[h].user /\ Created(h).item = req[h].item
           /\ Created(h).type = req[h].type /\ Created(h).reason = req[h].reason
BY RequestFields DEF Created, Report, TypeOK

\* What is counted is finite.
LEMMA Counted ==
    ASSUME TypeOK, RequestsInv
    PROVE  /\ \A u \in User : Cardinality(BansOf(u)) \in Nat
           /\ \A i \in Item : Cardinality(Votes(i)) \in Nat
           /\ \A i \in Item : IsFiniteSet(Votes(i))
           /\ \A i \in Item : Cardinality(Comments(i)) \in Nat
<1>1. ASSUME NEW u \in User PROVE Cardinality(BansOf(u)) \in Nat
  BY FS_Subset, FS_CardinalityType DEF BansOf, RequestsInv
<1>2. ASSUME NEW i \in Item PROVE IsFiniteSet(Votes(i)) /\ Cardinality(Votes(i)) \in Nat
  BY FS_Subset, FS_CardinalityType DEF Votes, RequestsInv
<1>3. ASSUME NEW i \in Item PROVE Cardinality(Comments(i)) \in Nat
  BY FS_Subset, FS_CardinalityType, FiniteAssumption DEF Comments
<1> QED
  BY <1>1, <1>2, <1>3

\* DeleteAndBan keeps the types.
LEMMA BanTypes ==
    ASSUME TypeOK, RequestsInv, NEW h \in Handler, pc[h] # "idle",
           NEW ok \in CacheCall(req[h].item), DeleteAndBan(h, ok)
    PROVE  /\ deleted' \in SUBSET Item /\ replyNum' \in [Item -> Int]
           /\ bans' \in SUBSET Ban /\ IsFiniteSet(bans')
<1>1. ok \in BOOLEAN
  BY DEF CacheCall
<1> DEFINE b == [report |-> lastId + 1, user |-> Author[req[h].item], days |-> seen[h] + 1]
<1>2. b \in Ban
  BY RequestFields DEF Ban, TypeOK
<1>3. bans' = bans \/ bans' = bans \cup {b}
  BY <1>1 DEF DeleteAndBan
<1>4. bans' \in SUBSET Ban /\ IsFiniteSet(bans')
  <2> HIDE DEF b
  <2>1. IsFiniteSet(bans \cup {b})
    BY FS_AddElement DEF RequestsInv
  <2> QED
    BY <1>2, <1>3, <2>1 DEF TypeOK, RequestsInv
<1>5. deleted' \in SUBSET Item /\ replyNum' \in [Item -> Int]
  BY RequestFields DEF DeleteAndBan, Delete, TypeOK
<1> QED
  BY <1>4, <1>5

\* CreateReport keeps the types.
LEMMA ReportTypes ==
    ASSUME TypeOK, RequestsInv, NEW h \in Handler, pc[h] # "idle", CreateReport(h)
    PROVE  reports' \in SUBSET Report /\ IsFiniteSet(reports') /\ lastId' \in Nat
<1>1. Created(h) \in Report
  BY CreatedFields
<1>2. reports' = reports \cup {Created(h)} /\ lastId' = lastId + 1
  BY DEF CreateReport
<1>3. IsFiniteSet(reports \cup {Created(h)})
  BY FS_AddElement DEF RequestsInv
<1> QED
  BY <1>1, <1>2, <1>3 DEF TypeOK

\* What the end of a transaction leaves.
LEMMA EndTypes ==
    ASSUME TypeOK, RequestsInv, NEW h \in Handler, pc[h] # "idle", End(h),
           \/ lock' = lock
           \/ lock' = [lock EXCEPT ![req[h].item] = NoTx]
    PROVE  /\ lock' \in [Item -> Handler \cup {NoTx}]
           /\ pc' \in [Handler -> {"idle", "begin", "peek", "write"}]
           /\ req' \in [Handler -> Request \cup {NoRequest}]
           /\ seen' \in [Handler -> Nat] /\ score' \in [Handler -> Nat]
           /\ \A g \in Handler :
                /\ pc'[g] # "idle" => req'[g] \in Request /\ req'[g].type \in Asks[req'[g].user]
                /\ pc'[g] = "peek" => req'[g].type = "delete_ban"
BY RequestFields DEF End, TypeOK, RequestsInv

\* UnbanByReport deletes a ban at most.
LEMMA UnbanTypes ==
    ASSUME TypeOK, RequestsInv, NEW i \in Item, Unban(i)
    PROVE  bans' \in SUBSET Ban /\ IsFiniteSet(bans')
<1>1. bans' \subseteq bans
  BY DEF Unban
<1> QED
  BY <1>1, FS_Subset DEF TypeOK, RequestsInv

\* The tables are empty in the beginning.
LEMMA TypeInit ==
    ASSUME Init
    PROVE  TypeOK /\ RequestsInv
<1>1. replyNum \in [Item -> Int]
  <2>1. \A i \in Item : IsFiniteSet(Comments(i))
    BY FS_Subset, FiniteAssumption DEF Comments
  <2>2. \A i \in Item : Cardinality(Comments(i)) \in Nat
    BY <2>1, FS_CardinalityType
  <2> QED
    BY <2>2 DEF Init
<1>2. used \in [User -> Nat]
  BY UserAssumption DEF Init
<1> QED
  BY <1>1, <1>2, FS_EmptySet DEF Init, TypeOK, RequestsInv

\* Every step keeps the types and gives an open transaction its request.
LEMMA TypeStep ==
    ASSUME TypeOK, RequestsInv, [Next]_vars
    PROVE  TypeOK' /\ RequestsInv'
<1>1. ASSUME NEW h \in Handler, NEW q \in Request, Arrive(h, q) PROVE TypeOK' /\ RequestsInv'
  BY <1>1 DEF Arrive, items, tables, TypeOK, RequestsInv
<1>2. ASSUME NEW h \in Handler, Lock(h) PROVE TypeOK' /\ RequestsInv'
  <2>1. seen' \in [Handler -> Nat] /\ score' \in [Handler -> Nat]
    BY <1>2, Counted, RequestFields DEF Lock, Snapshot, TypeOK
  <2> QED
    BY <1>2, <2>1 DEF Lock, items, tables, TypeOK, RequestsInv
<1>3. ASSUME NEW h \in Handler, Refuse(h) PROVE TypeOK' /\ RequestsInv'
  BY <1>3, EndTypes DEF Refuse, items, tables, TypeOK, RequestsInv
<1>4. ASSUME NEW h \in Handler, Peek(h) PROVE TypeOK' /\ RequestsInv'
  <2>1. seen' \in [Handler -> Nat]
    BY <1>4, Counted, RequestFields DEF Peek, TypeOK
  <2> QED
    BY <1>4, <2>1 DEF Peek, items, tables, TypeOK, RequestsInv
<1>5. ASSUME NEW h \in Handler, PeekReached(h) PROVE TypeOK' /\ RequestsInv'
  BY <1>5, EndTypes DEF PeekReached, items, tables, TypeOK, RequestsInv
<1>6. ASSUME NEW h \in Handler, CommitReport(h) PROVE TypeOK' /\ RequestsInv'
  <2>1. pc[h] # "idle"
    BY <1>6 DEF CommitReport, Commit
  <2>2. /\ deleted' \in SUBSET Item /\ replyNum' \in [Item -> Int]
        /\ bans' \in SUBSET Ban /\ IsFiniteSet(bans')
    BY <1>6, <2>1, BanTypes DEF CommitReport, TypeOK, RequestsInv
  <2>3. reportNum' \in [Item -> Nat]
    BY <1>6, <2>1, RequestFields DEF CommitReport, CountOnPost, TypeOK
  <2> QED
    BY <1>6, <2>1, <2>2, <2>3, EndTypes, ReportTypes DEF CommitReport, Commit, TypeOK, RequestsInv
<1>7. ASSUME NEW h \in Handler, CommitFold(h) PROVE TypeOK' /\ RequestsInv'
  <2>1. pc[h] # "idle"
    BY <1>7 DEF CommitFold, Commit
  <2>2. tag' \in [Item -> Reason]
    BY <1>7, <2>1, RequestFields DEF CommitFold, SetTag, TypeOK
  <2> QED
    BY <1>7, <2>1, <2>2, EndTypes, ReportTypes DEF CommitFold, Commit, TypeOK, RequestsInv
<1>8. ASSUME NEW h \in Handler, CommitSetTag(h) PROVE TypeOK' /\ RequestsInv'
  <2>1. pc[h] # "idle"
    BY <1>8 DEF CommitSetTag, Commit
  <2>2. tag' \in [Item -> Reason]
    BY <1>8, <2>1, RequestFields DEF CommitSetTag, SetTag, TypeOK
  <2> QED
    BY <1>8, <2>1, <2>2, EndTypes, ReportTypes DEF CommitSetTag, Commit, TypeOK, RequestsInv
<1>9. ASSUME NEW h \in Handler, CommitDelete(h) PROVE TypeOK' /\ RequestsInv'
  <2>1. pc[h] # "idle"
    BY <1>9 DEF CommitDelete, Commit
  <2>2. deleted' \in SUBSET Item /\ replyNum' \in [Item -> Int]
    BY <1>9, <2>1, RequestFields DEF CommitDelete, Delete, TypeOK
  <2> QED
    BY <1>9, <2>1, <2>2, EndTypes, ReportTypes DEF CommitDelete, Commit, TypeOK, RequestsInv
<1>10. ASSUME NEW h \in Handler, CommitDeleteBan(h) PROVE TypeOK' /\ RequestsInv'
  <2>1. pc[h] # "idle"
    BY <1>10 DEF CommitDeleteBan, Commit
  <2>2. /\ deleted' \in SUBSET Item /\ replyNum' \in [Item -> Int]
        /\ bans' \in SUBSET Ban /\ IsFiniteSet(bans')
    BY <1>10, <2>1, BanTypes DEF CommitDeleteBan
  <2>3. used' \in [User -> Nat]
    BY <1>10, <2>1, RequestFields DEF CommitDeleteBan, TypeOK
  <2> QED
    BY <1>10, <2>1, <2>2, <2>3, EndTypes, ReportTypes
       DEF CommitDeleteBan, Commit, TypeOK, RequestsInv
<1>11. ASSUME NEW h \in Handler, CommitUndelete(h) PROVE TypeOK' /\ RequestsInv'
  <2>1. pc[h] # "idle" /\ req[h].item \in Item /\ Parent[req[h].item] \in Item
    BY <1>11, RequestFields DEF CommitUndelete, Commit
  <2>2. bans' \in SUBSET Ban /\ IsFiniteSet(bans')
    BY <1>11, <2>1, UnbanTypes DEF CommitUndelete
  <2>3. deleted' \in SUBSET Item /\ replyNum' \in [Item -> Int] /\ reportNum' \in [Item -> Nat]
    BY <1>11, <2>1 DEF CommitUndelete, TypeOK
  <2> QED
    BY <1>11, <2>1, <2>2, <2>3, EndTypes, ReportTypes
       DEF CommitUndelete, Commit, TypeOK, RequestsInv
<1>12. ASSUME NEW h \in Handler, CommitUnban(h) PROVE TypeOK' /\ RequestsInv'
  <2>1. pc[h] # "idle" /\ req[h].item \in Item
    BY <1>12, RequestFields DEF CommitUnban, Commit
  <2>2. bans' \in SUBSET Ban /\ IsFiniteSet(bans')
    BY <1>12, <2>1, UnbanTypes DEF CommitUnban
  <2> QED
    BY <1>12, <2>1, <2>2, EndTypes, ReportTypes
       DEF CommitUnban, Commit, items, TypeOK, RequestsInv
<1>13. ASSUME NEW h \in Handler, RollBackUnban(h) PROVE TypeOK' /\ RequestsInv'
  <2>1. pc[h] # "idle"
    BY <1>13 DEF RollBackUnban, Commit
  <2> QED
    BY <1>13, <2>1, EndTypes DEF RollBackUnban, Commit, items, tables, TypeOK, RequestsInv
<1>14. ASSUME NEW i \in Item, Grow(i) PROVE TypeOK' /\ RequestsInv'
  BY <1>14 DEF Grow, items, tables, TypeOK, RequestsInv
<1>15. ASSUME NEW i \in Item, TagByHashtag(i) PROVE TypeOK' /\ RequestsInv'
  BY <1>15 DEF TagByHashtag, tables, TypeOK, RequestsInv
<1>16. CASE UNCHANGED vars
  BY <1>16 DEF vars, items, tables, TypeOK, RequestsInv
<1> QED
  BY <1>1, <1>2, <1>3, <1>4, <1>5, <1>6, <1>7, <1>8, <1>9, <1>10, <1>11, <1>12, <1>13,
     <1>14, <1>15, <1>16, NextCases

\* The tables and the open transactions keep their types.
THEOREM TypeCorrect == Spec => []TypeOK
<1>1. Init => TypeOK /\ RequestsInv
  BY TypeInit
<1>2. TypeOK /\ RequestsInv /\ [Next]_vars => TypeOK' /\ RequestsInv'
  BY TypeStep
<1> QED
  BY <1>1, <1>2, PTL DEF Spec

-----------------------------------------------------------------------------
(* What the row lock buys.                                                 *)

\* The log grows by the report of one transaction at a time.
LEMMA LogStep ==
    ASSUME [Next]_vars
    PROVE  \/ reports' = reports /\ lastId' = lastId
           \/ \E h \in Handler : Commit(h) /\ CreateReport(h)
BY NextCases
   DEF Arrive, Lock, Refuse, Peek, PeekReached, CommitReport, CommitFold, CommitSetTag,
       CommitDelete, CommitDeleteBan, CommitUndelete, CommitUnban, RollBackUnban, Grow,
         TagByHashtag, items, tables, vars

\* What the transactions write is written when they commit.
LEMMA WritesCommit ==
    \A h \in Handler :
        /\ CommitReport(h) => Commit(h)
        /\ CommitFold(h) => Commit(h)
        /\ CommitSetTag(h) => Commit(h)
        /\ CommitDelete(h) => Commit(h)
        /\ CommitDeleteBan(h) => Commit(h)
        /\ CommitUndelete(h) => Commit(h)
        /\ CommitUnban(h) => Commit(h)
        /\ RollBackUnban(h) => Commit(h)
BY DEF CommitReport, CommitFold, CommitSetTag, CommitDelete, CommitDeleteBan,
       CommitUndelete, CommitUnban, RollBackUnban

\* A transaction that holds its row before a step and after it has done nothing else in
\* the step than Peek; one that holds it after the step only has taken it by Lock.
LEMMA Holders ==
    ASSUME TransactionInv, [Next]_vars, NEW g \in Handler, pc'[g] \in {"peek", "write"}
    PROVE  /\ req'[g] = req[g] /\ pc[g] # "idle"
           /\ \/ Lock(g) /\ UNCHANGED <<items, tables>>
              \/ Peek(g) /\ UNCHANGED <<items, tables>> /\ lock'[req[g].item] = g
              \/ /\ pc[g] = pc'[g] /\ score'[g] = score[g] /\ seen'[g] = seen[g]
                 /\ lock'[req[g].item] = g
                 /\ ~Commit(g)
                 /\ \A h \in Handler : Commit(h) => req[h].item # req[g].item
<1> DEFINE Same == /\ pc[g] = pc'[g] /\ score'[g] = score[g] /\ seen'[g] = seen[g]
                   /\ lock'[req[g].item] = g
                   /\ ~Commit(g)
                   /\ \A h \in Handler : Commit(h) => req[h].item # req[g].item
<1> DEFINE P == /\ req'[g] = req[g] /\ pc[g] # "idle"
                /\ \/ Lock(g) /\ UNCHANGED <<items, tables>>
                   \/ Peek(g) /\ UNCHANGED <<items, tables>> /\ lock'[req[g].item] = g
                   \/ Same
<1>1. ~Commit(g) /\ ~End(g)
  BY DEF Commit, End, TransactionInv, TypeOK
<1>2. pc[g] \in {"peek", "write"} =>
        \A h \in Handler : Commit(h) => req[h].item # req[g].item
  BY <1>1 DEF Commit, TransactionInv, LockInv
<1>3. ASSUME NEW h \in Handler, End(h),
             \/ lock' = lock
             \/ pc[h] \in {"peek", "write"} /\ lock' = [lock EXCEPT ![req[h].item] = NoTx]
      PROVE  P
  <2>1. g # h
    BY <1>1, <1>3
  <2>2. /\ pc'[g] = pc[g] /\ req'[g] = req[g]
        /\ score'[g] = score[g] /\ seen'[g] = seen[g]
    BY <1>3, <2>1 DEF End, TransactionInv, TypeOK
  <2>3. lock[req[g].item] = g
    BY <2>2 DEF TransactionInv, LockInv
  <2>4. pc[h] \in {"peek", "write"} => req[h].item # req[g].item
    BY <2>1, <2>3 DEF TransactionInv, LockInv
  <2>5. lock'[req[g].item] = g
    <3>1. req[g].item \in Item
      BY <2>2, RequestFields DEF TransactionInv
    <3> QED
      BY <1>3, <2>3, <2>4, <3>1 DEF TransactionInv, TypeOK
  <2> QED
    BY <1>1, <1>2, <2>2, <2>5
<1>4. ASSUME NEW h \in Handler, Commit(h) PROVE P
  BY <1>3, <1>4 DEF Commit
<1>5. ASSUME NEW h \in Handler, NEW q \in Request, Arrive(h, q) PROVE P
  <2>1. g # h
    BY <1>5 DEF Arrive, TransactionInv, TypeOK
  <2>2. pc'[g] = pc[g] /\ req'[g] = req[g]
    BY <1>5, <2>1 DEF Arrive, TransactionInv, TypeOK
  <2> QED
    BY <1>1, <1>2, <1>5, <2>2 DEF Arrive, TransactionInv, LockInv
<1>6. ASSUME NEW h \in Handler, Lock(h) PROVE P
  <2>1. CASE g = h
    BY <1>6, <2>1 DEF Lock
  <2>2. CASE g # h
    <3>1. /\ pc'[g] = pc[g] /\ req'[g] = req[g]
          /\ score'[g] = score[g] /\ seen'[g] = seen[g]
      BY <1>6, <2>2 DEF Lock, Snapshot, TransactionInv, TypeOK
    <3>2. lock[req[g].item] = g
      BY <3>1 DEF TransactionInv, LockInv
    <3>3. lock'[req[g].item] = g
      BY <1>6, <3>2, BoundAssumption DEF Lock, TransactionInv, TypeOK
    <3> QED
      BY <1>1, <1>2, <3>1, <3>3
  <2> QED
    BY <2>1, <2>2
<1>7. ASSUME NEW h \in Handler, Peek(h) PROVE P
  <2>1. CASE g = h
    BY <1>7, <2>1 DEF Peek, TransactionInv, LockInv
  <2>2. CASE g # h
    <3>1. /\ pc'[g] = pc[g] /\ req'[g] = req[g]
          /\ score'[g] = score[g] /\ seen'[g] = seen[g]
      BY <1>7, <2>2 DEF Peek, TransactionInv, TypeOK
    <3> QED
      BY <1>1, <1>2, <1>7, <3>1 DEF Peek, TransactionInv, LockInv
  <2> QED
    BY <2>1, <2>2
<1>8. CASE UNCHANGED <<pc, req, score, seen, lock>>
  BY <1>1, <1>2, <1>8 DEF TransactionInv, LockInv
<1>9. ASSUME NEW h \in Handler, Refuse(h) \/ PeekReached(h) PROVE P
  BY <1>3, <1>9 DEF Refuse, PeekReached
<1>10. ASSUME NEW i \in Item, Grow(i) \/ TagByHashtag(i) PROVE P
  BY <1>8, <1>10 DEF Grow, TagByHashtag
<1>11. CASE UNCHANGED vars
  BY <1>8, <1>11 DEF vars
<1>12. ASSUME NEW h \in Handler,
              \/ CommitReport(h) \/ CommitFold(h) \/ CommitSetTag(h) \/ CommitDelete(h)
              \/ CommitDeleteBan(h) \/ CommitUndelete(h) \/ CommitUnban(h)
              \/ RollBackUnban(h)
       PROVE  P
  BY <1>4, <1>12, WritesCommit
<1> QED
  BY <1>5, <1>6, <1>7, <1>9, <1>10, <1>11, <1>12, NextCases

\* The invariant under the other theorems is inductive.
LEMMA TransactionStep ==
    ASSUME TransactionInv, [Next]_vars
    PROVE  TransactionInv'
<1>1. TypeOK' /\ RequestsInv'
  BY TypeStep DEF TransactionInv
<1>2. LockInv'
  <2> SUFFICES ASSUME NEW g \in Handler, pc'[g] \in {"peek", "write"}
               PROVE  lock'[req'[g].item] = g
    BY DEF LockInv
  <2>1. ASSUME Lock(g) PROVE lock'[req[g].item] = g
    <3>1. req[g].item \in Item
      BY <2>1, RequestFields DEF Lock, TransactionInv
    <3> QED
      BY <2>1, <3>1 DEF Lock, TransactionInv, TypeOK
  <2> QED
    BY <2>1, Holders
<1>3. IdsInv'
  <2>1. CASE reports' = reports /\ lastId' = lastId
    BY <2>1 DEF TransactionInv, IdsInv
  <2>2. ASSUME NEW h \in Handler, Commit(h), CreateReport(h) PROVE IdsInv'
    <3>1. Created(h).id = lastId + 1
      BY <2>2, CreatedFields DEF Commit, TransactionInv
    <3>2. lastId \in Nat /\ \A r \in reports : r.id \in Nat /\ r.id <= lastId
      BY DEF TransactionInv, TypeOK, IdsInv, Report
    <3>3. \A r \in reports : r.id # lastId + 1
      BY <3>2
    <3>4. \A r \in reports' : r.id <= lastId'
      BY <2>2, <3>1, <3>2 DEF CreateReport
    <3>5. \A r, t \in reports' : r.id = t.id => r = t
      BY <2>2, <3>1, <3>3 DEF CreateReport, TransactionInv, IdsInv
    <3> QED
      BY <3>4, <3>5 DEF IdsInv
  <2> QED
    BY <2>1, <2>2, LogStep
<1>4. FoldInv'
  <2> SUFFICES ASSUME NEW g \in Handler, pc'[g] = "write", req[g].type = "fold"
               PROVE  pc[g] = "write" \/ req[g].reason \in Tags
    BY Holders DEF FoldInv, TransactionInv
  <2>1. ASSUME Lock(g) PROVE req[g].reason \in Tags
    BY <2>1 DEF Lock, Admitted
  <2>2. ASSUME Peek(g) PROVE FALSE
    BY <2>2 DEF Peek, TransactionInv, RequestsInv
  <2> QED
    BY <2>1, <2>2, Holders
<1> QED
  BY <1>1, <1>2, <1>3, <1>4 DEF TransactionInv

\* A transaction works on an item no other one writes to, and numbers its own report.
THEOREM TransactionsIsolated == Spec => []TransactionInv
<1>1. Init => TransactionInv
  BY TypeInit DEF Init, TransactionInv, LockInv, IdsInv, FoldInv
<1>2. TransactionInv /\ [Next]_vars => TransactionInv'
  BY TransactionStep
<1> QED
  BY <1>1, <1>2, PTL DEF Spec

\* The report a step adds, if it adds one.
LEMMA ReportStep ==
    ASSUME TransactionInv, [Next]_vars
    PROVE  \/ reports' = reports
           \/ \E h \in Handler, c \in Report :
                /\ Commit(h) /\ pc[h] = "write"
                /\ reports' = reports \cup {c} /\ c.id = lastId + 1
                /\ c.user = req[h].user /\ c.item = req[h].item
                /\ c.type = req[h].type /\ c.reason = req[h].reason
<1>1. ASSUME NEW h \in Handler, Commit(h), CreateReport(h)
      PROVE  /\ Created(h) \in Report /\ pc[h] = "write"
             /\ reports' = reports \cup {Created(h)} /\ Created(h).id = lastId + 1
             /\ Created(h).user = req[h].user /\ Created(h).item = req[h].item
             /\ Created(h).type = req[h].type /\ Created(h).reason = req[h].reason
  BY <1>1, CreatedFields DEF Commit, CreateReport, TransactionInv
<1> QED
  BY <1>1, LogStep

-----------------------------------------------------------------------------
(* Reports count once.                                                     *)

\* The look for an earlier report stays true until the commit.
OnceInv ==
    \A h \in Handler :
        pc[h] = "write" /\ req[h].type \in {"report", "fold"} => Mine(req[h]) = {}

\* No other transaction inserts a report of the item between the look and the commit.
LEMMA OnceStep ==
    ASSUME TransactionInv, OnceInv, NoDuplicateReport, [Next]_vars
    PROVE  OnceInv' /\ NoDuplicateReport'
<1>1. NoDuplicateReport'
  <2>1. CASE reports' = reports
    BY <2>1 DEF NoDuplicateReport
  <2>2. ASSUME NEW h \in Handler, NEW c \in Report,
               Commit(h), pc[h] = "write", reports' = reports \cup {c},
               c.user = req[h].user, c.item = req[h].item, c.type = req[h].type
        PROVE  NoDuplicateReport'
    BY <2>2 DEF OnceInv, NoDuplicateReport, Mine, ReportsOf
  <2> QED
    BY <2>1, <2>2, ReportStep
<1>2. OnceInv'
  <2> SUFFICES ASSUME NEW g \in Handler, pc'[g] = "write",
                      req'[g].type \in {"report", "fold"}
               PROVE  Mine(req[g])' = {}
    BY Holders DEF OnceInv, Mine, ReportsOf
  <2>1. ASSUME Lock(g), reports' = reports PROVE Mine(req[g]) = {}
    <3>1. Cardinality(Mine(req[g])) # 1
      BY <2>1, Holders DEF Lock, Admitted
    <3>2. \A r, t \in Mine(req[g]) : r = t
      BY Holders DEF Mine, ReportsOf, NoDuplicateReport
    <3>3. ASSUME NEW r \in Mine(req[g]) PROVE FALSE
      <4>1. Mine(req[g]) = {r}
        BY <3>2
      <4> QED
        BY <3>1, <4>1, FS_Singleton
    <3> QED
      BY <3>3
  <2>2. ASSUME Peek(g) PROVE FALSE
    BY <2>2, Holders DEF Peek, TransactionInv, RequestsInv
  <2>3. ASSUME pc[g] = "write", \A h \in Handler : Commit(h) => req[h].item # req[g].item
        PROVE  Mine(req[g])' = {}
    <3>1. Mine(req[g]) = {}
      BY <2>3, Holders DEF OnceInv
    <3>2. req'[g] = req[g]
      BY Holders
    <3>3. CASE reports' = reports
      BY <3>1, <3>2, <3>3 DEF Mine, ReportsOf
    <3>4. ASSUME NEW h \in Handler, NEW c \in Report, Commit(h),
                 reports' = reports \cup {c}, c.item = req[h].item
          PROVE  Mine(req[g])' = {}
      <4>1. c.item # req[g].item
        BY <2>3, <3>4
      <4> QED
        BY <3>1, <3>2, <3>4, <4>1 DEF Mine, ReportsOf
    <3> QED
      BY <3>3, <3>4, ReportStep
  <2> QED
    BY <2>1, <2>2, <2>3, Holders DEF Mine, ReportsOf, tables
<1> QED
  BY <1>1, <1>2

\* A user's reports of an item, and folds, count once, however many requests he makes at
\* a time (routeApiPOST.go:364-417, the row lock of the item first).
THEOREM ReportsCountOnce == Spec => []NoDuplicateReport
<1>1. Init => OnceInv /\ NoDuplicateReport
  BY DEF Init, OnceInv, NoDuplicateReport
<1>2. /\ TransactionInv /\ OnceInv /\ NoDuplicateReport /\ [Next]_vars
      => OnceInv' /\ NoDuplicateReport'
  BY OnceStep
<1> QED
  BY <1>1, <1>2, TransactionsIsolated, PTL DEF Spec

-----------------------------------------------------------------------------
(* Folds tag.                                                              *)

\* A tag is replaced; only an administrator's set_tag takes it away.
LEMMA TagsKept ==
    ASSUME TransactionInv, [Next]_vars, NEW i \in Item, tag[i] # NoTag, tag'[i] = NoTag
    PROVE  \E h \in Handler :
                CommitSetTag(h) /\ req[h].item = i /\ req[h].reason = NoTag
<1>1. \/ tag' = tag
      \/ \E h \in Handler : SetTag(h) /\ (CommitFold(h) \/ CommitSetTag(h))
      \/ \E j \in Item : TagByHashtag(j)
  BY NextCases
     DEF Arrive, Lock, Refuse, Peek, PeekReached, CommitReport, CommitFold, CommitSetTag,
         CommitDelete, CommitDeleteBan, CommitUndelete, CommitUnban, RollBackUnban, Grow,
         Commit, items, vars
<1>2. ASSUME NEW j \in Item, TagByHashtag(j) PROVE FALSE
  BY <1>2 DEF TagByHashtag, TransactionInv, TypeOK
<1>3. ASSUME NEW h \in Handler, SetTag(h), CommitFold(h) \/ CommitSetTag(h)
      PROVE  CommitSetTag(h) /\ req[h].item = i /\ req[h].reason = NoTag
  <2>1. req[h].item = i /\ req[h].reason = NoTag
    BY <1>3 DEF SetTag, TransactionInv, TypeOK
  <2>2. ~CommitFold(h)
    BY <2>1, BoundAssumption DEF CommitFold, Commit, TransactionInv, FoldInv
  <2> QED
    BY <1>3, <2>1, <2>2
<1> QED
  BY <1>1, <1>2, <1>3

\* What a transaction writes that adds a report.
LEMMA WriteOf ==
    ASSUME TransactionInv, [Next]_vars, NEW h \in Handler, Commit(h), reports' # reports
    PROVE  \/ CommitReport(h) \/ CommitFold(h) \/ CommitSetTag(h) \/ CommitDelete(h)
           \/ CommitDeleteBan(h) \/ CommitUndelete(h) \/ CommitUnban(h)
<1>1. ASSUME NEW g \in Handler, Commit(g) PROVE g = h
  BY <1>1 DEF Commit, End, TransactionInv, TypeOK
<1> QED
  BY <1>1, WritesCommit, NextCases
     DEF Arrive, Lock, Refuse, Peek, PeekReached, RollBackUnban, Grow, TagByHashtag, tables,
         vars

\* The second fold of an item for a reason sees the first, and sets the tag.
LEMMA FoldStep ==
    ASSUME TransactionInv, TwoFoldsTag, [Next]_vars
    PROVE  TwoFoldsTag'
<1> SUFFICES ASSUME NEW r \in reports', NEW s \in reports',
                    s.type = "fold", r.user # s.user, FoldsUpTo(s)' = {r, s},
                    tag'[s.item] = NoTag
             PROVE  Untagged(s)'
  BY DEF TwoFoldsTag
<1>1. \A t \in reports : t.item \in Item /\ t.id \in Nat /\ t.id <= lastId
  BY DEF TransactionInv, TypeOK, IdsInv, Report
<1>2. lastId \in Nat
  BY DEF TransactionInv, TypeOK
<1>3. reports \subseteq reports'
  BY ReportStep
<1>4. CASE s \in reports
  <2>1. FoldsUpTo(s)' = FoldsUpTo(s)
    <3>1. CASE reports' = reports
      BY <3>1 DEF FoldsUpTo, ReportsOf
    <3>2. ASSUME NEW c, reports' = reports \cup {c}, c.id = lastId + 1
          PROVE  FoldsUpTo(s)' = FoldsUpTo(s)
      <4>1. ~(c.id <= s.id)
        BY <1>1, <1>2, <1>4, <3>2
      <4> QED
        BY <3>2, <4>1 DEF FoldsUpTo, ReportsOf
    <3> QED
      BY <3>1, <3>2, ReportStep
  <2>2. r \in reports
    BY <2>1 DEF FoldsUpTo, ReportsOf
  <2>3. tag[s.item] # NoTag \/ Untagged(s)
    BY <1>4, <2>1, <2>2 DEF TwoFoldsTag
  <2>4. CASE Untagged(s)
    BY <1>3, <2>4 DEF Untagged
  <2>5. CASE tag[s.item] # NoTag
    <3>1. PICK h \in Handler :
            CommitSetTag(h) /\ req[h].item = s.item /\ req[h].reason = NoTag
      BY <1>1, <1>4, <2>5, TagsKept
    <3>2. /\ Created(h).id = lastId + 1 /\ Created(h).type = "set_tag"
          /\ Created(h).item = s.item /\ Created(h).reason = NoTag
      BY <3>1, CreatedFields DEF CommitSetTag, Commit, TransactionInv
    <3>3. Created(h) \in reports'
      BY <3>1 DEF CommitSetTag, CreateReport
    <3>4. lastId + 1 > s.id
      BY <1>1, <1>2, <1>4
    <3> QED
      BY <3>2, <3>3, <3>4 DEF Untagged
  <2> QED
    BY <2>3, <2>4, <2>5
<1>5. CASE s \notin reports
  <2>1. PICK h \in Handler, c \in Report :
          /\ Commit(h) /\ pc[h] = "write"
          /\ reports' = reports \cup {c} /\ c.id = lastId + 1
          /\ c.item = req[h].item /\ c.type = req[h].type /\ c.reason = req[h].reason
    BY <1>5, ReportStep
  <2>2. s = c /\ r \in reports
    BY <1>5, <2>1
  <2>3. \A t \in reports : t.id <= c.id
    BY <1>1, <1>2, <2>1
  <2>4. SameFolds(req[h]) = FoldsUpTo(s)' \ {c}
    BY <1>5, <2>1, <2>2, <2>3 DEF SameFolds, FoldsUpTo, ReportsOf
  <2>5. SameFolds(req[h]) = {r}
    BY <1>5, <2>2, <2>4
  <2>6. Cardinality(SameFolds(req[h])) + 1 = 2
    <3>1. Cardinality({r}) = 1
      BY FS_Singleton
    <3> QED
      BY <2>5, <3>1
  <2>7. CommitFold(h)
    BY <1>5, <2>1, <2>2, WriteOf
       DEF CommitReport, CommitSetTag, CommitDelete, CommitDeleteBan, CommitUndelete,
           CommitUnban
  <2>8. SetTag(h)
    BY <2>6, <2>7 DEF CommitFold
  <2>9. req[h].reason \in Tags /\ c.item \in Item
    BY <2>1, <2>2, RequestFields DEF TransactionInv, FoldInv
  <2>10. tag'[s.item] # NoTag
    BY <2>1, <2>2, <2>8, <2>9, BoundAssumption DEF SetTag, TransactionInv, TypeOK
  <2> QED
    BY <2>10
<1> QED
  BY <1>4, <1>5

\* The first two users who fold an item for one reason get it tagged, whoever commits
\* first, until an administrator sets the empty tag (routeApiPOST.go:479-494: the count is
\* made under the row lock; 497-498: set_tag takes any reason).
THEOREM FoldsTag == Spec => []TwoFoldsTag
<1>1. Init => TwoFoldsTag
  BY DEF Init, TwoFoldsTag
<1>2. TransactionInv /\ TwoFoldsTag /\ [Next]_vars => TwoFoldsTag'
  BY FoldStep
<1> QED
  BY <1>1, <1>2, TransactionsIsolated, PTL DEF Spec

-----------------------------------------------------------------------------
(* The limit of deletions with a ban.                                      *)

\* The requests of u that have passed Peek and are not counted yet.
Past(u) == {h \in Handler :
    pc[h] = "write" /\ req[h].type = "delete_ban" /\ req[h].user = u}

LimitInv ==
    \A u \in User :
        used[u] + Cardinality(Past(u)) <= BanLimit[u] + Cardinality(Handler) - 1

\* Sets of handlers are finite.
LEMMA PastFinite ==
    /\ \A S \in SUBSET Handler :
        /\ IsFiniteSet(S) /\ Cardinality(S) \in Nat
        /\ Cardinality(S) <= Cardinality(Handler)
    /\ Cardinality(Handler) \in Nat /\ Cardinality(Handler) >= 1
<1>1. Cardinality(Handler) \in Nat /\ Cardinality(Handler) # 0
  BY FiniteAssumption, FS_CardinalityType, FS_EmptySet
<1> QED
  BY <1>1, FiniteAssumption, FS_Subset, FS_CardinalityType

\* A deletion that is counted was past Peek; one that passes Peek found room.
LEMMA LimitStep ==
    ASSUME "limiter" \notin Fails, TransactionInv, LimitInv, [Next]_vars
    PROVE  LimitInv'
<1> SUFFICES ASSUME NEW u \in User
             PROVE  used'[u] + Cardinality(Past(u)') <= BanLimit[u] + Cardinality(Handler) - 1
  BY DEF LimitInv, Past
<1> DEFINE n == Cardinality(Handler)
<1> DEFINE a == Cardinality(Past(u))
<1> DEFINE b == Cardinality(Past(u)')
<1>1. /\ used[u] \in Nat /\ BanLimit[u] \in Nat
      /\ a \in Nat /\ b \in Nat /\ n \in Nat /\ b <= n /\ n >= 1
  BY PastFinite, UserAssumption DEF Past, TransactionInv, TypeOK
<1>2. used[u] + a <= BanLimit[u] + n - 1
  BY DEF LimitInv
<1>3. ASSUME Past(u)' \subseteq Past(u), used'[u] = used[u] PROVE used'[u] + b <= BanLimit[u] + n - 1
  <2>1. b <= a
    BY <1>3, PastFinite, FS_Subset DEF Past
  <2> QED
    BY <1>1, <1>2, <1>3, <2>1
<1>4. ASSUME NEW h \in Handler, Peek(h) PROVE used'[u] + b <= BanLimit[u] + n - 1
  <2>1. used' = used
    BY <1>4 DEF Peek
  <2>2. CASE req[h].user = u
    <3>1. used[u] < BanLimit[u]
      BY <1>4, <2>2 DEF Peek
    <3> QED
      BY <1>1, <2>1, <3>1
  <2>3. CASE req[h].user # u
    <3>1. Past(u)' \subseteq Past(u)
      BY <1>4, <2>3 DEF Peek, Past, TransactionInv, TypeOK
    <3> QED
      BY <1>3, <2>1, <3>1
  <2> QED
    BY <2>2, <2>3
<1>5. ASSUME NEW h \in Handler, Commit(h)
      PROVE  /\ Past(u)' \subseteq Past(u) \ {h}
  BY <1>5 DEF Commit, End, Past, TransactionInv, TypeOK
<1>6. ASSUME NEW h \in Handler, CommitDeleteBan(h)
      PROVE  used'[u] + b <= BanLimit[u] + n - 1
  <2>1. Commit(h) /\ pc[h] = "write" /\ req[h].type = "delete_ban" /\ req[h].user \in User
    BY <1>6, RequestFields DEF CommitDeleteBan, Commit, TransactionInv
  <2>2. CASE req[h].user = u
    <3>1. h \in Past(u)
      BY <2>1, <2>2 DEF Past
    <3>2. Cardinality(Past(u) \ {h}) = a - 1
      BY <3>1, PastFinite, FS_RemoveElement DEF Past
    <3>3. b <= a - 1
      BY <1>5, <2>1, <3>2, PastFinite, FS_Subset DEF Past
    <3>4. used'[u] = used[u] \/ used'[u] = used[u] + 1
      BY <1>1, <1>6, <2>2 DEF CommitDeleteBan, TransactionInv, TypeOK
    <3> QED
      BY <1>1, <1>2, <3>3, <3>4
  <2>3. CASE req[h].user # u
    <3>1. used'[u] = used[u]
      BY <1>6, <2>3 DEF CommitDeleteBan, TransactionInv, TypeOK
    <3> QED
      BY <1>3, <1>5, <2>1, <3>1
  <2> QED
    BY <2>2, <2>3
<1>7. ASSUME ~\E h \in Handler : Peek(h) \/ CommitDeleteBan(h)
      PROVE  Past(u)' \subseteq Past(u) /\ used' = used
  <2>1. used' = used
    BY <1>7, NextCases
       DEF Arrive, Lock, Refuse, PeekReached, CommitReport, CommitFold, CommitSetTag,
           CommitDelete, CommitUndelete, CommitUnban, RollBackUnban, Grow, TagByHashtag, vars
  <2> SUFFICES ASSUME NEW g \in Past(u)' PROVE g \in Past(u)
    BY <2>1
  <2>2. g \in Handler /\ pc'[g] = "write" /\ req'[g] = req[g]
    BY Holders DEF Past
  <2>3. ~(req[g].type = "delete_ban" /\ Lock(g))
    BY <2>2 DEF Lock, TransactionInv, TypeOK
  <2>4. req[g].type = "delete_ban" /\ req[g].user = u
    BY <2>2 DEF Past
  <2>5. pc[g] = pc'[g]
    BY <1>7, <2>2, <2>3, <2>4, Holders
  <2> QED
    BY <2>2, <2>4, <2>5 DEF Past
<1> QED
  BY <1>3, <1>4, <1>6, <1>7

\* Where Redis answers, the limit of deletions with a ban is exceeded by the requests at
\* most that passed Peek before another was counted (routeApiPOST.go:499-511).
THEOREM BansLimited ==
    ASSUME "limiter" \notin Fails
    PROVE  Spec => []LimitBounded
<1>1. Init => LimitInv
  <2> SUFFICES ASSUME Init, NEW u \in User
               PROVE  used[u] + Cardinality(Past(u)) <= BanLimit[u] + Cardinality(Handler) - 1
    BY DEF LimitInv
  <2>1. Past(u) = {}
    BY DEF Init, Past
  <2>2. used[u] \in Nat /\ used[u] <= BanLimit[u] /\ BanLimit[u] \in Nat
    BY TypeInit, UserAssumption DEF Init, TypeOK
  <2> QED
    BY <2>1, <2>2, FS_EmptySet, PastFinite
<1>2. TransactionInv /\ LimitInv /\ [Next]_vars => LimitInv'
  BY LimitStep
<1>3. TransactionInv /\ LimitInv => LimitBounded
  <2> SUFFICES ASSUME TransactionInv, LimitInv, NEW u \in User
               PROVE  used[u] <= BanLimit[u] + Cardinality(Handler) - 1
    BY DEF LimitBounded
  <2>1. /\ used[u] \in Nat /\ BanLimit[u] \in Nat /\ Cardinality(Handler) \in Nat
        /\ Cardinality(Past(u)) \in Nat
    BY PastFinite, UserAssumption DEF Past, TransactionInv, TypeOK
  <2> QED
    BY <2>1 DEF LimitInv
<1> QED
  BY <1>1, <1>2, <1>3, TransactionsIsolated, PTL DEF Spec

-----------------------------------------------------------------------------
(* The log explains what is deleted.                                       *)

\* What a vote has counted is all of the item's own reports, and reports of its comments.
ScoreInv ==
    \A h \in Handler :
        pc[h] = "write" /\ req[h].type = "report" =>
            /\ Cardinality(ReportsOf(req[h].item, "report")) <= score[h]
            /\ score[h] <= Cardinality(Votes(req[h].item))

\* No report of the item commits while a vote has counted and holds the lock.
LEMMA ScoreStep ==
    ASSUME TransactionInv, ScoreInv, [Next]_vars
    PROVE  ScoreInv'
<1> SUFFICES ASSUME NEW g \in Handler, pc'[g] = "write", req'[g].type = "report"
             PROVE  /\ Cardinality(ReportsOf(req[g].item, "report")') <= score'[g]
                    /\ score'[g] <= Cardinality(Votes(req[g].item)')
  BY Holders DEF ScoreInv, ReportsOf, Votes
<1> DEFINE i == req[g].item
<1>1. req'[g] = req[g] /\ i \in Item
  BY Holders, RequestFields DEF TransactionInv
<1>2. TypeOK' /\ RequestsInv' /\ IdsInv'
  BY TransactionStep DEF TransactionInv
<1>3. /\ IsFiniteSet(Votes(i)) /\ Cardinality(Votes(i)) \in Nat
      /\ Cardinality(ReportsOf(i, "report")) \in Nat
      /\ Cardinality(ReportsOf(i, "report")) <= Cardinality(Votes(i))
  <2>1. ReportsOf(i, "report") \subseteq Votes(i)
    BY DEF ReportsOf, Votes
  <2> QED
    BY <1>1, <2>1, Counted, FS_Subset, FS_CardinalityType DEF TransactionInv
<1>4. CASE Lock(g) /\ UNCHANGED <<items, tables>>
  <2>1. score'[g] = Cardinality(Votes(i))
    BY <1>1, <1>4 DEF Lock, Snapshot, TransactionInv, TypeOK
  <2>2. Votes(i)' = Votes(i) /\ ReportsOf(i, "report")' = ReportsOf(i, "report")
    BY <1>1, <1>4 DEF Votes, ReportsOf, tables
  <2> QED
    BY <1>3, <2>1, <2>2
<1>5. CASE Peek(g)
  BY <1>1, <1>5 DEF Peek, TransactionInv, RequestsInv
<1>6. CASE /\ pc[g] = "write" /\ score'[g] = score[g]
           /\ \A h \in Handler : Commit(h) => req[h].item # i
  <2>1. ReportsOf(i, "report")' = ReportsOf(i, "report")
    <3>1. CASE reports' = reports
      BY <1>1, <3>1 DEF ReportsOf
    <3>2. ASSUME NEW h \in Handler, NEW c \in Report, Commit(h),
                 reports' = reports \cup {c}, c.item = req[h].item
          PROVE  ReportsOf(i, "report")' = ReportsOf(i, "report")
      <4>1. c.item # i
        BY <1>6, <3>2
      <4> QED
        BY <1>1, <3>2, <4>1 DEF ReportsOf
    <3> QED
      BY <3>1, <3>2, ReportStep
  <2>2. Votes(i) \subseteq Votes(i)' /\ IsFiniteSet(Votes(i)')
    <3>1. reports \subseteq reports'
      BY ReportStep
    <3>2. Votes(i) \subseteq Votes(i)' /\ Votes(i)' \subseteq reports'
      BY <1>1, <3>1 DEF Votes
    <3> QED
      BY <1>2, <3>2, FS_Subset DEF RequestsInv
  <2>3. /\ Cardinality(Votes(i)) <= Cardinality(Votes(i)')
        /\ Cardinality(Votes(i)') \in Nat
    BY <2>2, FS_Subset, FS_CardinalityType
  <2>4. /\ Cardinality(ReportsOf(i, "report")) <= score[g]
        /\ score[g] <= Cardinality(Votes(i)) /\ score[g] \in Nat
    BY <1>1, <1>6 DEF ScoreInv, TransactionInv, TypeOK
  <2> QED
    BY <1>1, <1>3, <1>6, <2>1, <2>3, <2>4
<1> QED
  BY <1>4, <1>5, <1>6, Holders

\* A new report changes nothing of what the earlier ones say, but that they are followed.
LEMMA Earlier ==
    ASSUME TransactionInv, NEW c \in Report,
           reports' = reports \cup {c}, c.id = lastId + 1
    PROVE  /\ \A r \in reports :
                /\ Deletes(r)' <=> Deletes(r)
                /\ MayDelete(r)' <=> MayDelete(r)
                /\ \A T : Followed(r, T)' <=> Followed(r, T) \/ (c.item = r.item /\ c.type \in T)
           /\ \A T : ~Followed(c, T)'
           /\ c \notin reports
<1>1. lastId \in Nat /\ \A r \in reports : r.id \in Nat /\ r.id <= lastId
  BY DEF TransactionInv, TypeOK, IdsInv, Report
<1>2. \A r \in reports : ~(c.id <= r.id) /\ c.id > r.id
  BY <1>1
<1>3. c \notin reports
  BY <1>1
<1>4. ASSUME NEW r \in reports
      PROVE  /\ Own(r)' = Own(r)
             /\ {s \in Votes(r.item) : s.id <= r.id}' = {s \in Votes(r.item) : s.id <= r.id}
  BY <1>2 DEF Own, ReportsOf, Votes
<1>5. ASSUME NEW r \in reports, NEW T
      PROVE  Followed(r, T)' <=> Followed(r, T) \/ (c.item = r.item /\ c.type \in T)
  BY <1>2 DEF Followed
<1>6. ASSUME NEW T PROVE ~Followed(c, T)'
  BY <1>1 DEF Followed
<1>7. ASSUME NEW r \in reports
      PROVE  (Deletes(r)' <=> Deletes(r)) /\ (MayDelete(r)' <=> MayDelete(r))
  <2>1. Deletes(r)' <=> Deletes(r)
    BY <1>4 DEF Deletes
  <2> QED
    BY <1>4, <2>1 DEF MayDelete
<1> QED
  BY <1>3, <1>5, <1>6, <1>7

\* What a vote decides: the report completes the threshold if the item's own reports do,
\* and only if those and the comments' do.
LEMMA VoteDecides ==
    ASSUME TransactionInv, ScoreInv, NEW h \in Handler, NEW c \in Report,
           pc[h] = "write", req[h].type = "report",
           reports' = reports \cup {c}, c.id = lastId + 1,
           c.item = req[h].item, c.type = req[h].type
    PROVE  /\ Deletes(c)' => score[h] + 1 >= Threshold
           /\ score[h] + 1 >= Threshold => MayDelete(c)'
<1> DEFINE i == req[h].item
<1>1. i \in Item /\ score[h] \in Nat /\ Threshold \in Nat
  BY RequestFields, BoundAssumption DEF TransactionInv, TypeOK
<1>2. lastId \in Nat /\ \A r \in reports : r.id \in Nat /\ r.id <= lastId
  BY DEF TransactionInv, TypeOK, IdsInv, Report
<1>3. c \notin reports
  BY <1>2
<1>4. \A r \in reports' : r.id <= c.id
  BY <1>2
<1>5. /\ IsFiniteSet(Votes(i)) /\ Cardinality(Votes(i)) \in Nat
      /\ IsFiniteSet(ReportsOf(i, "report")) /\ Cardinality(ReportsOf(i, "report")) \in Nat
  <2>1. ReportsOf(i, "report") \subseteq reports
    BY DEF ReportsOf
  <2> QED
    BY <1>1, <2>1, Counted, FS_Subset, FS_CardinalityType DEF TransactionInv, RequestsInv
<1>6. Own(c)' = ReportsOf(i, "report") \cup {c}
  BY <1>4 DEF Own, ReportsOf
<1>7. {s \in Votes(c.item) : s.id <= c.id}' = Votes(i) \cup {c}
  BY <1>4 DEF Votes
<1>8. Cardinality(Own(c)') = Cardinality(ReportsOf(i, "report")) + 1
  BY <1>3, <1>5, <1>6, FS_AddElement DEF ReportsOf
<1>9. Cardinality({s \in Votes(c.item) : s.id <= c.id}') = Cardinality(Votes(i)) + 1
  BY <1>3, <1>5, <1>7, FS_AddElement DEF Votes
<1>10. /\ Cardinality(ReportsOf(i, "report")) <= score[h]
       /\ score[h] <= Cardinality(Votes(i))
  BY DEF ScoreInv
<1>11. Deletes(c)' => score[h] + 1 >= Threshold
  <2>1. Deletes(c)' <=> Cardinality(Own(c)') >= Threshold
    BY DEF Deletes
  <2> QED
    BY <1>1, <1>5, <1>8, <1>10, <2>1
<1>12. score[h] + 1 >= Threshold => MayDelete(c)'
  <2>1. Cardinality({s \in Votes(c.item) : s.id <= c.id}') >= Threshold => MayDelete(c)'
    BY DEF MayDelete
  <2> QED
    BY <1>1, <1>5, <1>9, <1>10, <2>1
<1> QED
  BY <1>11, <1>12

\* A step that adds no report writes nothing.
LEMMA Quiet ==
    ASSUME TransactionInv, [Next]_vars, reports' = reports
    PROVE  deleted' = deleted /\ replyNum' = replyNum /\ bans' = bans
<1>1. ASSUME NEW h \in Handler, Commit(h), CreateReport(h) PROVE FALSE
  <2>1. Created(h) \in reports /\ Created(h).id = lastId + 1
    BY <1>1, CreatedFields DEF CreateReport, Commit, TransactionInv
  <2> QED
    BY <2>1 DEF TransactionInv, TypeOK, IdsInv, Report
<1> QED
  BY <1>1, NextCases
     DEF Arrive, Lock, Refuse, Peek, PeekReached, CommitReport, CommitFold, CommitSetTag,
         CommitDelete, CommitDeleteBan, CommitUndelete, CommitUnban, RollBackUnban, Grow,
         TagByHashtag, items, tables, vars

\* What becomes of the item a transaction judges.
LEMMA DeletedByType ==
    ASSUME TransactionInv, [Next]_vars, NEW h \in Handler, Commit(h), reports' # reports
    PROVE  /\ req[h].type \in {"delete", "delete_ban"} => deleted' = deleted \cup {req[h].item}
           /\ req[h].type = "report" =>
                deleted' = IF score[h] + 1 >= Threshold
                           THEN deleted \cup {req[h].item} ELSE deleted
           /\ req[h].type = "undelete_unban" => deleted' = deleted \ {req[h].item}
           /\ req[h].type \in {"fold", "set_tag", "unban"} => deleted' = deleted
           /\ req[h].type \in AllTypes
<1>1. req[h].type \in AllTypes
  BY RequestFields DEF Commit, TransactionInv
<1>2. CASE CommitReport(h)
  BY <1>1, <1>2 DEF CommitReport, DeleteAndBan, Delete
<1>3. CASE CommitFold(h) \/ CommitSetTag(h) \/ CommitUnban(h)
  BY <1>1, <1>3 DEF CommitFold, CommitSetTag, CommitUnban, items
<1>4. CASE CommitDelete(h) \/ CommitDeleteBan(h)
  BY <1>1, <1>4 DEF CommitDelete, CommitDeleteBan, DeleteAndBan, Delete
<1>5. CASE CommitUndelete(h)
  BY <1>1, <1>5 DEF CommitUndelete
<1> QED
  BY <1>2, <1>3, <1>4, <1>5, WriteOf

\* Every commit adds the report that explains what it does.
LEMMA LogExplainsStep ==
    ASSUME TransactionInv, ScoreInv, LogExplainsState, [Next]_vars
    PROVE  LogExplainsState'
<1> DEFINE Lifts == {"undelete_unban"}
<1> DEFINE Standing(r, i) == r.item = i /\ ~Followed(r, Lifts)
<1>1. \A i \in Item :
        /\ \A r \in reports : Standing(r, i) /\ Deletes(r) => i \in deleted
        /\ i \in deleted => \E r \in reports : Standing(r, i) /\ MayDelete(r)
  BY DEF LogExplainsState
<1>2. SUFFICES ASSUME NEW i \in Item
               PROVE  /\ \A r \in reports' :
                            r.item = i /\ ~Followed(r, Lifts)' /\ Deletes(r)' => i \in deleted'
                      /\ i \in deleted' => \E r \in reports' :
                            r.item = i /\ ~Followed(r, Lifts)' /\ MayDelete(r)'
  BY DEF LogExplainsState
<1>3. CASE reports' = reports
  <2>1. deleted' = deleted
    BY <1>3, Quiet
  <2>2. ASSUME NEW r \in reports
        PROVE  /\ Deletes(r)' <=> Deletes(r)
               /\ MayDelete(r)' <=> MayDelete(r)
               /\ Followed(r, Lifts)' <=> Followed(r, Lifts)
    BY <1>3 DEF Deletes, MayDelete, Followed, Own, ReportsOf, Votes
  <2> QED
    BY <1>1, <1>3, <2>1, <2>2
<1>4. ASSUME NEW h \in Handler, NEW c \in Report, Commit(h), pc[h] = "write",
             reports' = reports \cup {c}, c.id = lastId + 1,
             c.user = req[h].user, c.item = req[h].item,
             c.type = req[h].type, c.reason = req[h].reason
      PROVE  /\ \A r \in reports' :
                    r.item = i /\ ~Followed(r, Lifts)' /\ Deletes(r)' => i \in deleted'
             /\ i \in deleted' => \E r \in reports' :
                    r.item = i /\ ~Followed(r, Lifts)' /\ MayDelete(r)'
  <2>1. /\ \A r \in reports :
             /\ Deletes(r)' <=> Deletes(r)
             /\ MayDelete(r)' <=> MayDelete(r)
             /\ Followed(r, Lifts)' <=> Followed(r, Lifts) \/ (c.item = r.item /\ c.type \in Lifts)
        /\ ~Followed(c, Lifts)'
        /\ c \notin reports
    BY <1>4, Earlier
  <2>2. reports' # reports
    BY <1>4, <2>1
  <2>3. /\ c.type \in {"delete", "delete_ban"} => deleted' = deleted \cup {c.item}
        /\ c.type = "report" =>
             deleted' = IF score[h] + 1 >= Threshold THEN deleted \cup {c.item} ELSE deleted
        /\ c.type = "undelete_unban" => deleted' = deleted \ {c.item}
        /\ c.type \in {"fold", "set_tag", "unban"} => deleted' = deleted
        /\ c.type \in AllTypes
    BY <1>4, <2>2, DeletedByType
  <2>4. c.type \notin {"report", "delete", "delete_ban"} => ~Deletes(c)'
    BY DEF Deletes
  <2>5. c.type \in {"delete", "delete_ban"} => MayDelete(c)'
    BY DEF MayDelete, Deletes
  <2>6. c.type = "report" => /\ Deletes(c)' => score[h] + 1 >= Threshold
                             /\ score[h] + 1 >= Threshold => MayDelete(c)'
    BY <1>4, VoteDecides
  <2>7. CASE c.item # i
    <3>1. i \in deleted' <=> i \in deleted
      BY <2>3, <2>7 DEF AllTypes
    <3> QED
      BY <1>1, <1>4, <2>1, <2>7, <3>1
  <2>8. CASE c.item = i /\ c.type = "undelete_unban"
    BY <1>4, <2>1, <2>3, <2>4, <2>8
  <2>9. CASE c.item = i /\ c.type \in {"fold", "set_tag", "unban"}
    BY <1>1, <1>4, <2>1, <2>3, <2>4, <2>9
  <2>10. CASE c.item = i /\ c.type \in {"delete", "delete_ban"}
    BY <1>4, <2>1, <2>3, <2>5, <2>10
  <2>11. CASE c.item = i /\ c.type = "report"
    <3>1. CASE score[h] + 1 >= Threshold
      BY <1>4, <2>1, <2>3, <2>6, <2>11, <3>1
    <3>2. CASE ~(score[h] + 1 >= Threshold)
      <4>1. deleted' = deleted /\ ~Deletes(c)'
        BY <2>3, <2>6, <2>11, <3>2
      <4> QED
        BY <1>1, <1>4, <2>1, <2>11, <4>1
    <3> QED
      BY <3>1, <3>2
  <2> QED
    BY <2>3, <2>7, <2>8, <2>9, <2>10, <2>11 DEF AllTypes
<1> QED
  BY <1>3, <1>4, ReportStep

\* The reports table explains the state of every item: enough reports or a deleter delete
\* it whatever runs beside them, nothing else does, and it stays so until it is restored
\* (routeApiPOST.go:352-550, sql.go:255-320).
THEOREM LogExplains == Spec => []LogExplainsState
<1>1. Init => ScoreInv /\ LogExplainsState
  BY DEF Init, ScoreInv, LogExplainsState
<1>2. /\ TransactionInv /\ ScoreInv /\ LogExplainsState /\ [Next]_vars
      => ScoreInv' /\ LogExplainsState'
  BY ScoreStep, LogExplainsStep
<1> QED
  BY <1>1, <1>2, TransactionsIsolated, PTL DEF Spec

-----------------------------------------------------------------------------
(* What the deletions leave behind.                                        *)

\* What the code does not enforce and the two theorems below need (README, section 4):
\* who can see deleted items does not report them.
NoLateReports == \A u \in User : CanViewDeleted(u) => "report" \notin Asks[u]

\* What a transaction found of its item is so when it commits.
AdmittedInv ==
    \A h \in Handler :
        pc[h] \in {"peek", "write"} =>
            /\ req[h].type \in {"report", "delete", "delete_ban"} => Live(req[h].item)
            /\ req[h].type = "undelete_unban" => ~Live(req[h].item)

\* Only the transaction of an item deletes or restores it.
LEMMA DeletedOnlyOwn ==
    ASSUME TransactionInv, [Next]_vars, NEW i \in Item,
           \A h \in Handler : Commit(h) => req[h].item # i
    PROVE  i \in deleted' <=> i \in deleted
<1>1. CASE reports' = reports
  BY <1>1, Quiet
<1>2. ASSUME NEW h \in Handler, Commit(h), reports' # reports
      PROVE  i \in deleted' <=> i \in deleted
  <2>1. req[h].item # i
    BY <1>2
  <2> QED
    BY <1>2, <2>1, DeletedByType DEF AllTypes
<1> QED
  BY <1>1, <1>2, ReportStep

\* An item is deleted and restored only by the transaction that holds its lock.
LEMMA AdmittedStep ==
    ASSUME NoLateReports, TransactionInv, AdmittedInv, [Next]_vars
    PROVE  AdmittedInv'
<1> SUFFICES ASSUME NEW g \in Handler, pc'[g] \in {"peek", "write"}
             PROVE  /\ req[g].type \in {"report", "delete", "delete_ban"} =>
                            req[g].item \notin deleted'
                    /\ req[g].type = "undelete_unban" => req[g].item \in deleted'
  BY Holders DEF AdmittedInv, Live
<1>1. /\ req[g].item \in Item /\ req[g].user \in User
      /\ req[g].type \in Asks[req[g].user]
  BY Holders, RequestFields DEF TransactionInv, RequestsInv
<1>2. CASE Lock(g) /\ UNCHANGED <<items, tables>>
  <2>1. Admitted(req[g]) /\ deleted' = deleted
    BY <1>2 DEF Lock, items
  <2> QED
    BY <1>1, <2>1 DEF Admitted, Permissions, Live, NoLateReports
<1>3. CASE pc[g] \in {"peek", "write"} /\ (req[g].item \in deleted' <=> req[g].item \in deleted)
  BY <1>3 DEF AdmittedInv, Live
<1>4. CASE Peek(g) /\ UNCHANGED <<items, tables>>
  BY <1>3, <1>4 DEF Peek, items
<1>5. CASE pc[g] = pc'[g] /\ \A h \in Handler : Commit(h) => req[h].item # req[g].item
  BY <1>1, <1>3, <1>5, DeletedOnlyOwn
<1> QED
  BY <1>2, <1>4, <1>5, Holders

\* What becomes of the counters of comments.
LEMMA ReplyNumByType ==
    ASSUME TransactionInv, [Next]_vars, NEW h \in Handler, Commit(h), reports' # reports,
           NEW p \in Item, ~IsComment(p)
    PROVE  LET i == req[h].item IN
           /\ i \notin Comments(p) => replyNum'[p] = replyNum[p]
           /\ i \in Comments(p) =>
                /\ \/ req[h].type \in {"delete", "delete_ban"}
                   \/ req[h].type = "report" /\ score[h] + 1 >= Threshold
                   => replyNum'[p] = replyNum[p] - 1
                /\ req[h].type = "undelete_unban" =>
                     \/ replyNum'[p] = replyNum[p] + 1
                     \/ replyNum'[p] = replyNum[p] /\ "cache" \in Fails
                /\ \/ req[h].type \in {"fold", "set_tag", "unban"}
                   \/ req[h].type = "report" /\ ~(score[h] + 1 >= Threshold)
                   => replyNum'[p] = replyNum[p]
<1> DEFINE i == req[h].item
<1>1. i \in Item /\ Parent[i] \in Item
  BY RequestFields DEF Commit, TransactionInv
<1>2. replyNum \in [Item -> Int]
  BY DEF TransactionInv, TypeOK
<1>3. i \in Comments(p) <=> IsComment(i) /\ Parent[i] = p
  BY <1>1 DEF Comments
<1>4. CASE CommitFold(h) \/ CommitSetTag(h) \/ CommitUnban(h)
  BY <1>4 DEF CommitFold, CommitSetTag, CommitUnban, items
<1>5. ASSUME Delete(i)
      PROVE  /\ i \notin Comments(p) => replyNum'[p] = replyNum[p]
             /\ i \in Comments(p) => replyNum'[p] = replyNum[p] - 1
  BY <1>1, <1>2, <1>3, <1>5 DEF Delete
<1>6. CASE CommitReport(h)
  BY <1>5, <1>6 DEF CommitReport, DeleteAndBan
<1>7. CASE CommitDelete(h) \/ CommitDeleteBan(h)
  BY <1>5, <1>7 DEF CommitDelete, CommitDeleteBan, DeleteAndBan
<1>8. CASE CommitUndelete(h)
  <2>1. PICK ok \in CacheCall(i) :
          replyNum' = [replyNum EXCEPT ![Parent[i]] = IF IsComment(i) /\ ok THEN @ + 1 ELSE @]
    BY <1>8 DEF CommitUndelete
  <2>2. req[h].type = "undelete_unban" /\ (ok \/ "cache" \in Fails)
    BY <1>8, <2>1 DEF CommitUndelete, CacheCall
  <2> QED
    BY <1>1, <1>2, <1>3, <2>1, <2>2
<1> QED
  BY <1>4, <1>6, <1>7, <1>8, WriteOf

\* The restorations whose cache call may have failed.
Restored(p) == {r \in reports :
    r.type = "undelete_unban" /\ r.item \in Comments(p) /\ "cache" \in Fails}

\* A deletion finds the comment there, a restoration finds it deleted: reply_num counts
\* both once.
LEMMA ReplyNumStep ==
    ASSUME TransactionInv, AdmittedInv, ReplyNumMatches, [Next]_vars
    PROVE  ReplyNumMatches'
<1> SUFFICES ASSUME NEW p \in Item, ~IsComment(p)
             PROVE  /\ Cardinality(Comments(p) \ deleted') - replyNum'[p] >= 0
                    /\ Cardinality(Comments(p) \ deleted') - replyNum'[p]
                         <= Cardinality(Restored(p)')
  BY DEF ReplyNumMatches, Restored
<1> DEFINE live == Comments(p) \ deleted
<1> DEFINE n == Cardinality(live)
<1> DEFINE k == Cardinality(Restored(p))
<1>1. replyNum[p] \in Int /\ replyNum'[p] \in Int
  BY TypeStep DEF TransactionInv, TypeOK
<1>2. \A S \in SUBSET Comments(p) : IsFiniteSet(S) /\ Cardinality(S) \in Nat
  BY FiniteAssumption, FS_Subset, FS_CardinalityType DEF Comments
<1>3. n \in Nat /\ IsFiniteSet(live)
  BY <1>2
<1>4. IsFiniteSet(Restored(p)) /\ k \in Nat
  BY FS_Subset, FS_CardinalityType DEF Restored, TransactionInv, RequestsInv
<1>5. n - replyNum[p] >= 0 /\ n - replyNum[p] <= k
  BY DEF ReplyNumMatches, Restored
<1>6. IsFiniteSet(Restored(p)') /\ Cardinality(Restored(p)') \in Nat
  <2>1. IsFiniteSet(reports')
    BY TypeStep DEF TransactionInv, RequestsInv
  <2> QED
    BY <2>1, FS_Subset, FS_CardinalityType DEF Restored
<1>7. Restored(p) \subseteq Restored(p)'
  BY ReportStep DEF Restored
<1>8. k <= Cardinality(Restored(p)')
  BY <1>6, <1>7, FS_Subset
<1>9. CASE reports' = reports
  BY <1>5, <1>9, Quiet DEF Restored
<1>10. ASSUME NEW h \in Handler, NEW c \in Report, Commit(h), pc[h] = "write",
              reports' = reports \cup {c}, c.id = lastId + 1,
              c.item = req[h].item, c.type = req[h].type
       PROVE  /\ Cardinality(Comments(p) \ deleted') - replyNum'[p] >= 0
              /\ Cardinality(Comments(p) \ deleted') - replyNum'[p] <= Cardinality(Restored(p)')
  <2> DEFINE i == req[h].item
  <2> DEFINE m == Cardinality(Comments(p) \ deleted')
  <2>1. c \notin reports /\ reports' # reports
    BY <1>10, Earlier
  <2>2. /\ req[h].type \in {"delete", "delete_ban"} => deleted' = deleted \cup {i}
        /\ req[h].type = "report" =>
             deleted' = IF score[h] + 1 >= Threshold THEN deleted \cup {i} ELSE deleted
        /\ req[h].type = "undelete_unban" => deleted' = deleted \ {i}
        /\ req[h].type \in {"fold", "set_tag", "unban"} => deleted' = deleted
        /\ req[h].type \in AllTypes
    BY <1>10, <2>1, DeletedByType
  <2>3. CASE i \notin Comments(p)
    <3>1. Comments(p) \ deleted' = live
      BY <2>2, <2>3 DEF AllTypes
    <3>2. replyNum'[p] = replyNum[p]
      BY <1>10, <2>1, <2>3, ReplyNumByType
    <3>3. m = n
      BY <3>1
    <3> QED
      BY <1>1, <1>3, <1>4, <1>5, <1>6, <1>8, <3>2, <3>3
  <2>4. CASE /\ i \in Comments(p)
             /\ \/ req[h].type \in {"fold", "set_tag", "unban"}
                \/ req[h].type = "report" /\ ~(score[h] + 1 >= Threshold)
    <3>1. deleted' = deleted
      BY <2>2, <2>4
    <3>2. replyNum'[p] = replyNum[p]
      BY <1>10, <2>1, <2>4, ReplyNumByType
    <3>3. m = n
      BY <3>1
    <3> QED
      BY <1>1, <1>3, <1>4, <1>5, <1>6, <1>8, <3>2, <3>3
  <2>5. CASE /\ i \in Comments(p)
             /\ \/ req[h].type \in {"delete", "delete_ban"}
                \/ req[h].type = "report" /\ score[h] + 1 >= Threshold
    <3>1. i \in live
      BY <1>10, <2>5 DEF AdmittedInv, Live
    <3>2. Comments(p) \ deleted' = live \ {i}
      BY <2>2, <2>5
    <3>3. m = n - 1
      <4> HIDE DEF live
      <4>1. Cardinality(live \ {i}) = Cardinality(live) - 1
        BY <1>3, <3>1, FS_RemoveElement
      <4> QED
        BY <3>2, <4>1
    <3>4. replyNum'[p] = replyNum[p] - 1
      BY <1>10, <2>1, <2>5, ReplyNumByType
    <3> QED
      BY <1>1, <1>3, <1>4, <1>5, <1>6, <1>8, <3>3, <3>4
  <2>6. CASE i \in Comments(p) /\ req[h].type = "undelete_unban"
    <3>1. i \in deleted
      BY <1>10, <2>6 DEF AdmittedInv, Live
    <3>2. Comments(p) \ deleted' = live \cup {i}
      BY <2>2, <2>6
    <3>3. m = n + 1
      BY <1>3, <3>1, <3>2, FS_AddElement
    <3>4. CASE replyNum'[p] = replyNum[p] + 1
      BY <1>1, <1>3, <1>4, <1>5, <1>6, <1>8, <3>3, <3>4
    <3>5. CASE replyNum'[p] = replyNum[p] /\ "cache" \in Fails
      <4>1. Restored(p)' = Restored(p) \cup {c} /\ c \notin Restored(p)
        BY <1>10, <2>1, <2>6, <3>5 DEF Restored
      <4>2. Cardinality(Restored(p)') = k + 1
        BY <1>4, <4>1, FS_AddElement
      <4> QED
        BY <1>1, <1>3, <1>4, <1>5, <3>3, <3>5, <4>2
    <3> QED
      BY <1>10, <2>1, <2>6, <3>4, <3>5, ReplyNumByType
  <2> QED
    BY <2>2, <2>3, <2>4, <2>5, <2>6 DEF AllTypes
<1> QED
  BY <1>9, <1>10, ReportStep

\* Where nobody reports deleted items, what a transaction found of its item stays so.
LEMMA AdmittedCorrect ==
    ASSUME NoLateReports
    PROVE  Spec => []AdmittedInv
<1>1. Init => AdmittedInv
  BY DEF Init, AdmittedInv
<1>2. TransactionInv /\ AdmittedInv /\ [Next]_vars => AdmittedInv'
  BY AdmittedStep
<1> QED
  BY <1>1, <1>2, TransactionsIsolated, PTL DEF Spec

\* reply_num is the number of the post's comments that are not deleted, but for the
\* restorations whose cache call failed (sql.go:255-272, routeApiPOST.go:512-524), as
\* long as no deleted comment is reported.
THEOREM RepliesCounted ==
    ASSUME NoLateReports
    PROVE  Spec => []ReplyNumMatches
<1>1. Init => ReplyNumMatches
  <2> SUFFICES ASSUME Init, NEW p \in Item
               PROVE  /\ Cardinality(Comments(p) \ deleted) - replyNum[p] >= 0
                      /\ Cardinality(Comments(p) \ deleted) - replyNum[p]
                           <= Cardinality(Restored(p))
    BY DEF ReplyNumMatches, Restored
  <2>1. Comments(p) \ deleted = Comments(p) /\ Restored(p) = {}
    BY DEF Init, Restored
  <2>2. replyNum[p] = Cardinality(Comments(p)) /\ Cardinality(Comments(p)) \in Nat
    BY TypeInit, Counted DEF Init
  <2> QED
    BY <2>1, <2>2, FS_EmptySet
<1>2. /\ TransactionInv /\ AdmittedInv /\ ReplyNumMatches /\ [Next]_vars
      => ReplyNumMatches'
  BY ReplyNumStep
<1> QED
  BY <1>1, <1>2, TransactionsIsolated, AdmittedCorrect, PTL DEF Spec

-----------------------------------------------------------------------------
(* The bans.                                                               *)

\* Every ban is for a report, an item has one at most, and none while it is not deleted.
BanInv ==
    /\ \A b \in bans : \E r \in reports :
        r.id = b.report /\ r.type \in {"report", "delete_ban"}
    /\ \A i \in Item : i \notin deleted => BansFor(i) = {}
    /\ \A i \in Item : \A b, c \in BansFor(i) : b = c

\* So UnbanByReport takes every ban of the item.
LEMMA UnbanTakesAll ==
    ASSUME TransactionInv, BanInv, NEW i \in Item, Unban(i)
    PROVE  bans' = bans \ BansFor(i)
<1>1. CASE BansFor(i) = {}
  BY <1>1 DEF Unban
<1>2. CASE BansFor(i) # {}
  <2>1. PICK b \in bans : BansFor(i) = {b}
    <3>1. PICK b \in BansFor(i) : TRUE
      BY <1>2
    <3>2. BansFor(i) = {b}
      BY <3>1 DEF BanInv
    <3> QED
      BY <3>2 DEF BansFor
  <2>2. b.report \in Nat
    BY DEF TransactionInv, TypeOK, Ban
  <2>3. First({b}) = b
    <3>1. \E x \in {b} : \A y \in {b} : x.report <= y.report
      BY <2>2
    <3> QED
      BY <3>1 DEF First
  <2> QED
    BY <1>2, <2>1, <2>3 DEF Unban
<1> QED
  BY <1>1, <1>2

\* What becomes of the bans.
LEMMA BansByType ==
    ASSUME TransactionInv, BanInv, [Next]_vars,
           NEW h \in Handler, Commit(h), reports' # reports
    PROVE  LET i == req[h].item
               bans_author == \/ req[h].type = "delete_ban"
                              \/ req[h].type = "report" /\ score[h] + 1 >= Threshold IN
           /\ req[h].type \in {"undelete_unban", "unban"} => bans' = bans \ BansFor(i)
           /\ bans_author =>
                \/ \E b \in Ban : b.report = lastId + 1 /\ bans' = bans \cup {b}
                \/ bans' = bans /\ IsComment(i) /\ "cache" \in Fails
           /\ req[h].type \notin {"undelete_unban", "unban"} /\ ~bans_author => bans' = bans
<1> DEFINE i == req[h].item
<1>1. i \in Item
  BY RequestFields DEF Commit, TransactionInv
<1>2. CASE CommitUndelete(h) \/ CommitUnban(h)
  <2>1. Unban(i) /\ req[h].type \in {"undelete_unban", "unban"}
    BY <1>2 DEF CommitUndelete, CommitUnban
  <2> QED
    BY <1>1, <2>1, UnbanTakesAll
<1>3. CASE CommitFold(h) \/ CommitSetTag(h) \/ CommitDelete(h)
  BY <1>3 DEF CommitFold, CommitSetTag, CommitDelete
<1>4. ASSUME NEW ok \in CacheCall(i), DeleteAndBan(h, ok)
      PROVE  \/ \E b \in Ban : b.report = lastId + 1 /\ bans' = bans \cup {b}
             \/ bans' = bans /\ IsComment(i) /\ "cache" \in Fails
  <2> DEFINE b == [report |-> lastId + 1, user |-> Author[i], days |-> seen[h] + 1]
  <2>1. b \in Ban /\ b.report = lastId + 1
    BY RequestFields DEF Ban, Commit, TransactionInv, TypeOK
  <2>2. ok \in BOOLEAN /\ (ok = FALSE => IsComment(i) /\ "cache" \in Fails)
    BY DEF CacheCall
  <2>3. CASE ok = TRUE
    <3>1. bans' = bans \cup {b}
      BY <1>4, <2>3 DEF DeleteAndBan
    <3> QED
      BY <2>1, <3>1
  <2>4. CASE ok = FALSE
    BY <1>4, <2>2, <2>4 DEF DeleteAndBan
  <2> QED
    BY <2>2, <2>3, <2>4
<1>5. CASE CommitReport(h)
  BY <1>4, <1>5 DEF CommitReport
<1>6. CASE CommitDeleteBan(h)
  BY <1>4, <1>6 DEF CommitDeleteBan
<1> QED
  BY <1>2, <1>3, <1>5, <1>6, WriteOf

\* The bans for an item, when a report was added.
LEMMA BansForStep ==
    ASSUME TransactionInv, BanInv, NEW c \in Report,
           reports' = reports \cup {c}, c.id = lastId + 1
    PROVE  /\ \A b \in bans : b.report # c.id
           /\ \A i \in Item : \A b \in bans :
                b \in bans' => (b \in BansFor(i)' <=> b \in BansFor(i))
           /\ \A i \in Item : BansFor(i)' \subseteq bans'
<1>1. \A b \in bans : b.report # c.id
  <2>1. \A r \in reports : r.id # c.id
    BY DEF TransactionInv, TypeOK, IdsInv, Report
  <2> QED
    BY <2>1 DEF BanInv
<1> QED
  BY <1>1 DEF BansFor

\* A ban comes with a deletion of an item that had none, and goes with its restoration.
LEMMA BanStep ==
    ASSUME TransactionInv, ScoreInv, AdmittedInv, BanInv, BansMatchLog, [Next]_vars
    PROVE  BanInv' /\ BansMatchLog'
<1> DEFINE Lifts == {"undelete_unban", "unban"}
<1>1. CASE reports' = reports
  <2>1. deleted' = deleted /\ bans' = bans
    BY <1>1, Quiet
  <2>2. BanInv'
    BY <1>1, <2>1 DEF BanInv, BansFor
  <2>3. BansMatchLog'
    BY <1>1, <2>1 DEF BansMatchLog, Followed, Deletes, Own, ReportsOf
  <2> QED
    BY <2>2, <2>3
<1>2. ASSUME NEW h \in Handler, NEW c \in Report, Commit(h), pc[h] = "write",
             reports' = reports \cup {c}, c.id = lastId + 1,
             c.item = req[h].item, c.type = req[h].type
      PROVE  BanInv' /\ BansMatchLog'
  <2> DEFINE i == c.item
  <2>1. /\ \A r \in reports :
             /\ Deletes(r)' <=> Deletes(r)
             /\ Followed(r, Lifts)' <=> Followed(r, Lifts) \/ (c.item = r.item /\ c.type \in Lifts)
        /\ ~Followed(c, Lifts)'
        /\ c \notin reports
    BY <1>2, Earlier
  <2>2. reports' # reports /\ i \in Item /\ req[h].item = i
    BY <1>2, <2>1, RequestFields DEF TransactionInv
  <2>3. /\ c.type \in {"delete", "delete_ban"} => deleted' = deleted \cup {i}
        /\ c.type = "report" =>
             deleted' = IF score[h] + 1 >= Threshold THEN deleted \cup {i} ELSE deleted
        /\ c.type = "undelete_unban" => deleted' = deleted \ {i}
        /\ c.type \in {"fold", "set_tag", "unban"} => deleted' = deleted
        /\ c.type \in AllTypes
    BY <1>2, <2>2, DeletedByType
  <2>4. /\ \A b \in bans : b.report # c.id
        /\ \A k \in Item : \A b \in bans :
             b \in bans' => (b \in BansFor(k)' <=> b \in BansFor(k))
        /\ \A k \in Item : BansFor(k)' \subseteq bans'
    BY <1>2, BansForStep
  <2>5. \A b \in bans : \E r \in reports :
          r.id = b.report /\ r.type \in {"report", "delete_ban"}
    BY DEF BanInv
  <2>6. \A r, s \in reports : r.id = s.id => r = s
    BY DEF TransactionInv, IdsInv
  <2>7. \A b \in bans, r \in reports : b.report = r.id /\ r.item = i => b \in BansFor(i)
    BY <2>5, <2>6 DEF BansFor
  <2>8. ASSUME c.type \in Lifts PROVE BanInv' /\ BansMatchLog'
    <3>1. bans' = bans \ BansFor(i)
      BY <1>2, <2>2, <2>8, BansByType
    <3>2. deleted' = deleted \/ deleted' = deleted \ {i}
      BY <2>3, <2>8
    <3>3. \A k \in Item : BansFor(k)' \subseteq BansFor(k)
      BY <2>4, <3>1
    <3>4. BansFor(i)' = {}
      BY <2>2, <2>4, <3>1, <3>3
    <3>5. \A b \in bans' : \E r \in reports' :
            r.id = b.report /\ r.type \in {"report", "delete_ban"}
      BY <1>2, <2>5, <3>1
    <3>6. BanInv'
      <4>1. \A k \in Item : k \notin deleted' => BansFor(k)' = {}
        BY <3>2, <3>3, <3>4 DEF BanInv
      <4>2. \A k \in Item : \A x, y \in BansFor(k)' : x = y
        BY <3>3 DEF BanInv
      <4> QED
        BY <3>5, <4>1, <4>2 DEF BanInv
    <3>7. ASSUME NEW b \in bans', NEW r \in reports', b.report = r.id
          PROVE  ~Followed(r, Lifts)'
      <4>1. b \in bans /\ r \in reports
        BY <1>2, <2>4, <3>1, <3>7
      <4>2. r.item # i
        BY <2>7, <3>1, <3>7, <4>1
      <4> QED
        BY <1>2, <2>1, <3>7, <4>1, <4>2 DEF BansMatchLog
    <3>8. ASSUME NEW r \in reports', r.type # "delete", Deletes(r)', ~Followed(r, Lifts)',
                 IsComment(r.item) => "cache" \notin Fails
          PROVE  \E b \in bans' : b.report = r.id
      <4>1. r # c
        BY <2>8, <3>8 DEF Deletes
      <4>2. r \in reports /\ Deletes(r) /\ ~Followed(r, Lifts) /\ r.item # i
        BY <1>2, <2>1, <2>8, <3>8, <4>1
      <4>3. PICK b \in bans : b.report = r.id
        BY <3>8, <4>2 DEF BansMatchLog
      <4>4. b \notin BansFor(i)
        BY <2>6, <4>2, <4>3 DEF BansFor
      <4> QED
        BY <3>1, <4>3, <4>4
    <3> QED
      BY <3>6, <3>7, <3>8 DEF BansMatchLog
  <2>9. ASSUME c.type \notin Lifts, deleted \subseteq deleted', bans \subseteq bans',
               \A b \in bans' \ bans : b.report = c.id /\ b \in Ban,
               \A x, y \in bans' \ bans : x = y,
               bans' # bans => /\ i \notin deleted /\ i \in deleted'
                               /\ c.type \in {"report", "delete_ban"},
               /\ c.type # "delete" /\ Deletes(c)'
               /\ IsComment(c.item) => "cache" \notin Fails
               => \E b \in bans' : b.report = c.id
        PROVE  BanInv' /\ BansMatchLog'
    <3>1. \A b \in bans' : \E r \in reports' :
            r.id = b.report /\ r.type \in {"report", "delete_ban"}
      BY <1>2, <2>5, <2>9
    <3>2. \A r \in reports : r.id # c.id
      BY <1>2 DEF TransactionInv, TypeOK, IdsInv, Report
    <3>3. ASSUME NEW k \in Item, k # i PROVE BansFor(k)' = BansFor(k)
      <4>1. ASSUME NEW b \in bans' \ bans PROVE b \notin BansFor(k)'
        BY <1>2, <2>9, <3>2, <3>3 DEF BansFor
      <4>2. BansFor(k) \subseteq bans
        BY DEF BansFor
      <4> QED
        BY <2>4, <2>9, <4>1, <4>2
    <3>4. BansFor(i)' \subseteq BansFor(i) \cup (bans' \ bans)
      BY <2>2, <2>4
    <3>5. ASSUME bans' # bans PROVE BansFor(i) = {} /\ i \in deleted'
      BY <2>2, <2>9, <3>5 DEF BanInv
    <3>6. BanInv'
      <4>1. \A k \in Item : k \notin deleted' => BansFor(k)' = {}
        BY <2>9, <3>3, <3>4, <3>5 DEF BanInv
      <4>2. \A k \in Item : \A x, y \in BansFor(k)' : x = y
        <5>1. CASE bans' = bans
          BY <3>3, <3>4, <5>1 DEF BanInv
        <5>2. CASE bans' # bans
          BY <2>9, <3>3, <3>4, <3>5, <5>2 DEF BanInv
        <5> QED
          BY <5>1, <5>2
      <4> QED
        BY <3>1, <4>1, <4>2 DEF BanInv
    <3>7. ASSUME NEW b \in bans', NEW r \in reports', b.report = r.id
          PROVE  ~Followed(r, Lifts)'
      <4>1. CASE r = c
        BY <2>1, <4>1
      <4>2. CASE r \in reports
        <5>1. b \in bans
          BY <2>9, <3>2, <3>7, <4>2
        <5> QED
          BY <2>1, <2>9, <3>7, <4>2, <5>1 DEF BansMatchLog
      <4> QED
        BY <1>2, <4>1, <4>2
    <3>8. ASSUME NEW r \in reports', r.type # "delete", Deletes(r)', ~Followed(r, Lifts)',
                 IsComment(r.item) => "cache" \notin Fails
          PROVE  \E b \in bans' : b.report = r.id
      <4>1. CASE r = c
        BY <2>9, <3>8, <4>1
      <4>2. CASE r \in reports
        BY <2>1, <2>9, <3>8, <4>2 DEF BansMatchLog
      <4> QED
        BY <1>2, <4>1, <4>2
    <3> QED
      BY <3>6, <3>7, <3>8 DEF BansMatchLog
  <2>10. c.type \in {"report", "delete", "delete_ban"} => i \notin deleted
    BY <1>2 DEF AdmittedInv, Live
  <2>11. c.type = "report" => (Deletes(c)' => score[h] + 1 >= Threshold)
    BY <1>2, VoteDecides
  <2>12. c.type \notin {"report", "delete", "delete_ban"} => ~Deletes(c)'
    BY DEF Deletes
  <2> DEFINE bans_author ==
        \/ c.type = "delete_ban"
        \/ c.type = "report" /\ score[h] + 1 >= Threshold
  <2>13. CASE bans_author
    <3>1. \/ \E b \in Ban : b.report = lastId + 1 /\ bans' = bans \cup {b}
          \/ bans' = bans /\ IsComment(i) /\ "cache" \in Fails
      BY <1>2, <2>2, <2>13, BansByType
    <3>2. deleted' = deleted \cup {i}
      BY <2>3, <2>13
    <3>3. CASE \E b \in Ban : b.report = lastId + 1 /\ bans' = bans \cup {b}
      BY <1>2, <2>9, <2>10, <2>13, <3>2, <3>3
    <3>4. CASE bans' = bans /\ IsComment(i) /\ "cache" \in Fails
      BY <2>9, <2>13, <3>2, <3>4
    <3> QED
      BY <3>1, <3>3, <3>4
  <2>14. CASE ~bans_author /\ c.type \notin Lifts
    <3>0. /\ c.type # "delete_ban" /\ c.type \notin {"undelete_unban", "unban"}
          /\ ~(c.type = "report" /\ score[h] + 1 >= Threshold)
      BY <2>14
    <3>1. bans' = bans
      BY <1>2, <2>2, <3>0, BansByType
    <3>2. deleted \subseteq deleted'
      BY <2>3, <3>0 DEF AllTypes
    <3>3. c.type = "delete" \/ ~Deletes(c)'
      BY <2>11, <2>12, <3>0
    <3> QED
      BY <2>9, <2>14, <3>1, <3>2, <3>3
  <2> HIDE DEF bans_author, Lifts
  <2> QED
    BY <2>8, <2>13, <2>14
<1> QED
  BY <1>1, <1>2, ReportStep

\* The log explains the bans: a deletion by the vote or with a ban has brought the author a
\* ban that stands until the item is restored or he is unbanned, and none outlives that
\* (sql.go:274-320), as long as no deleted item is reported.
THEOREM BansExplained ==
    ASSUME NoLateReports
    PROVE  Spec => []BansMatchLog
<1>1. Init => ScoreInv /\ LogExplainsState /\ BanInv /\ BansMatchLog
  BY DEF Init, ScoreInv, LogExplainsState, BanInv, BansFor, BansMatchLog
<1>2. /\ TransactionInv /\ ScoreInv /\ AdmittedInv /\ BanInv /\ BansMatchLog /\ [Next]_vars
      => ScoreInv' /\ BanInv' /\ BansMatchLog'
  BY ScoreStep, BanStep
<1> QED
  BY <1>1, <1>2, TransactionsIsolated, AdmittedCorrect, PTL DEF Spec

-----------------------------------------------------------------------------
(* What the code says and does not keep (README, section 4), where it does. *)

\* An item that was restored has no ban left for its author ("undelete + unban",
\* structs.go:33), as long as no deleted item is reported.
THEOREM RestoredUnbanned ==
    ASSUME NoLateReports
    PROVE  Spec => []UndeleteUnbans
<1>1. Init => ScoreInv /\ BanInv /\ BansMatchLog
  BY DEF Init, ScoreInv, BanInv, BansFor, BansMatchLog
<1>2. /\ TransactionInv /\ ScoreInv /\ AdmittedInv /\ BanInv /\ BansMatchLog /\ [Next]_vars
      => ScoreInv' /\ BanInv' /\ BansMatchLog'
  BY ScoreStep, BanStep
<1>3. BanInv => UndeleteUnbans
  BY DEF BanInv, UndeleteUnbans
<1> QED
  BY <1>1, <1>2, <1>3, TransactionsIsolated, AdmittedCorrect, PTL DEF Spec

\* A delete_ban writes report and ban in one commit.
LEMMA DeleteBanStep ==
    ASSUME "cache" \notin Fails, TransactionInv, [Next]_vars,
           NEW r \in reports' \ reports, r.type = "delete_ban"
    PROVE  \E b \in bans' : b.report = r.id
<1>1. PICK h \in Handler, c \in Report :
        /\ Commit(h) /\ reports' = reports \cup {c} /\ c.id = lastId + 1
        /\ c.type = req[h].type
  BY ReportStep
<1>2. r = c /\ reports' # reports
  BY <1>1
<1>3. CommitDeleteBan(h)
  BY <1>1, <1>2, WriteOf
     DEF CommitReport, CommitFold, CommitSetTag, CommitDelete, CommitUndelete, CommitUnban
<1>4. DeleteAndBan(h, TRUE)
  BY <1>3 DEF CommitDeleteBan, CacheCall
<1> DEFINE b == [report |-> lastId + 1, user |-> Author[req[h].item], days |-> seen[h] + 1]
<1>5. b \in bans' /\ b.report = lastId + 1
  BY <1>4 DEF DeleteAndBan
<1> QED
  BY <1>1, <1>2, <1>5

\* A deletion by delete_ban bans the author with it ("delete, ban", structs.go:32),
\* where the cache of comments answers.
THEOREM DeletersBan ==
    ASSUME "cache" \notin Fails
    PROVE  Spec => DeleteBanBans
<1>1. TransactionInv /\ [Next]_vars =>
        \A r \in reports' \ reports :
            r.type = "delete_ban" => \E b \in bans' : b.report = r.id
  BY DeleteBanStep
<1>2. TransactionInv /\ [Next]_vars =>
        [\A r \in reports' \ reports :
            r.type = "delete_ban" => \E b \in bans' : b.report = r.id]_vars
  BY <1>1
<1> QED
  BY <1>2, TransactionsIsolated, PTL DEF Spec, DeleteBanBans

\* The deletions with a ban that the log has of a user.
BansBy(u) == {r \in reports : r.user = u /\ r.type = "delete_ban"}

\* Where Redis answers, each of them was counted.
CountedInv == \A u \in User : Cardinality(BansBy(u)) <= used[u]

\* A deletion with a ban enters the log and the count in one commit.
LEMMA CountedStep ==
    ASSUME Fails = {}, TransactionInv, CountedInv, [Next]_vars
    PROVE  CountedInv'
<1> SUFFICES ASSUME NEW u \in User
             PROVE  Cardinality(BansBy(u)') <= used'[u]
  BY DEF CountedInv, BansBy
<1>1. /\ IsFiniteSet(BansBy(u)) /\ Cardinality(BansBy(u)) \in Nat
      /\ used \in [User -> Nat] /\ Cardinality(BansBy(u)) <= used[u]
  BY FS_Subset, FS_CardinalityType DEF BansBy, CountedInv, TransactionInv, TypeOK, RequestsInv
<1>2. used' = used \/ \E h \in Handler : CommitDeleteBan(h)
  BY NextCases
     DEF Arrive, Lock, Refuse, Peek, PeekReached, CommitReport, CommitFold, CommitSetTag,
         CommitDelete, CommitUndelete, CommitUnban, RollBackUnban, Grow, TagByHashtag, vars
<1>3. ASSUME NEW h \in Handler, CommitDeleteBan(h)
      PROVE  Cardinality(BansBy(u)') <= used'[u]
  <2>1. /\ Created(h).user = req[h].user /\ Created(h).id = lastId + 1
        /\ reports' = reports \cup {Created(h)} /\ req[h].user \in User
        /\ req[h].type = "delete_ban" /\ Created(h).type = "delete_ban"
    BY <1>3, CreatedFields, RequestFields
       DEF CommitDeleteBan, Commit, CreateReport, TransactionInv
  <2>2. used' = [used EXCEPT ![req[h].user] = @ + 1]
    BY <1>3 DEF CommitDeleteBan, CacheCall
  <2>3. Created(h) \notin reports
    BY <2>1 DEF TransactionInv, TypeOK, IdsInv
  <2>4. CASE req[h].user = u
    <3>1. BansBy(u)' = BansBy(u) \cup {Created(h)} /\ Created(h) \notin BansBy(u)
      BY <2>1, <2>3, <2>4 DEF BansBy
    <3>2. Cardinality(BansBy(u)') = Cardinality(BansBy(u)) + 1
      BY <1>1, <3>1, FS_AddElement
    <3> QED
      BY <1>1, <2>2, <2>4, <3>2
  <2>5. CASE req[h].user # u
    <3>1. BansBy(u)' = BansBy(u)
      BY <2>1, <2>5 DEF BansBy
    <3> QED
      BY <1>1, <2>1, <2>2, <2>5, <3>1
  <2> QED
    BY <2>4, <2>5
<1>4. ASSUME used' = used, ~\E h \in Handler : CommitDeleteBan(h)
      PROVE  BansBy(u)' = BansBy(u)
  <2>1. CASE reports' = reports
    BY <2>1 DEF BansBy
  <2>2. ASSUME NEW h \in Handler, NEW c \in Report, Commit(h),
               reports' = reports \cup {c}, c.type = req[h].type, reports' # reports
        PROVE  BansBy(u)' = BansBy(u)
    <3>1. c.type # "delete_ban"
      BY <1>4, <2>2, WriteOf
         DEF CommitReport, CommitFold, CommitSetTag, CommitDelete, CommitUndelete, CommitUnban
    <3> QED
      BY <2>2, <3>1 DEF BansBy
  <2> QED
    BY <2>1, <2>2, ReportStep
<1> QED
  BY <1>1, <1>2, <1>3, <1>4

\* Nobody's deletions with a ban exceed the limit by more than the transactions that may run
\* beside the one that reaches it.
DeletionsBounded ==
    \A u \in User : Cardinality(BansBy(u)) <= BanLimit[u] + Cardinality(Handler) - 1

\* Where Redis answers, the log itself, and not only the limiter's counters, obeys the
\* bound that Peek before and Get after the deletion leave (routeApiPOST.go:499-511).
THEOREM DeletionsLimited ==
    ASSUME Fails = {}
    PROVE  Spec => []DeletionsBounded
<1>1. Init => CountedInv
  <2> SUFFICES ASSUME Init, NEW u \in User PROVE Cardinality(BansBy(u)) <= used[u]
    BY DEF CountedInv
  <2>1. BansBy(u) = {} /\ used[u] \in Nat
    BY TypeInit DEF Init, BansBy, TypeOK
  <2> QED
    BY <2>1, FS_EmptySet
<1>2. TransactionInv /\ CountedInv /\ [Next]_vars => CountedInv'
  BY CountedStep
<1>3. TransactionInv /\ CountedInv /\ LimitBounded => DeletionsBounded
  <2> SUFFICES ASSUME TransactionInv, CountedInv, LimitBounded, NEW u \in User
               PROVE  Cardinality(BansBy(u)) <= BanLimit[u] + Cardinality(Handler) - 1
    BY DEF DeletionsBounded
  <2>1. IsFiniteSet(BansBy(u))
    BY FS_Subset DEF BansBy, TransactionInv, RequestsInv
  <2>2. /\ Cardinality(BansBy(u)) \in Nat /\ used[u] \in Nat /\ BanLimit[u] \in Nat
        /\ Cardinality(Handler) \in Nat
    BY <2>1, FS_CardinalityType, PastFinite, UserAssumption DEF TransactionInv, TypeOK
  <2> QED
    BY <2>2 DEF CountedInv, LimitBounded
<1>4. Spec => []LimitBounded
  BY BansLimited
<1> QED
  BY <1>1, <1>2, <1>3, <1>4, TransactionsIsolated, PTL DEF Spec

\* Nobody deletes with a ban more often in 24 hours than allowed ("the limit of deletions
\* in 24h is reached", routeApiPOST.go:505), where Redis answers and one transaction runs
\* at a time: what exceeds the limit in the code is a race.
THEOREM LimitKept ==
    ASSUME Fails = {}, Cardinality(Handler) = 1
    PROVE  Spec => []LimitRespected
<1>1. DeletionsBounded => LimitRespected
  BY UserAssumption DEF DeletionsBounded, LimitRespected, BansBy
<1>2. Spec => []DeletionsBounded
  BY DeletionsLimited
<1> QED
  BY <1>1, <1>2, PTL

\* Nothing but the commit of two transactions about one author's items separates the
\* counting of his bans from its use.
AuthorsApart ==
    \A g, h \in Handler :
        /\ g # h /\ pc[g] \in {"peek", "write"} /\ pc[h] \in {"peek", "write"}
        => Author[req[g].item] # Author[req[h].item]

\* A ban is for a report on an item of the one who is banned.
BannedInv ==
    \A b \in bans : \E r \in reports : r.id = b.report /\ Author[r.item] = b.user

\* What a transaction has counted of its author's bans is so when it commits.
SeenInv ==
    \A h \in Handler :
        pc[h] = "write" /\ req[h].type \in {"report", "delete_ban"} =>
            seen[h] = Cardinality(BansOf(Author[req[h].item]))

\* The first ban for an item is one of them.
LEMMA FirstIsOne ==
    ASSUME TransactionInv, NEW i \in Item, BansFor(i) # {}
    PROVE  First(BansFor(i)) \in BansFor(i)
<1> DEFINE Numbers == {b.report : b \in BansFor(i)}
<1>1. \A b \in BansFor(i) : b.report \in Nat
  BY DEF BansFor, TransactionInv, TypeOK, Ban
<1>2. PICK n \in Numbers : \A m \in Numbers : n <= m
  <2> DEFINE R == {p \in Nat \X Nat : p[1] < p[2]}
  <2>1. IsWellFoundedOn(R, Nat)
    BY NatLessThanWellFounded DEF OpToRel
  <2>2. \A m, n \in Nat : m < n => <<m, n>> \in R
    OBVIOUS
  <2>3. Numbers \subseteq Nat /\ Numbers # {}
    BY <1>1
  <2> HIDE DEF R, Numbers
  <2>4. PICK n \in Numbers : \A m \in Numbers : ~ (<<m, n>> \in R)
    BY <2>1, <2>3, WFMin, Zenon
  <2>5. \A m \in Numbers : n \in Nat /\ m \in Nat /\ ~ (m < n)
    BY <2>2, <2>3, <2>4
  <2> QED
    BY <2>4, <2>5
<1>3. \E b \in BansFor(i) : \A c \in BansFor(i) : b.report <= c.report
  BY <1>2
<1> QED
  BY <1>3 DEF First

\* Whose bans a transaction that writes changes, and how.
LEMMA BansChange ==
    ASSUME TransactionInv, BannedInv, [Next]_vars
    PROVE  \/ bans' = bans
           \/ \E h \in Handler :
                LET b == [report |-> lastId + 1, user |-> Author[req[h].item],
                          days |-> seen[h] + 1] IN
                /\ pc[h] = "write" /\ Commit(h) /\ req[h].type \in {"report", "delete_ban"}
                /\ bans' = bans \cup {b} /\ Created(h) \in reports'
           \/ \E h \in Handler, b \in bans :
                /\ pc[h] = "write" /\ Commit(h)
                /\ bans' = bans \ {b} /\ b.user = Author[req[h].item]
<1>1. \/ bans' = bans
      \/ \E h \in Handler :
            /\ Commit(h) /\ CreateReport(h) /\ req[h].type \in {"report", "delete_ban"}
            /\ \E ok \in CacheCall(req[h].item) : DeleteAndBan(h, ok)
      \/ \E h \in Handler : Commit(h) /\ Unban(req[h].item)
  BY NextCases
     DEF Arrive, Lock, Refuse, Peek, PeekReached, CommitReport, CommitFold, CommitSetTag,
         CommitDelete, CommitDeleteBan, CommitUndelete, CommitUnban, RollBackUnban, Grow,
         TagByHashtag, tables, vars
<1>2. ASSUME NEW h \in Handler, Commit(h), CreateReport(h),
             NEW ok \in CacheCall(req[h].item), DeleteAndBan(h, ok)
      PROVE  \/ bans' = bans
             \/ /\ bans' = bans \cup {[report |-> lastId + 1, user |-> Author[req[h].item],
                                       days |-> seen[h] + 1]}
                /\ pc[h] = "write" /\ Created(h) \in reports'
  BY <1>2 DEF CacheCall, DeleteAndBan, Commit, CreateReport
<1>3. ASSUME NEW h \in Handler, Commit(h), Unban(req[h].item)
      PROVE  \/ bans' = bans
             \/ \E b \in bans :
                  pc[h] = "write" /\ bans' = bans \ {b} /\ b.user = Author[req[h].item]
  <2> DEFINE i == req[h].item
  <2>1. pc[h] = "write" /\ i \in Item
    BY <1>3, RequestFields DEF Commit, TransactionInv
  <2>2. CASE BansFor(i) # {}
    <3> DEFINE b == First(BansFor(i))
    <3>1. b \in BansFor(i)
      BY <2>1, <2>2, FirstIsOne
    <3>2. b \in bans /\ b.user = Author[i]
      BY <3>1 DEF BansFor, BannedInv, TransactionInv, IdsInv
    <3> QED
      BY <1>3, <2>1, <2>2, <3>2 DEF Unban
  <2> QED
    BY <1>3, <2>2 DEF Unban
<1> QED
  BY <1>1, <1>2, <1>3

\* A transaction's count of bans is spoiled by another one about the same author only.
LEMMA SeenStep ==
    ASSUME TransactionInv, BannedInv, SeenInv, AuthorsApart, [Next]_vars
    PROVE  BannedInv' /\ SeenInv'
<1>1. BannedInv'
  <2>1. reports \subseteq reports'
    BY ReportStep
  <2>2. ASSUME NEW h \in Handler, pc[h] = "write", Created(h) \in reports'
        PROVE  \E r \in reports' : r.id = lastId + 1 /\ Author[r.item] = Author[req[h].item]
    BY <2>2, CreatedFields DEF TransactionInv
  <2> QED
    BY <2>1, <2>2, BansChange DEF BannedInv
<1>2. SeenInv'
  <2> SUFFICES ASSUME NEW g \in Handler, pc'[g] = "write",
                      req'[g].type \in {"report", "delete_ban"}
               PROVE  seen'[g] = Cardinality(BansOf(Author[req[g].item])')
    BY Holders DEF SeenInv, BansOf
  <2>1. req'[g] = req[g] /\ req[g].item \in Item
    BY Holders, RequestFields DEF TransactionInv
  <2>2. CASE Lock(g) /\ UNCHANGED <<items, tables>>
    <3>1. req[g].type = "report" /\ seen'[g] = Cardinality(BansOf(Author[req[g].item]))
      BY <2>1, <2>2 DEF Lock, Snapshot, TransactionInv, TypeOK
    <3>2. BansOf(Author[req[g].item])' = BansOf(Author[req[g].item])
      BY <2>1, <2>2 DEF BansOf, tables
    <3> QED
      BY <3>1, <3>2
  <2>3. CASE Peek(g) /\ UNCHANGED <<items, tables>>
    <3>1. seen'[g] = Cardinality(BansOf(Author[req[g].item]))
      BY <2>3 DEF Peek, TransactionInv, TypeOK
    <3>2. BansOf(Author[req[g].item])' = BansOf(Author[req[g].item])
      BY <2>1, <2>3 DEF BansOf, tables
    <3> QED
      BY <3>1, <3>2
  <2>4. CASE pc[g] = "write" /\ seen'[g] = seen[g] /\ ~Commit(g)
    <3> DEFINE u == Author[req[g].item]
    <3>1. seen[g] = Cardinality(BansOf(u))
      BY <2>1, <2>4 DEF SeenInv
    <3>2. \A h \in Handler : Commit(h) /\ pc[h] = "write" => Author[req[h].item] # u
      BY <2>4 DEF AuthorsApart
    <3>3. BansOf(u)' = BansOf(u)
      BY <2>1, <3>2, BansChange DEF BansOf
    <3> QED
      BY <2>4, <3>1, <3>3
  <2> QED
    BY <2>2, <2>3, <2>4, Holders
<1> QED
  BY <1>1, <1>2

\* The number the author is told, "this is your n-th report" (hooks.go:67), counts the bans
\* in force when the ban is written, as long as no two transactions about items of one
\* author have their rows locked at a time.
THEOREM BansNumbered == Spec /\ []AuthorsApart => BanNumberCounts
<1>1. Init => BannedInv /\ SeenInv
  BY DEF Init, BannedInv, SeenInv
<1>2. /\ TransactionInv /\ BannedInv /\ SeenInv /\ AuthorsApart /\ [Next]_vars
      => BannedInv' /\ SeenInv'
  BY SeenStep
<1>3. TransactionInv /\ BannedInv /\ SeenInv /\ [Next]_vars =>
        [\A b \in bans' \ bans : b.days = Cardinality(BansOf(b.user)) + 1]_vars
  <2> SUFFICES ASSUME TransactionInv, BannedInv, SeenInv, [Next]_vars, NEW b \in bans' \ bans
               PROVE  b.days = Cardinality(BansOf(b.user)) + 1
    OBVIOUS
  <2>1. PICK h \in Handler :
          /\ pc[h] = "write" /\ req[h].type \in {"report", "delete_ban"}
          /\ b.user = Author[req[h].item] /\ b.days = seen[h] + 1
    BY BansChange
  <2> QED
    BY <2>1 DEF SeenInv
<1> QED
  BY <1>1, <1>2, <1>3, TransactionsIsolated, PTL DEF Spec, BanNumberCounts

\* No comment of i has been reported, which is always so if i is a comment itself.
Unmixed(i) == \A r \in reports : r.type = "report" => r.item \notin Comments(i)

\* DeletedByOwnReports of the items of which this is so.
UnmixedByOwnReports ==
    \A i \in deleted : Unmixed(i) =>
        \/ \E r \in reports : r.item = i /\ r.type \in {"delete", "delete_ban"}
        \/ Cardinality(ReportsOf(i, "report")) >= Threshold

\* An item that nobody deleted has gone by reports of its own, as the program means it, if
\* no comment of it was reported: the sum of routeApiPOST.go:468 goes wrong on nothing else.
THEOREM OwnReportsDelete == Spec => []UnmixedByOwnReports
<1>1. ASSUME TransactionInv, LogExplainsState, NEW i \in deleted, Unmixed(i)
      PROVE  \/ \E r \in reports : r.item = i /\ r.type \in {"delete", "delete_ban"}
             \/ Cardinality(ReportsOf(i, "report")) >= Threshold
  <2>1. i \in Item /\ \A r \in reports : r.item \in Item
    BY <1>1 DEF TransactionInv, TypeOK, Report
  <2>2. PICK r \in reports : r.item = i /\ MayDelete(r)
    BY <1>1, <2>1 DEF LogExplainsState
  <2>3. Votes(i) \subseteq ReportsOf(i, "report")
    BY <1>1, <2>1 DEF Votes, ReportsOf, Unmixed, Comments, IsComment
  <2>4. ASSUME NEW S, S \subseteq ReportsOf(i, "report"), Cardinality(S) >= Threshold
        PROVE  Cardinality(ReportsOf(i, "report")) >= Threshold
    <3>1. IsFiniteSet(ReportsOf(i, "report"))
      BY FS_Subset, <1>1 DEF ReportsOf, TransactionInv, RequestsInv
    <3>2. /\ Cardinality(S) \in Nat /\ Cardinality(ReportsOf(i, "report")) \in Nat
          /\ Cardinality(S) <= Cardinality(ReportsOf(i, "report"))
      BY <2>4, <3>1, FS_Subset, FS_CardinalityType
    <3> QED
      BY <2>4, <3>2, BoundAssumption
  <2>5. Own(r) \subseteq ReportsOf(i, "report")
    BY <2>2 DEF Own
  <2>6. {s \in Votes(r.item) : s.id <= r.id} \subseteq ReportsOf(i, "report")
    BY <2>2, <2>3
  <2>7. \/ r.type \in {"delete", "delete_ban"}
        \/ Cardinality(Own(r)) >= Threshold
        \/ Cardinality({s \in Votes(r.item) : s.id <= r.id}) >= Threshold
    BY <2>2 DEF MayDelete, Deletes
  <2> QED
    BY <2>2, <2>4, <2>5, <2>6, <2>7
<1>2. TransactionInv /\ LogExplainsState => UnmixedByOwnReports
  BY <1>1 DEF UnmixedByOwnReports
<1> QED
  BY <1>2, TransactionsIsolated, LogExplains, PTL
=============================================================================
