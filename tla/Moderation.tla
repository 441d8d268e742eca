---------------------------- MODULE Moderation -----------------------------
(***************************************************************************)
(* handleReport (pkg/route/contents/routeApiPOST.go) with what it calls in *)
(* pkg/base (sql.go, permissions.go, hooks.go): users report, fold, delete *)
(* and restore posts and comments, and their authors are banned.           *)
(*                                                                         *)
(* A request is one transaction.  It takes the row lock of its item, reads *)
(* under it, and its writes show at the commit.  Reads that the row lock   *)
(* does not cover (the author's bans, the limiter in Redis) are made       *)
(* before the commit and used in it.                                       *)
(*                                                                         *)
(* Every report weighs 10 (GetReportWeight) against a limit of 100, so     *)
(* scores are counted in reports.  Deleter2 and Deleter3 differ from       *)
(* Deleter, and the superuser from an admin, in BanLimit only.             *)
(***************************************************************************)
EXTENDS Integers, FiniteSets

CONSTANTS
    User,
    RoleOf,         \* "normal", "deleter", "undeleter" or "admin"
    BanLimit,       \* GetDeletePostRateLimitIn24h of the user's role
    Item,           \* posts and comments
    Parent,         \* the post of a comment; a post is its own
    Author,
    Reason,         \* what a request gives as its reason; the empty one is NoTag
    Tags,           \* reportable_tags
    Threshold,      \* reports that delete an item: 100 / 10
    Handler,        \* transactions that may be open at a time
    Asks,           \* bound: the kinds of requests a user makes
    MaxReport,      \* bound: reports ever written
    Fails,          \* the uses of Redis that may fail: "cache", "limiter"
    NoTag, NoTx, NoRequest

Roles == {"normal", "deleter", "undeleter", "admin"}
AllTypes == {"report", "fold", "set_tag", "delete", "undelete_unban",
             "delete_ban", "unban"}

ASSUME UserAssumption ==
    RoleOf \in [User -> Roles] /\ BanLimit \in [User -> Nat]
ASSUME ItemAssumption ==
    /\ Author \in [Item -> User]
    /\ Parent \in [Item -> Item]
    /\ \A i \in Item : Parent[Parent[i]] = Parent[i]
\* What is stored and what is open at a time is finite.
ASSUME FiniteAssumption ==
    IsFiniteSet(Item) /\ IsFiniteSet(Handler) /\ Handler # {}
ASSUME AsksAssumption == Asks \in [User -> SUBSET AllTypes]
ASSUME BoundAssumption ==
    /\ Threshold \in Nat \ {0}
    /\ MaxReport \in Nat
    /\ Fails \subseteq {"cache", "limiter"}
    /\ Tags \subseteq Reason /\ NoTag \in Reason \ Tags
    /\ NoTx \notin Handler

IsComment(i) == Parent[i] # i
Comments(p) == {i \in Item : IsComment(i) /\ Parent[i] = p}

\* Only a fold or a new tag is decided by its reason; that of the others is text.
Request ==
    {q \in [user : User, item : Item, type : AllTypes, reason : Reason] :
        q.type \in {"fold", "set_tag"} \/ q.reason = NoTag}
ASSUME RequestAssumption == NoRequest \notin Request

VARIABLES
    deleted,    \* items with deleted_at set
    tag,
    age,        \* "new" (120s), "young" (2 days) or "old"
    replyNum,   \* posts.reply_num
    reportNum,  \* posts.report_num
    reports,    \* the reports table
    lastId,     \* its auto increment
    bans,       \* bans in force, with the days they were created for
    used,       \* deleteBanLimiter's counters of the day
    lock,       \* row locks of posts and comments
    pc, req,    \* the open transactions
    seen,       \* the bans of the author a transaction has counted
    score       \* the reports a vote has counted

items == <<deleted, tag, replyNum, reportNum>>
tables == <<reports, lastId, bans>>
vars == <<deleted, tag, age, replyNum, reportNum, reports, lastId, bans, used,
          lock, pc, req, seen, score>>

Report == [id : Nat, user : User, item : Item, type : AllTypes, reason : Reason]
Ban == [report : Nat, user : User, days : Nat]

TypeOK ==
    /\ deleted \in SUBSET Item
    /\ tag \in [Item -> Reason]
    /\ age \in [Item -> {"new", "young", "old"}]
    /\ replyNum \in [Item -> Int]
    /\ reportNum \in [Item -> Nat]
    /\ reports \in SUBSET Report
    /\ lastId \in Nat
    /\ bans \in SUBSET Ban
    /\ used \in [User -> Nat]
    /\ lock \in [Item -> Handler \cup {NoTx}]
    /\ pc \in [Handler -> {"idle", "begin", "peek", "write"}]
    /\ req \in [Handler -> Request \cup {NoRequest}]
    /\ seen \in [Handler -> Nat]
    /\ score \in [Handler -> Nat]

Init ==
    /\ deleted = {}
    \* A post may be sent with a tag, or given one for its words; a comment has none.
    /\ tag \in [Item -> Reason]
    /\ \A i \in Item : IsComment(i) => tag[i] = NoTag
    /\ age = [i \in Item |-> "new"]
    /\ replyNum = [i \in Item |-> Cardinality(Comments(i))]
    /\ reportNum = [i \in Item |-> 0]
    /\ reports = {}
    /\ lastId = 0
    /\ bans = {}
    \* The day's deletions so far.
    /\ used \in {n \in [User -> UNION {0 .. BanLimit[u] : u \in User}] :
                    \A u \in User : n[u] <= BanLimit[u]}
    /\ lock = [i \in Item |-> NoTx]
    /\ pc = [h \in Handler |-> "idle"]
    /\ req = [h \in Handler |-> NoRequest]
    /\ seen = [h \in Handler |-> 0]
    /\ score = [h \in Handler |-> 0]

-----------------------------------------------------------------------------
(* Permissions (permissions.go).                                           *)

CanViewDeleted(u) == RoleOf[u] \in {"admin", "undeleter"}
Live(i) == i \notin deleted

\* getPermissions: what u may do with i now.
Permissions(u, i) ==
    {"report"}
    \cup {t \in {"fold"} : ~IsComment(i)}
    \cup {t \in {"delete"} :
            Live(i) /\ (RoleOf[u] = "admin" \/ (age[i] = "new" /\ u = Author[i]))}
    \cup {t \in {"set_tag"} : RoleOf[u] = "admin"}
    \cup {t \in {"unban"} : RoleOf[u] = "admin" /\ ~Live(i)}
    \cup {t \in {"undelete_unban"} :
            ~Live(i) /\ (RoleOf[u] = "admin"
                         \/ (RoleOf[u] = "undeleter" /\ age[i] # "old"))}
    \cup {t \in {"delete_ban"} :
            Live(i) /\ (RoleOf[u] = "admin"
                        \/ (RoleOf[u] = "deleter" /\ age[i] # "old"))}

ReportsOf(i, t) == {r \in reports : r.item = i /\ r.type = t}
\* What the vote on i sums up.  The query leaves zero fields out of its condition,
\* so a post's sum takes in the reports of its comments.
Votes(i) == {r \in reports : r.type = "report" /\ i \in {r.item, Parent[r.item]}}
Mine(q) == {r \in ReportsOf(q.item, q.type) : r.user = q.user}
BansOf(u) == {b \in bans : b.user = u}

-----------------------------------------------------------------------------
(* A request arrives, and its transaction locks the item.                  *)

Arrive(h, q) ==
    /\ pc[h] = "idle"
    /\ q.type \in Asks[q.user]
    /\ lastId + Cardinality({g \in Handler : pc[g] # "idle"}) < MaxReport
    /\ pc' = [pc EXCEPT ![h] = "begin"]
    /\ req' = [req EXCEPT ![h] = q]
    /\ UNCHANGED <<items, age, tables, used, lock, seen, score>>

\* What the transaction checks under the lock before it writes anything.
Admitted(q) ==
    /\ Live(q.item) \/ CanViewDeleted(q.user)
    /\ q.type \in Permissions(q.user, q.item)
    /\ q.type = "fold" => q.reason \in Tags
    /\ q.type \in {"report", "fold"} => Cardinality(Mine(q)) # 1

End(h) ==
    /\ pc' = [pc EXCEPT ![h] = "idle"]
    /\ req' = [req EXCEPT ![h] = NoRequest]
    /\ seen' = [seen EXCEPT ![h] = 0]
    /\ score' = [score EXCEPT ![h] = 0]

\* A transaction's plain reads show what was committed at the first of them,
\* which for a user report is the look for an earlier one.
Snapshot(h) ==
    LET i == req[h].item  vote == req[h].type = "report" IN
    /\ seen' = [seen EXCEPT ![h] = IF vote THEN Cardinality(BansOf(Author[i])) ELSE 0]
    /\ score' = [score EXCEPT ![h] = IF vote THEN Cardinality(Votes(i)) ELSE 0]

\* Mutant: the item is read without FOR UPDATE.
LockNothing(h) ==
    /\ pc[h] = "begin"
    /\ Admitted(req[h])
    /\ pc' = [pc EXCEPT ![h] = IF req[h].type = "delete_ban" THEN "peek" ELSE "write"]
    /\ Snapshot(h)
    /\ UNCHANGED <<items, age, tables, used, req, lock>>

Lock(h) ==
    /\ pc[h] = "begin"
    /\ lock[req[h].item] = NoTx
    /\ Admitted(req[h])
    /\ lock' = [lock EXCEPT ![req[h].item] = h]
    /\ pc' = [pc EXCEPT ![h] = IF req[h].type = "delete_ban" THEN "peek" ELSE "write"]
    /\ Snapshot(h)
    /\ UNCHANGED <<items, age, tables, used, req>>

Refuse(h) ==
    /\ pc[h] = "begin"
    /\ lock[req[h].item] = NoTx
    /\ ~Admitted(req[h])
    /\ End(h)
    /\ UNCHANGED <<items, age, tables, used, lock>>

\* Mutant: the limit has to be passed, not reached.
PeekLate(h) ==
    /\ pc[h] = "peek"
    /\ used[req[h].user] <= BanLimit[req[h].user]
    /\ pc' = [pc EXCEPT ![h] = "write"]
    /\ seen' = [seen EXCEPT ![h] = Cardinality(BansOf(Author[req[h].item]))]
    /\ UNCHANGED <<items, age, tables, used, lock, req, score>>

\* delete_ban: deleteBanLimiter.Peek.  An error of Redis is ignored and reads as
\* nothing used.  GetBannedTime follows.
Peek(h) ==
    /\ pc[h] = "peek"
    /\ \E n \in {used[req[h].user]} \cup {z \in {0} : "limiter" \in Fails} :
        n < BanLimit[req[h].user]
    /\ pc' = [pc EXCEPT ![h] = "write"]
    /\ seen' = [seen EXCEPT ![h] = Cardinality(BansOf(Author[req[h].item]))]
    /\ UNCHANGED <<items, age, tables, used, lock, req, score>>

PeekReached(h) ==
    /\ pc[h] = "peek"
    /\ used[req[h].user] >= BanLimit[req[h].user]
    /\ End(h)
    /\ lock' = [lock EXCEPT ![req[h].item] = NoTx]
    /\ UNCHANGED <<items, age, tables, used>>

-----------------------------------------------------------------------------
(* The writes and the commit.  A comment's transaction waits for whoever   *)
(* has its post locked when it writes the post's row too.                  *)

PostFree(h) == lock[Parent[req[h].item]] \in {NoTx, h}

Commit(h) ==
    /\ pc[h] = "write"
    /\ lock' = [lock EXCEPT ![req[h].item] = NoTx]
    /\ End(h)
    /\ UNCHANGED age

\* tx.Create(&report), with Report.AfterCreate.
Created(h) ==
    [id |-> lastId + 1, user |-> req[h].user, item |-> req[h].item,
     type |-> req[h].type, reason |-> req[h].reason]

CreateReport(h) ==
    /\ lastId' = lastId + 1
    /\ reports' = reports \cup {Created(h)}

CountOnPost(h) ==
    reportNum' = [reportNum EXCEPT ![req[h].item] =
                    IF IsComment(req[h].item) THEN @ ELSE @ + 1]

\* DelCommentCache is called for comments only.
CacheCall(i) == IF IsComment(i) /\ "cache" \in Fails THEN {TRUE, FALSE} ELSE {TRUE}

\* DeleteByReport.
Delete(i) ==
    /\ deleted' = deleted \cup {i}
    /\ replyNum' = [replyNum EXCEPT ![Parent[i]] =
                        IF IsComment(i) THEN @ - 1 ELSE @]

\* Mutant: the ban is not written.
DeleteOnly(h, ok) == PostFree(h) /\ Delete(req[h].item) /\ UNCHANGED bans

\* DeleteAndBan: an error of DelCommentCache leaves the ban out, and the
\* transaction commits what it has.
DeleteAndBan(h, ok) ==
    /\ PostFree(h)
    /\ Delete(req[h].item)
    /\ bans' = bans \cup
        {b \in {[report |-> lastId + 1, user |-> Author[req[h].item],
                 days |-> seen[h] + 1]} : ok}

\* UnbanByReport: the first of the bans for reports on the item.
BansFor(i) ==
    {b \in bans : \E r \in reports :
        r.id = b.report /\ r.item = i /\ r.type \in {"report", "delete_ban"}}
First(bs) == CHOOSE b \in bs : \A c \in bs : b.report <= c.report
Unban(i) == bans' = IF BansFor(i) = {} THEN bans ELSE bans \ {First(BansFor(i))}

\* Mutant: the type of the report becomes the tag, not its reason.
SetTagType(h) == tag' = [tag EXCEPT ![req[h].item] = req[h].type]

SetTag(h) == tag' = [tag EXCEPT ![req[h].item] = req[h].reason]

-----------------------------------------------------------------------------
\* Mutant: the threshold has to be passed, not reached.
CommitReportLate(h) ==
    /\ Commit(h) /\ req[h].type = "report"
    /\ CreateReport(h)
    /\ CountOnPost(h)
    /\ IF score[h] + 1 > Threshold
       THEN \E ok \in CacheCall(req[h].item) : DeleteAndBan(h, ok)
       ELSE UNCHANGED <<deleted, replyNum, bans>>
    /\ UNCHANGED <<tag, used>>

CommitReport(h) ==
    /\ Commit(h) /\ req[h].type = "report"
    /\ CreateReport(h)
    /\ CountOnPost(h)
    /\ IF score[h] + 1 >= Threshold
       THEN \E ok \in CacheCall(req[h].item) : DeleteAndBan(h, ok)
       ELSE UNCHANGED <<deleted, replyNum, bans>>
    /\ UNCHANGED <<tag, used>>

SameFolds(q) == {r \in ReportsOf(q.item, "fold") : r.reason = q.reason}

\* Mutant: the folds are counted without the one that is committed.
CommitFoldLate(h) ==
    /\ Commit(h) /\ req[h].type = "fold"
    /\ CreateReport(h)
    /\ IF \/ Author[req[h].item] = req[h].user
          \/ Cardinality(SameFolds(req[h])) = 2
       THEN SetTag(h) ELSE UNCHANGED tag
    /\ UNCHANGED <<deleted, replyNum, reportNum, bans, used>>

CommitFold(h) ==
    /\ Commit(h) /\ req[h].type = "fold"
    /\ CreateReport(h)
    /\ IF \/ Author[req[h].item] = req[h].user
          \/ Cardinality(SameFolds(req[h])) + 1 = 2
       THEN SetTag(h) ELSE UNCHANGED tag
    /\ UNCHANGED <<deleted, replyNum, reportNum, bans, used>>

CommitSetTag(h) ==
    /\ Commit(h) /\ req[h].type = "set_tag" /\ PostFree(h)
    /\ CreateReport(h)
    /\ SetTag(h)
    /\ UNCHANGED <<deleted, replyNum, reportNum, bans, used>>

\* Mutant: the counter of the post is forgotten.
CommitDeleteUncounted(h) ==
    /\ Commit(h) /\ req[h].type = "delete" /\ PostFree(h)
    /\ CreateReport(h)
    /\ deleted' = deleted \cup {req[h].item}
    /\ UNCHANGED <<tag, replyNum, reportNum, bans, used>>

CommitDelete(h) ==
    /\ Commit(h) /\ req[h].type = "delete" /\ PostFree(h)
    /\ CreateReport(h)
    /\ Delete(req[h].item)
    /\ UNCHANGED <<tag, reportNum, bans, used>>

\* The limiter's Get follows a DeleteAndBan without error.
CommitDeleteBan(h) ==
    /\ Commit(h) /\ req[h].type = "delete_ban"
    /\ CreateReport(h)
    /\ \E ok \in CacheCall(req[h].item) :
        /\ DeleteAndBan(h, ok)
        /\ \E n \in {IF ok THEN 1 ELSE 0} \cup {z \in {0} : "limiter" \in Fails} :
            used' = [used EXCEPT ![req[h].user] = @ + n]
    /\ UNCHANGED <<tag, reportNum>>

\* The error of UnbanByReport is ignored; one of DelCommentCache comes before
\* the update of reply_num.
CommitUndelete(h) ==
    LET i == req[h].item IN
    /\ Commit(h) /\ req[h].type = "undelete_unban"
    /\ CreateReport(h)
    /\ Unban(i)
    /\ deleted' = deleted \ {i}
    /\ \E ok \in CacheCall(i) :
        /\ ok => PostFree(h)
        /\ replyNum' = [replyNum EXCEPT ![Parent[i]] =
                            IF IsComment(i) /\ ok THEN @ + 1 ELSE @]
    /\ reportNum' = [reportNum EXCEPT ![i] = IF IsComment(i) THEN @ ELSE 0]
    /\ UNCHANGED <<tag, used>>

CommitUnban(h) ==
    /\ Commit(h) /\ req[h].type = "unban"
    /\ BansFor(req[h].item) # {}
    /\ CreateReport(h)
    /\ Unban(req[h].item)
    /\ UNCHANGED <<items, used>>

RollBackUnban(h) ==
    /\ Commit(h) /\ req[h].type = "unban"
    /\ BansFor(req[h].item) = {}
    /\ UNCHANGED <<items, tables, used>>

Write(h) ==
    \/ CommitReport(h) \/ CommitFold(h) \/ CommitSetTag(h) \/ CommitDelete(h)
    \/ CommitDeleteBan(h) \/ CommitUndelete(h) \/ CommitUnban(h)
    \/ RollBackUnban(h)

-----------------------------------------------------------------------------
\* An item leaves the windows in which its author and deleters may delete it.
\* A comment is never older than its post.
Grow(i) ==
    /\ age[i] # "old"
    /\ IsComment(i) => age[Parent[i]] # age[i]
    /\ age' = [age EXCEPT ![i] = IF @ = "new" THEN "young" ELSE "old"]
    /\ UNCHANGED <<items, tables, used, lock, pc, req, seen, score>>

\* The post's author has commented with a tag's name in the text: sendComment sets
\* it after its transaction, without a lock of its own.
TagByHashtag(i) ==
    /\ ~IsComment(i)
    /\ Live(i) \/ CanViewDeleted(Author[i])
    /\ lock[i] = NoTx
    /\ \E r \in Reason \ {NoTag} : tag' = [tag EXCEPT ![i] = r]
    /\ UNCHANGED <<deleted, age, replyNum, reportNum, tables, used, lock, pc, req, seen, score>>

\* The bound on reports is reached.
Finished ==
    /\ lastId = MaxReport
    /\ \A h \in Handler : pc[h] = "idle"
    /\ \A i \in Item : age[i] = "old"
    /\ UNCHANGED vars

Next ==
    \/ \E h \in Handler :
        \/ \E q \in Request : Arrive(h, q)
        \/ Lock(h) \/ Refuse(h) \/ Peek(h) \/ PeekReached(h) \/ Write(h)
    \/ \E i \in Item : Grow(i) \/ TagByHashtag(i)
    \/ Finished

Spec == Init /\ [][Next]_vars

-----------------------------------------------------------------------------
(* What moderation owes users, authors and deleters.                       *)

\* A user's reports of an item, and folds, count once: the look for an earlier
\* one and the insertion are not undone by a request of the same user beside it.
NoDuplicateReport ==
    \A r, s \in reports :
        /\ r.type \in {"report", "fold"}
        /\ r.user = s.user /\ r.item = s.item /\ r.type = s.type
        => r = s

\* A report that deletes its item, ...
Own(r) == {s \in ReportsOf(r.item, "report") : s.id <= r.id}
Deletes(r) ==
    \/ r.type \in {"delete", "delete_ban"}
    \/ r.type = "report" /\ Cardinality(Own(r)) >= Threshold

\* ... one that may, depending on what its snapshot shows of the comments, ...
MayDelete(r) ==
    \/ Deletes(r)
    \/ /\ r.type = "report"
       /\ Cardinality({s \in Votes(r.item) : s.id <= r.id}) >= Threshold

\* ... and one of the given types that comes later.
Followed(r, types) == \E s \in reports : s.item = r.item /\ s.type \in types /\ s.id > r.id

\* The reports table, from which administrators judge (rep_dels, logs), explains
\* the state of every item: enough reports or a deleter delete it whatever runs
\* beside them, nothing else does, and it stays so until a later restoration.
LogExplainsState ==
    \A i \in Item :
        LET standing == {r \in reports : r.item = i /\ ~Followed(r, {"undelete_unban"})} IN
        /\ (\E r \in standing : Deletes(r)) => i \in deleted
        /\ i \in deleted => \E r \in standing : MayDelete(r)

\* The folds of an item for the same reason, up to one of them, ...
FoldsUpTo(s) == {r \in ReportsOf(s.item, "fold") : r.reason = s.reason /\ r.id <= s.id}

\* ... and a later request by which an administrator takes the tag away.
Untagged(s) ==
    \E c \in reports :
        c.item = s.item /\ c.type = "set_tag" /\ c.reason = NoTag /\ c.id > s.id

\* The first two users who fold an item for the same reason get it tagged, whoever
\* commits first: neither counts without the other.  The tag stays or is replaced
\* until an administrator sets the empty one.
TwoFoldsTag ==
    \A r, s \in reports :
        s.type = "fold" /\ r.user # s.user /\ FoldsUpTo(s) = {r, s}
        => tag[s.item] # NoTag \/ Untagged(s)

\* The post's reply_num is the number of its comments that are not deleted, but
\* for the restorations whose cache call failed before the counter was raised.
ReplyNumMatches ==
    \A p \in Item : ~IsComment(p) =>
        LET missing == Cardinality(Comments(p) \ deleted) - replyNum[p] IN
        /\ missing >= 0
        /\ missing <= Cardinality({r \in reports :
                r.type = "undelete_unban" /\ r.item \in Comments(p) /\ "cache" \in Fails})

\* The log explains the bans: a deletion by the vote or with a ban has brought the
\* author a ban that stands until the item is restored or the author unbanned, and
\* none outlives that.  Where the cache fails, a comment's ban may be missing.
BansMatchLog ==
    LET lifts == {"undelete_unban", "unban"} IN
    /\ \A b \in bans, r \in reports : b.report = r.id => ~Followed(r, lifts)
    /\ \A r \in reports :
        /\ r.type # "delete" /\ Deletes(r) /\ ~Followed(r, lifts)
        /\ IsComment(r.item) => "cache" \notin Fails
        => \E b \in bans : b.report = r.id

\* The limit of deletions with a ban is exceeded by the requests at most that were
\* past Peek before another of them was counted.
LimitBounded ==
    \A u \in User : used[u] <= BanLimit[u] + Cardinality(Handler) - 1

-----------------------------------------------------------------------------
(* What the code does not satisfy, though it says so (README, section 4).  *)

\* A post that nobody deleted has gone by reports of its own (routeApiPOST.go:468,
\* where the sum is asked for with the comment's id and IsComment).
DeletedByOwnReports ==
    \A i \in deleted :
        \/ \E r \in reports : r.item = i /\ r.type \in {"delete", "delete_ban"}
        \/ Cardinality(ReportsOf(i, "report")) >= Threshold

\* The number the author is told, "this is your n-th report" (hooks.go:67), counts
\* the bans in force when the ban is written.
BanNumberCounts ==
    [][\A b \in bans' \ bans : b.days = Cardinality(BansOf(b.user)) + 1]_vars

\* Nobody deletes with a ban more often in 24 hours than allowed
\* (routeApiPOST.go:505, "the limit of deletions in 24h is reached").
LimitRespected ==
    \A u \in User :
        Cardinality({r \in reports : r.user = u /\ r.type = "delete_ban"}) <= BanLimit[u]

\* An item that was restored has no ban left for its author ("undelete + unban",
\* structs.go:33).
UndeleteUnbans == \A i \in Item : i \notin deleted => BansFor(i) = {}

\* A deletion by delete_ban bans the author with it ("delete, ban", structs.go:32).
DeleteBanBans ==
    [][\A r \in reports' \ reports :
        r.type = "delete_ban" => \E b \in bans' : b.report = r.id]_vars
=============================================================================
