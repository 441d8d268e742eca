---------------------------- MODULE Discussion -----------------------------
(***************************************************************************)
(* What happens under one post: comments under anonymous names, attentions *)
(* and votes (sendComment and editAttention in routeApiPOST.go, sendVote   *)
(* in vote.go, GenCommenterName and SaveComment in pkg/base/sql.go, the    *)
(* hooks of Comment and Attention in hooks.go).                            *)
(*                                                                         *)
(* Each request is a transaction that locks the row of the post, reads,    *)
(* and commits what it computed from what it read.  CommenterNames has the *)
(* names; <<>> is that of the author of the post (consts.DzName).          *)
(***************************************************************************)
EXTENDS CommenterNames, FiniteSets

CONSTANTS
    User,
    Dz,             \* the author of the post
    Viewer,         \* users who see deleted posts (CanViewDeletedPost)
    Option,         \* the options of the post's vote
    Handler,        \* transactions that may be open at a time
    Asks,           \* bound: the kinds of requests a user makes
    MaxComment,     \* bound: comments ever written
    MaxDrift,       \* bound: deletions and restorations that reply_num is wrong by
    NoTx, NoRequest

ASSUME UserAssumption == Dz \in User /\ Viewer \subseteq User
ASSUME BoundAssumption == MaxComment \in Nat /\ MaxDrift \in Nat
ASSUME NoTxAssumption == NoTx \notin Handler

RequestKinds == {"comment", "watch", "unwatch", "vote"}
ASSUME AsksAssumption == Asks \in [User -> SUBSET RequestKinds]

Request == [kind : RequestKinds \ {"vote"}, user : User]
           \cup [kind : {"vote"}, user : User, option : Option]
ASSUME RequestAssumption == NoRequest \notin Request

VARIABLES
    comments,   \* the comments of the post
    lastId,     \* auto increment of comments
    hidden,     \* the post has deleted_at set
    attention,  \* users with a row in attentions
    votes,      \* the votes table: the option of each user who voted
    likeNum, replyNum, voteData,    \* columns of the post
    lock,       \* who holds the row lock of the post
    pc, req,    \* the open transactions
    name,       \* the name a transaction found for its comment
    data,       \* the vote_data a transaction read
    drift       \* history: repeated deletions and uncounted restorations

post == <<likeNum, replyNum, voteData>>
vars == <<comments, lastId, hidden, attention, votes, likeNum, replyNum,
          voteData, lock, pc, req, name, data, drift>>

Comment == [id : Nat, user : User, name : Names, live : BOOLEAN]
Vote == [user : User, option : Option]

TypeOK ==
    /\ comments \in SUBSET Comment
    /\ lastId \in Nat
    /\ hidden \in BOOLEAN
    /\ attention \in SUBSET User
    /\ votes \in SUBSET Vote
    /\ likeNum \in Int /\ replyNum \in Int
    /\ voteData \in [Option -> Nat]
    /\ lock \in Handler \cup {NoTx}
    /\ pc \in [Handler -> {"idle", "begin", "write"}]
    /\ req \in [Handler -> Request \cup {NoRequest}]
    /\ name \in [Handler -> Names]
    /\ data \in [Handler -> [Option -> Nat]]
    /\ drift \in Nat

Nothing == [o \in Option |-> 0]

\* SavePost has run: Post.AfterCreate gave the author an attention.
Init ==
    /\ comments = {}
    /\ lastId = 0
    /\ hidden = FALSE
    /\ attention = {Dz}
    /\ votes = {}
    /\ likeNum = 1
    /\ replyNum = 0
    /\ voteData = Nothing
    /\ lock = NoTx
    /\ pc = [h \in Handler |-> "idle"]
    /\ req = [h \in Handler |-> NoRequest]
    /\ name = [h \in Handler |-> <<>>]
    /\ data = [h \in Handler |-> Nothing]
    /\ drift = 0

-----------------------------------------------------------------------------
(* GenCommenterName: the name the user has under this post, deleted        *)
(* comments included, or the next one.                                     *)

Commenters == {c.user : c \in comments} \ {Dz}

\* Mutant: the author's own comments are counted off.
GenNameOffByOne(u) ==
    IF u = Dz THEN <<>> ELSE GetCommenterName(Cardinality(Commenters) - 1)

\* Mutant: deleted comments are not looked at.
GenNameScoped(u) ==
    LET mine == {c \in comments : c.user = u /\ c.live} IN
    IF u = Dz THEN <<>>
    ELSE IF mine # {} THEN (CHOOSE c \in mine : TRUE).name
    ELSE GetCommenterName(Cardinality({c.user : c \in {d \in comments : d.live}} \ {Dz}) + 1)

GenName(u) ==
    LET mine == {c \in comments : c.user = u} IN
    IF u = Dz THEN <<>>
    ELSE IF mine # {} THEN (CHOOSE c \in mine : \A d \in mine : c.id <= d.id).name
    ELSE GetCommenterName(Cardinality(Commenters) + 1)

-----------------------------------------------------------------------------
Arrive(h, q) ==
    /\ pc[h] = "idle"
    /\ q.kind \in Asks[q.user]
    /\ pc' = [pc EXCEPT ![h] = "begin"]
    /\ req' = [req EXCEPT ![h] = q]
    /\ UNCHANGED <<comments, lastId, hidden, attention, votes, post, lock, name, data, drift>>

Visible(u) == ~hidden \/ u \in Viewer

\* Mutant: the post is read without FOR UPDATE.
ReadOnly(h) ==
    /\ pc[h] = "begin"
    /\ Visible(req[h].user)
    /\ pc' = [pc EXCEPT ![h] = "write"]
    /\ name' = [name EXCEPT ![h] = GenName(req[h].user)]
    /\ data' = [data EXCEPT ![h] = voteData]
    /\ UNCHANGED <<comments, lastId, hidden, attention, votes, post, lock, req, drift>>

\* SELECT ... FOR UPDATE of the post, and the reads that follow it.
Lock(h) ==
    /\ pc[h] = "begin"
    /\ lock = NoTx
    /\ Visible(req[h].user)
    /\ lock' = h
    /\ pc' = [pc EXCEPT ![h] = "write"]
    /\ name' = [name EXCEPT ![h] = GenName(req[h].user)]
    /\ data' = [data EXCEPT ![h] = voteData]
    /\ UNCHANGED <<comments, lastId, hidden, attention, votes, post, req, drift>>

End(h) ==
    /\ pc' = [pc EXCEPT ![h] = "idle"]
    /\ req' = [req EXCEPT ![h] = NoRequest]
    /\ name' = [name EXCEPT ![h] = <<>>]
    /\ data' = [data EXCEPT ![h] = Nothing]

NotFound(h) ==
    /\ pc[h] = "begin"
    /\ lock = NoTx
    /\ ~Visible(req[h].user)
    /\ End(h)
    /\ UNCHANGED <<comments, lastId, hidden, attention, votes, post, lock, drift>>

Commit(h, kind) ==
    /\ pc[h] = "write"
    /\ req[h].kind = kind
    /\ lock' = NoTx
    /\ End(h)
    /\ UNCHANGED <<hidden, drift>>

\* Any error on the way (of the database, or of DelCommentCache in SaveComment)
\* is returned by the closure: nothing is kept.
RollBack(h) ==
    /\ Commit(h, req[h].kind)
    /\ UNCHANGED <<comments, lastId, attention, votes, post>>

-----------------------------------------------------------------------------
(* Attention rows with their hooks.                                        *)

Watch(u) ==
    /\ attention' = attention \cup {u}
    /\ likeNum' = IF u \in attention THEN likeNum ELSE likeNum + 1

Unwatch(u) ==
    /\ attention' = attention \ {u}
    /\ likeNum' = likeNum - 1

\* SaveComment and Comment.AfterCreate.
CommitComment(h) ==
    LET u == req[h].user IN
    /\ Commit(h, "comment")
    /\ lastId < MaxComment
    /\ lastId' = lastId + 1
    /\ comments' = comments \cup
        {[id |-> lastId + 1, user |-> u, name |-> name[h], live |-> TRUE]}
    /\ Watch(u)
    /\ replyNum' = replyNum + 1
    /\ UNCHANGED <<votes, voteData>>

\* editAttention refuses what is already so and commits nothing then.
CommitWatch(h) ==
    /\ Commit(h, "watch")
    /\ Watch(req[h].user)
    /\ UNCHANGED <<comments, lastId, votes, replyNum, voteData>>

CommitUnwatch(h) ==
    /\ Commit(h, "unwatch")
    /\ IF req[h].user \in attention THEN Unwatch(req[h].user)
       ELSE UNCHANGED <<attention, likeNum>>
    /\ UNCHANGED <<comments, lastId, votes, replyNum, voteData>>

HasVoted(u) == \E v \in votes : v.user = u

\* sendVote writes the whole of vote_data back, one option counted up.
CommitVote(h) ==
    LET q == req[h] IN
    /\ Commit(h, "vote")
    /\ IF HasVoted(q.user)
       THEN UNCHANGED <<votes, voteData>>
       ELSE /\ votes' = votes \cup {[user |-> q.user, option |-> q.option]}
            /\ voteData' = [data[h] EXCEPT ![q.option] = @ + 1]
    /\ UNCHANGED <<comments, lastId, attention, likeNum, replyNum>>

-----------------------------------------------------------------------------
(* The moderation of Moderation.tla, as far as it meets this post: a       *)
(* transaction on a comment's row also writes the row of the post.         *)

SetLive(c, live) == comments' = (comments \ {c}) \cup {[c EXCEPT !.live = live]}
ByModeration ==
    UNCHANGED <<lastId, hidden, attention, votes, likeNum, voteData, lock, pc, req, name, data>>

\* Mutant: reply_num is written back from what was read, not counted in SQL.
DeleteCommentStale(c) ==
    /\ lock = NoTx
    /\ c.live
    /\ SetLive(c, FALSE)
    /\ replyNum' = lastId - 1
    /\ UNCHANGED drift
    /\ ByModeration

\* The report of a user who sees deleted comments deletes one again: no row of
\* comments is changed, and reply_num goes down all the same.
DeleteComment(c) ==
    /\ lock = NoTx
    /\ c.live \/ (Viewer # {} /\ drift < MaxDrift)
    /\ SetLive(c, FALSE)
    /\ replyNum' = replyNum - 1
    /\ drift' = IF c.live THEN drift ELSE drift + 1
    /\ ByModeration

RestoreComment(c) ==
    /\ lock = NoTx
    /\ ~c.live
    /\ SetLive(c, TRUE)
    /\ replyNum' = replyNum + 1
    /\ UNCHANGED drift
    /\ ByModeration

\* DelCommentCache fails: reply_num is left alone, and the restoration committed.
RestoreUncounted(c) ==
    /\ ~c.live
    /\ drift < MaxDrift
    /\ SetLive(c, TRUE)
    /\ UNCHANGED replyNum
    /\ drift' = drift + 1
    /\ ByModeration

HidePost ==
    /\ lock = NoTx
    /\ hidden' = ~hidden
    /\ UNCHANGED <<comments, lastId, attention, votes, post, lock, pc, req, name, data, drift>>

Next ==
    \/ \E h \in Handler :
        \/ \E q \in Request : Arrive(h, q)
        \/ Lock(h) \/ NotFound(h) \/ RollBack(h)
        \/ CommitComment(h) \/ CommitWatch(h) \/ CommitUnwatch(h) \/ CommitVote(h)
    \/ \E c \in comments : DeleteComment(c) \/ RestoreComment(c) \/ RestoreUncounted(c)
    \/ HidePost

Spec == Init /\ [][Next]_vars

-----------------------------------------------------------------------------
(* What readers of the post rely on.                                       *)

\* Under a post a name stands for one user and a user has one name, also when
\* comments were deleted in between and when two newcomers write at once; the
\* author's name is nobody else's.
NamesIdentify ==
    /\ \A c, d \in comments : c.user = d.user <=> c.name = d.name
    /\ \A c \in comments : c.user = Dz <=> c.name = <<>>

\* posts.like_num counts the users who watch the post and posts.reply_num the
\* comments that are not deleted, though hooks and handlers of three kinds change them.
\* reply_num is too low by the deletions that met a deleted comment and the
\* restorations whose cache call failed, and by nothing else.
CountersMatch ==
    /\ likeNum = Cardinality(attention)
    /\ replyNum + drift = Cardinality({c \in comments : c.live})

\* posts.vote_data, written back as a whole, loses no vote of the votes table.
VotesCounted ==
    \A o \in Option : voteData[o] = Cardinality({v \in votes : v.option = o})
=============================================================================
