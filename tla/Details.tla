------------------------------ MODULE Details ------------------------------
(***************************************************************************)
(* detailPost (pkg/route/contents/routeApiGET.go) over CommentCache: a     *)
(* client asks for a post with the updated_at it knows, in seconds.  The   *)
(* handler reads the row of the post first and answers "not modified"      *)
(* where they agree; otherwise it reads the comments, through the cache.   *)
(*                                                                         *)
(* Every commit that changes the comments writes posts.updated_at too: the *)
(* update of reply_num, and the tag's own update.  It falls in the second  *)
(* of the commit before or in a later one; so does, in effect, an undelete *)
(* whose cache call fails, which leaves updated_at alone.                  *)
(***************************************************************************)
EXTENDS CommentCache

VARIABLES
    updatedAt,  \* the second of each version
    held,       \* detailPost: the updated_at of the row it has read, or None
    client      \* what the client shows: its updated_at, the version of its
                \* comments, and whether they came outdated from the cache

detailVars == <<vars, updatedAt, held, client>>

Client == [stamp : Version \cup {None}, version : Version, misled : BOOLEAN]

DetailTypeOK ==
    /\ TypeOK
    /\ updatedAt \in [Version -> Version]
    /\ held \in [Single -> Version \cup {None}]
    /\ client \in Client

DetailInit ==
    /\ Init
    /\ updatedAt = [v \in Version |-> 0]
    /\ held = [r \in Single |-> None]
    /\ client = [stamp |-> None, version |-> 0, misled |-> FALSE]

-----------------------------------------------------------------------------
(* Writers commit within a second of each other or not.                    *)

CommitAt(w) ==
    /\ Commit(w)
    /\ \E s \in {updatedAt[version], updatedAt[version] + 1} :
        updatedAt' = [v \in Version |-> IF v > version THEN s ELSE updatedAt[v]]
    /\ UNCHANGED <<held, client>>

WriteOn(w) ==
    \/ CommitAt(w)
    \/ /\ Open(w) \/ DelCommentCache(w) \/ DelCommentCacheFails(w) \/ RollBack(w)
       /\ UNCHANGED <<updatedAt, held, client>>

-----------------------------------------------------------------------------
(* detailPost.                                                             *)

ReadPost(r) ==
    /\ rpc[r] = "idle" /\ held[r] = None
    /\ held' = [held EXCEPT ![r] = updatedAt[version]]
    /\ UNCHANGED <<vars, updatedAt, client>>

\* code 1: the client keeps its comments.
NotModified(r) ==
    /\ rpc[r] = "idle" /\ held[r] # None
    /\ held[r] = client.stamp
    /\ held' = [held EXCEPT ![r] = None]
    /\ UNCHANGED <<vars, updatedAt, client>>

\* Mutant: the row is read again after the comments.
AnswerNewest(r, v, outdated) ==
    /\ client' = [stamp |-> updatedAt[version], version |-> v, misled |-> outdated]
    /\ held' = [held EXCEPT ![r] = None]

\* code 0: the comments, with the row that was read before them.
Answer(r, v, outdated) ==
    /\ client' = [stamp |-> held[r], version |-> v, misled |-> outdated]
    /\ held' = [held EXCEPT ![r] = None]

Modified(r) ==
    /\ held[r] # None /\ held[r] # client.stamp
    /\ UNCHANGED updatedAt
    /\ \/ Bypass(r) /\ Answer(r, version, FALSE)
       \/ Hit(r) /\ Answer(r, entry, tainted)
       \/ Fetch(r) /\ UNCHANGED <<held, client>>

FinishDetail(r) ==
    /\ UNCHANGED updatedAt
    /\ \/ Store(r) /\ Answer(r, fetched[r], FALSE)
       \/ /\ StoreFails(r)
          /\ held' = [held EXCEPT ![r] = None]
          /\ UNCHANGED client

\* The lists (getCommentsByPosts) answer clients that compare nothing.
List(r) == Read(r) /\ UNCHANGED <<updatedAt, held, client>>

Pass == (Tick \/ GrowOld) /\ UNCHANGED <<updatedAt, held, client>>

DetailNext ==
    \/ \E w \in Writer : WriteOn(w)
    \/ \E r \in Single : ReadPost(r) \/ NotModified(r) \/ Modified(r) \/ FinishDetail(r)
    \/ \E r \in Reader \ Single : List(r)
    \/ Pass

\* As in CommentCache.
DetailFairness ==
    /\ WF_detailVars(Pass)
    /\ \A r \in Single : WF_detailVars(FinishDetail(r))
    /\ \A r \in Reader \ Single : WF_detailVars(Finish(r) /\ UNCHANGED <<updatedAt, held, client>>)

DetailSpec == DetailInit /\ [][DetailNext]_detailVars /\ DetailFairness

-----------------------------------------------------------------------------
(* What "not modified" owes the client.                                    *)

\* A client that would be answered "not modified" although its comments are
\* outdated got them outdated from the cache, or they changed twice in a second:
\* reading the row before the comments lets no other change go unnoticed.
NotModifiedOnlyByRace ==
    client.stamp = updatedAt[version] /\ client.version < version
        => client.misled \/ updatedAt[client.version] = updatedAt[version]

\* What the code does not give (README, section 4): a client that keeps asking
\* has the comments in the end.
ClientEventuallyFresh == <>[](client.version = version)
=============================================================================
