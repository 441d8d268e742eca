--------------------------- MODULE PushMessages ----------------------------
(***************************************************************************)
(* From a comment to the phones of those who watch its post: the list of   *)
(* messages sendComment computes (routeApiPOST.go), PreProcessPushMessages *)
(* and the two requests to the push service (send_push.go), its handlers   *)
(* (pkg/push/route.go) and SendMessages (notification.go).                 *)
(*                                                                         *)
(* Both requests are made by goroutines that the transaction starts before *)
(* it commits and nobody waits for.  Every user has one Android device     *)
(* that is connected; what becomes of a device that is not is PushHub's.   *)
(* Users change their settings meanwhile (pkg/route/contents/push.go).     *)
(* A message is its comment and its place in the list, which stand for the *)
(* id it gets in push_messages.                                            *)
(***************************************************************************)
EXTENDS Naturals, Sequences, FiniteSets

CONSTANTS
    User,
    Dz,         \* the author of the post
    Attention,  \* the users who watch it, in the order of the table
    Comment,
    AuthorOf,   \* the author of each comment
    ReplyTo,    \* the author of the comment it answers, or NoUser
    FirstSettings, \* push_settings at first: the kinds a user chose, or NoSettings
    Offered,    \* bound: what users choose later
    MaxSet,     \* bound: changes of the settings
    NoUser, NoSettings

Kinds == {"system", "reply", "favorite"}

ASSUME UserAssumption == Dz \in User /\ NoUser \notin User
ASSUME AttentionAssumption ==
    /\ Attention \in Seq(User)
    /\ \A i, j \in DOMAIN Attention : Attention[i] = Attention[j] => i = j
ASSUME CommentAssumption ==
    /\ AuthorOf \in [Comment -> User]
    /\ ReplyTo \in [Comment -> User \cup {NoUser}]
ASSUME SettingsAssumption ==
    /\ FirstSettings \in [User -> (SUBSET Kinds) \cup {NoSettings}]
    /\ Offered \subseteq SUBSET Kinds /\ MaxSet \in Nat

VARIABLES
    settings,   \* push_settings
    sets,       \* how often they were changed
    applied,    \* the settings that gave a comment's messages their do_push
    stage,      \* comments: "new", "open", "live", "deleted" or "gone"
    send,       \* /send_messages: "none", "flying", "loop", "done" or "lost"
    recall,     \* /delete_messages: also "read"
    rows,       \* push_messages that are not deleted
    sendTo,     \* devices the loop of a send has still to notify
    recallTo,   \* the same for a recall
    recalled,   \* the message a recall names
    shown       \* the messages each device shows

push == <<rows, sendTo, recallTo, recalled, shown>>
chosen == <<settings, sets, applied>>
messageVars == <<chosen, stage, send, recall, push>>

-----------------------------------------------------------------------------
(* The list of messages.                                                   *)

\* The user who is answered: by default the author of the post.
Target(c) == IF ReplyTo[c] = NoUser THEN Dz ELSE ReplyTo[c]
Answered(c) == Target(c) # AuthorOf[c]

Message(c, u, kinds) == [comment |-> c, user |-> u, kinds |-> kinds]

\* Mutant: who is answered and watches gets a message for each.
AddTwice(c, list, u) ==
    IF u # AuthorOf[c] THEN Append(list, Message(c, u, {"favorite"})) ELSE list

Add(c, list, u) ==
    IF Answered(c) /\ u = Target(c)
    THEN [list EXCEPT ![1].kinds = @ \cup {"favorite"}]
    ELSE IF u # AuthorOf[c] THEN Append(list, Message(c, u, {"favorite"})) ELSE list

Answer(c) == IF Answered(c) THEN <<Message(c, Target(c), {"reply"})>> ELSE <<>>

\* The list of each comment when the loop has seen the first k watchers.
Lists[k \in 0 .. Len(Attention)] ==
    [c \in Comment |->
        IF k = 0 THEN Answer(c) ELSE Add(c, Lists[k - 1][c], Attention[k])]

PushList(c) == Lists[Len(Attention)][c]

\* Mutant: the settings of a user are not looked up.
DoPushDefault(u, kinds, in) == kinds \cap {"system", "reply"} # {}

\* PreProcessPushMessages.
DoPush(u, kinds, in) ==
    IF in[u] # NoSettings
    THEN in[u] \cap kinds # {}
    ELSE kinds \cap {"system", "reply"} # {}

Pushed(c) ==
    {i \in DOMAIN PushList(c) :
        LET m == PushList(c)[i] IN DoPush(m.user, m.kinds, applied[c])}

\* pushMap holds the address of the loop's variable for everybody, and that is
\* the last message of the list when the devices are notified.
LastOf(is) == CHOOSE i \in is : \A j \in is : j <= i

-----------------------------------------------------------------------------
Id == UNION {{<<c, i>> : i \in DOMAIN PushList(c)} : c \in Comment}
Addressee(id) == PushList(id[1])[id[2]].user
RowsOf(c) == {id \in rows : id[1] = c}

MessageTypeOK ==
    /\ settings \in [User -> (SUBSET Kinds) \cup {NoSettings}]
    /\ sets \in 0 .. MaxSet
    /\ applied \in [Comment -> [User -> (SUBSET Kinds) \cup {NoSettings}]]
    /\ stage \in [Comment -> {"new", "open", "live", "deleted", "gone"}]
    /\ send \in [Comment -> {"none", "flying", "loop", "done", "lost"}]
    /\ recall \in [Comment -> {"none", "flying", "read", "loop", "done", "lost"}]
    /\ rows \in SUBSET Id
    /\ sendTo \in [Comment -> SUBSET User]
    /\ recallTo \in [Comment -> SUBSET User]
    /\ recalled \in [Comment -> Nat]
    /\ shown \in [User -> SUBSET Id]

MessageInit ==
    /\ settings = FirstSettings
    /\ sets = 0
    /\ applied = [c \in Comment |-> FirstSettings]
    /\ stage = [c \in Comment |-> "new"]
    /\ send = [c \in Comment |-> "none"]
    /\ recall = [c \in Comment |-> "none"]
    /\ rows = {}
    /\ sendTo = [c \in Comment |-> {}]
    /\ recallTo = [c \in Comment |-> {}]
    /\ recalled = [c \in Comment |-> 0]
    /\ shown = [u \in User |-> {}]

-----------------------------------------------------------------------------
(* The services API.                                                       *)

\* setPush replaces the user's row or creates it.
SetPush(u) ==
    /\ sets < MaxSet
    /\ sets' = sets + 1
    /\ \E kinds \in Offered : settings' = [settings EXCEPT ![u] = kinds]
    /\ UNCHANGED <<applied, stage, send, recall, push>>

\* What getPush shows the user of them.
GetPush(u, in) == IF in[u] = NoSettings THEN {"system", "reply"} ELSE in[u]

\* sendComment's transaction has saved the comment, prepares the messages, and
\* starts the goroutine.
HandOver(c) ==
    /\ stage[c] = "new"
    /\ stage' = [stage EXCEPT ![c] = "open"]
    /\ send' = [send EXCEPT ![c] = "flying"]
    /\ applied' = [applied EXCEPT ![c] = settings]
    /\ UNCHANGED <<settings, sets, recall, push>>

\* The commit goes well or fails.
Commit(c) ==
    /\ stage[c] = "open"
    /\ \E s \in {"live", "gone"} : stage' = [stage EXCEPT ![c] = s]
    /\ UNCHANGED <<chosen, send, recall, push>>

\* DeleteByReport deletes the comment and starts the other goroutine.
Delete(c) ==
    /\ stage[c] = "live"
    /\ stage' = [stage EXCEPT ![c] = "deleted"]
    /\ recall' = [recall EXCEPT ![c] = "flying"]
    /\ UNCHANGED <<chosen, send, push>>

\* The push service does not answer ("push failed" is logged), or its first
\* statement fails.
Lose(c) ==
    /\ \/ /\ send[c] = "flying"
          /\ send' = [send EXCEPT ![c] = "lost"]
          /\ UNCHANGED recall
       \/ /\ recall[c] = "flying"
          /\ recall' = [recall EXCEPT ![c] = "lost"]
          /\ UNCHANGED send
    /\ UNCHANGED <<chosen, stage, push>>

-----------------------------------------------------------------------------
(* The push service.                                                       *)

\* Mutant: the places are counted from 0 when the rows are created.
CreateRowsFromZero(c) ==
    /\ send[c] = "flying"
    /\ rows' = rows \cup {<<c, i - 1>> : i \in DOMAIN PushList(c)}
    /\ sendTo' = [sendTo EXCEPT ![c] = {PushList(c)[i].user : i \in Pushed(c)}]
    /\ send' = [send EXCEPT ![c] = "loop"]
    /\ UNCHANGED <<chosen, stage, recall, recallTo, recalled, shown>>

\* SendMessages creates the rows and reads the devices; gorm refuses to create an
\* empty list, which ends it.
CreateRows(c) ==
    /\ send[c] = "flying"
    /\ rows' = rows \cup {<<c, i>> : i \in DOMAIN PushList(c)}
    /\ sendTo' = [sendTo EXCEPT ![c] = {PushList(c)[i].user : i \in Pushed(c)}]
    /\ send' = [send EXCEPT ![c] = "loop"]
    /\ UNCHANGED <<chosen, stage, recall, recallTo, recalled, shown>>

\* A device of the loop is notified.
NotifyDevice(c) ==
    /\ send[c] = "loop"
    /\ \E u \in sendTo[c] :
        /\ sendTo' = [sendTo EXCEPT ![c] = @ \ {u}]
        /\ shown' = [shown EXCEPT ![u] = @ \cup {<<c, Len(PushList(c))>>}]
    /\ UNCHANGED <<chosen, stage, send, recall, rows, recallTo, recalled>>

SendEnds(c) ==
    /\ send[c] = "loop" /\ sendTo[c] = {}
    /\ send' = [send EXCEPT ![c] = "done"]
    /\ UNCHANGED <<chosen, stage, recall, push>>

\* delete_messages reads the messages that were pushed, ...
ReadRows(c) ==
    /\ recall[c] = "flying"
    /\ LET is == {id[2] : id \in RowsOf(c)} \cap Pushed(c) IN
        /\ recallTo' = [recallTo EXCEPT ![c] = {PushList(c)[i].user : i \in is}]
        /\ recalled' = [recalled EXCEPT ![c] = IF is = {} THEN 0 ELSE LastOf(is)]
    /\ recall' = [recall EXCEPT ![c] = "read"]
    /\ UNCHANGED <<chosen, stage, send, rows, sendTo, shown>>

\* ... deletes all messages of the comment ...
DeleteRows(c) ==
    /\ recall[c] = "read"
    /\ rows' = rows \ RowsOf(c)
    /\ recall' = [recall EXCEPT ![c] = "loop"]
    /\ UNCHANGED <<chosen, stage, send, sendTo, recallTo, recalled, shown>>

\* ... and SendMessages tells the devices of those it has read.
Recall(c) ==
    /\ recall[c] = "loop"
    /\ \E u \in recallTo[c] :
        /\ recallTo' = [recallTo EXCEPT ![c] = @ \ {u}]
        /\ shown' = [shown EXCEPT ![u] = @ \ {<<c, recalled[c]>>}]
    /\ UNCHANGED <<chosen, stage, send, recall, rows, sendTo, recalled>>

RecallEnds(c) ==
    /\ recall[c] = "loop" /\ recallTo[c] = {}
    /\ recall' = [recall EXCEPT ![c] = "done"]
    /\ UNCHANGED <<chosen, stage, send, push>>

\* The devices or the key of the iOS client cannot be read, or Notify panics
\* (PushHub!NotifyPanic): the loop, or the rest of it, does not take place.
Abort(c) ==
    /\ \/ /\ send[c] = "loop"
          /\ sendTo' = [sendTo EXCEPT ![c] = {}]
          /\ UNCHANGED recallTo
       \/ /\ recall[c] = "loop"
          /\ recallTo' = [recallTo EXCEPT ![c] = {}]
          /\ UNCHANGED sendTo
    /\ UNCHANGED <<chosen, stage, send, recall, rows, recalled, shown>>

Push(c) ==
    \/ CreateRows(c) \/ NotifyDevice(c) \/ SendEnds(c)
    \/ ReadRows(c) \/ DeleteRows(c) \/ Recall(c) \/ RecallEnds(c) \/ Abort(c)

Over(c) == send[c] \in {"done", "lost"} /\ recall[c] \in {"none", "done", "lost"}

MessagesFinished ==
    /\ \A c \in Comment : stage[c] \in {"live", "deleted", "gone"} /\ Over(c)
    /\ UNCHANGED messageVars

MessageNext ==
    \/ \E u \in User : SetPush(u)
    \/ \E c \in Comment :
        HandOver(c) \/ Commit(c) \/ Delete(c) \/ Lose(c) \/ Push(c)
    \/ MessagesFinished

MessageSpec == MessageInit /\ [][MessageNext]_messageVars

-----------------------------------------------------------------------------
(* What the watchers of a post rely on.                                    *)

\* Whom a comment concerns: who watches the post or is answered, its own author
\* excepted.
Audience(c) ==
    ({Attention[i] : i \in DOMAIN Attention} \cup {Target(c)}) \ {AuthorOf[c]}
Concern(c, u) ==
    {k \in {"reply"} : u = Target(c)}
    \cup {k \in {"favorite"} : \E i \in DOMAIN Attention : Attention[i] = u}

\* The rows a comment leaves in push_messages, if any, are one for each of them and
\* name all the reasons, though the answer and the attentions come from two
\* queries and are merged while the list is built.
RowsAreAudience ==
    \A c \in Comment : RowsOf(c) # {} =>
        /\ \A u \in Audience(c) : \E id \in RowsOf(c) :
            Addressee(id) = u /\ PushList(c)[id[2]].kinds = Concern(c, u)
        /\ Cardinality(RowsOf(c)) = Cardinality(Audience(c))

\* A device shows something of a comment only if its user is one whom it concerns,
\* and never its author, and if the settings, as getPush showed them to him when the
\* comment was written, name one of his reasons: both read the missing row and the
\* bits alike, and no later choice counts.
WantedOnly ==
    \A u \in User : \A id \in shown[u] :
        /\ u \in Audience(id[1])
        /\ GetPush(u, applied[id[1]]) \cap Concern(id[1], u) # {}

-----------------------------------------------------------------------------
(* What the code does not satisfy, though it says so (README, section 4).  *)

\* A device is told of the message that was written for its user (stream.go:49,
\* "notifies the clients with the given userID").
RightMessage == \A u \in User : \A id \in shown[u] : Addressee(id) = u

\* Once a comment is deleted and both requests have been answered, no message of
\* it is left: the TODO of notification.go:79 wants "recall before push" fixed.
RecallIsFinal ==
    \A c \in Comment :
        send[c] = "done" /\ recall[c] = "done" =>
            RowsOf(c) = {} /\ \A u \in User : \A id \in shown[u] : id[1] # c
=============================================================================
