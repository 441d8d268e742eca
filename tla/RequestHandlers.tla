-------------------------- MODULE RequestHandlers --------------------------
(***************************************************************************)
(* What the handlers that write a post, a comment or a report wait for     *)
(* (pkg/route/contents/routeApiPOST.go): the row lock of the post, the     *)
(* goroutine that uploads the picture, and the unbuffered channel of the   *)
(* Telegram bot (pkg/bot/telegram.go).  What they write is in Moderation.  *)
(*                                                                         *)
(* Time is counted in ticks of which WaitTicks make the 15 seconds of      *)
(* time.After.  Goroutines run at once: a tick passes only when none of    *)
(* them can move, while uploads and Telegram calls take any time.          *)
(***************************************************************************)
EXTENDS Naturals

CONSTANTS
    Request,    \* HTTP requests
    Kind,       \* what each one is: "post", "comment" or "report"
    Telegram,   \* viper's enable_telegram
    WaitTicks,  \* 15 seconds
    NoRequest   \* nobody holds the row lock

ASSUME KindAssumption == Kind \in [Request -> {"post", "comment", "report"}]
ASSUME TelegramAssumption == Telegram \in BOOLEAN
ASSUME WaitTicksAssumption == WaitTicks \in Nat \ {0}
ASSUME NoRequestAssumption == NoRequest \notin Request

VARIABLES
    pc,         \* where the handler is
    image,      \* its picture: "none", "good" or "bad" (SaveImage refuses it)
    upload,     \* the uploading goroutine
    signal,     \* messages in uploadChan, of capacity 1
    cancelled,  \* the context of the upload is done
    age,        \* ticks the handler has waited for the picture
    gaveUp,     \* it logged "image upload timeout"
    row,        \* who holds the row lock of the post
    bot         \* the goroutine that reads TgMessageChannel

vars == <<pc, image, upload, signal, cancelled, age, gaveUp, row, bot>>

TypeOK ==
    /\ pc \in [Request -> {"new", "lock", "body", "wait", "telegram", "done"}]
    /\ image \in [Request -> {"none", "good", "bad"}]
    /\ upload \in [Request -> {"none", "uploading", "uploaded", "ended"}]
    /\ signal \in [Request -> 0..1]
    /\ cancelled \in [Request -> BOOLEAN]
    /\ age \in [Request -> 0..WaitTicks]
    /\ gaveUp \in [Request -> BOOLEAN]
    /\ row \in Request \cup {NoRequest}
    /\ bot \in {"idle", "sending"}

Init ==
    /\ pc = [r \in Request |-> "new"]
    /\ image \in [Request -> {"none", "good", "bad"}]
    /\ \A r \in Request : Kind[r] = "report" => image[r] = "none"
    /\ upload = [r \in Request |-> "none"]
    /\ signal = [r \in Request |-> 0]
    /\ cancelled = [r \in Request |-> FALSE]
    /\ age = [r \in Request |-> 0]
    /\ gaveUp = [r \in Request |-> FALSE]
    /\ row = NoRequest
    /\ bot = "idle"

Goto(r, l) == pc' = [pc EXCEPT ![r] = l]

\* After the answer was written: a risk word in the text, which any text may
\* have, is reported to Telegram.
AfterAnswer == {"done"} \cup IF Telegram THEN {"telegram"} ELSE {}

\* Where the handler goes when it has written.  A post with a bad picture is
\* refused before.  A comment with one is not saved, but SaveImage's error holds
\* no Go error: its transaction commits and the handler goes on as if it were.
Written(r) ==
    CASE image[r] = "good" -> {"wait"}
      [] Kind[r] = "report" -> {"done"}
      [] Kind[r] = "post" /\ image[r] = "bad" -> {"done"}
      [] OTHER -> AfterAnswer

-----------------------------------------------------------------------------
(* sendPost: SavePost, and with it the goroutine of the upload.            *)

\* Mutant: the context is cancelled at once, as if cancel were not deferred.
SavePostCancelled(r) ==
    /\ Kind[r] = "post"
    /\ pc[r] = "new"
    /\ \E l \in Written(r) : Goto(r, l)
    /\ upload' = [upload EXCEPT ![r] = IF image[r] = "good" THEN "uploading" ELSE @]
    /\ cancelled' = [cancelled EXCEPT ![r] = TRUE]
    /\ UNCHANGED <<image, signal, age, gaveUp, row, bot>>

SavePost(r) ==
    /\ Kind[r] = "post"
    /\ pc[r] = "new"
    /\ \E l \in Written(r) : Goto(r, l)
    /\ upload' = [upload EXCEPT ![r] = IF image[r] = "good" THEN "uploading" ELSE @]
    /\ UNCHANGED <<image, signal, cancelled, age, gaveUp, row, bot>>

-----------------------------------------------------------------------------
(* The transactions of sendComment and handleReport take the row lock.     *)

BeginTransaction(r) ==
    /\ Kind[r] # "post"
    /\ pc[r] = "new"
    /\ Goto(r, "lock")
    /\ UNCHANGED <<image, upload, signal, cancelled, age, gaveUp, row, bot>>

LockRow(r) ==
    /\ pc[r] = "lock"
    /\ row = NoRequest
    /\ row' = r
    \* handleReport tells Telegram of the report inside its transaction.
    /\ Goto(r, IF Kind[r] = "report" /\ Telegram THEN "telegram" ELSE "body")
    /\ upload' = [upload EXCEPT ![r] = IF image[r] = "good" THEN "uploading" ELSE @]
    /\ UNCHANGED <<image, signal, cancelled, age, gaveUp, bot>>

\* The closure returns: sendComment's deferred cancel runs, then the commit.
\* The handler goes on to wait for the picture.
Commit(r) ==
    /\ pc[r] = "body"
    /\ row' = NoRequest
    /\ cancelled' = [cancelled EXCEPT ![r] = Kind[r] = "comment"]
    /\ \E l \in Written(r) : Goto(r, l)
    /\ UNCHANGED <<image, upload, signal, age, gaveUp, bot>>

\* The closure returns an error (the row is not there, the database fails): the
\* handler has answered already and ends.
RollBack(r) ==
    /\ pc[r] = "body"
    /\ row' = NoRequest
    /\ cancelled' = [cancelled EXCEPT ![r] = Kind[r] = "comment"]
    /\ Goto(r, "done")
    /\ UNCHANGED <<image, upload, signal, age, gaveUp, bot>>

-----------------------------------------------------------------------------
(* The uploading goroutine.                                                *)

\* s3.Upload returns, with or without an error.  That it returns in the very
\* tick in which the handler gives up is left out.
Uploaded(r) ==
    /\ upload[r] = "uploading"
    /\ ~(pc[r] = "wait" /\ age[r] = WaitTicks)
    /\ upload' = [upload EXCEPT ![r] = "uploaded"]
    /\ UNCHANGED <<pc, image, signal, cancelled, age, gaveUp, row, bot>>

\* Mutant: an unbuffered channel, whose sender waits for the handler.
SignalUnbuffered(r) ==
    /\ upload[r] = "uploaded"
    /\ pc[r] = "wait"
    /\ upload' = [upload EXCEPT ![r] = "ended"]
    /\ signal' = [signal EXCEPT ![r] = 1]
    /\ UNCHANGED <<pc, image, cancelled, age, gaveUp, row, bot>>

\* Mutant: the channel has room for more than one message.
SignalTwice(r) ==
    /\ upload[r] = "uploaded"
    /\ upload' = [upload EXCEPT ![r] = "ended"]
    /\ signal' = [signal EXCEPT ![r] = IF cancelled[r] THEN 0 ELSE 2]
    /\ UNCHANGED <<pc, image, cancelled, age, gaveUp, row, bot>>

\* The select: `default` sends only if ctx.Done is not ready.
Signal(r) ==
    /\ upload[r] = "uploaded"
    /\ upload' = [upload EXCEPT ![r] = "ended"]
    /\ signal' = [signal EXCEPT ![r] = IF cancelled[r] THEN 0 ELSE 1]
    /\ UNCHANGED <<pc, image, cancelled, age, gaveUp, row, bot>>

-----------------------------------------------------------------------------
(* The handler waits for the picture, answers and reports to Telegram.     *)

Received(r) ==
    /\ pc[r] = "wait"
    /\ signal[r] = 1
    /\ signal' = [signal EXCEPT ![r] = 0]
    /\ \E l \in AfterAnswer : Goto(r, l)
    /\ UNCHANGED <<image, upload, cancelled, age, gaveUp, row, bot>>

\* Mutant: the timer only fires for uploads that have finished.
GiveUpLate(r) ==
    /\ pc[r] = "wait"
    /\ age[r] = WaitTicks
    /\ upload[r] = "ended"
    /\ gaveUp' = [gaveUp EXCEPT ![r] = TRUE]
    /\ \E l \in AfterAnswer : Goto(r, l)
    /\ UNCHANGED <<image, upload, signal, cancelled, age, row, bot>>

GiveUp(r) ==
    /\ pc[r] = "wait"
    /\ age[r] = WaitTicks
    /\ signal[r] = 0
    /\ gaveUp' = [gaveUp EXCEPT ![r] = TRUE]
    /\ \E l \in AfterAnswer : Goto(r, l)
    /\ UNCHANGED <<image, upload, signal, cancelled, age, row, bot>>

\* The rendezvous with the bot's goroutine.  A report goes on with its
\* transaction; the others are done, and their deferred calls run.
TellBot(r) ==
    /\ pc[r] = "telegram"
    /\ bot = "idle"
    /\ bot' = "sending"
    /\ Goto(r, IF Kind[r] = "report" THEN "body" ELSE "done")
    /\ UNCHANGED <<image, upload, signal, cancelled, age, gaveUp, row>>

\* sendPost returns: its deferred cancel.
Return(r) ==
    /\ pc[r] = "done"
    /\ Kind[r] = "post"
    /\ ~cancelled[r]
    /\ cancelled' = [cancelled EXCEPT ![r] = TRUE]
    /\ UNCHANGED <<pc, image, upload, signal, age, gaveUp, row, bot>>

\* External: b.Send to the Telegram service returns.
BotSent ==
    /\ bot = "sending"
    /\ bot' = "idle"
    /\ UNCHANGED <<pc, image, upload, signal, cancelled, age, gaveUp, row>>

-----------------------------------------------------------------------------
\* Neither the handler of r nor its uploading goroutine can move.
Blocked(r) ==
    /\ \/ pc[r] = "new"
       \/ pc[r] = "lock" /\ row # NoRequest
       \/ pc[r] = "wait" /\ signal[r] = 0 /\ age[r] < WaitTicks
       \/ pc[r] = "telegram" /\ bot # "idle"
       \/ pc[r] = "done" /\ (Kind[r] = "post" => cancelled[r])
    /\ upload[r] # "uploaded"

Tick ==
    /\ \A r \in Request : Blocked(r)
    /\ \E r \in Request : pc[r] = "wait"
    /\ age' = [r \in Request |-> IF pc[r] = "wait" THEN age[r] + 1 ELSE age[r]]
    /\ UNCHANGED <<pc, image, upload, signal, cancelled, gaveUp, row, bot>>

Arrive(r) == SavePost(r) \/ BeginTransaction(r)

Handle(r) ==
    \/ LockRow(r) \/ Commit(r) \/ RollBack(r) \/ Received(r) \/ GiveUp(r)
    \/ TellBot(r) \/ Return(r)

\* Every request is over and no goroutine of theirs is left.
Finished ==
    /\ \A r \in Request : pc[r] = "done" /\ upload[r] \in {"none", "ended"}
    /\ UNCHANGED vars

Next ==
    \/ \E r \in Request : Arrive(r) \/ Handle(r) \/ Uploaded(r) \/ Signal(r)
    \/ BotSent \/ Tick \/ Finished

\* As long as a goroutine can run, one does; time passes, and a Telegram call
\* returns (the library bounds it by a minute).  An upload need not.
Work == (\E r \in Request : Handle(r) \/ Signal(r)) \/ BotSent \/ Tick
Fairness == WF_vars(Work)

Spec == Init /\ [][Next]_vars /\ Fairness

-----------------------------------------------------------------------------
(* What a client may expect of the handlers.                               *)

\* sendPost gives up waiting only for a picture that is still on its way to the
\* store (routeApiPOST.go:112, "wait until upload complete"): one that was uploaded
\* in time is answered at once, not after 15 seconds.
NoFalseTimeout ==
    [][\A r \in Request : ~gaveUp[r] /\ gaveUp'[r] =>
        upload[r] = "uploading" \/ Kind[r] # "post"]_vars

-----------------------------------------------------------------------------
(* What the code does not satisfy, though it says so (README, section 4).  *)

\* sendComment, too, gives up only on a picture that is on its way
\* (routeApiPOST.go:297, "wait until upload complete").
CommentsWait ==
    [][\A r \in Request : ~gaveUp[r] /\ gaveUp'[r] =>
        upload[r] = "uploading" \/ Kind[r] # "comment"]_vars
=============================================================================
