------------------------- MODULE VerificationCodes --------------------------
(***************************************************************************)
(* The verification codes of one e-mail address: checkEmail and            *)
(* unregisterEmail (pkg/route/security/checkEmail.go) mail a new code and  *)
(* save it, createAccount and deleteAccount ask for it.  All of them use   *)
(* the one row of the address in verification_codes, by single statements  *)
(* outside any transaction.                                                *)
(*                                                                         *)
(* Time is the age of the row's updated_at and of the saved codes; an age  *)
(* stops at Old, when nothing in the code tells it from an older one.     *)
(* Whether the address is registered, the captcha and the limit per IP     *)
(* are left out: each is one of the ways to Leave.                         *)
(***************************************************************************)
EXTENDS Integers, FiniteSets

CONSTANTS
    Code,       \* what GenCode draws from
    NoCode,     \* no row, or nothing entered
    Sender,     \* requests that ask for a code, under way at a time
    Try,        \* requests that enter one
    Window,     \* 60 s: no code is mailed to an address with a younger row
    Promise,    \* the five minutes the answer speaks of
    Expiry,     \* 12 h, as the mail says
    MaxFailed,  \* 10
    FailedCap   \* bound: where the model stops to count

ASSUME NoCodeAssumption == NoCode \notin Code
ASSUME TimeAssumption ==
    /\ Window \in Nat /\ Promise \in Nat /\ Expiry \in Nat
    /\ 0 < Window /\ Window <= Promise /\ Promise <= Expiry
ASSUME FailedAssumption ==
    MaxFailed \in Nat /\ FailedCap \in Nat /\ 0 < MaxFailed /\ MaxFailed <= FailedCap
ASSUME RequestAssumption == Sender \cap Try = {}

Request == Sender \cup Try
Old == Expiry + 1
Never == Expiry + 2     \* of a code that was not saved

VARIABLES
    row,        \* the row of the address: code, age of updated_at, failed_times
    mailed,     \* codes mailed to the address
    since,      \* how long ago each code was saved, and said to be sent
    pc,
    code        \* the code a request generated or entered

mails == <<mailed, since>>
vars == <<row, mailed, since, pc, code>>

TypeOK ==
    /\ row \in [code : Code \cup {NoCode}, age : 0..Old, failed : 0..FailedCap]
    /\ mailed \in SUBSET Code
    /\ since \in [Code -> 0..Never]
    /\ pc \in [Request -> {"idle", "asked", "unread", "mailed", "wrong", "right"}]
    /\ code \in [Request -> Code \cup {NoCode}]

\* No row reads as the zero time and no failure.
Init ==
    /\ row = [code |-> NoCode, age |-> Old, failed |-> 0]
    /\ mailed = {}
    /\ since = [c \in Code |-> Never]
    /\ pc = [r \in Request |-> "idle"]
    /\ code = [r \in Request |-> NoCode]

Goto(r, l, c) ==
    /\ pc' = [pc EXCEPT ![r] = l]
    /\ code' = [code EXCEPT ![r] = c]

-----------------------------------------------------------------------------
(* checkEmail, unregisterEmail.                                            *)

\* checkEmailRateLimitVerificationCode lets the request through.
Ask(s) ==
    /\ pc[s] = "idle"
    /\ row.age >= Window
    /\ Goto(s, "asked", NoCode)
    /\ UNCHANGED <<row, mails>>

\* Its error is discarded: a row that cannot be read has the zero time, and the
\* request passes.
AskUnread(s) ==
    /\ pc[s] = "idle"
    /\ Goto(s, "unread", NoCode)
    /\ UNCHANGED <<row, mails>>

\* Mutant: the code is saved although the mail could not be sent.
MailFailsUnseen(s, c) ==
    /\ pc[s] \in {"asked", "unread"}
    /\ Goto(s, "mailed", c)
    /\ UNCHANGED <<row, mails>>

\* SendValidationEmail went well.
Mail(s, c) ==
    /\ pc[s] \in {"asked", "unread"}
    /\ mailed' = mailed \cup {c}
    /\ Goto(s, "mailed", c)
    /\ UNCHANGED <<row, since>>

\* INSERT .. ON DUPLICATE KEY UPDATE of every column.
Save(s) ==
    /\ pc[s] = "mailed"
    /\ row' = [code |-> code[s], age |-> 0, failed |-> 0]
    /\ since' = [since EXCEPT ![code[s]] = 0]
    /\ Goto(s, "idle", NoCode)
    /\ UNCHANGED mailed

-----------------------------------------------------------------------------
(* createAccount, deleteAccount.                                           *)

Locked == row.failed >= MaxFailed /\ row.age <= Expiry
Matches(c) == row.code = c /\ row.age <= Expiry

\* Mutant: a try refused for too many failures is counted as one more.
TooManyCounts(t, c) ==
    /\ pc[t] = "idle"
    /\ Locked
    /\ Goto(t, "wrong", c)
    /\ UNCHANGED <<row, mails>>

\* ValidCodeTooMuchFailed: the request ends.
TooMany(t, c) ==
    /\ pc[t] = "idle"
    /\ Locked
    /\ UNCHANGED vars

\* ValidCodeInvalid is answered; the failure is still to be counted.
Wrong(t, c) ==
    /\ pc[t] = "idle"
    /\ ~Locked
    /\ ~Matches(c)
    /\ Goto(t, "wrong", c)
    /\ UNCHANGED <<row, mails>>

\* Mutant: the failures are counted down.
CountDown(t) ==
    /\ pc[t] = "wrong"
    /\ row' = IF row.code = NoCode THEN row ELSE [row EXCEPT !.age = 0, !.failed = @ - 1]
    /\ Goto(t, "idle", NoCode)
    /\ UNCHANGED mails

\* UPDATE failed_times = failed_times + 1: gorm's Update sets updated_at too.
CountFailure(t) ==
    /\ pc[t] = "wrong"
    /\ row' = IF row.code = NoCode THEN row
              ELSE [row EXCEPT !.age = 0,
                               !.failed = IF @ = FailedCap THEN @ ELSE @ + 1]
    /\ Goto(t, "idle", NoCode)
    /\ UNCHANGED mails

Right(t, c) ==
    /\ pc[t] = "idle"
    /\ ~Locked
    /\ Matches(c)
    /\ Goto(t, "right", c)
    /\ UNCHANGED <<row, mails>>

-----------------------------------------------------------------------------
\* The mail or the database failed, or the request has done its work.
Leave(r) ==
    /\ pc[r] # "idle"
    /\ Goto(r, "idle", NoCode)
    /\ UNCHANGED <<row, mails>>

\* Time passes (external).
Tick ==
    /\ row' = [row EXCEPT !.age = IF @ = Old THEN Old ELSE @ + 1]
    /\ since' = [c \in Code |-> IF since[c] >= Old THEN since[c] ELSE since[c] + 1]
    /\ UNCHANGED <<mailed, pc, code>>

Send(s) == Ask(s) \/ AskUnread(s) \/ Save(s) \/ \E c \in Code : Mail(s, c)
Enter(t) ==
    \/ CountFailure(t)
    \/ \E c \in Code : TooMany(t, c) \/ Wrong(t, c) \/ Right(t, c)

Next ==
    \/ \E s \in Sender : Send(s)
    \/ \E t \in Try : Enter(t)
    \/ \E r \in Request : Leave(r)
    \/ Tick

\* Nothing is assumed of the requests, which may come at any rate.
Spec == Init /\ [][Next]_vars /\ WF_vars(Tick)

-----------------------------------------------------------------------------
(* What the mails and answers tell the user.                               *)

\* A code that could not be mailed is never in force: the mail goes out before
\* the row is written, so whatever is accepted has reached the address.
AcceptedWasMailed ==
    \A t \in Try : pc[t] = "right" => code[t] \in mailed

\* Ten failures lock the address only for a time, however many tries go on
\* coming and however they overlap: a refused try must not renew the lock,
\* although a counted one renews updated_at.
LockoutEnds == Locked ~> ~Locked

(* What the code does not satisfy, though it says so (README, section 4).  *)

\* "This is your verification code, valid for 12 hours" (mail.go:26).
CodesLastTwelveHours ==
    [][\A t \in Try : pc[t] = "idle" /\ pc'[t] = "right" => since[code'[t]] <= Expiry]_vars

\* "No verification code can be sent again within five minutes"
\* (checkEmail.go:188, 215).  Said of requests that could read the row.
NoRepeatInFiveMinutes ==
    [][\A s \in Sender : pc[s] = "asked" /\ pc'[s] = "mailed" =>
            \A c \in Code : since[c] >= Promise]_vars
=============================================================================
