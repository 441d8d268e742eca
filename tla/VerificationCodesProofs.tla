---------------------- MODULE VerificationCodesProofs -----------------------
(* Proofs about VerificationCodes, for any codes, any number of requests for *)
(* a code and of tries, and any times and limits.                            *)
EXTENDS VerificationCodes, TLAPS

\* The actions of Next one by one.
LEMMA NextCases ==
    ASSUME [Next]_vars, NEW P,
           \A s \in Sender : Ask(s) => P,
           \A s \in Sender : AskUnread(s) => P,
           \A s \in Sender : \A c \in Code : Mail(s, c) => P,
           \A s \in Sender : Save(s) => P,
           \A t \in Try : \A c \in Code : TooMany(t, c) => P,
           \A t \in Try : \A c \in Code : Wrong(t, c) => P,
           \A t \in Try : \A c \in Code : Right(t, c) => P,
           \A t \in Try : CountFailure(t) => P,
           \A r \in Request : Leave(r) => P,
           Tick => P,
           UNCHANGED vars => P
    PROVE  P
BY DEF Next, Send, Enter

\* The facts about the constants that the steps need.
LEMMA Times ==
    /\ Expiry \in Nat /\ Old \in Nat /\ Never \in Nat
    /\ Old = Expiry + 1 /\ Never = Expiry + 2
    /\ MaxFailed \in Nat /\ FailedCap \in Nat
    /\ Sender \subseteq Request /\ Try \subseteq Request
    /\ Sender \cap Try = {} /\ NoCode \notin Code
BY TimeAssumption, FailedAssumption, RequestAssumption, NoCodeAssumption
DEF Old, Never, Request

-----------------------------------------------------------------------------
\* What is between the mail and the row: a request that is about to save a code has
\* mailed it, and requests for a code are never "right".
SavesMailed ==
    /\ \A s \in Sender : pc[s] \in {"idle", "asked", "unread", "mailed"}
    /\ \A s \in Sender : pc[s] = "mailed" => code[s] \in Code /\ code[s] \in mailed

\* What may be accepted was mailed: the code of the row, and what a try entered that
\* matched it.
AcceptsMailed ==
    /\ row.code # NoCode => row.code \in mailed
    /\ \A t \in Try : pc[t] = "right" => code[t] \in mailed

CodesInv == TypeOK /\ SavesMailed /\ AcceptsMailed

\* A request that moves on is where the type invariant allows it to be.
LEMMA GotoType ==
    ASSUME TypeOK, NEW r \in Request,
           NEW l \in {"idle", "asked", "unread", "mailed", "wrong", "right"},
           NEW c \in Code \cup {NoCode}, Goto(r, l, c)
    PROVE  /\ pc' \in [Request -> {"idle", "asked", "unread", "mailed", "wrong", "right"}]
           /\ code' \in [Request -> Code \cup {NoCode}]
           /\ pc'[r] = l /\ code'[r] = c
           /\ \A q \in Request : q # r => pc'[q] = pc[q] /\ code'[q] = code[q]
BY DEF TypeOK, Goto

\* The invariant, when the row and the mails stay as they are.
LEMMA MovesKeep ==
    ASSUME CodesInv, NEW r \in Request,
           NEW l \in {"idle", "asked", "unread", "wrong", "right"},
           NEW c \in Code \cup {NoCode}, Goto(r, l, c),
           UNCHANGED <<row, mails>>,
           r \in Sender => l \in {"idle", "asked", "unread"},
           l = "right" => c \in mailed
    PROVE  CodesInv'
<1>1. /\ pc' \in [Request -> {"idle", "asked", "unread", "mailed", "wrong", "right"}]
      /\ code' \in [Request -> Code \cup {NoCode}]
      /\ pc'[r] = l /\ code'[r] = c
      /\ \A q \in Request : q # r => pc'[q] = pc[q] /\ code'[q] = code[q]
  BY GotoType DEF CodesInv
<1>2. row' = row /\ mailed' = mailed /\ since' = since
  BY DEF mails
<1>3. TypeOK'
  BY <1>1, <1>2 DEF CodesInv, TypeOK
<1>4. SavesMailed'
  BY <1>1, <1>2, Times DEF CodesInv, SavesMailed
<1>5. AcceptsMailed'
  BY <1>1, <1>2, Times DEF CodesInv, AcceptsMailed
<1> QED
  BY <1>3, <1>4, <1>5 DEF CodesInv

\* A code is mailed while the row is left alone.
LEMMA MailKeeps ==
    ASSUME CodesInv, NEW s \in Sender, NEW c \in Code, Mail(s, c)
    PROVE  CodesInv'
<1>1. /\ pc' \in [Request -> {"idle", "asked", "unread", "mailed", "wrong", "right"}]
      /\ code' \in [Request -> Code \cup {NoCode}]
      /\ pc'[s] = "mailed" /\ code'[s] = c
      /\ \A q \in Request : q # s => pc'[q] = pc[q] /\ code'[q] = code[q]
  BY GotoType, Times DEF CodesInv, Mail
<1>2. row' = row /\ mailed' = mailed \cup {c} /\ since' = since
  BY DEF Mail
<1>3. TypeOK'
  BY <1>1, <1>2 DEF CodesInv, TypeOK
<1>4. SavesMailed'
  BY <1>1, <1>2, Times DEF CodesInv, SavesMailed
<1>5. AcceptsMailed'
  BY <1>1, <1>2, Times DEF CodesInv, AcceptsMailed
<1> QED
  BY <1>3, <1>4, <1>5 DEF CodesInv

\* What is saved was mailed.
LEMMA SaveKeeps ==
    ASSUME CodesInv, NEW s \in Sender, Save(s)
    PROVE  CodesInv'
<1>1. code[s] \in Code /\ code[s] \in mailed
  BY DEF CodesInv, SavesMailed, Save
<1>2. /\ pc' \in [Request -> {"idle", "asked", "unread", "mailed", "wrong", "right"}]
      /\ code' \in [Request -> Code \cup {NoCode}]
      /\ pc'[s] = "idle" /\ code'[s] = NoCode
      /\ \A q \in Request : q # s => pc'[q] = pc[q] /\ code'[q] = code[q]
  BY GotoType, Times DEF CodesInv, Save
<1>3. /\ row' = [code |-> code[s], age |-> 0, failed |-> 0]
      /\ mailed' = mailed
      /\ since' = [since EXCEPT ![code[s]] = 0]
  BY DEF Save
<1>4. TypeOK'
  BY <1>1, <1>2, <1>3, Times DEF CodesInv, TypeOK
<1>5. SavesMailed'
  BY <1>2, <1>3, Times DEF CodesInv, SavesMailed
<1>6. AcceptsMailed'
  BY <1>1, <1>2, <1>3, Times DEF CodesInv, AcceptsMailed
<1> QED
  BY <1>4, <1>5, <1>6 DEF CodesInv

\* A failure that is counted leaves the code of the row.
LEMMA CountKeeps ==
    ASSUME CodesInv, NEW t \in Try, CountFailure(t)
    PROVE  CodesInv'
<1>1. /\ pc' \in [Request -> {"idle", "asked", "unread", "mailed", "wrong", "right"}]
      /\ code' \in [Request -> Code \cup {NoCode}]
      /\ pc'[t] = "idle" /\ code'[t] = NoCode
      /\ \A q \in Request : q # t => pc'[q] = pc[q] /\ code'[q] = code[q]
  BY GotoType, Times DEF CodesInv, CountFailure
<1>2. mailed' = mailed /\ since' = since
  BY DEF CountFailure, mails
<1>3. /\ row' \in [code : Code \cup {NoCode}, age : 0..Old, failed : 0..FailedCap]
      /\ row'.code = row.code
  <2>1. row \in [code : Code \cup {NoCode}, age : 0..Old, failed : 0..FailedCap]
    BY DEF CodesInv, TypeOK
  <2> DEFINE f == IF row.failed = FailedCap THEN row.failed ELSE row.failed + 1
  <2>2. f \in 0..FailedCap
    BY <2>1, Times
  <2>3. CASE row.code = NoCode
    BY <2>1, <2>3 DEF CountFailure
  <2>4. CASE row.code # NoCode
    <3>1. row' = [code |-> row.code, age |-> 0, failed |-> f]
      BY <2>1, <2>4 DEF CountFailure
    <3> HIDE DEF f
    <3> QED
      BY <2>1, <2>2, <3>1, Times
  <2> QED
    BY <2>3, <2>4
<1>4. TypeOK'
  BY <1>1, <1>2, <1>3 DEF CodesInv, TypeOK
<1>5. SavesMailed'
  BY <1>1, <1>2, Times DEF CodesInv, SavesMailed
<1>6. AcceptsMailed'
  BY <1>1, <1>2, <1>3, Times DEF CodesInv, AcceptsMailed
<1> QED
  BY <1>4, <1>5, <1>6 DEF CodesInv

\* So does time.
LEMMA TickKeeps ==
    ASSUME CodesInv, Tick
    PROVE  CodesInv'
<1>1. /\ row' \in [code : Code \cup {NoCode}, age : 0..Old, failed : 0..FailedCap]
      /\ row'.code = row.code
  <2>1. row \in [code : Code \cup {NoCode}, age : 0..Old, failed : 0..FailedCap]
    BY DEF CodesInv, TypeOK
  <2>2. (IF row.age = Old THEN Old ELSE row.age + 1) \in 0..Old
    BY <2>1, Times
  <2> QED
    BY <2>1, <2>2 DEF Tick
<1>2. since' \in [Code -> 0..Never]
  <2>1. ASSUME NEW c \in Code
        PROVE  (IF since[c] >= Old THEN since[c] ELSE since[c] + 1) \in 0..Never
    <3>1. since[c] \in 0..Never
      BY DEF CodesInv, TypeOK
    <3> QED
      BY <3>1, Times
  <2> QED
    BY <2>1 DEF Tick
<1>3. mailed' = mailed /\ pc' = pc /\ code' = code
  BY DEF Tick
<1>4. TypeOK'
  BY <1>1, <1>2, <1>3 DEF CodesInv, TypeOK
<1>5. SavesMailed'
  BY <1>3 DEF CodesInv, SavesMailed
<1>6. AcceptsMailed'
  BY <1>1, <1>3 DEF CodesInv, AcceptsMailed
<1> QED
  BY <1>4, <1>5, <1>6 DEF CodesInv

\* Every step keeps the invariant.
LEMMA CodesStep == CodesInv /\ [Next]_vars => CodesInv'
<1> SUFFICES ASSUME CodesInv, [Next]_vars
             PROVE  CodesInv'
  OBVIOUS
<1>1. ASSUME NEW s \in Sender, Ask(s) \/ AskUnread(s) PROVE CodesInv'
  BY <1>1, MovesKeep, Times DEF Ask, AskUnread
<1>2. ASSUME NEW t \in Try, NEW c \in Code, Wrong(t, c) PROVE CodesInv'
  BY <1>2, MovesKeep, Times DEF Wrong
<1>3. ASSUME NEW t \in Try, NEW c \in Code, Right(t, c) PROVE CodesInv'
  <2>1. c \in mailed
    BY <1>3, Times DEF Right, Matches, CodesInv, AcceptsMailed
  <2> QED
    BY <1>3, <2>1, MovesKeep, Times DEF Right
<1>4. ASSUME NEW r \in Request, Leave(r) PROVE CodesInv'
  BY <1>4, MovesKeep, Times DEF Leave
<1>5. ASSUME UNCHANGED vars PROVE CodesInv'
  BY <1>5 DEF vars, mails, CodesInv, TypeOK, SavesMailed, AcceptsMailed
<1>6. ASSUME NEW t \in Try, NEW c \in Code, TooMany(t, c) PROVE CodesInv'
  BY <1>5, <1>6 DEF TooMany
<1> QED
  BY <1>1, <1>2, <1>3, <1>4, <1>5, <1>6, MailKeeps, SaveKeeps, CountKeeps, TickKeeps,
     NextCases

\* No code is mailed or saved in the beginning.
LEMMA CodesInit == Init => CodesInv
BY Times DEF Init, CodesInv, TypeOK, SavesMailed, AcceptsMailed

\* The row and what the requests hold keep their types: failed_times is counted from
\* zero and never below it, also where tries overlap (createAccount.go:149-165).
THEOREM TypeCorrect == Spec => []TypeOK
<1>1. CodesInv => TypeOK
  BY DEF CodesInv
<1> QED
  BY <1>1, CodesInit, CodesStep, PTL DEF Spec

\* Whatever requests overlap and whichever of them fail on the way, a code that is
\* accepted has been mailed to the address: checkEmail mails first and saves then
\* (checkEmail.go:165-190, unregisterEmail 192-217).
THEOREM CodesWereMailed == Spec => []AcceptedWasMailed
<1>1. CodesInv => AcceptedWasMailed
  BY DEF CodesInv, AcceptsMailed, AcceptedWasMailed
<1> QED
  BY <1>1, CodesInit, CodesStep, PTL DEF Spec

-----------------------------------------------------------------------------
(* What the mail and the answer say (README, section 4), where it is so.   *)

\* The row of the address is the last that was saved, or younger by a failure counted.
SinceInv == \A c \in Code : row.age <= since[c]

\* The row's code was saved when the row was, where no failure is counted.
SavedInv == row.code # NoCode => since[row.code] <= row.age

\* Saving renews row and code alike; only a failure counted renews the row alone.
LEMMA AgesStep ==
    ASSUME CodesInv, SinceInv, [Next]_vars
    PROVE  /\ SinceInv'
           /\ SavedInv /\ row'.failed = 0 => SavedInv'
<1>0. /\ row \in [code : Code \cup {NoCode}, age : 0..Old, failed : 0..FailedCap]
      /\ since \in [Code -> 0..Never]
  BY DEF CodesInv, TypeOK
<1> DEFINE P == SinceInv' /\ (SavedInv /\ row'.failed = 0 => SavedInv')
<1>1. ASSUME row' = row, since' = since PROVE P
  BY <1>1 DEF SinceInv, SavedInv
<1>2. ASSUME NEW s \in Sender, Save(s) PROVE P
  <2>1. code[s] \in Code
    BY <1>2 DEF CodesInv, SavesMailed, Save
  <2>2. row'.age = 0 /\ row'.code = code[s] /\ since' = [since EXCEPT ![code[s]] = 0]
    BY <1>2 DEF Save
  <2>3. since'[code[s]] = 0 /\ \A c \in Code : since'[c] \in Nat
    BY <1>0, <2>1, <2>2, Times
  <2> QED
    BY <2>2, <2>3 DEF SinceInv, SavedInv
<1>3. ASSUME NEW t \in Try, CountFailure(t) PROVE P
  <2>1. since' = since
    BY <1>3 DEF CountFailure, mails
  <2>2. CASE row.code = NoCode
    BY <1>1, <1>3, <2>1, <2>2 DEF CountFailure
  <2>3. CASE row.code # NoCode
    <3>1. /\ row'.age = 0
          /\ row'.failed = IF row.failed = FailedCap THEN row.failed ELSE row.failed + 1
      BY <1>0, <1>3, <2>3 DEF CountFailure
    <3>2. row'.failed # 0
      BY <1>0, <3>1, FailedAssumption
    <3> QED
      BY <1>0, <2>1, <3>1, <3>2, Times DEF SinceInv
  <2> QED
    BY <2>2, <2>3
<1>4. ASSUME Tick PROVE P
  <2>1. /\ row'.age = (IF row.age = Old THEN Old ELSE row.age + 1) /\ row'.code = row.code
        /\ \A c \in Code : since'[c] = IF since[c] >= Old THEN since[c] ELSE since[c] + 1
    BY <1>0, <1>4 DEF Tick
  <2>2. ASSUME NEW c \in Code
        PROVE  /\ row.age <= since[c] => row'.age <= since'[c]
               /\ since[c] <= row.age => since'[c] <= row'.age
    <3>1. row.age \in 0..Old /\ since[c] \in 0..Never
      BY <1>0
    <3> QED
      BY <2>1, <3>1, Times
  <2>3. row.code # NoCode => row.code \in Code
    BY <1>0
  <2> QED
    BY <2>1, <2>2, <2>3 DEF SinceInv, SavedInv
<1> QED
  BY <1>1, <1>2, <1>3, <1>4, NextCases
     DEF Ask, AskUnread, Mail, TooMany, Wrong, Right, Leave, vars, mails

\* In the beginning no code was saved.
LEMMA AgesInit == Init => SinceInv /\ SavedInv
BY Times DEF Init, SinceInv, SavedInv

\* "This is your verification code, valid for 12 hours" (mail.go:26): no longer than that, as
\* long as no failed try was counted in the row.
THEOREM CodesExpire == Spec /\ [](row.failed = 0) => CodesLastTwelveHours
<1>1. CodesInv /\ SinceInv /\ SavedInv /\ (row.failed = 0)' /\ [Next]_vars
      => SinceInv' /\ SavedInv'
  BY AgesStep
<1>2. CodesInv /\ SavedInv /\ [Next]_vars =>
        [\A t \in Try : pc[t] = "idle" /\ pc'[t] = "right" => since[code'[t]] <= Expiry]_vars
  <2> SUFFICES ASSUME CodesInv, SavedInv, [Next]_vars,
                      NEW t \in Try, pc[t] = "idle", pc'[t] = "right"
               PROVE  since[code'[t]] <= Expiry
    OBVIOUS
  <2>1. PICK c \in Code : Right(t, c)
    <3> DEFINE P == \E c \in Code : Right(t, c)
    <3>1. ASSUME NEW r \in Request,
                 NEW l \in {"idle", "asked", "unread", "mailed", "wrong", "right"},
                 NEW c \in Code \cup {NoCode}, Goto(r, l, c)
          PROVE  r = t /\ l = "right"
      BY <3>1, GotoType, Times DEF CodesInv
    <3>2. ASSUME NEW q \in Try, NEW c \in Code, Right(q, c) PROVE P
      <4>1. q = t
        BY <3>1, <3>2, Times DEF Right
      <4> QED
        BY <3>2, <4>1
    <3>3. ASSUME NEW q \in Try, NEW c \in Code, TooMany(q, c) \/ Wrong(q, c) PROVE P
      BY <3>1, <3>3, Times DEF TooMany, Wrong, vars
    <3>4. ASSUME NEW q \in Request, NEW c \in Code, Mail(q, c) PROVE P
      BY <3>1, <3>4 DEF Mail
    <3>5. ASSUME NEW q \in Request,
                 Ask(q) \/ AskUnread(q) \/ Leave(q) \/ Save(q) \/ CountFailure(q) PROVE P
      BY <3>1, <3>5 DEF Ask, AskUnread, Leave, Save, CountFailure
    <3>6. CASE Tick \/ UNCHANGED vars
      BY <3>6 DEF Tick, vars
    <3>7. P
      BY <3>2, <3>3, <3>4, <3>5, <3>6, NextCases, Times
    <3> QED
      BY <3>7
  <2>2. row.code = c /\ row.age <= Expiry /\ code'[t] = c
    BY <2>1, GotoType, Times DEF Right, Matches, CodesInv
  <2>3. since[c] <= row.age /\ since[c] \in Nat /\ row.age \in Nat
    BY <2>2, Times DEF SavedInv, CodesInv, TypeOK
  <2> QED
    BY <2>2, <2>3, Times
<1> QED
  BY <1>1, <1>2, AgesInit, CodesInit, CodesStep, PTL DEF Spec, CodesLastTwelveHours

\* A mail to an address comes a Window after every code that was saved for it, unless the
\* request could not read the row.
MailsApart ==
    [][\A s \in Sender : pc[s] # "mailed" /\ pc'[s] = "mailed" =>
            pc[s] = "unread" \/ \A c \in Code : since[c] >= Window]_vars

\* One request for a code is under way at a time.
SendersApart ==
    \A s, z \in Sender : s # z => pc[s] = "idle" \/ pc[z] = "idle"

\* What the limit of checkEmail found is so when it mails.
AskedInv ==
    \A s \in Sender : pc[s] = "asked" => \A c \in Code : since[c] >= Window

\* Nobody else saves a code between the test and the mail, while requests are apart.
LEMMA AskedStep ==
    ASSUME CodesInv, SinceInv, AskedInv, SendersApart, [Next]_vars
    PROVE  AskedInv'
<1>0. since \in [Code -> 0..Never] /\ row.age \in 0..Old /\ Window \in Nat
  BY TimeAssumption DEF CodesInv, TypeOK
<1>1. ASSUME NEW r \in Request,
             NEW l \in {"idle", "asked", "unread", "mailed", "wrong", "right"},
             NEW c \in Code \cup {NoCode}, Goto(r, l, c), since' = since,
             l = "asked" => \A d \in Code : since[d] >= Window
      PROVE  AskedInv'
  BY <1>1, GotoType, Times DEF CodesInv, AskedInv
<1>2. ASSUME NEW s \in Sender, Ask(s) PROVE AskedInv'
  <2>1. \A d \in Code : since[d] >= Window
    BY <1>0, <1>2, Times DEF Ask, SinceInv
  <2> QED
    BY <1>1, <1>2, <2>1, Times DEF Ask, mails
<1>3. ASSUME NEW s \in Sender, Save(s) PROVE AskedInv'
  <2>1. /\ \A z \in Sender : z # s => pc[z] = "idle"
        /\ pc'[s] = "idle" /\ \A q \in Request : q # s => pc'[q] = pc[q]
    BY <1>3, GotoType, Times DEF Save, SendersApart, CodesInv
  <2> QED
    BY <2>1, Times DEF AskedInv
<1>4. ASSUME Tick PROVE AskedInv'
  <2>1. \A c \in Code : since'[c] \in Nat /\ since'[c] >= since[c]
    BY <1>0, <1>4, Times DEF Tick
  <2> QED
    BY <1>0, <1>4, <2>1, Times DEF AskedInv, Tick
<1>5. ASSUME NEW s \in Sender, NEW c \in Code, Mail(s, c) PROVE AskedInv'
  BY <1>1, <1>5, Times DEF Mail
<1>6. ASSUME NEW t \in Try, NEW c \in Code, Wrong(t, c) \/ Right(t, c) PROVE AskedInv'
  BY <1>1, <1>6, Times DEF Wrong, Right, mails
<1>7. ASSUME NEW r \in Request, CountFailure(r) \/ Leave(r) PROVE AskedInv'
  BY <1>1, <1>7, Times DEF CountFailure, Leave, mails
<1>8. ASSUME UNCHANGED vars PROVE AskedInv'
  BY <1>8 DEF vars, mails, AskedInv
<1>9. ASSUME NEW t \in Try, NEW c \in Code, TooMany(t, c) PROVE AskedInv'
  BY <1>8, <1>9 DEF TooMany
<1>10. ASSUME NEW s \in Sender, AskUnread(s) PROVE AskedInv'
  BY <1>1, <1>10, Times DEF AskUnread, mails
<1> QED
  BY <1>2, <1>3, <1>4, <1>5, <1>6, <1>7, <1>8, <1>9, <1>10, NextCases, Times

\* What is mailed was asked for: mails come from requests that passed the limit.
LEMMA MailedWasAsked ==
    ASSUME CodesInv, [Next]_vars, NEW s \in Sender, pc[s] # "mailed", pc'[s] = "mailed"
    PROVE  pc[s] \in {"asked", "unread"}
<1> DEFINE P == pc[s] \in {"asked", "unread"}
<1>1. ASSUME NEW r \in Request,
             NEW l \in {"idle", "asked", "unread", "mailed", "wrong", "right"},
             NEW c \in Code \cup {NoCode}, Goto(r, l, c)
      PROVE  r = s /\ l = "mailed"
  BY <1>1, GotoType, Times DEF CodesInv
<1>2. ASSUME NEW q \in Sender, NEW c \in Code, Mail(q, c) PROVE P
  BY <1>1, <1>2, Times DEF Mail
<1>3. ASSUME NEW q \in Try, NEW c \in Code, TooMany(q, c) PROVE P
  BY <1>3 DEF TooMany, vars
<1>4. ASSUME NEW q \in Try, NEW c \in Code, Wrong(q, c) PROVE P
  <2>1. q \in Request /\ c \in Code \cup {NoCode} /\ Goto(q, "wrong", c)
    BY <1>4, Times DEF Wrong
  <2> QED
    BY <1>1, <2>1
<1>5. ASSUME NEW q \in Try, NEW c \in Code, Right(q, c) PROVE P
  <2>1. q \in Request /\ c \in Code \cup {NoCode} /\ Goto(q, "right", c)
    BY <1>5, Times DEF Right
  <2> QED
    BY <1>1, <2>1
<1>6. ASSUME NEW q \in Request,
             Ask(q) \/ AskUnread(q) \/ Leave(q) \/ Save(q) \/ CountFailure(q) PROVE P
  BY <1>1, <1>6 DEF Ask, AskUnread, Leave, Save, CountFailure
<1>7. CASE Tick \/ UNCHANGED vars
  BY <1>7 DEF Tick, vars
<1> QED
  BY <1>2, <1>3, <1>4, <1>5, <1>6, <1>7, NextCases, Times

\* What the limit of checkEmail.go:100 comes to, which is not the five minutes its answer
\* names: no mail within 60 seconds of the last code, as long as the requests for one address
\* do not overlap, but for those that could not read the row (the error of line 99 is
\* discarded).
THEOREM MailsAreApart == Spec /\ []SendersApart => MailsApart
<1>1. Init => AskedInv
  BY Times DEF Init, AskedInv
<1>2. CodesInv /\ SinceInv /\ AskedInv /\ SendersApart /\ [Next]_vars => SinceInv' /\ AskedInv'
  BY AgesStep, AskedStep
<1>3. CodesInv /\ AskedInv /\ [Next]_vars =>
        [\A s \in Sender : pc[s] # "mailed" /\ pc'[s] = "mailed" =>
            pc[s] = "unread" \/ \A c \in Code : since[c] >= Window]_vars
  BY MailedWasAsked DEF AskedInv
<1> QED
  BY <1>1, <1>2, <1>3, AgesInit, CodesInit, CodesStep, PTL DEF Spec, MailsApart
=============================================================================
