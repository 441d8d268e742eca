------------------------- MODULE RegistrationProofs -------------------------
(* Proofs about Registration, for any set of addresses, v2 users, passwords *)
(* and requests and any number of ids.                                     *)
EXTENDS Registration, FiniteSetTheorems, TLAPS

\* What a request has at hand where it uses it.
LocalsInv ==
    \A h \in Handler :
        /\ pc[h] # "idle" => mail[h] \in Asks[h]
        /\ pc[h] \in {"commit", "save"} => user[h] \in Id
        /\ pc[h] \in {"find", "insert", "user", "commit"} => h \in Creator
        /\ pc[h] \in {"read", "drop", "dropmail"} => h \in Deleter
        /\ pc[h] = "save" => h \in Changer

\* The rows of users are of Init or were inserted with an id of their own.
RowsInv ==
    /\ \A u \in users : u.id <= lastId
    /\ \A u, v \in users : u.id = v.id => u = v

\* A transaction that has written or read a row of users for update holds its lock, and
\* a new id is known to the one that drew it.
UserLockInv ==
    \A h \in Handler :
        /\ pc[h] \in {"commit", "save"} => userLock[user[h]] = h
        /\ pc[h] = "commit" => user[h] <= lastId
        /\ pc[h] \in {"insert", "user", "drop", "dropmail"} =>
             user[h] = NoUser \/ user[h] \in {u.id : u \in users}
        /\ pc[h] = "save" => user[h] \in {u.id : u \in users}

\* The row a registration or a change of the password found is one of its address; an
\* unregistration's need not be.
FoundInv ==
    \A h \in Handler : \A u \in users :
        /\ pc[h] \in {"insert", "user", "commit", "save"}
        /\ u.id = user[h]
        => u.email = mail[h]

RequestInv == TypeOK /\ LocalsInv /\ RowsInv /\ UserLockInv /\ FoundInv

-----------------------------------------------------------------------------
\* The actions of Next one by one.
LEMMA NextCases ==
    ASSUME Next, NEW P,
           \A h \in Handler : RollBack(h) => P,
           \A h \in Handler : \A e \in Asks[h] : Check(h, e) => P,
           \A h \in Creator : FindOld(h) => P,
           \A h \in Creator : InsertEmail(h) => P,
           \A h \in Creator : InsertDuplicate(h) => P,
           \A h \in Creator : CreateUser(h) => P,
           \A h \in Creator : UpdateOld(h) => P,
           \A h \in Creator : CommitCreate(h) => P,
           \A h \in Changer : \A u \in users : LockUser(h, u) => P,
           \A h \in Changer : CommitChange(h) => P,
           \A h \in Deleter : \A u \in users : ReadUser(h, u) => P,
           \A h \in Deleter : DeleteUser(h) => P,
           \A h \in Deleter : DeleteEmail(h) => P,
           UNCHANGED vars => P
    PROVE  P
BY DEF Next, Create, Change, Delete, Refuse

\* The kinds of requests are apart.
LEMMA HandlerFacts ==
    /\ Creator \subseteq Handler /\ Changer \subseteq Handler /\ Deleter \subseteq Handler
    /\ NoTx \notin Handler
    /\ \A h \in Creator : h \notin Changer /\ h \notin Deleter
    /\ \A h \in Changer : h \notin Deleter
    /\ \A h \in Handler : Asks[h] \subseteq Email
BY HandlerAssumption, AsksAssumption DEF Handler

\* The ids of v2 are ids.
LEMMA OldIdFacts == OldIds \subseteq Id /\ Id \subseteq 0..MaxId /\ 0 \in 0..MaxId
BY OldIdAssumption, MaxIdAssumption DEF OldIds, Id

\* What the end of a transaction does to the requests: a registration leaves those that
\* would delete its row by the nonce it had without one.
Ends(h) ==
    /\ pc' = [pc EXCEPT ![h] = "idle"]
    /\ mail' = [mail EXCEPT ![h] = NoEmail]
    /\ emailLock' = [e \in Email |-> IF emailLock[e] = h THEN NoTx ELSE emailLock[e]]
    /\ userLock' = [i \in Id |-> IF userLock[i] = h THEN NoTx ELSE userLock[i]]
    /\ \A g \in Handler : g # h =>
        \/ user'[g] = user[g]
        \/ /\ pc[g] = "drop" /\ user'[g] = NoUser
           /\ CommitCreate(h) /\ user[g] = user[h]

\* Every action that ends a request does that.
LEMMA EndsIt ==
    ASSUME NEW h \in Handler, End(h) \/ CommitCreate(h)
    PROVE  Ends(h)
BY HandlerFacts DEF End, EndWith, Goto, Renonced, CommitCreate, Ends

\* The rows a registration commits.
LEMMA AddedRow ==
    ASSUME TypeOK, NEW h \in Handler, mail[h] \in Email, user[h] \in Id,
           NEW p \in Password, NEW u \in Added(h, p)
    PROVE  /\ u \in User /\ u.id = user[h] /\ u.password = p
           /\ \/ \E v \in users : v.id = u.id /\ u.email = v.email /\ u.live = v.live
              \/ /\ user[h] \notin {v.id : v \in users}
                 /\ u.email = mail[h] /\ u.live = TRUE
<1>1. CASE u \in {[v EXCEPT !.password = p] : v \in {v \in users : v.id = user[h]}}
  <2>1. PICK v \in users : v.id = user[h] /\ u = [v EXCEPT !.password = p]
    BY <1>1
  <2>2. v \in User
    BY DEF TypeOK
  <2> QED
    BY <2>1, <2>2 DEF User
<1>2. CASE u \in {[id |-> i, email |-> mail[h], live |-> TRUE, password |-> p,
                  super |-> i = 1] : i \in {user[h]} \ {v.id : v \in users}}
  <2>1. /\ u = [id |-> user[h], email |-> mail[h], live |-> TRUE, password |-> p,
                super |-> user[h] = 1]
        /\ user[h] \notin {v.id : v \in users}
    BY <1>2
  <2>2. u \in User
    BY <2>1 DEF User
  <2> QED
    BY <2>1, <2>2
<1> QED
  BY <1>1, <1>2 DEF Added

\* The first rows are those of the v2 users.
LEMMA TypeInit ==
    ASSUME Init
    PROVE  TypeOK /\ LocalsInv
<1> USE HandlerFacts
<1>1. users \in SUBSET User
  <2> SUFFICES ASSUME NEW e \in OldUser PROVE Migrated(e) \in User
    BY DEF Init
  <2>1. OldId[e] \in Id /\ OldSuper[e] \in BOOLEAN /\ e \in Email
    BY OldIdAssumption, OldUserAssumption
  <2> QED
    BY <2>1 DEF Migrated, User
<1>2. lastId \in 0..MaxId
  BY OldIdFacts DEF Init
<1> QED
  BY <1>1, <1>2 DEF Init, TypeOK, LocalsInv

\* Every step keeps the types and gives a request what it needs where it needs it.
LEMMA TypeStep ==
    ASSUME TypeOK, LocalsInv, [Next]_vars
    PROVE  TypeOK' /\ LocalsInv'
<1> USE HandlerFacts
<1>1. ASSUME NEW h \in Handler, RollBack(h) PROVE TypeOK' /\ LocalsInv'
  BY <1>1 DEF RollBack, End, EndWith, Goto, tables, TypeOK, LocalsInv
<1>2. ASSUME NEW h \in Handler, NEW e \in Asks[h], Check(h, e)
      PROVE  TypeOK' /\ LocalsInv'
  BY <1>2 DEF Check, Goto, tables, TypeOK, LocalsInv
<1>3. ASSUME NEW h \in Creator, FindOld(h) PROVE TypeOK' /\ LocalsInv'
  <2>1. user'[h] \in Id \cup {NoUser}
    BY <1>3 DEF FindOld, OldRows, TypeOK, User
  <2> QED
    BY <1>3, <2>1 DEF FindOld, Goto, tables, TypeOK, LocalsInv
<1>4. ASSUME NEW h \in Creator, InsertEmail(h) PROVE TypeOK' /\ LocalsInv'
  BY <1>4 DEF InsertEmail, Goto, tables, TypeOK, LocalsInv
<1>5. ASSUME NEW h \in Creator, InsertDuplicate(h) PROVE TypeOK' /\ LocalsInv'
  BY <1>5 DEF InsertDuplicate, End, EndWith, Goto, tables, TypeOK, LocalsInv
<1>6. ASSUME NEW h \in Creator, CreateUser(h) PROVE TypeOK' /\ LocalsInv'
  <2>1. lastId + 1 \in Id /\ lastId' \in 0..MaxId
    BY <1>6, MaxIdAssumption DEF CreateUser, TypeOK, Id
  <2> QED
    BY <1>6, <2>1 DEF CreateUser, Goto, tables, TypeOK, LocalsInv
<1>7. ASSUME NEW h \in Creator, UpdateOld(h) PROVE TypeOK' /\ LocalsInv'
  BY <1>7 DEF UpdateOld, Goto, tables, TypeOK, LocalsInv
<1>8. ASSUME NEW h \in Creator, CommitCreate(h) PROVE TypeOK' /\ LocalsInv'
  <2>1. mail[h] \in Email /\ user[h] \in Id
    BY <1>8 DEF CommitCreate, LocalsInv
  <2>2. PICK p \in Password :
          /\ users' = {u \in users : u.id # user[h]} \cup Added(h, p)
          /\ \E new \in SaveKeyShares(mail[h], p, user[h]) :
               shares' = shares \cup new /\ Saved({user[h]}, new)
    BY <1>8 DEF CommitCreate
  <2>3. users' \in SUBSET User
    BY <2>1, <2>2, AddedRow DEF TypeOK
  <2>4. shares' \in SUBSET Share /\ lacking' \in SUBSET Id
    BY <2>1, <2>2 DEF SaveKeyShares, Saved, Share, TypeOK
  <2>5. stranded' \in SUBSET Id
    BY <1>8 DEF CommitCreate, TypeOK
  <2>6. \A g \in Handler : user'[g] = user[g] \/ user'[g] = NoUser
    BY <1>8 DEF CommitCreate, EndWith
  <2>7. user' \in [Handler -> Id \cup {NoUser}]
    BY <1>8, <2>6 DEF CommitCreate, EndWith, TypeOK
  <2>8. TypeOK'
    <3>1. /\ emails' \in SUBSET Email /\ lastId' \in 0..MaxId
          /\ mail' \in [Handler -> Email \cup {NoEmail}]
      BY <1>8, <2>1 DEF CommitCreate, EndWith, TypeOK
    <3>2. /\ pc' \in [Handler -> {"idle", "find", "insert", "user", "commit", "read",
                                  "drop", "dropmail", "lock", "save"}]
          /\ emailLock' \in [Email -> Handler \cup {NoTx}]
          /\ userLock' \in [Id -> Handler \cup {NoTx}]
      BY <1>8 DEF CommitCreate, EndWith, Goto, TypeOK
    <3> QED
      BY <2>3, <2>4, <2>5, <2>7, <3>1, <3>2 DEF TypeOK
  <2>9. Ends(h)
    BY <1>8, EndsIt
  <2>10. LocalsInv'
    BY <2>9, <2>7 DEF Ends, TypeOK, LocalsInv
  <2> QED
    BY <2>8, <2>10
<1>9. ASSUME NEW h \in Changer, NEW u \in users, LockUser(h, u)
      PROVE  TypeOK' /\ LocalsInv'
  BY <1>9 DEF LockUser, Goto, tables, TypeOK, LocalsInv, User
<1>10. ASSUME NEW h \in Changer, CommitChange(h) PROVE TypeOK' /\ LocalsInv'
  <2> DEFINE us == SameKey(user[h])
  <2>1. mail[h] \in Email
    BY <1>10 DEF CommitChange, LocalsInv
  <2>2. PICK p \in Password : \E new \in SaveKeyShares(mail[h], p, NoUser) :
          /\ users' = (users \ us) \cup {[u EXCEPT !.password = p] : u \in us}
          /\ shares' = (shares \ SharesOf(us)) \cup new
          /\ Saved({u.id : u \in us}, new)
    BY <1>10 DEF CommitChange
  <2>3. us \subseteq users
    BY DEF SameKey
  <2>4. users' \in SUBSET User
    <3> SUFFICES ASSUME NEW u \in us PROVE [u EXCEPT !.password = p] \in User
      BY <2>2, <2>3 DEF TypeOK
    <3>1. u \in User
      BY <2>3 DEF TypeOK
    <3> QED
      BY <3>1 DEF User
  <2>5. shares' \in SUBSET Share /\ lacking' \in SUBSET Id
    BY <2>1, <2>2, <2>3 DEF SaveKeyShares, Saved, Share, TypeOK, User
  <2> QED
    BY <1>10, <2>4, <2>5 DEF CommitChange, End, EndWith, Goto, TypeOK, LocalsInv
<1>11. ASSUME NEW h \in Deleter, NEW u \in users, ReadUser(h, u)
       PROVE  TypeOK' /\ LocalsInv'
  BY <1>11 DEF ReadUser, Goto, tables, TypeOK, LocalsInv, User
<1>12. ASSUME NEW h \in Deleter, DeleteUser(h) PROVE TypeOK' /\ LocalsInv'
  BY <1>12 DEF DeleteUser, Goto, tables, TypeOK, LocalsInv
<1>13. ASSUME NEW h \in Deleter, DeleteEmail(h) PROVE TypeOK' /\ LocalsInv'
  <2>1. users' \in SUBSET User
    <3> SUFFICES ASSUME NEW u \in users PROVE [u EXCEPT !.live = FALSE] \in User
      BY <1>13 DEF DeleteEmail, TypeOK
    <3>1. u \in User
      BY DEF TypeOK
    <3> QED
      BY <3>1 DEF User
  <2>2. stranded' \in SUBSET Id
    BY <1>13 DEF DeleteEmail, IdsOf, TypeOK, User
  <2> QED
    BY <1>13, <2>1, <2>2 DEF DeleteEmail, End, EndWith, Goto, TypeOK, LocalsInv
<1>14. CASE UNCHANGED vars
  BY <1>14 DEF vars, tables, TypeOK, LocalsInv
<1> QED
  BY <1>1, <1>2, <1>3, <1>4, <1>5, <1>6, <1>7, <1>8, <1>9, <1>10, <1>11, <1>12,
     <1>13, <1>14, NextCases

\* The tables and the locals of the requests keep their types.
THEOREM TypeCorrect == Spec => []TypeOK
<1>1. Init => TypeOK /\ LocalsInv
  BY TypeInit
<1>2. TypeOK /\ LocalsInv /\ [Next]_vars => TypeOK' /\ LocalsInv'
  BY TypeStep
<1> QED
  BY <1>1, <1>2, PTL DEF Spec

-----------------------------------------------------------------------------
(* Rows keep their ids and addresses.                                      *)

\* CommitCreate writes one row, of the address of its request.
LEMMA CreateCommits ==
    ASSUME RequestInv, NEW h \in Creator, CommitCreate(h)
    PROVE  \E p \in Password, r \in User :
             /\ r.id = user[h] /\ r.email = mail[h] /\ r.password = p
             /\ users' = {u \in users : u.id # user[h]} \cup {r}
             /\ \/ \E v \in users : v.id = r.id /\ v.live = r.live
                \/ user[h] \notin {v.id : v \in users} /\ r.live = TRUE
             /\ \E new \in SaveKeyShares(mail[h], p, user[h]) :
                  shares' = shares \cup new /\ Saved({user[h]}, new)
<1> USE HandlerFacts
<1>1. mail[h] \in Email /\ user[h] \in Id /\ pc[h] = "commit"
  BY DEF CommitCreate, RequestInv, LocalsInv
<1>2. PICK p \in Password :
        /\ users' = {u \in users : u.id # user[h]} \cup Added(h, p)
        /\ \E new \in SaveKeyShares(mail[h], p, user[h]) :
             shares' = shares \cup new /\ Saved({user[h]}, new)
  BY DEF CommitCreate
<1>3. PICK r : Added(h, p) = {r}
  <2>1. CASE user[h] \in {v.id : v \in users}
    <3>1. PICK v \in users : v.id = user[h]
      BY <2>1
    <3>2. {w \in users : w.id = user[h]} = {v}
      BY <3>1 DEF RequestInv, RowsInv
    <3>3. Added(h, p) = {[v EXCEPT !.password = p]}
      BY <2>1, <3>2 DEF Added
    <3> QED
      BY <3>3
  <2>2. CASE user[h] \notin {v.id : v \in users}
    <3>1. Added(h, p) = {[id |-> user[h], email |-> mail[h], live |-> TRUE,
                          password |-> p, super |-> user[h] = 1]}
      BY <2>2 DEF Added
    <3> QED
      BY <3>1
  <2> QED
    BY <2>1, <2>2
<1>4. /\ r \in User /\ r.id = user[h] /\ r.password = p
      /\ \/ \E v \in users : v.id = r.id /\ r.email = v.email /\ r.live = v.live
         \/ /\ user[h] \notin {v.id : v \in users}
            /\ r.email = mail[h] /\ r.live = TRUE
  BY <1>1, <1>3, AddedRow DEF RequestInv
<1>5. r.email = mail[h]
  BY <1>1, <1>4 DEF RequestInv, FoundInv
<1> QED
  BY <1>2, <1>3, <1>4, <1>5

\* CommitChange writes another password to rows of its address.
LEMMA ChangeCommits ==
    ASSUME RequestInv, NEW h \in Changer, CommitChange(h)
    PROVE  LET us == SameKey(user[h]) IN
           /\ us \subseteq users /\ \A u \in us : u.email = mail[h]
           /\ \A u \in us, v \in users :
                v.email = u.email /\ v.password = u.password => v \in us
           /\ \E p \in Password :
                /\ users' = (users \ us) \cup {[u EXCEPT !.password = p] : u \in us}
                /\ \E new \in SaveKeyShares(mail[h], p, NoUser) :
                    /\ shares' = (shares \ SharesOf(us)) \cup new
                    /\ Saved({u.id : u \in us}, new)
<1> USE HandlerFacts
<1>1. pc[h] = "save"
  BY DEF CommitChange
<1>2. \A u \in users : u.id = user[h] => u.email = mail[h]
  BY <1>1 DEF RequestInv, FoundInv
<1>3. \A u, v \in users : u.id = v.id => u = v
  BY DEF RequestInv, RowsInv
<1>4. /\ SameKey(user[h]) \subseteq users
      /\ \A u \in SameKey(user[h]) : u.email = mail[h]
      /\ \A u \in SameKey(user[h]), v \in users :
            v.email = u.email /\ v.password = u.password => v \in SameKey(user[h])
  BY <1>2, <1>3 DEF SameKey
<1> QED
  BY <1>4 DEF CommitChange

\* What a step leaves of the rows, and what it adds.
LEMMA RowsKept ==
    ASSUME RequestInv, [Next]_vars
    PROVE  /\ \A v \in users : \E w \in users' :
                /\ w.id = v.id /\ w.email = v.email
                /\ v.password # NoPassword => w.password # NoPassword
                /\ w.live # v.live => \E d \in Deleter : DeleteEmail(d) /\ v.id = user[d]
           /\ \A w \in users' :
                \/ \E v \in users : v.id = w.id /\ v.email = w.email
                \/ \E h \in Creator : /\ CommitCreate(h)
                                      /\ w.id = user[h] /\ w.email = mail[h]
           /\ \A v, w \in users' : v.id = w.id => v = w
<1> DEFINE Kept(us) ==
      /\ \A v \in users : \E w \in us :
           /\ w.id = v.id /\ w.email = v.email
           /\ v.password # NoPassword => w.password # NoPassword
           /\ w.live # v.live => \E d \in Deleter : DeleteEmail(d) /\ v.id = user[d]
      /\ \A w \in us :
           \/ \E v \in users : v.id = w.id /\ v.email = w.email
           \/ \E h \in Creator : /\ CommitCreate(h)
                                 /\ w.id = user[h] /\ w.email = mail[h]
      /\ \A v, w \in us : v.id = w.id => v = w
<1> SUFFICES Kept(users')
  OBVIOUS
<1>1. \A u, v \in users : u.id = v.id => u = v
  BY DEF RequestInv, RowsInv
<1>2. users \subseteq User
  BY DEF RequestInv, TypeOK
<1>3. CASE users' = users
  BY <1>1, <1>3
<1>4. ASSUME NEW h \in Creator, CommitCreate(h) PROVE Kept(users')
  <2>1. PICK p \in Password, r \in User :
          /\ r.id = user[h] /\ r.email = mail[h] /\ r.password = p
          /\ users' = {u \in users : u.id # user[h]} \cup {r}
          /\ \/ \E v \in users : v.id = r.id /\ v.live = r.live
             \/ user[h] \notin {v.id : v \in users} /\ r.live = TRUE
          /\ \E new \in SaveKeyShares(mail[h], p, user[h]) :
               shares' = shares \cup new /\ Saved({user[h]}, new)
    BY <1>4, CreateCommits
  <2>2. \A v \in users : v.id = user[h] => v.email = mail[h]
    BY <1>4, HandlerFacts DEF CommitCreate, RequestInv, FoundInv
  <2>3. p # NoPassword
    BY PasswordAssumption
  <2> QED
    BY <1>1, <1>4, <2>1, <2>2, <2>3
<1>5. ASSUME NEW f, users' = {f[v] : v \in users},
             \A v \in users :
                /\ f[v].id = v.id /\ f[v].email = v.email
                /\ v.password # NoPassword => f[v].password # NoPassword
                /\ f[v].live # v.live =>
                     \E d \in Deleter : DeleteEmail(d) /\ v.id = user[d]
      PROVE  Kept(users')
  BY <1>1, <1>5
<1>6. ASSUME NEW h \in Changer, CommitChange(h) PROVE Kept(users')
  <2> DEFINE us == SameKey(user[h])
  <2>1. us \subseteq users
    BY <1>6, ChangeCommits
  <2>2. PICK p \in Password :
          users' = (users \ us) \cup {[u EXCEPT !.password = p] : u \in us}
    BY <1>6, ChangeCommits
  <2> DEFINE f == [v \in users |-> IF v \in us THEN [v EXCEPT !.password = p] ELSE v]
  <2> HIDE DEF us
  <2>3. users' = {f[v] : v \in users}
    BY <2>1, <2>2
  <2>4. \A v \in users :
          /\ f[v].id = v.id /\ f[v].email = v.email /\ f[v].live = v.live
          /\ v.password # NoPassword => f[v].password # NoPassword
    BY <1>2, PasswordAssumption DEF User
  <2> HIDE DEF f
  <2> QED
    BY <2>3, <2>4, <1>5
<1>7. ASSUME NEW d \in Deleter, DeleteEmail(d) PROVE Kept(users')
  <2> DEFINE f == [v \in users |-> IF v.id = user[d] THEN [v EXCEPT !.live = FALSE] ELSE v]
  <2>1. users' = {f[v] : v \in users}
    BY <1>7 DEF DeleteEmail
  <2>2. \A v \in users :
          /\ f[v].id = v.id /\ f[v].email = v.email /\ f[v].password = v.password
          /\ f[v].live # v.live => v.id = user[d]
    BY <1>2 DEF User
  <2> HIDE DEF f
  <2> QED
    BY <2>1, <2>2, <1>5, <1>7
<1>8. ASSUME ~(users' = users),
             \A h \in Creator : ~CommitCreate(h), \A h \in Changer : ~CommitChange(h),
             \A d \in Deleter : ~DeleteEmail(d)
      PROVE  FALSE
  BY <1>8, NextCases
     DEF RollBack, Check, FindOld, InsertEmail, InsertDuplicate, CreateUser, UpdateOld,
         LockUser, ReadUser, DeleteUser, tables, vars
<1> QED
  BY <1>3, <1>4, <1>6, <1>7, <1>8

\* What a request found stays a row of its address.
LEMMA StillFound ==
    ASSUME RequestInv, [Next]_vars, NEW g \in Handler,
           pc[g] \in {"insert", "user", "commit", "save"},
           NEW w \in users', w.id = user[g]
    PROVE  w.email = mail[g]
<1>1. CASE \E v \in users : v.id = w.id /\ v.email = w.email
  BY <1>1 DEF RequestInv, FoundInv
<1>2. ASSUME NEW h \in Creator, CommitCreate(h), w.id = user[h], w.email = mail[h]
      PROVE  w.email = mail[g]
  <2>1. pc[h] = "commit" /\ h \in Handler
    BY <1>2, HandlerFacts DEF CommitCreate
  <2>2. CASE pc[g] \in {"commit", "save"}
    <3>1. g = h
      BY <1>2, <2>1, <2>2 DEF RequestInv, UserLockInv
    <3> QED
      BY <1>2, <3>1
  <2>3. CASE pc[g] \notin {"commit", "save"}
    <3>1. PICK v \in users : v.id = user[g]
      <4>1. user[g] # NoUser
        BY <1>2, <2>1 DEF RequestInv, LocalsInv, Id, NoUser
      <4> QED
        BY <2>3, <4>1 DEF RequestInv, UserLockInv
    <3>2. v.email = mail[g]
      BY <3>1 DEF RequestInv, FoundInv
    <3>3. PICK x \in users' : x.id = v.id /\ x.email = v.email
      BY <3>1, RowsKept
    <3> QED
      BY <3>1, <3>2, <3>3, RowsKept
  <2> QED
    BY <2>2, <2>3
<1> QED
  BY <1>1, <1>2, RowsKept

\* Every id a step needs is still that of a row.
LEMMA IdsKept ==
    ASSUME RequestInv, [Next]_vars
    PROVE  {u.id : u \in users} \subseteq {u.id : u \in users'}
BY RowsKept

\* The invariant under the other theorems is inductive.
LEMMA RequestStep ==
    ASSUME RequestInv, [Next]_vars, TypeOK', LocalsInv'
    PROVE  RequestInv'
<1> DEFINE Uses == {"insert", "user", "commit", "save"}
<1> DEFINE Ids == {u.id : u \in users}
<1> USE HandlerFacts
<1>1. RowsInv'
  <2>1. lastId \in Nat /\ lastId' \in Nat /\ users \subseteq User
    BY MaxIdAssumption DEF RequestInv, TypeOK
  <2>2. lastId <= lastId'
    <3>1. lastId' = lastId \/ lastId' = lastId + 1
      BY NextCases
         DEF RollBack, Check, FindOld, InsertEmail, InsertDuplicate, CreateUser, UpdateOld,
             CommitCreate, LockUser, CommitChange, ReadUser, DeleteUser, DeleteEmail, vars
    <3> QED
      BY <2>1, <3>1
  <2>3. \A w \in users' : w.id <= lastId
    <3> SUFFICES ASSUME NEW w \in users' PROVE w.id <= lastId
      OBVIOUS
    <3>1. ASSUME NEW v \in users, v.id = w.id PROVE w.id <= lastId
      BY <3>1 DEF RequestInv, RowsInv
    <3>2. ASSUME NEW h \in Creator, CommitCreate(h), w.id = user[h] PROVE w.id <= lastId
      BY <3>2 DEF CommitCreate, RequestInv, UserLockInv
    <3> QED
      BY <3>1, <3>2, RowsKept
  <2>4. users' \subseteq User'
    BY DEF TypeOK
  <2>5. \A w \in users' : w.id <= lastId'
    BY <2>1, <2>2, <2>3, <2>4 DEF User, Id
  <2> QED
    BY <2>5, RowsKept DEF RowsInv
<1> DEFINE Fine(g) ==
      /\ /\ pc'[g] \in {"commit", "save"} => userLock'[user'[g]] = g
         /\ pc'[g] = "commit" => user'[g] <= lastId'
         /\ pc'[g] \in {"insert", "user", "drop", "dropmail"} =>
              user'[g] = NoUser \/ user'[g] \in {u.id : u \in users'}
         /\ pc'[g] = "save" => user'[g] \in {u.id : u \in users'}
      /\ \A u \in users' : pc'[g] \in Uses /\ u.id = user'[g] => u.email = mail'[g]
<1>2. ASSUME NEW g \in Handler,
             pc'[g] = pc[g] /\ user'[g] = user[g] /\ mail'[g] = mail[g],
             pc[g] \in {"commit", "save"} /\ userLock[user[g]] = g
               => userLock'[user[g]] = g,
             lastId <= lastId'
      PROVE  Fine(g)
  <2>1. lastId \in Nat /\ lastId' \in Nat /\ user[g] \in Nat
    BY MaxIdAssumption DEF RequestInv, TypeOK, Id, NoUser
  <2>2. pc[g] \in {"commit", "save"} => user[g] \in Id
    BY DEF RequestInv, LocalsInv
  <2>3. \A u \in users' : pc'[g] \in Uses /\ u.id = user'[g] => u.email = mail'[g]
    BY <1>2, StillFound
  <2>4. pc'[g] = "commit" => user'[g] <= lastId'
    <3> SUFFICES ASSUME pc[g] = "commit" PROVE user[g] <= lastId'
      BY <1>2
    <3>1. user[g] <= lastId
      BY DEF RequestInv, UserLockInv
    <3> QED
      BY <2>1, <3>1, <1>2
  <2>5. pc'[g] \in {"commit", "save"} => userLock'[user'[g]] = g
    BY <1>2 DEF RequestInv, UserLockInv
  <2>6. pc'[g] \in {"insert", "user", "drop", "dropmail"} =>
          user'[g] = NoUser \/ user'[g] \in {u.id : u \in users'}
    <3> SUFFICES ASSUME pc[g] \in {"insert", "user", "drop", "dropmail"}, user[g] # NoUser
                 PROVE  user[g] \in {u.id : u \in users'}
      BY <1>2
    <3>1. user[g] \in {u.id : u \in users}
      BY DEF RequestInv, UserLockInv
    <3> QED
      BY <3>1, IdsKept
  <2>7. pc'[g] = "save" => user'[g] \in {u.id : u \in users'}
    <3> SUFFICES ASSUME pc[g] = "save"
                 PROVE  user[g] \in {u.id : u \in users'}
      BY <1>2
    <3>1. user[g] \in {u.id : u \in users}
      BY DEF RequestInv, UserLockInv
    <3> QED
      BY <3>1, IdsKept
  <2> QED
    BY <2>3, <2>4, <2>5, <2>6, <2>7
<1>3. ASSUME NEW g \in Handler,
             \/ pc'[g] \notin Uses \cup {"drop", "dropmail"}
             \/ pc'[g] \in {"drop", "dropmail"} /\ user'[g] = NoUser
      PROVE  Fine(g)
  BY <1>3
<1> HIDE DEF Fine
<1>4. ASSUME NEW h \in Handler, Ends(h), lastId' = lastId PROVE \A g \in Handler : Fine(g)
  <2> SUFFICES ASSUME NEW g \in Handler PROVE Fine(g)
    OBVIOUS
  <2>1. CASE g = h
    BY <1>3, <1>4, <2>1 DEF Ends, RequestInv, TypeOK
  <2>2. CASE g # h /\ user'[g] = user[g]
    <3>1. pc'[g] = pc[g] /\ user'[g] = user[g] /\ mail'[g] = mail[g]
      BY <1>4, <2>2 DEF Ends, RequestInv, TypeOK
    <3>2. pc[g] \in {"commit", "save"} /\ userLock[user[g]] = g
            => userLock'[user[g]] = g
      BY <1>4, <2>2 DEF Ends, RequestInv, TypeOK, LocalsInv
    <3>3. lastId <= lastId'
      BY <1>4, MaxIdAssumption DEF RequestInv, TypeOK
    <3> QED
      BY <3>1, <3>2, <3>3, <1>2
  <2>3. CASE g # h /\ pc[g] = "drop" /\ user'[g] = NoUser
    <3>1. pc'[g] = "drop"
      BY <1>4, <2>3 DEF Ends, RequestInv, TypeOK
    <3> QED
      BY <1>3, <2>3, <3>1
  <2> QED
    BY <1>4, <2>1, <2>2, <2>3 DEF Ends
<1>5. \A g \in Handler : Fine(g)
  <2>1. ASSUME NEW h \in Handler, RollBack(h) PROVE \A g \in Handler : Fine(g)
    BY <2>1, <1>4, EndsIt DEF RollBack
  <2>2. ASSUME NEW h \in Handler, NEW e \in Asks[h], Check(h, e)
        PROVE  \A g \in Handler : Fine(g)
    BY <2>2, <1>2, <1>3, MaxIdAssumption DEF Check, Goto, RequestInv, TypeOK
  <2>3. ASSUME NEW h \in Creator, FindOld(h) PROVE \A g \in Handler : Fine(g)
    <3>1. ASSUME NEW g \in Handler, g # h PROVE Fine(g)
      BY <2>3, <3>1, <1>2, MaxIdAssumption DEF FindOld, Goto, RequestInv, TypeOK
    <3>2. users' = users /\ mail' = mail /\ pc'[h] = "insert"
      BY <2>3 DEF FindOld, Goto, tables, RequestInv, TypeOK
    <3>3. \/ user'[h] = NoUser
          \/ \E u \in users : u.id = user'[h] /\ u.email = mail[h]
      <4>1. OldRows(mail[h]) # {} => \E u \in OldRows(mail[h]) : user'[h] = u.id
        BY <2>3 DEF FindOld, RequestInv, TypeOK
      <4> QED
        BY <2>3, <4>1 DEF FindOld, OldRows, RequestInv, TypeOK
    <3>4. \A u \in users : u.id = user'[h] => u.email = mail[h]
      <4>1. \A u \in users : u.id # NoUser
        BY DEF RequestInv, TypeOK, User, Id, NoUser
      <4> QED
        BY <3>3, <4>1 DEF RequestInv, RowsInv
    <3>5. Fine(h)
      BY <3>2, <3>3, <3>4 DEF Fine
    <3> QED
      BY <3>1, <3>5
  <2>4. ASSUME NEW h \in Creator, InsertEmail(h) PROVE \A g \in Handler : Fine(g)
    <3>1. ASSUME NEW g \in Handler, g # h PROVE Fine(g)
      BY <2>4, <3>1, <1>2, MaxIdAssumption DEF InsertEmail, Goto, RequestInv, TypeOK
    <3>2. users' = users /\ mail' = mail /\ user' = user /\ pc[h] = "insert"
      BY <2>4 DEF InsertEmail, tables
    <3>3. pc'[h] = "user"
      BY <2>4 DEF InsertEmail, Goto, RequestInv, TypeOK
    <3>4. Fine(h)
      BY <3>2, <3>3 DEF Fine, RequestInv, UserLockInv, FoundInv
    <3> QED
      BY <3>1, <3>4
  <2>5. ASSUME NEW h \in Creator, InsertDuplicate(h) PROVE \A g \in Handler : Fine(g)
    BY <2>5, <1>4, EndsIt DEF InsertDuplicate
  <2>6. ASSUME NEW h \in Creator, CreateUser(h) PROVE \A g \in Handler : Fine(g)
    <3>1. lastId \in Nat /\ lastId + 1 \in Id
      BY <2>6, MaxIdAssumption DEF CreateUser, RequestInv, TypeOK, Id
    <3>2. ASSUME NEW g \in Handler, g # h PROVE Fine(g)
      <4>1. pc[g] \in {"commit", "save"} /\ userLock[user[g]] = g
              => userLock'[user[g]] = g
        <5> SUFFICES ASSUME user[g] = lastId + 1, userLock[user[g]] = g,
                            pc[g] \in {"commit", "save"}
                     PROVE  FALSE
          BY <2>6, <3>1, <3>2 DEF CreateUser, RequestInv, TypeOK, LocalsInv
        <5>1. \E u \in users : u.id = lastId + 1
          BY <3>1 DEF RequestInv, UserLockInv
        <5> QED
          BY <3>1, <5>1 DEF RequestInv, RowsInv
      <4> QED
        BY <2>6, <3>1, <3>2, <4>1, <1>2 DEF CreateUser, Goto, RequestInv, TypeOK
    <3>3. Fine(h)
      <4>1. /\ users' = users /\ pc'[h] = "commit" /\ user'[h] = lastId + 1
            /\ userLock'[lastId + 1] = h /\ lastId' = lastId + 1
        BY <2>6, <3>1 DEF CreateUser, Goto, tables, RequestInv, TypeOK
      <4>2. \A u \in users : u.id \in Nat /\ u.id <= lastId
        BY DEF RequestInv, RowsInv, TypeOK, User, Id
      <4>3. \A u \in users : u.id # lastId + 1
        BY <3>1, <4>2
      <4> QED
        BY <3>1, <4>1, <4>3 DEF Fine
    <3> QED
      BY <3>2, <3>3
  <2>7. ASSUME NEW h \in Creator, UpdateOld(h) PROVE \A g \in Handler : Fine(g)
    <3>1. user[h] \in Id /\ userLock[user[h]] = NoTx
      BY <2>7 DEF UpdateOld, RequestInv, TypeOK
    <3>2. ASSUME NEW g \in Handler, g # h PROVE Fine(g)
      BY <2>7, <3>1, <3>2, <1>2, MaxIdAssumption DEF UpdateOld, Goto, RequestInv, TypeOK
    <3>3. Fine(h)
      <4>1. /\ users' = users /\ mail' = mail /\ user' = user /\ lastId' = lastId
            /\ pc[h] = "user" /\ pc'[h] = "commit" /\ userLock'[user[h]] = h
        BY <2>7, <3>1 DEF UpdateOld, Goto, tables, RequestInv, TypeOK
      <4>2. \E u \in users : u.id = user[h]
        BY <2>7 DEF UpdateOld, RequestInv, UserLockInv
      <4> QED
        BY <4>1, <4>2 DEF Fine, RequestInv, RowsInv, FoundInv
    <3> QED
      BY <3>2, <3>3
  <2>8. ASSUME NEW h \in Creator, CommitCreate(h) PROVE \A g \in Handler : Fine(g)
    BY <2>8, <1>4, EndsIt DEF CommitCreate
  <2>9. ASSUME NEW h \in Changer, NEW u \in users, LockUser(h, u)
        PROVE  \A g \in Handler : Fine(g)
    <3>1. u.id \in Id
      BY DEF RequestInv, TypeOK, User
    <3>2. ASSUME NEW g \in Handler, g # h PROVE Fine(g)
      BY <2>9, <3>1, <3>2, <1>2, MaxIdAssumption DEF LockUser, Goto, RequestInv, TypeOK
    <3>3. Fine(h)
      <4>1. /\ users' = users /\ mail' = mail /\ u.email = mail[h]
            /\ pc'[h] = "save" /\ user'[h] = u.id /\ userLock'[u.id] = h
        BY <2>9, <3>1 DEF LockUser, Goto, tables, RequestInv, TypeOK
      <4> QED
        BY <4>1 DEF Fine, RequestInv, RowsInv
    <3> QED
      BY <3>2, <3>3
  <2>10. ASSUME NEW h \in Changer, CommitChange(h) PROVE \A g \in Handler : Fine(g)
    BY <2>10, <1>4, EndsIt DEF CommitChange
  <2>11. ASSUME NEW h \in Deleter, NEW u \in users, ReadUser(h, u)
         PROVE  \A g \in Handler : Fine(g)
    <3>1. ASSUME NEW g \in Handler, g # h PROVE Fine(g)
      BY <2>11, <3>1, <1>2, MaxIdAssumption DEF ReadUser, Goto, RequestInv, TypeOK
    <3>2. users' = users /\ pc'[h] = "drop" /\ user'[h] = u.id
      BY <2>11 DEF ReadUser, Goto, tables, RequestInv, TypeOK
    <3>3. Fine(h)
      BY <3>2 DEF Fine
    <3> QED
      BY <3>1, <3>3
  <2>12. ASSUME NEW h \in Deleter, DeleteUser(h) PROVE \A g \in Handler : Fine(g)
    <3>1. user[h] # NoUser => userLock[user[h]] = NoTx
      BY <2>12 DEF DeleteUser
    <3>2. ASSUME NEW g \in Handler, g # h PROVE Fine(g)
      <4>1. pc[g] \in {"commit", "save"} /\ userLock[user[g]] = g
              => userLock'[user[g]] = g
        <5> SUFFICES ASSUME pc[g] \in {"commit", "save"}, userLock[user[g]] = g
                     PROVE  userLock'[user[g]] = g
          OBVIOUS
        <5>1. user[g] \in Id /\ user[g] # NoUser
          BY DEF RequestInv, LocalsInv, Id, NoUser
        <5>2. user[g] # user[h]
          BY <3>1, <5>1
        <5> QED
          BY <2>12, <5>1, <5>2 DEF DeleteUser
      <4>2. pc'[g] = pc[g] /\ user'[g] = user[g] /\ mail'[g] = mail[g]
        BY <2>12, <3>2 DEF DeleteUser, Goto, RequestInv, TypeOK
      <4>3. lastId <= lastId'
        BY <2>12, MaxIdAssumption DEF DeleteUser, RequestInv, TypeOK
      <4> QED
        BY <4>1, <4>2, <4>3, <1>2
    <3>3. /\ users' = users /\ user' = user
          /\ pc[h] = "drop" /\ pc'[h] = "dropmail"
      BY <2>12 DEF DeleteUser, Goto, tables, RequestInv, TypeOK
    <3>4. Fine(h)
      BY <3>3 DEF Fine, RequestInv, UserLockInv
    <3> QED
      BY <3>2, <3>4
  <2>13. ASSUME NEW h \in Deleter, DeleteEmail(h) PROVE \A g \in Handler : Fine(g)
    BY <2>13, <1>4, EndsIt DEF DeleteEmail
  <2>14. CASE UNCHANGED vars
    BY <2>14, <1>2, MaxIdAssumption DEF vars, RequestInv, TypeOK
  <2> QED
    BY <2>1, <2>2, <2>3, <2>4, <2>5, <2>6, <2>7, <2>8, <2>9, <2>10, <2>11, <2>12,
       <2>13, <2>14, NextCases
<1>6. UserLockInv' /\ FoundInv'
  BY <1>5 DEF Fine, UserLockInv, FoundInv
<1> QED
  BY <1>1, <1>6 DEF RequestInv

\* However requests race each other and their transactions end, ids are given once, the row
\* that a registration or a change of the password works on stays one of its e-mail, and no
\* two of these write a row at a time (createAccount.go:127-275).
THEOREM RequestsIsolated == Spec => []RequestInv
<1>1. Init => RequestInv
  <2> SUFFICES ASSUME Init PROVE RequestInv
    OBVIOUS
  <2>1. \A u \in users : \E e \in OldUser : u = Migrated(e) /\ u.id = OldId[e]
    BY DEF Init, Migrated
  <2>2. \A u \in users : u.id <= lastId
    BY <2>1 DEF Init, OldIds
  <2>3. \A u, v \in users : u.id = v.id => u = v
    BY <2>1, OldIdAssumption
  <2>4. RowsInv
    BY <2>2, <2>3 DEF RowsInv
  <2> QED
    BY <2>4, TypeInit DEF Init, RequestInv, UserLockInv, FoundInv
<1>2. RequestInv /\ [Next]_vars => RequestInv'
  BY TypeStep, RequestStep DEF RequestInv
<1> QED
  BY <1>1, <1>2, PTL DEF Spec

-----------------------------------------------------------------------------
(* The shares.                                                             *)

\* Whatever races, the row of every user who ever had a password is covered by shares
\* of that password, or its last save found no key keeper (saveKeyShares,
\* createAccount.go:24-62; createAccount, 127-198; changePassword, 200-275).
THEOREM AlwaysDecryptable == Spec => []EmailsDecryptable
<1>1. Init => EmailsDecryptable
  BY DEF Init, EmailsDecryptable, Migrated
<1>2. RequestInv /\ EmailsDecryptable /\ [Next]_vars => EmailsDecryptable'
  <2> SUFFICES ASSUME RequestInv, EmailsDecryptable, [Next]_vars,
                      NEW w \in users', w.password # NoPassword
               PROVE  (\E s \in shares' : s.email = w.email /\ s.password = w.password)
                        \/ w.id \in lacking'
    BY DEF EmailsDecryptable, SharesOf
  <2>1. ASSUME w \in users
        PROVE  (\E s \in shares : s.email = w.email /\ s.password = w.password)
                 \/ w.id \in lacking
    BY <2>1 DEF EmailsDecryptable, SharesOf
  <2>2. ASSUME NEW h \in Creator, CommitCreate(h)
        PROVE  (\E s \in shares' : s.email = w.email /\ s.password = w.password)
                 \/ w.id \in lacking'
    <3>1. PICK p \in Password, r \in User :
            /\ r.id = user[h] /\ r.email = mail[h] /\ r.password = p
            /\ users' = {u \in users : u.id # user[h]} \cup {r}
            /\ \/ \E v \in users : v.id = r.id /\ v.live = r.live
               \/ user[h] \notin {v.id : v \in users} /\ r.live = TRUE
            /\ \E new \in SaveKeyShares(mail[h], p, user[h]) :
                 shares' = shares \cup new /\ Saved({user[h]}, new)
      BY <2>2, CreateCommits
    <3>2. PICK new \in SaveKeyShares(mail[h], p, user[h]) :
            shares' = shares \cup new /\ Saved({user[h]}, new)
      BY <3>1
    <3>3. CASE w = r
      <4>1. CASE new = {}
        BY <3>1, <3>2, <3>3, <4>1 DEF Saved
      <4>2. CASE new # {}
        <5>1. PICK s \in new : s.email = mail[h] /\ s.password = p
          BY <4>2 DEF SaveKeyShares
        <5> QED
          BY <3>1, <3>2, <3>3, <5>1
      <4> QED
        BY <4>1, <4>2
    <3>4. CASE w \in users /\ w.id # user[h]
      BY <2>1, <3>2, <3>4 DEF Saved
    <3> QED
      BY <3>1, <3>3, <3>4
  <2>3. ASSUME NEW h \in Changer, CommitChange(h)
        PROVE  (\E s \in shares' : s.email = w.email /\ s.password = w.password)
                 \/ w.id \in lacking'
    <3> DEFINE us == SameKey(user[h])
    <3>1. /\ us \subseteq users /\ \A u \in us : u.email = mail[h]
          /\ \A u \in us, v \in users :
               v.email = u.email /\ v.password = u.password => v \in us
          /\ \E p \in Password :
               /\ users' = (users \ us) \cup {[u EXCEPT !.password = p] : u \in us}
               /\ \E new \in SaveKeyShares(mail[h], p, NoUser) :
                   /\ shares' = (shares \ SharesOf(us)) \cup new
                   /\ Saved({u.id : u \in us}, new)
      BY <2>3, ChangeCommits
    <3> HIDE DEF us
    <3>2. PICK p \in Password : \E new \in SaveKeyShares(mail[h], p, NoUser) :
            /\ users' = (users \ us) \cup {[u EXCEPT !.password = p] : u \in us}
            /\ shares' = (shares \ SharesOf(us)) \cup new
            /\ Saved({u.id : u \in us}, new)
      BY <3>1
    <3>3. PICK new \in SaveKeyShares(mail[h], p, NoUser) :
            /\ shares' = (shares \ SharesOf(us)) \cup new
            /\ Saved({u.id : u \in us}, new)
      BY <3>2
    <3>4. ASSUME NEW u \in us, w = [u EXCEPT !.password = p]
          PROVE  (\E s \in shares' : s.email = w.email /\ s.password = w.password)
                   \/ w.id \in lacking'
      <4>1. u \in User
        BY <3>1 DEF RequestInv, TypeOK
      <4>2. w.id = u.id /\ w.email = mail[h] /\ w.password = p
        BY <3>1, <3>4, <4>1 DEF User
      <4>3. CASE new = {}
        BY <3>3, <4>2, <4>3 DEF Saved
      <4>4. CASE new # {}
        <5>1. PICK s \in new : s.email = mail[h] /\ s.password = p
          BY <4>4 DEF SaveKeyShares
        <5> QED
          BY <3>3, <4>2, <5>1
      <4> QED
        BY <4>3, <4>4
    <3>5. CASE w \in users \ us
      <4>1. \A s \in SharesOf(us) : ~(s.email = w.email /\ s.password = w.password)
        BY <3>1, <3>5 DEF SharesOf
      <4>2. w.id \notin {u.id : u \in us}
        BY <3>1, <3>5 DEF RequestInv, RowsInv
      <4> QED
        BY <2>1, <3>3, <3>5, <4>1, <4>2 DEF Saved
    <3> QED
      BY <3>2, <3>4, <3>5
  <2>4. ASSUME NEW d \in Deleter, DeleteEmail(d)
        PROVE  (\E s \in shares' : s.email = w.email /\ s.password = w.password)
                 \/ w.id \in lacking'
    <3>1. PICK v \in users : w = IF v.id = user[d] THEN [v EXCEPT !.live = FALSE] ELSE v
      BY <2>4 DEF DeleteEmail
    <3>2. v \in User
      BY DEF RequestInv, TypeOK
    <3>3. v.id = w.id /\ v.email = w.email /\ v.password = w.password
      BY <3>1, <3>2 DEF User
    <3>4. (\E s \in shares : s.email = v.email /\ s.password = v.password)
            \/ v.id \in lacking
      BY <3>3 DEF EmailsDecryptable, SharesOf
    <3> QED
      BY <2>4, <3>3, <3>4 DEF DeleteEmail
  <2>5. CASE UNCHANGED <<users, shares, lacking>>
    BY <2>1, <2>5
  <2> QED
    BY <2>2, <2>3, <2>4, <2>5, NextCases
       DEF RollBack, Check, FindOld, InsertEmail, InsertDuplicate, CreateUser, UpdateOld,
           LockUser, ReadUser, DeleteUser, tables, vars
<1> QED
  BY <1>1, <1>2, RequestsIsolated, PTL DEF Spec

-----------------------------------------------------------------------------
(* The accounts.                                                           *)

\* A registration has its e-mail to itself from its insertion on; an account that is not
\* stranded has its e-mail in the table; who unregisters or changes the password is
\* registered.
AccountInv ==
    /\ \A h \in Handler :
        pc[h] \in {"user", "commit"} => emailLock[mail[h]] = h /\ mail[h] \notin emails
    /\ \A u \in Registered : u.id \notin stranded => u.email \in emails
    /\ \A h \in Handler : pc[h] \in {"save", "drop", "dropmail"} =>
        \A u \in users : u.id = user[h] => u.password # NoPassword
    /\ OneAccountPerEmail

\* A step gives a password to the row it registers only.
LEMMA PasswordGiven ==
    ASSUME RequestInv, AccountInv, [Next]_vars, NEW w \in users', w.password # NoPassword
    PROVE  \/ \E v \in users : v.id = w.id /\ v.email = w.email /\ v.password # NoPassword
           \/ \E h \in Creator : CommitCreate(h) /\ w.id = user[h] /\ w.email = mail[h]
<1> DEFINE Origin ==
      \/ \E v \in users : v.id = w.id /\ v.email = w.email /\ v.password # NoPassword
      \/ \E h \in Creator : CommitCreate(h) /\ w.id = user[h] /\ w.email = mail[h]
<1>1. CASE users' = users
  BY <1>1
<1>2. ASSUME NEW h \in Creator, CommitCreate(h) PROVE Origin
  <2>1. PICK p \in Password, r \in User :
          /\ r.id = user[h] /\ r.email = mail[h] /\ r.password = p
          /\ users' = {u \in users : u.id # user[h]} \cup {r}
          /\ \/ \E v \in users : v.id = r.id /\ v.live = r.live
             \/ user[h] \notin {v.id : v \in users} /\ r.live = TRUE
          /\ \E new \in SaveKeyShares(mail[h], p, user[h]) :
               shares' = shares \cup new /\ Saved({user[h]}, new)
    BY <1>2, CreateCommits
  <2> QED
    BY <1>2, <2>1
<1>3. ASSUME NEW h \in Changer, CommitChange(h) PROVE Origin
  <2> DEFINE us == SameKey(user[h])
  <2>1. us \subseteq users
    BY <1>3, ChangeCommits
  <2>2. PICK p \in Password :
          users' = (users \ us) \cup {[u EXCEPT !.password = p] : u \in us}
    BY <1>3, ChangeCommits
  <2>3. \A u \in us : u.password # NoPassword
    BY <1>3, HandlerFacts DEF CommitChange, SameKey, AccountInv
  <2> HIDE DEF us
  <2>4. CASE w \in users
    BY <2>4
  <2>5. ASSUME NEW u \in us, w = [u EXCEPT !.password = p] PROVE Origin
    <3>1. u \in User
      BY <2>1 DEF RequestInv, TypeOK
    <3>2. w.id = u.id /\ w.email = u.email
      BY <2>5, <3>1 DEF User
    <3> QED
      BY <2>1, <2>3, <3>2
  <2> QED
    BY <2>2, <2>4, <2>5
<1>4. ASSUME NEW d \in Deleter, DeleteEmail(d) PROVE Origin
  <2>1. PICK v \in users : w = IF v.id = user[d] THEN [v EXCEPT !.live = FALSE] ELSE v
    BY <1>4 DEF DeleteEmail
  <2>2. v \in User
    BY DEF RequestInv, TypeOK
  <2>3. v.id = w.id /\ v.email = w.email /\ v.password = w.password
    BY <2>1, <2>2 DEF User
  <2> QED
    BY <2>3
<1> QED
  BY <1>1, <1>2, <1>3, <1>4, NextCases
     DEF RollBack, Check, FindOld, InsertEmail, InsertDuplicate, CreateUser, UpdateOld,
         LockUser, ReadUser, DeleteUser, tables, vars

\* The account an unregistration takes is not registered after it.
LEMMA DropsAccount ==
    ASSUME RequestInv, NEW d \in Deleter, DeleteEmail(d)
    PROVE  \A w \in Registered' : w.id # user[d]
<1> SUFFICES ASSUME NEW w \in Registered', w.id = user[d] PROVE FALSE
  OBVIOUS
<1>1. PICK v \in users : w = IF v.id = user[d] THEN [v EXCEPT !.live = FALSE] ELSE v
  BY DEF DeleteEmail, Registered
<1>2. v \in User
  BY DEF RequestInv, TypeOK
<1>3. v.id = w.id
  BY <1>1, <1>2 DEF User
<1> QED
  BY <1>1, <1>2, <1>3 DEF User, Registered

\* The rows that were registered before a step, or after.
LEMMA RegisteredStep ==
    ASSUME RequestInv, AccountInv, [Next]_vars
    PROVE  /\ \A w \in Registered' :
                \/ \E v \in Registered : v.id = w.id /\ v.email = w.email
                \/ \E h \in Creator : /\ CommitCreate(h)
                                      /\ w.id = user[h] /\ w.email = mail[h]
           /\ \A v \in Registered :
                \/ \E w \in Registered' : v.id = w.id /\ v.email = w.email
                \/ \E d \in Deleter : DeleteEmail(d) /\ v.id = user[d]
<1>1. ASSUME NEW w \in Registered',
             NEW v \in users, v.id = w.id, v.email = w.email, v.password # NoPassword
      PROVE  v \in Registered
  <2>1. PICK x \in users' :
          /\ x.id = v.id
          /\ x.live # v.live => \E d \in Deleter : DeleteEmail(d) /\ v.id = user[d]
    BY RowsKept
  <2>2. x = w
    BY <1>1, <2>1, RowsKept DEF Registered
  <2>3. \A d \in Deleter : DeleteEmail(d) => w.id # user[d]
    BY DropsAccount
  <2>4. w.live
    BY DEF Registered
  <2>5. v.live \in BOOLEAN /\ w.live \in BOOLEAN
    <3>1. w \in users'
      BY DEF Registered
    <3> QED
      BY <1>1, <2>1, <2>2, <2>3, <2>4 DEF RequestInv, TypeOK, User
  <2> QED
    BY <1>1, <2>1, <2>2, <2>3, <2>4, <2>5 DEF Registered
<1>2. \A v \in Registered :
        \/ \E w \in Registered' : v.id = w.id /\ v.email = w.email
        \/ \E d \in Deleter : DeleteEmail(d) /\ v.id = user[d]
  BY RowsKept DEF Registered
<1>3. \A w \in Registered' : w \in users' /\ w.password # NoPassword
  BY DEF Registered
<1> QED
  BY <1>1, <1>2, <1>3, PasswordGiven

\* A registration commits an e-mail no account has but stranded ones.
LEMMA CommitsNewEmail ==
    ASSUME RequestInv, AccountInv, NEW h \in Creator, CommitCreate(h)
    PROVE  /\ mail[h] \notin emails
           /\ \A v \in Registered : v.id \notin stranded => v.email # mail[h]
           /\ \A g \in Handler :
                pc[g] \in {"user", "commit"} /\ mail[g] = mail[h] => g = h
BY HandlerFacts DEF CommitCreate, AccountInv, RequestInv, TypeOK

\* An e-mail is inserted and deleted by the commits only, and so is what they strand.
LEMMA EmailsStep ==
    ASSUME [Next]_vars
    PROVE  \/ emails' = emails /\ stranded' = stranded
           \/ \E h \in Creator : /\ CommitCreate(h) /\ emails' = emails \cup {mail[h]}
                                 /\ stranded' = stranded \ {user[h]}
           \/ \E d \in Deleter : /\ DeleteEmail(d) /\ emails' = emails \ {mail[d]}
                                 /\ stranded' = stranded \cup (IdsOf(mail[d]) \ {user[d]})
BY NextCases
   DEF RollBack, Check, FindOld, InsertEmail, InsertDuplicate, CreateUser, UpdateOld,
       CommitCreate, LockUser, CommitChange, ReadUser, DeleteUser, DeleteEmail, tables, vars

\* The e-mail a registration has inserted is locked by it until it commits.
LEMMA EmailLocked ==
    ASSUME RequestInv, AccountInv, [Next]_vars, RequestInv',
           NEW g \in Handler, pc'[g] \in {"user", "commit"}
    PROVE  emailLock'[mail'[g]] = g /\ mail'[g] \notin emails'
<1> DEFINE Held == emailLock'[mail'[g]] = g
<1> USE HandlerFacts
<1>1. ASSUME mail'[g] = mail[g], pc[g] \in {"user", "commit"},
             \A h \in Creator : ~(h = g /\ CommitCreate(h))
      PROVE  mail'[g] \notin emails'
  BY <1>1, CommitsNewEmail, EmailsStep DEF AccountInv
<1>2. \A h \in Handler : Ends(h) => h # g
  BY DEF Ends, RequestInv, TypeOK
<1>3. CASE \E h \in Handler : Ends(h)
  <2>1. PICK h \in Handler : Ends(h)
    BY <1>3
  <2>2. mail'[g] = mail[g] /\ pc'[g] = pc[g]
    BY <1>2, <2>1 DEF Ends, RequestInv, TypeOK
  <2>3. mail[g] \in Email
    BY <2>2 DEF RequestInv, LocalsInv
  <2>4. Held
    <3>1. emailLock[mail[g]] = g
      BY <2>2 DEF AccountInv
    <3>2. h # g
      BY <1>2, <2>1
    <3>3. emailLock'[mail[g]] = g
      BY <2>1, <2>3, <3>1, <3>2 DEF Ends
    <3> QED
      BY <2>2, <3>3
  <2>5. \A i \in Creator : ~(i = g /\ CommitCreate(i))
    BY <1>2, EndsIt
  <2> QED
    BY <1>1, <2>2, <2>4, <2>5
<1>4. ASSUME NEW h \in Creator, InsertEmail(h) PROVE Held /\ mail'[g] \notin emails'
  <2>1. mail[h] \in Email
    BY <1>4 DEF InsertEmail, RequestInv, LocalsInv
  <2>2. CASE g = h
    BY <1>4, <2>1, <2>2 DEF InsertEmail, Goto, tables, RequestInv, TypeOK
  <2>3. CASE g # h
    BY <1>4, <2>1, <2>3, <1>1 DEF InsertEmail, Goto, tables, AccountInv, RequestInv, TypeOK
  <2> QED
    BY <2>2, <2>3
<1>5. CASE /\ UNCHANGED <<emails, emailLock>>
           /\ mail'[g] = mail[g] /\ pc[g] \in {"user", "commit"}
  BY <1>5 DEF AccountInv
<1>6. ASSUME NEW h \in Handler, UNCHANGED <<emails, emailLock>>,
             \A f \in Handler : f # h => pc'[f] = pc[f] /\ mail'[f] = mail[f],
             (pc[h] = "user" /\ mail'[h] = mail[h]) \/ pc'[h] \notin {"user", "commit"}
      PROVE  Held /\ mail'[g] \notin emails'
  BY <1>5, <1>6
<1>7. ASSUME NEW h \in Handler, NEW e \in Asks[h], Check(h, e)
      PROVE  Held /\ mail'[g] \notin emails'
  BY <1>6, <1>7 DEF Check, Goto, tables, RequestInv, TypeOK
<1>8. ASSUME NEW h \in Creator, FindOld(h) \/ CreateUser(h) \/ UpdateOld(h)
      PROVE  Held /\ mail'[g] \notin emails'
  BY <1>6, <1>8 DEF FindOld, CreateUser, UpdateOld, Goto, tables, RequestInv, TypeOK
<1>9. ASSUME NEW h \in Changer, NEW u \in users, LockUser(h, u)
      PROVE  Held /\ mail'[g] \notin emails'
  BY <1>6, <1>9 DEF LockUser, Goto, tables, RequestInv, TypeOK
<1>10. ASSUME NEW h \in Deleter, (\E u \in users : ReadUser(h, u)) \/ DeleteUser(h)
      PROVE  Held /\ mail'[g] \notin emails'
  BY <1>6, <1>10 DEF ReadUser, DeleteUser, Goto, tables, RequestInv, TypeOK
<1>11. CASE UNCHANGED vars
  BY <1>5, <1>11 DEF vars, tables
<1>12. \A h \in Handler :
        RollBack(h) \/ InsertDuplicate(h) \/ CommitCreate(h) \/ CommitChange(h) \/ DeleteEmail(h)
        => Ends(h)
  BY EndsIt DEF RollBack, InsertDuplicate, CommitChange, DeleteEmail
<1> QED
  BY <1>3, <1>4, <1>7, <1>8, <1>9, <1>10, <1>11, <1>12, NextCases

\* A request that changes a password or unregisters stays where it is and with its row, loses
\* the row, or has just found it.
LEMMA OwnStep ==
    ASSUME RequestInv, [Next]_vars, NEW g \in Handler, pc'[g] \in {"save", "drop", "dropmail"}
    PROVE  \/ /\ pc[g] \in {"save", "drop", "dropmail"} /\ user'[g] = user[g]
              /\ g \in Deleter => ~DeleteEmail(g)
              /\ g \in Deleter <=> pc[g] \in {"drop", "dropmail"}
           \/ /\ pc[g] = "drop" /\ user'[g] = NoUser
              /\ \E h \in Creator : CommitCreate(h) /\ user[g] = user[h]
           \/ \E u \in users : LockUser(g, u)
           \/ \E u \in users : ReadUser(g, u)
<1> DEFINE P ==
      \/ /\ pc[g] \in {"save", "drop", "dropmail"} /\ user'[g] = user[g]
         /\ g \in Deleter => ~DeleteEmail(g)
         /\ g \in Deleter <=> pc[g] \in {"drop", "dropmail"}
      \/ /\ pc[g] = "drop" /\ user'[g] = NoUser
         /\ \E h \in Creator : CommitCreate(h) /\ user[g] = user[h]
      \/ \E u \in users : LockUser(g, u)
      \/ \E u \in users : ReadUser(g, u)
<1> USE HandlerFacts
<1>1. ~Ends(g) /\ (g \in Deleter => ~DeleteEmail(g))
  BY EndsIt DEF Ends, DeleteEmail, RequestInv, TypeOK
<1>2. pc[g] \in {"save", "drop", "dropmail"} => (g \in Deleter <=> pc[g] \in {"drop", "dropmail"})
  BY DEF RequestInv, LocalsInv
<1>3. ASSUME NEW h \in Handler, Ends(h) PROVE P
  <2>1. g # h /\ pc'[g] = pc[g]
    BY <1>1, <1>3 DEF Ends, RequestInv, TypeOK
  <2>2. CommitCreate(h) => h \in Creator
    BY DEF CommitCreate, RequestInv, LocalsInv
  <2> QED
    BY <1>1, <1>2, <1>3, <2>1, <2>2 DEF Ends
<1>4. ASSUME NEW h \in Handler, pc'[h] \notin {"save", "drop", "dropmail"},
             \A f \in Handler : f # h => pc'[f] = pc[f] /\ user'[f] = user[f]
      PROVE  P
  BY <1>1, <1>2, <1>4
<1>5. ASSUME NEW h \in Handler, NEW e \in Asks[h], Check(h, e) PROVE P
  BY <1>4, <1>5 DEF Check, Goto, RequestInv, TypeOK
<1>6. ASSUME NEW h \in Creator, FindOld(h) \/ InsertEmail(h) \/ CreateUser(h) \/ UpdateOld(h)
      PROVE  P
  BY <1>4, <1>6 DEF FindOld, InsertEmail, CreateUser, UpdateOld, Goto, RequestInv, TypeOK
<1>7. ASSUME NEW h \in Changer, NEW u \in users, LockUser(h, u) PROVE P
  <2>1. g # h => pc'[g] = pc[g] /\ user'[g] = user[g]
    BY <1>7 DEF LockUser, Goto, RequestInv, TypeOK
  <2> QED
    BY <1>1, <1>2, <1>7, <2>1
<1>8. ASSUME NEW h \in Deleter, NEW u \in users, ReadUser(h, u) PROVE P
  <2>1. g # h => pc'[g] = pc[g] /\ user'[g] = user[g]
    BY <1>8 DEF ReadUser, Goto, RequestInv, TypeOK
  <2> QED
    BY <1>1, <1>2, <1>8, <2>1
<1>9. ASSUME NEW h \in Deleter, DeleteUser(h) PROVE P
  <2>1. user' = user /\ pc[g] \in {"save", "drop", "dropmail"}
    BY <1>9 DEF DeleteUser, Goto, RequestInv, TypeOK
  <2> QED
    BY <1>1, <1>2, <2>1
<1>10. CASE UNCHANGED vars
  BY <1>1, <1>2, <1>10 DEF vars
<1>11. \A h \in Handler :
        RollBack(h) \/ InsertDuplicate(h) \/ CommitCreate(h) \/ CommitChange(h) \/ DeleteEmail(h)
        => Ends(h)
  BY EndsIt DEF RollBack, InsertDuplicate, CommitChange, DeleteEmail
<1> QED
  BY <1>3, <1>5, <1>6, <1>7, <1>8, <1>9, <1>10, <1>11, NextCases

\* Whoever registers has a password.
LEMMA CreatedHasPassword ==
    ASSUME RequestInv, NEW h \in Creator, CommitCreate(h), NEW w \in users', w.id = user[h]
    PROVE  w.password # NoPassword
<1>1. PICK p \in Password, r \in User :
        /\ r.id = user[h] /\ r.email = mail[h] /\ r.password = p
        /\ users' = {u \in users : u.id # user[h]} \cup {r}
        /\ \/ \E v \in users : v.id = r.id /\ v.live = r.live
           \/ user[h] \notin {v.id : v \in users} /\ r.live = TRUE
        /\ \E new \in SaveKeyShares(mail[h], p, user[h]) :
             shares' = shares \cup new /\ Saved({user[h]}, new)
  BY CreateCommits
<1>2. w = r
  BY <1>1
<1> QED
  BY <1>1, <1>2, PasswordAssumption

\* The rows a step leaves have a password if the rows before it had.
LEMMA PasswordKept ==
    ASSUME RequestInv, [Next]_vars, NEW i \in Id,
           \A u \in users : u.id = i => u.password # NoPassword,
           NEW w \in users', w.id = i
    PROVE  w.password # NoPassword
<1>1. CASE \E v \in users : v.id = i
  BY <1>1, RowsKept
<1> QED
  BY <1>1, RowsKept, CreatedHasPassword

\* Every step keeps one account of an e-mail: a registration holds the e-mail's lock from
\* its insertion, and whoever frees an e-mail takes its account or strands it.
LEMMA AccountStep ==
    ASSUME RequestInv, AccountInv, [Next]_vars, RequestInv'
    PROVE  AccountInv'
<1> USE HandlerFacts
<1>1. \A w \in Registered' :
        \/ \E v \in Registered : v.id = w.id /\ v.email = w.email
        \/ \E h \in Creator : CommitCreate(h) /\ w.id = user[h] /\ w.email = mail[h]
  BY RegisteredStep
<1>2. ASSUME NEW h \in Creator, CommitCreate(h), NEW v \in Registered, v.id = user[h]
      PROVE  v.email = mail[h]
  BY <1>2 DEF CommitCreate, RequestInv, FoundInv, Registered
<1>3. ASSUME NEW w \in Registered', w.id \notin stranded' PROVE w.email \in emails'
  <2>1. ASSUME NEW h \in Creator, CommitCreate(h), w.email = mail[h]
        PROVE  w.email \in emails'
    BY <2>1 DEF CommitCreate
  <2>2. ASSUME NEW v \in Registered, v.id = w.id, v.email = w.email
        PROVE  w.email \in emails'
    <3>1. v.id \notin stranded => v.email \in emails
      BY DEF AccountInv
    <3>2. CASE emails' = emails /\ stranded' = stranded
      BY <1>3, <2>2, <3>1, <3>2
    <3>3. ASSUME NEW h \in Creator, CommitCreate(h), emails' = emails \cup {mail[h]},
                 stranded' = stranded \ {user[h]}
          PROVE  w.email \in emails'
      BY <1>2, <1>3, <2>2, <3>1, <3>3
    <3>4. ASSUME NEW d \in Deleter, DeleteEmail(d), emails' = emails \ {mail[d]},
                 stranded' = stranded \cup (IdsOf(mail[d]) \ {user[d]})
          PROVE  w.email \in emails'
      <4>1. w.id # user[d]
        BY <3>4, DropsAccount
      <4>2. v.email # mail[d]
        BY <1>3, <2>2, <3>4, <4>1 DEF IdsOf, Registered
      <4> QED
        BY <1>3, <2>2, <3>1, <3>4, <4>2
    <3> QED
      BY <3>2, <3>3, <3>4, EmailsStep
  <2> QED
    BY <1>1, <2>1, <2>2
<1>4. OneAccountPerEmail'
  <2> SUFFICES ASSUME NEW w \in Registered', NEW x \in Registered', w.email = x.email,
                      w.id \notin stranded', x.id \notin stranded'
               PROVE  w.id = x.id
    BY DEF OneAccountPerEmail, Registered, RequestInv, RowsInv
  <2>1. CASE \A h \in Creator : ~CommitCreate(h)
    <3>1. stranded \subseteq stranded'
      BY <2>1, EmailsStep
    <3>2. PICK v \in Registered : v.id = w.id /\ v.email = w.email
      BY <1>1, <2>1
    <3>3. PICK y \in Registered : y.id = x.id /\ y.email = x.email
      BY <1>1, <2>1
    <3> QED
      BY <3>1, <3>2, <3>3 DEF AccountInv, OneAccountPerEmail
  <2>2. ASSUME NEW h \in Creator, CommitCreate(h) PROVE w.id = x.id
    <3>1. stranded' = stranded \ {user[h]}
      BY <2>2 DEF CommitCreate
    <3>2. \A g \in Creator : CommitCreate(g) => g = h
      <4> SUFFICES ASSUME NEW g \in Creator, CommitCreate(g) PROVE g = h
        OBVIOUS
      <4>1. Ends(h) /\ Ends(g)
        BY <2>2, EndsIt
      <4>2. pc[g] = "commit"
        BY DEF CommitCreate
      <4>3. pc'[g] = "idle"
        BY <4>1 DEF Ends, RequestInv, TypeOK
      <4> QED
        BY <4>1, <4>2, <4>3 DEF Ends, RequestInv, TypeOK
    <3>3. ASSUME NEW y \in Registered', y.id \notin stranded'
          PROVE  IF y.id = user[h] THEN y.email = mail[h]
                 ELSE \E v \in Registered : /\ v.id = y.id /\ v.email = y.email
                                            /\ v.id \notin stranded /\ v.email # mail[h]
      BY <1>1, <1>2, <2>2, <3>1, <3>2, <3>3, CommitsNewEmail
    <3> QED
      BY <3>3 DEF AccountInv, OneAccountPerEmail
  <2> QED
    BY <2>1, <2>2
<1>5. ASSUME NEW g \in Handler, pc'[g] \in {"save", "drop", "dropmail"},
             NEW w \in users', w.id = user'[g]
      PROVE  w.password # NoPassword
  <2>1. w.id \in Id /\ w.id # NoUser
    BY DEF RequestInv, TypeOK, User, Id, NoUser
  <2>2. CASE pc[g] \in {"save", "drop", "dropmail"} /\ user'[g] = user[g]
    BY <1>5, <2>1, <2>2, PasswordKept DEF AccountInv
  <2>3. ASSUME NEW u \in users, LockUser(g, u) \/ ReadUser(g, u) PROVE w.password # NoPassword
    <3>1. users' = users /\ user'[g] = u.id /\ u.password # NoPassword
      BY <2>3 DEF LockUser, ReadUser, tables, RequestInv, TypeOK
    <3> QED
      BY <1>5, <3>1 DEF RequestInv, RowsInv
  <2> QED
    BY <1>5, <2>1, <2>2, <2>3, OwnStep
<1> QED
  BY <1>3, <1>4, <1>5, EmailLocked DEF AccountInv

\* Registrations, unregistrations and changes of passwords never leave an e-mail with two
\* accounts (createAccount.go:127-198, deleteAccount.go:88-108), but for accounts whose
\* e-mail was freed with the nonce of another, or with one used up (45-48, 88-98).
THEOREM OneAccount == Spec => []OneAccountPerEmail
<1>1. Init => AccountInv
  BY DEF Init, AccountInv, Registered, OneAccountPerEmail, Migrated
<1>2. RequestInv /\ AccountInv /\ [Next]_vars /\ RequestInv' => AccountInv'
  BY AccountStep
<1>3. AccountInv => OneAccountPerEmail
  BY DEF AccountInv
<1> QED
  BY <1>1, <1>2, <1>3, RequestsIsolated, PTL DEF Spec

-----------------------------------------------------------------------------
(* The statistics.                                                         *)

\* What the code does not enforce and the self-consistency check of the statistics needs:
\* no e-mail of a v2 user is freed,
OldUsersStay == \A d \in Deleter : Asks[d] \cap OldUser = {}

\* and no two unregistrations that are under way have read the same nonce.
NoncesApart ==
    \A d, e \in Deleter :
        /\ pc[d] \in {"drop", "dropmail"} /\ pc[e] \in {"drop", "dropmail"}
        /\ user[d] = user[e]
        => d = e

\* The rows of the v2 users stay, and new ids come after theirs.
OldIdsInv ==
    \A i \in OldIds : i <= lastId /\ \E u \in users : u.id = i

\* A registration takes over the row of a v2 user who has not registered, or gives its
\* row an id no row has; a v2 user who has registered keeps his e-mail.
OldRowsInv ==
    /\ \A u \in users : u.id \in OldIds => u.email \in OldUser
    /\ \A u \in users : u.id \in OldIds /\ u.password # NoPassword => u.email \in emails
    /\ \A u \in users : u.password = NoPassword => u.live
    /\ \A h \in Handler : pc[h] \in {"insert", "user", "commit"} =>
        \/ user[h] = NoUser
        \/ user[h] \in OldIds
        \/ pc[h] = "commit" /\ user[h] \notin {u.id : u \in users}

\* The account an unregistration has read is in force.
DropsInv ==
    \A d \in Deleter : pc[d] \in {"drop", "dropmail"} => \E u \in Registered : u.id = user[d]

\* The tables are counted.
CountInv == IsFiniteSet(emails) /\ EmailsMatchUsers

\* The rows of the v2 users are there first.
LEMMA OldIdsInit ==
    ASSUME Init
    PROVE  OldIdsInv
<1> SUFFICES ASSUME NEW e \in OldUser PROVE \E u \in users : u.id = OldId[e]
  BY DEF Init, OldIdsInv, OldIds
<1>1. Migrated(e) \in users /\ Migrated(e).id = OldId[e]
  BY DEF Init, Migrated
<1> QED
  BY <1>1

\* Nothing takes such a row away.
LEMMA OldIdsStep ==
    ASSUME RequestInv, OldIdsInv, [Next]_vars
    PROVE  OldIdsInv'
<1>1. lastId \in Nat /\ lastId' \in Nat /\ \A i \in OldIds : i \in Nat
  <2>1. lastId' = lastId \/ lastId' = lastId + 1
    BY NextCases
       DEF RollBack, Check, FindOld, InsertEmail, InsertDuplicate, CreateUser, UpdateOld,
           CommitCreate, LockUser, CommitChange, ReadUser, DeleteUser, DeleteEmail, vars
  <2> QED
    BY <2>1, OldIdFacts, MaxIdAssumption DEF RequestInv, TypeOK
<1>2. lastId <= lastId'
  <2>1. lastId' = lastId \/ lastId' = lastId + 1
    BY NextCases
       DEF RollBack, Check, FindOld, InsertEmail, InsertDuplicate, CreateUser, UpdateOld,
           CommitCreate, LockUser, CommitChange, ReadUser, DeleteUser, DeleteEmail, vars
  <2> QED
    BY <1>1, <2>1
<1>3. \A i \in OldIds : i <= lastId'
  BY <1>1, <1>2 DEF OldIdsInv
<1>4. \A i \in OldIds : \E u \in users' : u.id = i
  BY RowsKept DEF OldIdsInv
<1> QED
  BY <1>3, <1>4 DEF OldIdsInv

\* A registration commits a user who was not registered, with an account in force.
LEMMA CommitsNewUser ==
    ASSUME RequestInv, AccountInv, OldRowsInv, NEW h \in Creator, CommitCreate(h)
    PROVE  /\ \A v \in Registered : v.id # user[h]
           /\ \E w \in Registered' : w.id = user[h]
<1> USE HandlerFacts
<1>1. pc[h] = "commit" /\ user[h] \in Id /\ user[h] # NoUser
  BY DEF CommitCreate, RequestInv, LocalsInv, Id, NoUser
<1>2. ASSUME NEW v \in users, v.id = user[h] PROVE v.password = NoPassword /\ v.live
  <2>1. v.id \in OldIds
    BY <1>1, <1>2 DEF OldRowsInv
  <2>2. v.email = mail[h] /\ mail[h] \notin emails
    BY <1>1, <1>2 DEF RequestInv, FoundInv, AccountInv
  <2> QED
    BY <2>1, <2>2 DEF OldRowsInv
<1>3. PICK p \in Password, r \in User :
        /\ r.id = user[h] /\ r.email = mail[h] /\ r.password = p
        /\ users' = {u \in users : u.id # user[h]} \cup {r}
        /\ \/ \E v \in users : v.id = r.id /\ v.live = r.live
           \/ user[h] \notin {v.id : v \in users} /\ r.live = TRUE
        /\ \E new \in SaveKeyShares(mail[h], p, user[h]) :
             shares' = shares \cup new /\ Saved({user[h]}, new)
  BY CreateCommits
<1>4. r.live
  BY <1>2, <1>3
<1>5. r \in Registered'
  BY <1>3, <1>4, PasswordAssumption DEF Registered
<1> QED
  BY <1>2, <1>3, <1>5 DEF Registered

\* Every step keeps the rows of the v2 users apart from new ones.
LEMMA OldRowsStep ==
    ASSUME OldUsersStay, RequestInv, AccountInv, OldIdsInv, OldRowsInv, [Next]_vars, RequestInv'
    PROVE  OldRowsInv'
<1> DEFINE Fine(g) ==
      pc'[g] \in {"insert", "user", "commit"} =>
        \/ user'[g] = NoUser
        \/ user'[g] \in OldIds
        \/ pc'[g] = "commit" /\ user'[g] \notin {u.id : u \in users'}
<1> USE HandlerFacts
<1>1. ASSUME NEW w \in users', w.id \in OldIds PROVE w.email \in OldUser
  <2>1. ASSUME NEW h \in Creator, CommitCreate(h), w.id = user[h], w.email = mail[h]
        PROVE  w.email \in OldUser
    <3>1. PICK v \in users : v.id = user[h]
      BY <1>1, <2>1 DEF OldIdsInv
    <3>2. v.email = mail[h]
      BY <2>1, <3>1 DEF CommitCreate, RequestInv, FoundInv
    <3> QED
      BY <1>1, <2>1, <3>1, <3>2 DEF OldRowsInv
  <2> QED
    BY <1>1, <2>1, RowsKept DEF OldRowsInv
<1>2. ASSUME NEW w \in users', w.id \in OldIds, w.password # NoPassword
      PROVE  w.email \in emails'
  <2>1. ASSUME NEW h \in Creator, CommitCreate(h), w.email = mail[h]
        PROVE  w.email \in emails'
    BY <2>1 DEF CommitCreate
  <2>2. ASSUME NEW v \in users, v.id = w.id, v.email = w.email, v.password # NoPassword
        PROVE  w.email \in emails'
    <3>1. w.email \in emails /\ w.email \in OldUser
      BY <1>1, <1>2, <2>2 DEF OldRowsInv
    <3>2. ASSUME NEW d \in Deleter, DeleteEmail(d) PROVE w.email # mail[d]
      <4>1. mail[d] \in Asks[d]
        BY <3>2 DEF DeleteEmail, RequestInv, LocalsInv
      <4> QED
        BY <3>1, <4>1 DEF OldUsersStay
    <3> QED
      BY <3>1, <3>2, EmailsStep
  <2> QED
    BY <1>2, <2>1, <2>2, PasswordGiven
<1>3. ASSUME NEW w \in users', w.password = NoPassword PROVE w.live
  <2>1. PICK v \in users : v.id = w.id
    BY <1>3, RowsKept, CreatedHasPassword
  <2>2. PICK x \in users' :
          /\ x.id = v.id
          /\ v.password # NoPassword => x.password # NoPassword
          /\ x.live # v.live => \E d \in Deleter : DeleteEmail(d) /\ v.id = user[d]
    BY RowsKept
  <2>3. x = w
    BY <2>1, <2>2, RowsKept
  <2>4. v.password = NoPassword /\ v.live
    BY <1>3, <2>2, <2>3 DEF OldRowsInv
  <2>5. ASSUME NEW d \in Deleter, DeleteEmail(d) PROVE v.id # user[d]
    BY <2>4, <2>5 DEF DeleteEmail, AccountInv
  <2> QED
    BY <2>2, <2>3, <2>4, <2>5
<1>4. ASSUME NEW g \in Handler, pc'[g] = pc[g], user'[g] = user[g] PROVE Fine(g)
  <2> SUFFICES ASSUME pc[g] = "commit", \A u \in users : u.id # user[g],
                      NEW w \in users'
               PROVE  w.id # user[g]
    BY <1>4 DEF OldRowsInv
  <2>1. ASSUME NEW h \in Creator, CommitCreate(h), w.id = user[h] PROVE w.id # user[g]
    <3>1. Ends(h) /\ pc[h] = "commit"
      BY <2>1, EndsIt DEF CommitCreate
    <3>2. pc'[h] = "idle"
      BY <3>1 DEF Ends, RequestInv, TypeOK
    <3>3. h # g
      BY <1>4, <3>2
    <3> QED
      BY <2>1, <3>1, <3>3 DEF RequestInv, UserLockInv
  <2> QED
    BY <2>1, RowsKept
<1>5. ASSUME NEW g \in Handler, pc'[g] \notin {"insert", "user", "commit"} PROVE Fine(g)
  BY <1>5
<1>6. ASSUME NEW h \in Handler, Fine(h),
             \A g \in Handler \ {h} : pc'[g] = pc[g] /\ user'[g] = user[g]
      PROVE  \A g \in Handler : Fine(g)
  BY <1>4, <1>6
<1> HIDE DEF Fine
<1>7. ASSUME NEW h \in Handler, Ends(h) PROVE \A g \in Handler : Fine(g)
  <2> SUFFICES ASSUME NEW g \in Handler PROVE Fine(g)
    OBVIOUS
  <2>1. g = h \/ pc'[g] = "drop" => Fine(g)
    BY <1>5, <1>7 DEF Ends, RequestInv, TypeOK
  <2>2. g # h => pc'[g] = pc[g]
    BY <1>7 DEF Ends, RequestInv, TypeOK
  <2> QED
    BY <1>4, <1>7, <2>1, <2>2 DEF Ends
<1>8. ASSUME NEW h \in Handler, NEW e \in Asks[h], Check(h, e) PROVE \A g \in Handler : Fine(g)
  BY <1>4, <1>5, <1>8 DEF Check, Goto, RequestInv, TypeOK
<1>9. ASSUME NEW h \in Creator, FindOld(h) PROVE \A g \in Handler : Fine(g)
  <2>1. OldRows(mail[h]) # {} => \E u \in OldRows(mail[h]) : user'[h] = u.id
    BY <1>9 DEF FindOld, RequestInv, TypeOK
  <2>2. user'[h] = NoUser \/ user'[h] \in OldIds
    BY <1>9, <2>1 DEF FindOld, OldRows, RequestInv, TypeOK
  <2>3. Fine(h)
    BY <2>2 DEF Fine
  <2> QED
    BY <1>6, <1>9, <2>3 DEF FindOld, Goto, RequestInv, TypeOK
<1>10. ASSUME NEW h \in Creator, InsertEmail(h) \/ UpdateOld(h)
       PROVE  \A g \in Handler : Fine(g)
  <2>1. pc[h] \in {"insert", "user"} /\ user'[h] = user[h]
    BY <1>10 DEF InsertEmail, UpdateOld
  <2>2. Fine(h)
    BY <2>1 DEF Fine, OldRowsInv
  <2> QED
    BY <1>6, <1>10, <2>2 DEF InsertEmail, UpdateOld, Goto, RequestInv, TypeOK
<1>11. ASSUME NEW h \in Creator, CreateUser(h) PROVE \A g \in Handler : Fine(g)
  <2>1. users' = users /\ pc'[h] = "commit" /\ user'[h] = lastId + 1
    BY <1>11 DEF CreateUser, Goto, tables, RequestInv, TypeOK
  <2>2. \A u \in users : u.id \in Nat /\ u.id <= lastId
    BY OldIdFacts DEF RequestInv, TypeOK, RowsInv, User, Id
  <2>3. \A u \in users : u.id # lastId + 1
    BY <2>2, MaxIdAssumption DEF RequestInv, TypeOK
  <2>4. Fine(h)
    BY <2>1, <2>3 DEF Fine
  <2> QED
    BY <1>6, <1>11, <2>4 DEF CreateUser, Goto, RequestInv, TypeOK
<1>12. ASSUME NEW h \in Changer, NEW u \in users, LockUser(h, u)
       PROVE  \A g \in Handler : Fine(g)
  BY <1>5, <1>6, <1>12 DEF LockUser, Goto, RequestInv, TypeOK
<1>13. ASSUME NEW h \in Deleter, (\E u \in users : ReadUser(h, u)) \/ DeleteUser(h)
       PROVE  \A g \in Handler : Fine(g)
  BY <1>5, <1>6, <1>13 DEF ReadUser, DeleteUser, Goto, RequestInv, TypeOK
<1>14. ASSUME UNCHANGED vars PROVE \A g \in Handler : Fine(g)
  BY <1>4, <1>14 DEF vars
<1>15. \A h \in Handler :
        RollBack(h) \/ InsertDuplicate(h) \/ CommitCreate(h) \/ CommitChange(h) \/ DeleteEmail(h)
        => Ends(h)
  BY EndsIt DEF RollBack, InsertDuplicate, CommitChange, DeleteEmail
<1>16. \A g \in Handler : Fine(g)
  BY <1>7, <1>8, <1>9, <1>10, <1>11, <1>12, <1>13, <1>14, <1>15, NextCases
<1> QED
  BY <1>1, <1>2, <1>3, <1>16 DEF OldRowsInv, Fine

\* While no two have one nonce, the account an unregistration has read stays in force.
LEMMA DropsStep ==
    ASSUME NoncesApart, RequestInv, AccountInv, OldRowsInv, DropsInv, [Next]_vars
    PROVE  DropsInv'
<1> USE HandlerFacts
<1> SUFFICES ASSUME NEW g \in Deleter, pc'[g] \in {"drop", "dropmail"}
             PROVE  \E w \in Registered' : w.id = user'[g]
  BY DEF DropsInv
<1>1. CASE pc[g] \in {"drop", "dropmail"} /\ user'[g] = user[g] /\ ~DeleteEmail(g)
  <2>1. PICK v \in Registered : v.id = user[g]
    BY <1>1 DEF DropsInv
  <2>2. ASSUME NEW d \in Deleter, DeleteEmail(d), v.id = user[d] PROVE FALSE
    <3>1. pc[d] = "dropmail"
      BY <2>2 DEF DeleteEmail
    <3> QED
      BY <1>1, <2>1, <2>2, <3>1 DEF NoncesApart
  <2> QED
    BY <1>1, <2>1, <2>2, RegisteredStep
<1>2. ASSUME pc[g] = "drop", NEW h \in Creator, CommitCreate(h), user[g] = user[h]
      PROVE  FALSE
  BY <1>2, CommitsNewUser DEF DropsInv
<1>3. ASSUME NEW u \in users, LockUser(g, u) PROVE FALSE
  BY <1>3 DEF LockUser, Goto, RequestInv, TypeOK
<1>4. ASSUME NEW u \in users, ReadUser(g, u) PROVE \E w \in Registered' : w.id = user'[g]
  BY <1>4 DEF ReadUser, tables, Registered, RequestInv, TypeOK
<1> QED
  BY <1>1, <1>2, <1>3, <1>4, OwnStep

\* Rows are counted by their ids.
LEMMA IdsCounted ==
    ASSUME NEW us \in SUBSET User, \A u, v \in us : u.id = v.id => u = v
    PROVE  /\ IsFiniteSet({u.id : u \in us})
           /\ Cardinality(us) = Cardinality({u.id : u \in us})
<1> DEFINE ids == {u.id : u \in us}
<1> DEFINE f == [u \in us |-> u.id]
<1>1. IsFiniteSet(ids)
  <2>1. ids \subseteq Id
    BY DEF User
  <2>2. IsFiniteSet(Id)
    BY FS_Interval, MaxIdAssumption DEF Id
  <2> QED
    BY <2>1, <2>2, FS_Subset
<1>2. f \in Bijection(us, ids)
  BY DEF Bijection, Injection, Surjection, IsInjective
<1>3. IsFiniteSet(us)
  <2>1. f \in Injection(us, ids)
    BY <1>2 DEF Bijection
  <2> QED
    BY <1>1, <2>1, FS_Injection
<1>4. ExistsBijection(us, ids)
  BY <1>2 DEF ExistsBijection
<1> QED
  BY <1>1, <1>3, <1>4, FS_Bijection

\* A registration adds one e-mail and one account, an unregistration deletes one of each,
\* if not of each other, and nothing else does either.
LEMMA CountStep ==
    ASSUME RequestInv, AccountInv, OldRowsInv, DropsInv, CountInv, [Next]_vars, RequestInv'
    PROVE  CountInv'
<1> DEFINE R == {u.id : u \in Registered}
<1> DEFINE S == {u.id : u \in Registered'}
<1> USE HandlerFacts
<1>1. IsFiniteSet(R) /\ Cardinality(Registered) = Cardinality(R)
  BY IdsCounted DEF Registered, RequestInv, TypeOK, RowsInv
<1>2. IsFiniteSet(S) /\ Cardinality(Registered') = Cardinality(S)
  BY IdsCounted DEF Registered, RequestInv, TypeOK, RowsInv
<1>3. IsFiniteSet(emails) /\ Cardinality(emails) = Cardinality(R)
  BY <1>1 DEF CountInv, EmailsMatchUsers
<1>4. ASSUME NEW h \in Creator, CommitCreate(h)
      PROVE  IsFiniteSet(emails') /\ Cardinality(emails') = Cardinality(S)
  <2>1. emails' = emails \cup {mail[h]} /\ mail[h] \notin emails
    BY <1>4, CommitsNewEmail DEF CommitCreate
  <2>2. \A g \in Creator : CommitCreate(g) => g = h
    <3> SUFFICES ASSUME NEW g \in Creator, CommitCreate(g) PROVE g = h
      OBVIOUS
    <3>1. Ends(h) /\ Ends(g)
      BY <1>4, EndsIt
    <3>2. pc[g] = "commit"
      BY DEF CommitCreate
    <3>3. pc'[g] = "idle"
      BY <3>1 DEF Ends, RequestInv, TypeOK
    <3> QED
      BY <3>1, <3>2, <3>3 DEF Ends, RequestInv, TypeOK
  <2>3. \A d \in Deleter : ~DeleteEmail(d)
    <3> SUFFICES ASSUME NEW d \in Deleter, DeleteEmail(d) PROVE FALSE
      OBVIOUS
    <3>1. Ends(h) /\ pc[d] = "dropmail" /\ pc'[d] = "idle" /\ d # h
      BY <1>4, EndsIt DEF DeleteEmail, Ends, RequestInv, TypeOK
    <3> QED
      BY <3>1 DEF Ends, RequestInv, TypeOK
  <2>4. S = R \cup {user[h]} /\ user[h] \notin R
    BY <1>4, <2>2, <2>3, CommitsNewUser, RegisteredStep
  <2> HIDE DEF R, S
  <2>5. IsFiniteSet(emails \cup {mail[h]})
        /\ Cardinality(emails \cup {mail[h]}) = Cardinality(emails) + 1
    BY <1>3, <2>1, FS_AddElement
  <2>6. Cardinality(R \cup {user[h]}) = Cardinality(R) + 1
    BY <1>1, <2>4, FS_AddElement
  <2> QED
    BY <1>3, <2>1, <2>4, <2>5, <2>6
<1>5. ASSUME NEW d \in Deleter, DeleteEmail(d)
      PROVE  IsFiniteSet(emails') /\ Cardinality(emails') = Cardinality(S)
  <2>1. emails' = emails \ {mail[d]} /\ mail[d] \in emails /\ pc[d] = "dropmail"
    BY <1>5 DEF DeleteEmail
  <2>2. \A h \in Creator : ~CommitCreate(h)
    <3> SUFFICES ASSUME NEW h \in Creator, CommitCreate(h) PROVE FALSE
      OBVIOUS
    <3>1. Ends(h) /\ pc'[d] = "idle" /\ d # h
      BY <1>5, EndsIt DEF DeleteEmail, Ends, RequestInv, TypeOK
    <3> QED
      BY <2>1, <3>1 DEF Ends, RequestInv, TypeOK
  <2>3. \A e \in Deleter : DeleteEmail(e) => e = d
    <3> SUFFICES ASSUME NEW e \in Deleter, DeleteEmail(e) PROVE e = d
      OBVIOUS
    <3>1. Ends(d) /\ pc[e] = "dropmail" /\ pc'[e] = "idle"
      BY <1>5, EndsIt DEF DeleteEmail, Ends, RequestInv, TypeOK
    <3> QED
      BY <3>1 DEF Ends, RequestInv, TypeOK
  <2>4. user[d] \in R
    BY <2>1 DEF DropsInv
  <2>5. S = R \ {user[d]}
    BY <1>5, <2>2, <2>3, DropsAccount, RegisteredStep
  <2> HIDE DEF R, S
  <2>6. IsFiniteSet(emails \ {mail[d]})
        /\ Cardinality(emails \ {mail[d]}) = Cardinality(emails) - 1
    BY <1>3, <2>1, FS_RemoveElement
  <2>7. Cardinality(R \ {user[d]}) = Cardinality(R) - 1
    BY <1>1, <2>4, FS_RemoveElement
  <2> QED
    BY <1>3, <2>1, <2>5, <2>6, <2>7
<1>6. ASSUME \A h \in Creator : ~CommitCreate(h), \A d \in Deleter : ~DeleteEmail(d)
      PROVE  IsFiniteSet(emails') /\ Cardinality(emails') = Cardinality(S)
  <2>1. emails' = emails
    BY <1>6, EmailsStep
  <2>2. S = R
    BY <1>6, RegisteredStep
  <2> HIDE DEF R, S
  <2> QED
    BY <1>3, <2>1, <2>2
<1> HIDE DEF R, S
<1> QED
  BY <1>2, <1>4, <1>5, <1>6 DEF CountInv, EmailsMatchUsers

\* The statistics' self-consistency check of adminCommands.go:185-199 never fails while no
\* e-mail of a v2 user is freed and no two unregistrations under way have read one nonce,
\* though the nonce may be that of another account than the e-mail's.
THEOREM EmailsCounted ==
    ASSUME OldUsersStay
    PROVE  Spec /\ []NoncesApart => []EmailsMatchUsers
<1> DEFINE IInv == AccountInv /\ OldIdsInv /\ OldRowsInv /\ DropsInv /\ CountInv
<1>1. Init => IInv
  <2> SUFFICES ASSUME Init PROVE IInv
    OBVIOUS
  <2>1. Registered = {} /\ emails = {}
    BY DEF Init, Registered, Migrated
  <2>2. \A h \in Handler : pc[h] = "idle"
    BY DEF Init
  <2>7. AccountInv
    BY <2>1, <2>2 DEF AccountInv, OneAccountPerEmail
  <2>8. DropsInv
    BY <2>2, HandlerFacts DEF DropsInv
  <2>3. CountInv
    BY <2>1, FS_EmptySet DEF CountInv, EmailsMatchUsers
  <2>4. \A u \in users : u.live /\ u.email \in OldUser /\ u.password = NoPassword
    BY DEF Init, Migrated
  <2>5. OldRowsInv
    BY <2>4 DEF Init, OldRowsInv
  <2>6. OldIdsInv
    BY OldIdsInit
  <2> QED
    BY <2>7, <2>8, <2>3, <2>5, <2>6
<1>2. RequestInv /\ IInv /\ NoncesApart /\ [Next]_vars /\ RequestInv' => IInv'
  BY AccountStep, OldIdsStep, OldRowsStep, DropsStep, CountStep
<1>3. IInv => EmailsMatchUsers
  BY DEF CountInv
<1> HIDE DEF IInv
<1> QED
  BY <1>1, <1>2, <1>3, RequestsIsolated, PTL DEF Spec

-----------------------------------------------------------------------------
(* The superuser.                                                          *)

\* Whose role is that of the superuser: a v2 user's as it was there, of the others the id 1.
Super(i) == IF i \in OldIds THEN \E e \in OldUser : OldId[e] = i /\ OldSuper[e] ELSE i = 1

SuperInv == \A u \in users : u.super <=> Super(u.id)

\* What a row that is inserted says of its user.
LEMMA RoleOfRow ==
    ASSUME NEW i, NEW e, NEW p, NEW b \in BOOLEAN, b <=> Super(i),
           NEW u, u = [id |-> i, email |-> e, live |-> TRUE, password |-> p, super |-> b]
    PROVE  u.super <=> Super(u.id)
<1>1. u.super = b /\ u.id = i
  OBVIOUS
<1> QED
  BY <1>1

\* Before any registration nobody has the role but v2 users.
LEMMA SuperInit ==
    ASSUME Init
    PROVE  SuperInv
<1> SUFFICES ASSUME NEW e \in OldUser, NEW u, u = Migrated(e) PROVE u.super <=> Super(u.id)
  BY DEF Init, SuperInv
<1>1. OldSuper[e] \in BOOLEAN
  BY OldIdAssumption
<1>2. OldSuper[e] <=> Super(OldId[e])
  BY OldIdAssumption DEF Super, OldIds
<1> QED
  BY <1>1, <1>2, RoleOfRow DEF Migrated

\* No statement but the insertion writes the role.
LEMMA SuperStep ==
    ASSUME RequestInv, OldIdsInv, SuperInv, [Next]_vars
    PROVE  SuperInv'
<1>1. users \subseteq User
  BY DEF RequestInv, TypeOK
<1>2. CASE users' = users
  BY <1>2 DEF SuperInv
<1>3. ASSUME NEW h \in Creator, CommitCreate(h) PROVE SuperInv'
  <2>1. PICK p \in Password : users' = {u \in users : u.id # user[h]} \cup Added(h, p)
    BY <1>3 DEF CommitCreate
  <2>2. ASSUME NEW v \in users, NEW u, u = [v EXCEPT !.password = p]
        PROVE  u.super <=> Super(u.id)
    <3>1. u.super = v.super /\ u.id = v.id
      BY <1>1, <2>2 DEF User
    <3> QED
      BY <3>1 DEF SuperInv
  <2>3. ASSUME NEW u, NEW i, i \notin {v.id : v \in users},
               u = [id |-> i, email |-> mail[h], live |-> TRUE, password |-> p,
                    super |-> i = 1]
        PROVE  u.super <=> Super(u.id)
    <3>1. i = 1 <=> Super(i)
      BY <2>3 DEF Super, OldIdsInv
    <3> QED
      BY <2>3, <3>1, RoleOfRow
  <2>4. ASSUME NEW u \in Added(h, p) PROVE u.super <=> Super(u.id)
    BY <2>2, <2>3, <2>4 DEF Added
  <2> QED
    BY <2>1, <2>4 DEF SuperInv
<1>4. ASSUME NEW h \in Changer, CommitChange(h) PROVE SuperInv'
  <2>1. PICK p \in Password :
          users' = (users \ SameKey(user[h]))
                     \cup {[u EXCEPT !.password = p] : u \in SameKey(user[h])}
    BY <1>4 DEF CommitChange
  <2>2. ASSUME NEW v \in users, NEW u, u = [v EXCEPT !.password = p]
        PROVE  u.super <=> Super(u.id)
    <3>1. u.super = v.super /\ u.id = v.id
      BY <1>1, <2>2 DEF User
    <3> QED
      BY <3>1 DEF SuperInv
  <2>3. SameKey(user[h]) \subseteq users
    BY DEF SameKey
  <2> QED
    BY <2>1, <2>2, <2>3 DEF SuperInv
<1>5. ASSUME NEW h \in Deleter, DeleteEmail(h) PROVE SuperInv'
  <2>1. ASSUME NEW v \in users, NEW u, u = [v EXCEPT !.live = FALSE]
        PROVE  u.super <=> Super(u.id)
    <3>1. u.super = v.super /\ u.id = v.id
      BY <1>1, <2>1 DEF User
    <3> QED
      BY <3>1 DEF SuperInv
  <2> QED
    BY <1>5, <2>1 DEF DeleteEmail, SuperInv
<1>6. ASSUME ~(users' = users),
             \A h \in Creator : ~CommitCreate(h), \A h \in Changer : ~CommitChange(h),
             \A d \in Deleter : ~DeleteEmail(d)
      PROVE  FALSE
  BY <1>6, NextCases
     DEF RollBack, Check, FindOld, InsertEmail, InsertDuplicate, CreateUser, UpdateOld,
         LockUser, ReadUser, DeleteUser, tables, vars
<1> QED
  BY <1>2, <1>3, <1>4, <1>5, <1>6

\* One superuser at most did not come from v2.
OneSuperUser ==
    \A u, v \in users :
        u.super /\ v.super /\ u.id \notin OldIds /\ v.id \notin OldIds => u = v

\* However registrations race each other, no two become superuser by the hook, which looks
\* at nothing but the id (hooks.go:13-18); the roles of v2 stay what they were, so that a
\* site with v2 users may have several (migrate-v2-to-v3/main.go:205).
THEOREM SuperUserIsOne == Spec => []OneSuperUser
<1>1. Init => SuperInv /\ OldIdsInv
  BY SuperInit, OldIdsInit
<1>2. RequestInv /\ SuperInv /\ OldIdsInv /\ [Next]_vars => SuperInv' /\ OldIdsInv'
  BY SuperStep, OldIdsStep
<1>3. RequestInv /\ SuperInv => OneSuperUser
  BY DEF RequestInv, RowsInv, SuperInv, Super, OneSuperUser
<1> QED
  BY <1>1, <1>2, <1>3, RequestsIsolated, PTL DEF Spec

\* The superusers of a site with v2 users are those of v2.
SuperUsersMigrated == \A u \in users : u.super => u.id \in OldIds

\* The ids that registrations draw are not the first one.
NewIdsInv ==
    /\ lastId >= 1
    /\ \A u \in users : u.id \in OldIds \/ u.id # 1
    /\ \A h \in Handler : pc[h] = "commit" /\ user[h] = 1 => 1 \in {u.id : u \in users}

\* The first id is a v2 user's or nobody's.
LEMMA NewIdsStep ==
    ASSUME RequestInv, NewIdsInv, [Next]_vars
    PROVE  NewIdsInv'
<1> USE HandlerFacts
<1>1. lastId \in Nat
  BY MaxIdAssumption DEF RequestInv, TypeOK
<1>2. lastId' >= 1
  <2>1. lastId' = lastId \/ lastId' = lastId + 1
    BY NextCases
       DEF RollBack, Check, FindOld, InsertEmail, InsertDuplicate, CreateUser, UpdateOld,
           CommitCreate, LockUser, CommitChange, ReadUser, DeleteUser, DeleteEmail, vars
  <2> QED
    BY <1>1, <2>1 DEF NewIdsInv
<1>3. ASSUME NEW w \in users' PROVE w.id \in OldIds \/ w.id # 1
  <2>1. ASSUME NEW h \in Creator, CommitCreate(h), w.id = user[h]
        PROVE  w.id \in OldIds \/ w.id # 1
    BY <2>1 DEF CommitCreate, NewIdsInv
  <2> QED
    BY <2>1, RowsKept DEF NewIdsInv
<1>4. ASSUME NEW g \in Handler, pc'[g] = "commit", user'[g] = 1
      PROVE  1 \in {u.id : u \in users'}
  <2> DEFINE P == 1 \in {u.id : u \in users}
  <2> SUFFICES P
    BY IdsKept
  <2>1. CASE pc[g] = "commit" /\ user[g] = 1
    BY <2>1 DEF NewIdsInv
  <2>2. ASSUME NEW h \in Handler, pc'[h] # "commit",
               \A f \in Handler : f # h => pc'[f] = pc[f] /\ (pc[f] = "commit" => user'[f] = user[f])
        PROVE  P
    BY <1>4, <2>1, <2>2
  <2>3. ASSUME NEW h \in Handler, Ends(h) PROVE P
    BY <2>2, <2>3 DEF Ends, RequestInv, TypeOK
  <2>4. ASSUME NEW h \in Handler, NEW e \in Asks[h], Check(h, e) PROVE P
    BY <2>2, <2>4 DEF Check, Goto, RequestInv, TypeOK
  <2>5. ASSUME NEW h \in Creator, FindOld(h) \/ InsertEmail(h) PROVE P
    BY <2>2, <2>5 DEF FindOld, InsertEmail, Goto, RequestInv, TypeOK
  <2>6. ASSUME NEW h \in Creator, CreateUser(h) PROVE P
    <3>1. h # g => pc'[g] = pc[g] /\ user'[g] = user[g]
      BY <2>6 DEF CreateUser, Goto, RequestInv, TypeOK
    <3>2. user'[h] = lastId + 1 /\ lastId + 1 # 1
      BY <2>6, <1>1 DEF CreateUser, RequestInv, TypeOK, NewIdsInv
    <3> QED
      BY <1>4, <2>1, <3>1, <3>2
  <2>7. ASSUME NEW h \in Creator, UpdateOld(h) PROVE P
    <3>1. h # g => pc'[g] = pc[g]
      BY <2>7 DEF UpdateOld, Goto, RequestInv, TypeOK
    <3>2. user' = user
      BY <2>7 DEF UpdateOld
    <3>3. user[h] \in {u.id : u \in users}
      BY <2>7 DEF UpdateOld, RequestInv, UserLockInv
    <3> QED
      BY <1>4, <2>1, <3>1, <3>2, <3>3
  <2>8. ASSUME NEW h \in Changer, NEW u \in users, LockUser(h, u) PROVE P
    BY <2>2, <2>8 DEF LockUser, Goto, RequestInv, TypeOK
  <2>9. ASSUME NEW h \in Deleter, (\E u \in users : ReadUser(h, u)) \/ DeleteUser(h) PROVE P
    BY <2>2, <2>9 DEF ReadUser, DeleteUser, Goto, RequestInv, TypeOK
  <2>10. ASSUME UNCHANGED vars PROVE P
    BY <1>4, <2>1, <2>10 DEF vars
  <2>11. \A h \in Handler :
          RollBack(h) \/ InsertDuplicate(h) \/ CommitCreate(h) \/ CommitChange(h) \/ DeleteEmail(h)
          => Ends(h)
    BY EndsIt DEF RollBack, InsertDuplicate, CommitChange, DeleteEmail
  <2> HIDE DEF P
  <2> QED
    BY <2>3, <2>4, <2>5, <2>6, <2>7, <2>8, <2>9, <2>10, <2>11, NextCases
<1> QED
  BY <1>2, <1>3, <1>4 DEF NewIdsInv

\* On a site that was migrated with its users nobody becomes superuser by registering ("Set
\* the first registered user to be superuser", hooks.go:12): the first id is taken or passed
\* over, and whom v2 did not give the role (main.go:205) never has it.
THEOREM NoSuperUserByRegistration ==
    ASSUME OldUser # {}
    PROVE  Spec => []SuperUsersMigrated
<1>1. Init => SuperInv /\ OldIdsInv /\ NewIdsInv
  <2> SUFFICES ASSUME Init PROVE NewIdsInv
    BY SuperInit, OldIdsInit
  <2>1. PICK i : i \in OldIds
    BY DEF OldIds
  <2>2. i \in Nat /\ i >= 1 /\ i <= lastId /\ lastId \in Nat
    BY <2>1, OldIdFacts, MaxIdAssumption DEF Init, Id
  <2>3. lastId >= 1
    BY <2>2
  <2>4. \A u \in users : u.id \in OldIds
    BY DEF Init, Migrated, OldIds
  <2> QED
    BY <2>3, <2>4 DEF Init, NewIdsInv
<1>2. /\ RequestInv /\ SuperInv /\ OldIdsInv /\ NewIdsInv /\ [Next]_vars
      => SuperInv' /\ OldIdsInv' /\ NewIdsInv'
  BY SuperStep, OldIdsStep, NewIdsStep
<1>3. SuperInv /\ NewIdsInv => SuperUsersMigrated
  BY DEF SuperInv, Super, NewIdsInv, SuperUsersMigrated
<1> QED
  BY <1>1, <1>2, <1>3, RequestsIsolated, PTL DEF Spec
==============================================================================
