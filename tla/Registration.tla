--------------------------- MODULE Registration ----------------------------
(***************************************************************************)
(* createAccount, changePassword and deleteAccount (pkg/route/security),   *)
(* with the middlewares that look for the e-mail before them and the hook  *)
(* of User (pkg/base/hooks.go): how the tables emails, users and           *)
(* decryption_key_shares stay in step.                                     *)
(*                                                                         *)
(* A middleware's read and the lookup of an old (v2) account are made      *)
(* outside the transaction that uses them.  The transaction locks the row  *)
(* of the e-mail it inserts or deletes and the row of the user it writes,  *)
(* and its writes show at the commit; the auto increment of users does     *)
(* not wait for it.  Verification codes are left out; that they, or a wrong*)
(* password, refuse a request is one of the ways to RollBack.              *)
(*                                                                         *)
(* users.email_encrypted is the e-mail under the password as key, without  *)
(* any salt (utils.AESEncrypt): a function of the two.  saveKeyShares      *)
(* divides the password among the key keepers by rows that bear the same   *)
(* email_encrypted, by which adminDecryptionCommand finds them again.      *)
(***************************************************************************)
EXTENDS Integers, FiniteSets

CONSTANTS
    Email,
    OldUser,    \* e-mails of users of the v2 site who have not come yet
    OldId, OldSuper,    \* v2_users.id of each, and whether his role is SuperUserRole
    Creator,    \* requests to createAccount under way at a time
    Deleter,    \* requests to deleteAccount
    Changer,    \* requests to changePassword
    Asks,       \* the e-mails each request may be about
    Password,
    Misconfigures,  \* whether the key keepers may be missing in the configuration,
                    \* which is watched and read again for every request
    MaxId,      \* bound: ids given to users
    NoTx, NoEmail, NoPassword

ASSUME OldUserAssumption == OldUser \subseteq Email /\ IsFiniteSet(OldUser)

Id == 1..MaxId
NoUser == 0
OldIds == {OldId[e] : e \in OldUser}

Handler == Creator \cup Deleter \cup Changer

ASSUME HandlerAssumption ==
    /\ Creator \cap Deleter = {} /\ Changer \cap (Creator \cup Deleter) = {}
    /\ NoTx \notin Handler
ASSUME AsksAssumption == Asks \in [Handler -> SUBSET Email]
ASSUME PasswordAssumption == NoPassword \notin Password /\ Misconfigures \in BOOLEAN
ASSUME MaxIdAssumption == MaxId \in Nat
ASSUME OldIdAssumption ==
    /\ OldId \in [OldUser -> Id] /\ OldSuper \in [OldUser -> BOOLEAN]
    /\ \A d, e \in OldUser : OldId[d] = OldId[e] => d = e
ASSUME NoEmailAssumption == NoEmail \notin Email

VARIABLES
    emails,     \* the table of hashed e-mails
    users,      \* the table of users
    shares,     \* decryption_key_shares that are not deleted, by whole sets
    lacking,    \* history: users saved last while the configuration was missing
    stranded,   \* history: users whose e-mail was deleted with another one's nonce
    lastId,     \* its auto increment
    pc,
    mail,       \* the e-mail of a request
    user,       \* the row of users it read, or creates
    emailLock, userLock     \* rows locked by open transactions

tables == <<emails, users, shares, lacking, stranded>>
vars == <<tables, lastId, pc, mail, user, emailLock, userLock>>

\* email_encrypted is made of "email" and "password"; without a password it is empty
\* and "email" is that of old_email_hash.  "super" is SuperUserRole.
User == [id : Id, email : Email, live : BOOLEAN, password : Password \cup {NoPassword},
         super : BOOLEAN]

\* One row for every key keeper, with the id of the user their message names.
Share == [email : Email, password : Password, id : Id \cup {NoUser}]

TypeOK ==
    /\ emails \in SUBSET Email
    /\ users \in SUBSET User
    /\ shares \in SUBSET Share
    /\ lacking \in SUBSET Id /\ stranded \in SUBSET Id
    /\ lastId \in 0..MaxId
    /\ pc \in [Handler -> {"idle", "find", "insert", "user", "commit", "read",
                           "drop", "dropmail", "lock", "save"}]
    /\ mail \in [Handler -> Email \cup {NoEmail}]
    /\ user \in [Handler -> Id \cup {NoUser}]
    /\ emailLock \in [Email -> Handler \cup {NoTx}]
    /\ userLock \in [Id -> Handler \cup {NoTx}]

\* migrateUser: the v2 row's id and role, by a type of its own without AfterCreate.
Migrated(e) ==
    [id |-> OldId[e], email |-> e, live |-> TRUE, password |-> NoPassword,
     super |-> OldSuper[e]]

\* The auto increment goes on after the largest id of v2.
Init ==
    /\ emails = {} /\ shares = {} /\ lacking = {} /\ stranded = {}
    /\ users = {Migrated(e) : e \in OldUser}
    /\ lastId \in OldIds \cup {0}
    /\ \A i \in OldIds : i <= lastId
    /\ pc = [h \in Handler |-> "idle"]
    /\ mail = [h \in Handler |-> NoEmail]
    /\ user = [h \in Handler |-> NoUser]
    /\ emailLock = [e \in Email |-> NoTx]
    /\ userLock = [i \in Id |-> NoTx]

Goto(h, l) == pc' = [pc EXCEPT ![h] = l]

\* The transaction ends and gives its locks back; some have no row after it.
EndWith(h, rowless) ==
    /\ Goto(h, "idle")
    /\ mail' = [mail EXCEPT ![h] = NoEmail]
    /\ user' = [g \in Handler |-> IF g = h \/ g \in rowless THEN NoUser ELSE user[g]]
    /\ emailLock' = [e \in Email |-> IF emailLock[e] = h THEN NoTx ELSE emailLock[e]]
    /\ userLock' = [i \in Id |-> IF userLock[i] = h THEN NoTx ELSE userLock[i]]

End(h) == EndWith(h, {})

\* checkAccountNotRegistered and checkAccountIsRegistered.
Check(h, e) ==
    /\ pc[h] = "idle"
    /\ h \in Creator <=> e \notin emails
    /\ Goto(h, CASE h \in Creator -> "find"
                 [] h \in Deleter -> "read"
                 [] OTHER -> "lock")
    /\ mail' = [mail EXCEPT ![h] = e]
    /\ UNCHANGED <<tables, lastId, user, emailLock, userLock>>

\* "You have registered already", "you have not registered yet".
Refuse(h, e) ==
    /\ pc[h] = "idle"
    /\ h \in Creator <=> e \in emails
    /\ UNCHANGED vars

-----------------------------------------------------------------------------
(* createAccount.                                                          *)

\* Rows with the old_email_hash that are not deleted.  Updates(user) does not
\* write the emptied OldEmailHash and OldToken: gorm skips zero values.
OldRows(e) == {u \in users : u.email = e /\ u.id \in OldIds /\ u.live}

FindOld(h) ==
    /\ pc[h] = "find"
    /\ user' = [user EXCEPT ![h] =
                    IF OldRows(mail[h]) = {} THEN NoUser
                    ELSE (CHOOSE u \in OldRows(mail[h]) : TRUE).id]
    /\ Goto(h, "insert")
    /\ UNCHANGED <<tables, lastId, mail, emailLock, userLock>>

\* Mutant: the insertion ignores a conflict.
InsertAnyway(h) ==
    /\ pc[h] = "insert"
    /\ emailLock[mail[h]] = NoTx
    /\ emailLock' = [emailLock EXCEPT ![mail[h]] = h]
    /\ Goto(h, "user")
    /\ UNCHANGED <<tables, lastId, mail, user, userLock>>

\* The insertion waits for a transaction that inserted or deleted the same key.
InsertEmail(h) ==
    /\ pc[h] = "insert"
    /\ emailLock[mail[h]] = NoTx
    /\ mail[h] \notin emails
    /\ emailLock' = [emailLock EXCEPT ![mail[h]] = h]
    /\ Goto(h, "user")
    /\ UNCHANGED <<tables, lastId, mail, user, userLock>>

InsertDuplicate(h) ==
    /\ pc[h] = "insert"
    /\ emailLock[mail[h]] = NoTx
    /\ mail[h] \in emails
    /\ End(h)
    /\ UNCHANGED <<tables, lastId>>

CreateUser(h) ==
    /\ pc[h] = "user"
    /\ user[h] = NoUser
    /\ lastId < MaxId
    /\ lastId' = lastId + 1
    /\ user' = [user EXCEPT ![h] = lastId + 1]
    /\ userLock' = [userLock EXCEPT ![lastId + 1] = h]
    /\ Goto(h, "commit")
    /\ UNCHANGED <<tables, mail, emailLock>>

\* UPDATE of the old row by its id, which reaches deleted rows as well.
UpdateOld(h) ==
    /\ pc[h] = "user"
    /\ user[h] # NoUser
    /\ userLock[user[h]] = NoTx
    /\ userLock' = [userLock EXCEPT ![user[h]] = h]
    /\ Goto(h, "commit")
    /\ UNCHANGED <<tables, lastId, mail, user, emailLock>>

\* The row as it is after the transaction, with User.AfterCreate for a new one.
Added(h, p) ==
    {[u EXCEPT !.password = p] : u \in {v \in users : v.id = user[h]}}
    \cup {[id |-> i, email |-> mail[h], live |-> TRUE, password |-> p,
           super |-> i = 1] : i \in {user[h]} \ {v.id : v \in users}}

\* saveKeyShares: what it may add.  "ServerConfigError" holds no Go error, so the
\* transaction of the caller commits without shares; other errors roll it back.
SaveKeyShares(e, p, i) ==
    {{[email |-> e, password |-> p, id |-> i]}} \cup {none \in {{}} : Misconfigures}

\* The rows with the given ids were saved with these shares.
Saved(ids, new) == lacking' = IF new = {} THEN lacking \cup ids ELSE lacking \ ids

\* The row has another nonce now than these requests have read.
Renonced(i) == {d \in Deleter : pc[d] = "drop" /\ user[d] = i}

CommitCreate(h) ==
    /\ pc[h] = "commit"
    /\ emails' = emails \cup {mail[h]}
    /\ \E p \in Password :
        /\ users' = {u \in users : u.id # user[h]} \cup Added(h, p)
        /\ \E new \in SaveKeyShares(mail[h], p, user[h]) :
            shares' = shares \cup new /\ Saved({user[h]}, new)
    /\ stranded' = stranded \ {user[h]}
    /\ EndWith(h, Renonced(user[h]))
    /\ UNCHANGED lastId

-----------------------------------------------------------------------------
(* changePassword.                                                         *)

\* The user whose email_encrypted is that of the old password, FOR UPDATE.
LockUser(h, u) ==
    /\ pc[h] = "lock"
    /\ u \in users
    /\ u.live /\ u.password # NoPassword /\ u.email = mail[h]
    /\ userLock[u.id] = NoTx
    /\ userLock' = [userLock EXCEPT ![u.id] = h]
    /\ user' = [user EXCEPT ![h] = u.id]
    /\ Goto(h, "save")
    /\ UNCHANGED <<tables, lastId, mail, emailLock>>

SameKey(i) ==
    {v \in users : \E u \in users :
        u.id = i /\ v.email = u.email /\ v.password = u.password}
SharesOf(us) ==
    {s \in shares : \E u \in us : s.email = u.email /\ s.password = u.password}

\* Mutant: the update finds the rows that are not deleted only.
CommitChangeLive(h) ==
    /\ pc[h] = "save"
    /\ LET us == {u \in SameKey(user[h]) : u.live} IN
       \E p \in Password : \E new \in SaveKeyShares(mail[h], p, NoUser) :
        /\ users' = (users \ us) \cup {[u EXCEPT !.password = p] : u \in us}
        /\ shares' = (shares \ SharesOf(us)) \cup new
        /\ Saved({u.id : u \in us}, new)
    /\ End(h)
    /\ UNCHANGED <<emails, stranded, lastId>>

\* The update by email_encrypted reaches the deleted rows that have the same, as
\* gorm 1.20 adds no condition on deleted_at.  The shares are saved for a user
\* without id.
CommitChange(h) ==
    /\ pc[h] = "save"
    /\ LET us == SameKey(user[h]) IN
       \E p \in Password : \E new \in SaveKeyShares(mail[h], p, NoUser) :
        /\ users' = (users \ us) \cup {[u EXCEPT !.password = p] : u \in us}
        /\ shares' = (shares \ SharesOf(us)) \cup new
        /\ Saved({u.id : u \in us}, new)
    /\ End(h)
    /\ UNCHANGED <<emails, stranded, lastId>>

-----------------------------------------------------------------------------
(* deleteAccount.                                                          *)

\* The user of the nonce, not frozen, not banned and registered long ago.  The nonce
\* and the e-mail of the form are not compared: he may have another e-mail.
ReadUser(h, u) ==
    /\ pc[h] = "read"
    /\ u \in users
    /\ u.live /\ u.password # NoPassword
    /\ user' = [user EXCEPT ![h] = u.id]
    /\ Goto(h, "drop")
    /\ UNCHANGED <<tables, lastId, mail, emailLock, userLock>>

\* The soft delete by the nonce takes the row, if it is still there and has it; this
\* is not looked at.
DeleteUser(h) ==
    /\ pc[h] = "drop"
    /\ user[h] # NoUser => userLock[user[h]] = NoTx
    /\ userLock' = [i \in Id |-> IF i = user[h] THEN h ELSE userLock[i]]
    /\ Goto(h, "dropmail")
    /\ UNCHANGED <<tables, lastId, mail, user, emailLock>>

IdsOf(e) == {u.id : u \in {v \in users : v.email = e}}

\* The e-mail of the form, and the commit.
DeleteEmail(h) ==
    /\ pc[h] = "dropmail"
    /\ emailLock[mail[h]] = NoTx
    /\ mail[h] \in emails
    /\ emails' = emails \ {mail[h]}
    /\ users' = {IF u.id = user[h] THEN [u EXCEPT !.live = FALSE] ELSE u : u \in users}
    /\ stranded' = stranded \cup (IdsOf(mail[h]) \ {user[h]})
    /\ End(h)
    /\ UNCHANGED <<shares, lacking, lastId>>

-----------------------------------------------------------------------------
\* Mutant: the e-mail is inserted on another connection than the transaction's.
RollBackKeepsEmail(h) ==
    /\ pc[h] # "idle"
    /\ emails' = emails \cup IF pc[h] \in {"user", "commit"} THEN {mail[h]} ELSE {}
    /\ End(h)
    /\ UNCHANGED <<users, shares, lacking, stranded, lastId>>

\* Mutant: every rollback takes an id of users back, one that gave none included.
RollBackTakesId(h) ==
    /\ pc[h] # "idle"
    /\ lastId' = lastId - 1
    /\ End(h)
    /\ UNCHANGED tables

\* A check of the handler or the database refuses, no row was deleted
\* (EmailNotFound), or a transaction gives way to another (a deadlock): nothing
\* is kept but the ids it took.
RollBack(h) ==
    /\ pc[h] # "idle"
    /\ End(h)
    /\ UNCHANGED <<tables, lastId>>

Create(h) ==
    \/ FindOld(h) \/ InsertEmail(h) \/ InsertDuplicate(h) \/ CreateUser(h)
    \/ UpdateOld(h) \/ CommitCreate(h)
Change(h) == (\E u \in users : LockUser(h, u)) \/ CommitChange(h)
Delete(h) ==
    \/ \E u \in users : ReadUser(h, u)
    \/ DeleteUser(h) \/ DeleteEmail(h)

Next ==
    \/ \E h \in Handler :
        \/ RollBack(h)
        \/ \E e \in Asks[h] : Check(h, e) \/ Refuse(h, e)
    \/ \E h \in Creator : Create(h)
    \/ \E h \in Changer : Change(h)
    \/ \E h \in Deleter : Delete(h)

Spec == Init /\ [][Next]_vars

-----------------------------------------------------------------------------
(* What administrators rely on.                                            *)

Registered == {u \in users : u.live /\ u.password # NoPassword}

\* The count of e-mails is the count of users with an e-mail: the statistics of
\* adminCommands.go:192-198 warn of anything else ("the self-consistency check
\* of the e-mail verification failed, please repair").
EmailsMatchUsers == Cardinality(emails) = Cardinality(Registered)

\* However registrations and unregistrations race each other, an e-mail never has two
\* accounts in force, but for those it had before it was freed with the nonce of another
\* account, or with one that another unregistration had used up.
OneAccountPerEmail ==
    \A u, v \in {w \in Registered : w.id \notin stranded} : u.email = v.email => u = v

\* The key keepers can decrypt every user's e-mail, also after he unregistered and
\* whatever accounts the same e-mail had since: adminDecryptionCommand finds shares
\* for it, unless they were missing in the configuration when it was saved last.
EmailsDecryptable ==
    \A u \in users : u.password # NoPassword => SharesOf({u}) # {} \/ u.id \in lacking

-----------------------------------------------------------------------------
(* What the code does not satisfy, though it says so (README, section 4).  *)

\* "Set the first registered user to be superuser" (hooks.go:12): when no
\* registration is under way, a site with users has one.
FirstUserIsSuper ==
    users # {} /\ (\A h \in Handler : pc[h] = "idle") => \E u \in users : u.super

\* The message of a share names its user (createAccount.go:40, "can be used to
\* decrypt the user whose id=").
SharesNameTheirUser ==
    \A s \in shares : \E u \in users :
        u.id = s.id /\ u.email = s.email /\ u.password = s.password
=============================================================================
