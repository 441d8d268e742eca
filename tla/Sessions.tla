----------------------------- MODULE Sessions ------------------------------
(***************************************************************************)
(* The devices of one account (pkg/route/security/login.go, devices.go,    *)
(* createAccount.go) and what AuthMiddleware makes of their tokens, which  *)
(* it reads through a cache (GetUserWithCache, DelUserCache).              *)
(*                                                                         *)
(* Statements outside a transaction are steps of their own: two logins may *)
(* count before either creates its device.  The row of a device is         *)
(* represented by its token.                                               *)
(***************************************************************************)
EXTENDS Integers, Sequences, FiniteSets

CONSTANTS
    Token,      \* tokens GenToken may still hand out: bounds the logins
    MaxDevices, \* consts.MaxDevicesPerUser
    Login,      \* login requests that may be under way at a time
    Terminator, \* requests to terminate a device
    Reader,     \* requests in AuthMiddleware
    TTL,        \* TOKENCacheExpireTime
    FetchTicks, \* the longest time from reading the database to the answer
    MaxFailures,    \* bound: evictions that fail
    None

ASSUME MaxDevicesAssumption == MaxDevices \in Nat \ {0}
ASSUME LoginAssumption == IsFiniteSet(Login)
ASSUME TimeAssumption == TTL \in Nat \ {0} /\ FetchTicks \in Nat
ASSUME FailuresAssumption == MaxFailures \in Nat
ASSUME NoneAssumption == None \notin Token /\ None \notin {"user", "frozen"}

VARIABLES
    devices,    \* device rows in force, the oldest created_at first
    used,       \* tokens that were handed out
    role,       \* users.role: "user" or "frozen" (BannedUserRole)
    exists,     \* the user is not deleted
    lpc,        \* logins: "idle", "count", "evict" or "create"
    tpc, target, caller,    \* terminateDevice
    rpc, asked, found, took,    \* AuthMiddleware: token, what was read, ticks since
    cached,     \* tokenCache: the role it holds for a token
    left,       \* ticks until the entry expires
    lag,        \* history: ticks since a token stopped to be good
    late,       \* history: logins under way whose password was changed since
    old,        \* history: devices in force that such logins made, or a change left
    unevicted   \* history: evictions that failed since the account had no device

login == <<devices, used, lpc>>
account == <<role, exists>>
terminator == <<tpc, target, caller>>
reader == <<rpc, asked, found, took>>
cache == <<cached, left>>
history == <<lag, late, old, unevicted>>
vars == <<login, account, terminator, reader, cache, history>>

Bound == TTL + FetchTicks
Roles == {"user", "frozen"}

Live == {devices[i] : i \in DOMAIN devices}
Good(t) == t \in Live /\ exists /\ role = "user"

TypeOK ==
    /\ devices \in Seq(Token)
    /\ used \in SUBSET Token
    /\ role \in Roles /\ exists \in BOOLEAN
    /\ lpc \in [Login -> {"idle", "count", "evict", "create"}]
    /\ tpc \in [Terminator -> {"idle", "delete", "uncache"}]
    /\ target \in [Terminator -> Token \cup {None}]
    /\ caller \in [Terminator -> Token \cup {None}]
    /\ rpc \in [Reader -> {"idle", "fetched"}]
    /\ asked \in [Reader -> Token \cup {None}]
    /\ found \in [Reader -> Roles \cup {None}]
    /\ took \in [Reader -> 0..FetchTicks]
    /\ cached \in [Token -> Roles \cup {None}]
    /\ left \in [Token -> 0..TTL]
    /\ lag \in [Token -> 0..(Bound + 1)]
    /\ late \in SUBSET Login /\ old \in SUBSET Token
    /\ unevicted \in Nat

Init ==
    /\ devices = <<>> /\ used = {}
    /\ role = "user" /\ exists = TRUE
    /\ lpc = [l \in Login |-> "idle"]
    /\ tpc = [x \in Terminator |-> "idle"]
    /\ target = [x \in Terminator |-> None]
    /\ caller = [x \in Terminator |-> None]
    /\ rpc = [r \in Reader |-> "idle"]
    /\ asked = [r \in Reader |-> None]
    /\ found = [r \in Reader |-> None]
    /\ took = [r \in Reader |-> 0]
    /\ cached = [t \in Token |-> None]
    /\ left = [t \in Token |-> 0]
    /\ lag = [t \in Token |-> 0]
    /\ late = {} /\ old = {} /\ unevicted = 0

-----------------------------------------------------------------------------
(* login.go.                                                               *)

\* loginGetUserMiddleware: the password is right and the account not frozen.
GetUser(l) ==
    /\ lpc[l] = "idle"
    /\ exists /\ role = "user"
    /\ lpc' = [lpc EXCEPT ![l] = "count"]
    /\ UNCHANGED <<devices, used, account, terminator, reader, cache, history>>

\* Some devices go.
Keep(rest) ==
    /\ devices' = rest
    /\ old' = {t \in old : \E i \in DOMAIN rest : rest[i] = t}
    /\ unevicted' = IF rest = <<>> THEN 0 ELSE unevicted

\* loginCheckMaxDevices: the count; it goes on to login in either case.
Count(l) ==
    /\ lpc[l] = "count"
    /\ lpc' = [lpc EXCEPT ![l] =
                IF Len(devices) >= MaxDevices THEN "evict" ELSE "create"]
    /\ UNCHANGED <<devices, used, account, terminator, reader, cache, history>>

\* Mutant: the login of a user with too many devices is only logged.
EvictNobody(l) ==
    /\ lpc[l] = "evict"
    /\ lpc' = [lpc EXCEPT ![l] = "create"]
    /\ UNCHANGED <<devices, used, account, terminator, reader, cache, history>>

\* The device with the smallest created_at goes, if there is one left; the token
\* stays in the cache.
Evict(l) ==
    /\ lpc[l] = "evict"
    /\ Keep(IF devices = <<>> THEN devices ELSE Tail(devices))
    /\ lpc' = [lpc EXCEPT ![l] = "create"]
    /\ UNCHANGED <<used, account, terminator, reader, cache, lag, late>>

\* The error of the eviction is dropped: the login goes on, and nobody has gone.
EvictFails(l) ==
    /\ lpc[l] = "evict"
    /\ unevicted < MaxFailures
    /\ lpc' = [lpc EXCEPT ![l] = "create"]
    /\ unevicted' = unevicted + 1
    /\ UNCHANGED <<devices, used, account, terminator, reader, cache, lag, late, old>>

\* login: the row of the new device.
Create(l, t) ==
    /\ lpc[l] = "create"
    /\ t \notin used
    /\ devices' = Append(devices, t)
    /\ used' = used \cup {t}
    /\ lpc' = [lpc EXCEPT ![l] = "idle"]
    /\ late' = late \ {l}
    /\ old' = old \cup {d \in {t} : l \in late}
    /\ UNCHANGED <<account, terminator, reader, cache, lag, unevicted>>

\* The error of the count, or of the row's insertion, refuses the login.
GiveUp(l) ==
    /\ lpc[l] \in {"count", "create"}
    /\ lpc' = [lpc EXCEPT ![l] = "idle"]
    /\ late' = late \ {l}
    /\ UNCHANGED <<devices, used, account, terminator, reader, cache, lag, old, unevicted>>

\* A token has one row at most.
Without(t) ==
    IF t \notin Live THEN devices
    ELSE LET i == CHOOSE i \in DOMAIN devices : devices[i] = t
         IN SubSeq(devices, 1, i - 1) \o SubSeq(devices, i + 1, Len(devices))

\* logout leaves the cache alone.
Logout(t) ==
    /\ t \in Live
    /\ Keep(Without(t))
    /\ UNCHANGED <<used, lpc, account, terminator, reader, cache, lag, late>>

\* The password is another one; the logins under way have checked the one before.
Changed(rest) ==
    /\ late' = {l \in Login : lpc[l] # "idle"}
    /\ old' = rest

\* Mutant: changePassword leaves the oldest device, as that of its caller.
ChangePasswordButOne ==
    /\ exists
    /\ devices' = SelectSeq(devices, LAMBDA d : d = Head(devices))
    /\ Changed({devices'[i] : i \in DOMAIN devices'})
    /\ UNCHANGED <<used, lpc, account, terminator, reader, cache, lag, unevicted>>

\* changePassword and its transaction: all devices go, the cache stays.
ChangePassword ==
    /\ exists
    /\ devices' = <<>>
    /\ Changed({devices'[i] : i \in DOMAIN devices'})
    /\ unevicted' = 0
    /\ UNCHANGED <<used, lpc, account, terminator, reader, cache, lag>>

\* The key keepers are missing in the configuration: the transaction commits
\* before it deletes the devices, which old does not count.
ChangePasswordOnly ==
    /\ exists
    /\ Changed({})
    /\ UNCHANGED <<login, account, terminator, reader, cache, lag, unevicted>>

\* deleteAccount: the user goes, the rows of the devices and the cache stay.
DeleteAccount ==
    /\ exists /\ role = "user"
    /\ exists' = FALSE
    /\ UNCHANGED <<login, role, terminator, reader, cache, history>>

\* External: administrators freeze an account in the database.
Freeze ==
    /\ role = "user"
    /\ role' = "frozen"
    /\ UNCHANGED <<login, exists, terminator, reader, cache, history>>

\* The oldest device passes GetEarliestAuthenticationTime (31 days).
Expire ==
    /\ devices # <<>>
    /\ Keep(Tail(devices))
    /\ UNCHANGED <<used, lpc, account, terminator, reader, cache, lag, late>>

-----------------------------------------------------------------------------
(* terminateDevice: a device c of the account ends the device t.           *)

FindCaller(x, c, t) ==
    /\ tpc[x] = "idle"
    /\ c \in Live
    /\ t \in used
    /\ tpc' = [tpc EXCEPT ![x] = "delete"]
    /\ caller' = [caller EXCEPT ![x] = c]
    /\ target' = [target EXCEPT ![x] = t]
    /\ UNCHANGED <<login, account, reader, cache, history>>

\* The request is over, and its locals with it.
Terminated(x) ==
    /\ tpc' = [tpc EXCEPT ![x] = "idle"]
    /\ target' = [target EXCEPT ![x] = None]
    /\ caller' = [caller EXCEPT ![x] = None]

DeleteTarget(x) ==
    /\ tpc[x] = "delete"
    /\ Keep(Without(target[x]))
    /\ IF target[x] \in Live
       THEN tpc' = [tpc EXCEPT ![x] = "uncache"] /\ UNCHANGED <<target, caller>>
       ELSE Terminated(x)
    /\ UNCHANGED <<used, lpc, account, reader, cache, lag, late>>

\* DelUserCache(device.Token), of the device that asked; its error is ignored.
DelUserCache(x) ==
    /\ tpc[x] = "uncache"
    /\ \/ /\ cached' = [cached EXCEPT ![caller[x]] = None]
          /\ left' = [left EXCEPT ![caller[x]] = 0]
       \/ UNCHANGED cache
    /\ Terminated(x)
    /\ UNCHANGED <<login, account, reader, history>>

-----------------------------------------------------------------------------
(* AuthMiddleware and GetUserWithCache.  A frozen user is refused after    *)
(* the lookup, which caches him all the same.                              *)

\* The lookup is over, and its locals with it.
Looked(r) ==
    /\ rpc' = [rpc EXCEPT ![r] = "idle"]
    /\ asked' = [asked EXCEPT ![r] = None]
    /\ found' = [found EXCEPT ![r] = None]
    /\ took' = [took EXCEPT ![r] = 0]

Hit(r, t) ==
    /\ rpc[r] = "idle"
    /\ cached[t] # None
    /\ UNCHANGED <<login, account, terminator, reader, cache, history>>

\* No entry, or Redis fails: the device and its user are read in one query.
Fetch(r, t) ==
    /\ rpc[r] = "idle"
    /\ t \in used
    /\ t \in Live /\ exists
    /\ rpc' = [rpc EXCEPT ![r] = "fetched"]
    /\ asked' = [asked EXCEPT ![r] = t]
    /\ found' = [found EXCEPT ![r] = role]
    /\ took' = [took EXCEPT ![r] = 0]
    /\ UNCHANGED <<login, account, terminator, cache, history>>

\* ErrRecordNotFound: "token expired", and nothing is stored.
FetchNothing(r, t) ==
    /\ rpc[r] = "idle"
    /\ t \in used
    /\ ~(t \in Live /\ exists)
    /\ UNCHANGED <<login, account, terminator, reader, cache, history>>

\* Mutant: the time to live is given in a smaller unit.
StoreSeconds(r) ==
    /\ rpc[r] = "fetched"
    /\ cached' = [cached EXCEPT ![asked[r]] = found[r]]
    /\ left' = [left EXCEPT ![asked[r]] = 60 * TTL]
    /\ Looked(r)
    /\ UNCHANGED <<login, account, terminator, history>>

\* Mutant: the item has no time to live of its own, which is a long one here.
StoreForever(r) ==
    /\ rpc[r] = "fetched"
    /\ cached' = [cached EXCEPT ![asked[r]] = found[r]]
    /\ left' = [left EXCEPT ![asked[r]] = 0]
    /\ Looked(r)
    /\ UNCHANGED <<login, account, terminator, history>>

Store(r) ==
    /\ rpc[r] = "fetched"
    /\ cached' = [cached EXCEPT ![asked[r]] = found[r]]
    /\ left' = [left EXCEPT ![asked[r]] = TTL]
    /\ Looked(r)
    /\ UNCHANGED <<login, account, terminator, history>>

\* Set fails and its error refuses the request ("AuthDbFailed").
StoreFails(r) ==
    /\ rpc[r] = "fetched"
    /\ Looked(r)
    /\ UNCHANGED <<login, account, terminator, cache, history>>

-----------------------------------------------------------------------------
Counted(t) == IF t \in used /\ ~Good(t) /\ lag[t] <= Bound THEN lag[t] + 1 ELSE lag[t]

\* External: Redis drops the entries whose time is over.
Tick ==
    /\ \A r \in Reader : rpc[r] = "fetched" => took[r] < FetchTicks
    /\ took' = [r \in Reader |-> IF rpc[r] = "fetched" THEN took[r] + 1 ELSE took[r]]
    /\ cached' = [t \in Token |-> IF left[t] = 1 THEN None ELSE cached[t]]
    /\ left' = [t \in Token |-> IF left[t] = 0 THEN 0 ELSE left[t] - 1]
    /\ lag' = [t \in Token |-> Counted(t)]
    /\ UNCHANGED <<login, account, terminator, rpc, asked, found, late, old, unevicted>>

Next ==
    \/ \E l \in Login :
        \/ GetUser(l) \/ Count(l) \/ Evict(l) \/ EvictFails(l) \/ GiveUp(l)
        \/ \E t \in Token : Create(l, t)
    \/ \E t \in Token : Logout(t)
    \/ ChangePassword \/ ChangePasswordOnly \/ DeleteAccount \/ Freeze \/ Expire
    \/ \E x \in Terminator :
        \/ \E c, t \in Token : FindCaller(x, c, t)
        \/ DeleteTarget(x) \/ DelUserCache(x)
    \/ \E r \in Reader :
        \/ \E t \in Token : Hit(r, t) \/ Fetch(r, t) \/ FetchNothing(r, t)
        \/ Store(r) \/ StoreFails(r)
    \/ Tick

Spec == Init /\ [][Next]_vars

-----------------------------------------------------------------------------
(* What a user may rely on.                                                *)

\* Logins that count before another's device is created exceed the limit by one
\* each, and no further: however often they race, the excess does not grow, though
\* devices are deleted by four other handlers between the count and the eviction.
\* An eviction that fails, which the login does not mind, adds one more, and that
\* until the account has no device.
DevicesBounded == Len(devices) <= MaxDevices + Cardinality(Login) - 1 + unevicted

\* Whoever knew the password before a change that went well has no more sessions
\* after it than logins that were under way, which come late if they passed the
\* check before: the devices that changePassword deletes are all the others.
OldSessionsBounded ==
    Cardinality(old) + Cardinality(late) <= Cardinality(Login)

\* The token t is accepted now, or when a lookup that is under way ends.
Accepted(t) ==
    \/ cached[t] = "user"
    \/ \E r \in Reader : asked[r] = t /\ found[r] = "user"

\* A token whose device logged out, was terminated, evicted or expired, or whose
\* user was frozen or deleted, is accepted for a time to live and a read of the
\* database at most, though only one of these looks after the cache, and that
\* one for the token of the device that asks, not of the one that goes.
RevokedInTime ==
    \A t \in used : ~Good(t) /\ Accepted(t) => lag[t] <= Bound

-----------------------------------------------------------------------------
(* What the code does not satisfy, though it says so (README, section 4).  *)

\* The limit itself, MaxDevicesPerUser (consts.go:20; login.go:67 logs a login
\* beyond "max allowed" and makes room for it).
DeviceLimit == Len(devices) <= MaxDevices
=============================================================================
