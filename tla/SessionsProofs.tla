--------------------------- MODULE SessionsProofs ---------------------------
(* Proofs about Sessions, for any number of tokens, logins, terminations and *)
(* lookups, any limit of devices and any times.                              *)
EXTENDS Sessions, FiniteSetTheorems, SequenceTheorems, TLAPS

\* The actions of Next one by one.
LEMMA NextCases ==
    ASSUME [Next]_vars, NEW P,
           \A l \in Login : GetUser(l) => P,
           \A l \in Login : Count(l) => P,
           \A l \in Login : Evict(l) => P,
           \A l \in Login : EvictFails(l) => P,
           \A l \in Login : GiveUp(l) => P,
           \A l \in Login : \A t \in Token : Create(l, t) => P,
           \A t \in Token : Logout(t) => P,
           ChangePassword => P,
           ChangePasswordOnly => P,
           DeleteAccount => P,
           Freeze => P,
           Expire => P,
           \A x \in Terminator : \A c, t \in Token : FindCaller(x, c, t) => P,
           \A x \in Terminator : DeleteTarget(x) => P,
           \A x \in Terminator : DelUserCache(x) => P,
           \A r \in Reader : \A t \in Token : Hit(r, t) => P,
           \A r \in Reader : \A t \in Token : Fetch(r, t) => P,
           \A r \in Reader : \A t \in Token : FetchNothing(r, t) => P,
           \A r \in Reader : Store(r) => P,
           \A r \in Reader : StoreFails(r) => P,
           Tick => P,
           UNCHANGED vars => P
    PROVE  P
BY DEF Next

-----------------------------------------------------------------------------
\* What is left of the devices when some go.
Remains(rest) == rest \in Seq(Live) /\ Len(rest) <= Len(devices)

\* The devices are a sequence of their tokens.
LEMMA DevicesAreLive ==
    ASSUME devices \in Seq(Token)
    PROVE  /\ Live \subseteq Token /\ devices \in Seq(Live)
           /\ Len(devices) \in Nat /\ DOMAIN devices = 1 .. Len(devices)
           /\ \A i \in 1 .. Len(devices) : devices[i] \in Live
<1>1. Len(devices) \in Nat /\ DOMAIN devices = 1 .. Len(devices)
  BY LenProperties
<1>2. \A i \in 1 .. Len(devices) : devices[i] \in Live
  BY <1>1 DEF Live
<1>3. Live \subseteq Token
  BY <1>1, ElementOfSeq DEF Live
<1>4. devices \in Seq(Live)
  <2>1. /\ SubSeq(devices, 1, Len(devices)) \in Seq(Live)
        /\ SubSeq(devices, 1, Len(devices)) = devices
    BY <1>1, <1>2, SubSeqProperties, SubSeqFull
  <2> QED
    BY <2>1
<1> QED
  BY <1>1, <1>2, <1>3, <1>4

\* An eviction leaves devices there were, one less.
LEMMA TailRemains ==
    ASSUME devices \in Seq(Token), devices # <<>>
    PROVE  Remains(Tail(devices)) /\ Len(Tail(devices)) = Len(devices) - 1
<1>1. devices \in Seq(Live) /\ Len(devices) \in Nat
  BY DevicesAreLive
<1>2. Tail(devices) \in Seq(Live) /\ Len(Tail(devices)) = Len(devices) - 1
  BY <1>1, HeadTailProperties
<1> QED
  BY <1>1, <1>2 DEF Remains

\* The deletion of a device leaves devices there were.
LEMMA WithoutRemains ==
    ASSUME devices \in Seq(Token), NEW t
    PROVE  Remains(Without(t))
<1>1. /\ devices \in Seq(Live) /\ Len(devices) \in Nat /\ DOMAIN devices = 1 .. Len(devices)
      /\ \A k \in 1 .. Len(devices) : devices[k] \in Live
  BY DevicesAreLive
<1>2. CASE t \notin Live
  BY <1>1, <1>2 DEF Without, Remains
<1>3. CASE t \in Live
  <2> DEFINE i == CHOOSE i \in DOMAIN devices : devices[i] = t
             a == SubSeq(devices, 1, i - 1)
             b == SubSeq(devices, i + 1, Len(devices))
  <2>1. i \in 1 .. Len(devices)
    BY <1>1, <1>3 DEF Live
  <2>2. Without(t) = a \o b
    BY <1>3 DEF Without
  <2> HIDE DEF i
  <2>3. 1 \in Int /\ i - 1 \in Int /\ i + 1 \in Int /\ Len(devices) \in Int
    BY <1>1, <2>1
  <2>4. /\ \A k \in 1 .. i - 1 : devices[k] \in Live
        /\ \A k \in i + 1 .. Len(devices) : devices[k] \in Live
    BY <1>1, <2>1
  <2>5. a \in Seq(Live) /\ Len(a) = i - 1
    <3>1. a \in Seq(Live) /\ Len(a) = IF 1 <= i - 1 THEN i - 1 - 1 + 1 ELSE 0
      BY <2>3, <2>4, SubSeqProperties
    <3> QED
      BY <1>1, <2>1, <3>1
  <2>6. b \in Seq(Live) /\ Len(b) = Len(devices) - i
    <3>1. /\ b \in Seq(Live)
          /\ Len(b) = IF i + 1 <= Len(devices) THEN Len(devices) - (i + 1) + 1 ELSE 0
      BY <2>3, <2>4, SubSeqProperties
    <3> HIDE DEF b
    <3>2. CASE i + 1 <= Len(devices)
      BY <1>1, <2>1, <3>1, <3>2
    <3>3. CASE ~(i + 1 <= Len(devices))
      <4>1. i <= Len(devices) /\ i \in Int /\ Len(devices) \in Int
        BY <2>1, <2>3
      <4>2. i = Len(devices)
        BY <3>3, <4>1
      <4> QED
        BY <3>1, <3>3, <4>1, <4>2
    <3> QED
      BY <3>2, <3>3
  <2> HIDE DEF a, b
  <2>7. a \o b \in Seq(Live) /\ Len(a \o b) = Len(a) + Len(b)
    BY <2>5, <2>6, ConcatProperties
  <2> QED
    BY <1>1, <2>1, <2>2, <2>5, <2>6, <2>7 DEF Remains
<1> QED
  BY <1>2, <1>3

\* What a step does to the devices: a login adds one, all others take some away.
LEMMA DevicesStep ==
    ASSUME devices \in Seq(Token), [Next]_vars
    PROVE  \/ \E l \in Login, t \in Token : Create(l, t)
           \/ /\ used' = used /\ Remains(devices')
<1> DEFINE P == \/ \E l \in Login, t \in Token : Create(l, t)
                \/ /\ used' = used /\ Remains(devices')
<1>1. Remains(devices) /\ Remains(<<>>)
  BY DevicesAreLive, EmptySeq DEF Remains
<1>2. ASSUME UNCHANGED login PROVE P
  BY <1>1, <1>2 DEF login
<1>3. ASSUME NEW l \in Login, GetUser(l) PROVE P
  BY <1>1, <1>3 DEF GetUser
<1>4. ASSUME NEW l \in Login, Count(l) \/ EvictFails(l) \/ GiveUp(l) PROVE P
  BY <1>1, <1>4 DEF Count, EvictFails, GiveUp
<1>5. ASSUME NEW l \in Login, Evict(l) PROVE P
  BY <1>1, <1>5, TailRemains DEF Evict, Keep
<1>6. ASSUME NEW l \in Login, NEW t \in Token, Create(l, t) PROVE P
  BY <1>6
<1>7. ASSUME NEW t \in Token, Logout(t) PROVE P
  BY <1>7, WithoutRemains DEF Logout, Keep
<1>8. ASSUME ChangePassword PROVE P
  BY <1>1, <1>8 DEF ChangePassword
<1>9. ASSUME ChangePasswordOnly PROVE P
  BY <1>2, <1>9 DEF ChangePasswordOnly
<1>10. ASSUME DeleteAccount PROVE P
  BY <1>2, <1>10 DEF DeleteAccount
<1>11. ASSUME Freeze PROVE P
  BY <1>2, <1>11 DEF Freeze
<1>12. ASSUME Expire PROVE P
  BY <1>12, TailRemains DEF Expire, Keep
<1>13. ASSUME NEW x \in Terminator, NEW c \in Token, NEW t \in Token, FindCaller(x, c, t)
       PROVE  P
  BY <1>2, <1>13 DEF FindCaller
<1>14. ASSUME NEW x \in Terminator, DeleteTarget(x) PROVE P
  BY <1>14, WithoutRemains DEF DeleteTarget, Keep
<1>15. ASSUME NEW x \in Terminator, DelUserCache(x) PROVE P
  BY <1>2, <1>15 DEF DelUserCache
<1>16. ASSUME NEW r \in Reader, NEW t \in Token, Hit(r, t) \/ Fetch(r, t) \/ FetchNothing(r, t)
       PROVE  P
  BY <1>2, <1>16 DEF Hit, Fetch, FetchNothing
<1>17. ASSUME NEW r \in Reader, Store(r) \/ StoreFails(r) PROVE P
  BY <1>2, <1>17 DEF Store, StoreFails
<1>18. ASSUME Tick PROVE P
  BY <1>2, <1>18 DEF Tick
<1>19. ASSUME UNCHANGED vars PROVE P
  BY <1>2, <1>19 DEF vars
<1>20. P
  BY <1>3, <1>4, <1>5, <1>6, <1>7, <1>8, <1>9, <1>10, <1>11, <1>12, <1>13, <1>14,
     <1>15, <1>16, <1>17, <1>18, <1>19, NextCases
<1> QED
  BY <1>20

-----------------------------------------------------------------------------
\* The tokens of the rows were handed out, and a request has its locals.
RowsInv ==
    /\ TypeOK
    /\ Live \subseteq used
    /\ \A x \in Terminator : tpc[x] # "idle" => target[x] \in Token /\ caller[x] \in Token
    /\ \A r \in Reader : rpc[r] = "fetched" => asked[r] \in Token

\* What is left of the table has no new tokens.
LEMMA RemainsLive ==
    ASSUME RowsInv, Remains(devices')
    PROVE  devices' \in Seq(Token) /\ Live' \subseteq Live
<1>1. devices' \in Seq(Live) /\ Live \subseteq Token
  BY DevicesAreLive DEF RowsInv, TypeOK, Remains
<1>2. devices' \in Seq(Token)
  BY <1>1, SeqMonotonic
<1>3. DOMAIN devices' = 1 .. Len(devices')
  BY <1>1, LenProperties
<1>4. \A i \in DOMAIN devices' : devices'[i] \in Live
  BY <1>1, <1>3, ElementOfSeq
<1> QED
  BY <1>2, <1>4 DEF Live

\* A device that is created is the last.
LEMMA AppendLive ==
    ASSUME RowsInv, NEW t \in Token, devices' = Append(devices, t)
    PROVE  devices' \in Seq(Token) /\ Live' = Live \cup {t} /\ Len(devices') = Len(devices) + 1
<1>1. devices \in Seq(Token)
  BY DEF RowsInv, TypeOK
<1>2. Len(devices) \in Nat /\ DOMAIN devices = 1 .. Len(devices)
  BY <1>1, LenProperties
<1>3. /\ devices' \in Seq(Token) /\ Len(devices') = Len(devices) + 1
      /\ \A i \in 1 .. Len(devices) : devices'[i] = devices[i]
      /\ devices'[Len(devices) + 1] = t
  BY <1>1, AppendProperties
<1>4. DOMAIN devices' = 1 .. Len(devices) + 1
  BY <1>3, LenProperties
<1>5. Live' \subseteq Live \cup {t}
  BY <1>2, <1>3, <1>4 DEF Live
<1>6. Live \cup {t} \subseteq Live'
  <2>1. \A i \in DOMAIN devices : i \in DOMAIN devices' /\ devices'[i] = devices[i]
    BY <1>2, <1>3, <1>4
  <2>2. Len(devices) + 1 \in DOMAIN devices'
    BY <1>2, <1>4
  <2> QED
    BY <1>3, <2>1, <2>2 DEF Live
<1> QED
  BY <1>3, <1>5, <1>6

\* Every step keeps the rows well formed.
LEMMA RowsStep ==
    ASSUME RowsInv, [Next]_vars
    PROVE  RowsInv'
<1> USE DEF RowsInv
<1>1. devices' \in Seq(Token) /\ used' \in SUBSET Token /\ Live' \subseteq used'
  <2>1. CASE used' = used /\ Remains(devices')
    BY <2>1, RemainsLive DEF TypeOK
  <2>2. ASSUME NEW l \in Login, NEW t \in Token, Create(l, t)
        PROVE  devices' \in Seq(Token) /\ used' \in SUBSET Token /\ Live' \subseteq used'
    BY <2>2, AppendLive DEF Create, TypeOK
  <2> QED
    BY <2>1, <2>2, DevicesStep DEF TypeOK
<1> DEFINE Rest ==
        /\ role' \in Roles /\ exists' \in BOOLEAN
        /\ lpc' \in [Login -> {"idle", "count", "evict", "create"}]
        /\ tpc' \in [Terminator -> {"idle", "delete", "uncache"}]
        /\ target' \in [Terminator -> Token \cup {None}]
        /\ caller' \in [Terminator -> Token \cup {None}]
        /\ rpc' \in [Reader -> {"idle", "fetched"}]
        /\ asked' \in [Reader -> Token \cup {None}]
        /\ found' \in [Reader -> Roles \cup {None}]
        /\ took' \in [Reader -> 0..FetchTicks]
        /\ cached' \in [Token -> Roles \cup {None}]
        /\ left' \in [Token -> 0..TTL]
        /\ lag' \in [Token -> 0..(Bound + 1)]
        /\ late' \in SUBSET Login /\ old' \in SUBSET Token /\ unevicted' \in Nat
        /\ \A x \in Terminator :
             tpc'[x] # "idle" => target'[x] \in Token /\ caller'[x] \in Token
        /\ \A r \in Reader : rpc'[r] = "fetched" => asked'[r] \in Token
<1>2. ASSUME UNCHANGED <<account, terminator, reader, cache, lag>>,
             lpc' \in [Login -> {"idle", "count", "evict", "create"}],
             late' \in SUBSET Login, old' \in SUBSET Token, unevicted' \in Nat
      PROVE  Rest
  BY <1>2 DEF account, terminator, reader, cache, TypeOK
<1>3. ASSUME NEW l \in Login, GetUser(l) PROVE Rest
  BY <1>2, <1>3 DEF GetUser, history, TypeOK
<1>4. ASSUME NEW l \in Login, Count(l) \/ EvictFails(l) \/ GiveUp(l) PROVE Rest
  <2>1. CASE Count(l)
    BY <1>2, <2>1 DEF Count, history, TypeOK
  <2>2. CASE EvictFails(l)
    BY <1>2, <2>2 DEF EvictFails, TypeOK
  <2>3. CASE GiveUp(l)
    BY <1>2, <2>3 DEF GiveUp, TypeOK
  <2> QED
    BY <1>4, <2>1, <2>2, <2>3
<1>5. ASSUME NEW l \in Login, Evict(l) PROVE Rest
  BY <1>2, <1>5 DEF Evict, Keep, TypeOK
<1>6. ASSUME NEW l \in Login, NEW t \in Token, Create(l, t) PROVE Rest
  BY <1>2, <1>6 DEF Create, TypeOK
<1>7. ASSUME NEW t \in Token, Logout(t) PROVE Rest
  BY <1>2, <1>7 DEF Logout, Keep, TypeOK
<1>8. ASSUME ChangePassword PROVE Rest
  <2>1. {devices'[i] : i \in DOMAIN devices'} = {}
    BY <1>8 DEF ChangePassword
  <2> QED
    BY <1>2, <1>8, <2>1 DEF ChangePassword, Changed, TypeOK
<1>9. ASSUME ChangePasswordOnly PROVE Rest
  BY <1>2, <1>9 DEF ChangePasswordOnly, Changed, login, TypeOK
<1>10. ASSUME DeleteAccount PROVE Rest
  BY <1>10 DEF DeleteAccount, login, terminator, reader, cache, history, TypeOK
<1>11. ASSUME Freeze PROVE Rest
  BY <1>11 DEF Freeze, login, terminator, reader, cache, history, TypeOK, Roles
<1>12. ASSUME Expire PROVE Rest
  BY <1>2, <1>12 DEF Expire, Keep, TypeOK
<1>13. ASSUME NEW x \in Terminator, NEW c \in Token, NEW t \in Token, FindCaller(x, c, t)
       PROVE  Rest
  BY <1>13 DEF FindCaller, login, account, reader, cache, history, TypeOK
<1>14. ASSUME NEW x \in Terminator, DeleteTarget(x) PROVE Rest
  <2>1. /\ tpc' \in [Terminator -> {"idle", "delete", "uncache"}]
        /\ target' \in [Terminator -> Token \cup {None}]
        /\ caller' \in [Terminator -> Token \cup {None}]
        /\ \A y \in Terminator :
             tpc'[y] # "idle" => target'[y] \in Token /\ caller'[y] \in Token
    <3>1. CASE target[x] \in Live
      BY <1>14, <3>1 DEF DeleteTarget, TypeOK
    <3>2. CASE target[x] \notin Live
      BY <1>14, <3>2 DEF DeleteTarget, Terminated, TypeOK
    <3> QED
      BY <3>1, <3>2
  <2> QED
    BY <1>14, <2>1 DEF DeleteTarget, Keep, account, reader, cache, TypeOK
<1>15. ASSUME NEW x \in Terminator, DelUserCache(x) PROVE Rest
  <2>1. cached' \in [Token -> Roles \cup {None}] /\ left' \in [Token -> 0..TTL]
    <3>1. CASE UNCHANGED cache
      BY <3>1 DEF cache, TypeOK
    <3>2. CASE /\ cached' = [cached EXCEPT ![caller[x]] = None]
               /\ left' = [left EXCEPT ![caller[x]] = 0]
      <4>1. 0 \in 0..TTL
        BY TimeAssumption
      <4>2. cached \in [Token -> Roles \cup {None}] /\ left \in [Token -> 0..TTL]
        BY DEF TypeOK
      <4>3. left' \in [Token -> 0..TTL]
        BY <3>2, <4>1, <4>2
      <4>4. cached' \in [Token -> Roles \cup {None}]
        BY <3>2, <4>2
      <4> QED
        BY <4>3, <4>4
    <3> QED
      BY <1>15, <3>1, <3>2 DEF DelUserCache
  <2> QED
    BY <1>15, <2>1 DEF DelUserCache, Terminated, login, account, reader, history, TypeOK
<1>16. ASSUME NEW r \in Reader, NEW t \in Token, Fetch(r, t) PROVE Rest
  BY <1>16, TimeAssumption DEF Fetch, login, account, terminator, cache, history, TypeOK
<1>17. ASSUME NEW r \in Reader, NEW t \in Token, Hit(r, t) \/ FetchNothing(r, t)
       PROVE  Rest
  BY <1>2, <1>17 DEF Hit, FetchNothing, login, history, TypeOK
<1>18. ASSUME NEW r \in Reader, Store(r) PROVE Rest
  BY <1>18, TimeAssumption DEF Store, Looked, login, account, terminator, history, TypeOK
<1>19. ASSUME NEW r \in Reader, StoreFails(r) PROVE Rest
  BY <1>19, TimeAssumption
  DEF StoreFails, Looked, login, account, terminator, cache, history, TypeOK
<1>20. ASSUME Tick PROVE Rest
  <2>1. took' \in [Reader -> 0..FetchTicks]
    BY <1>20, TimeAssumption DEF Tick, TypeOK
  <2>2. cached' \in [Token -> Roles \cup {None}] /\ left' \in [Token -> 0..TTL]
    BY <1>20, TimeAssumption DEF Tick, TypeOK
  <2>3. lag' \in [Token -> 0..(Bound + 1)]
    BY <1>20, TimeAssumption DEF Tick, Counted, Bound, TypeOK
  <2> QED
    BY <1>20, <2>1, <2>2, <2>3 DEF Tick, login, account, terminator, TypeOK
<1>21. ASSUME UNCHANGED vars PROVE Rest
  BY <1>2, <1>21 DEF vars, login, history, TypeOK
<1>22. Rest
  BY <1>3, <1>4, <1>5, <1>6, <1>7, <1>8, <1>9, <1>10, <1>11, <1>12, <1>13, <1>14, <1>15,
     <1>16, <1>17, <1>18, <1>19, <1>20, <1>21, NextCases
<1> QED
  BY <1>1, <1>22 DEF TypeOK

\* The tables and the locals are well formed all the time.
THEOREM RowsCorrect == Spec => []RowsInv
<1>1. Init => RowsInv
  <2> SUFFICES ASSUME Init PROVE RowsInv
    OBVIOUS
  <2>1. devices \in Seq(Token) /\ Live = {}
    BY EmptySeq DEF Init, Live
  <2>2. TypeOK
    BY <2>1, TimeAssumption DEF Init, TypeOK, Roles, Bound
  <2> QED
    BY <2>1, <2>2 DEF Init, RowsInv
<1>2. RowsInv /\ [Next]_vars => RowsInv'
  BY RowsStep
<1> QED
  BY <1>1, <1>2, PTL DEF Spec

\* The variables keep their types.
THEOREM TypeCorrect == Spec => []TypeOK
<1>1. RowsInv => TypeOK
  BY DEF RowsInv
<1> QED
  BY <1>1, RowsCorrect, PTL

-----------------------------------------------------------------------------
\* Accepted in time: an entry's age and what is left of it, and the age of what a
\* lookup holds, add up to the bound.
EntriesInv ==
    /\ \A t \in Token : t \notin used \/ Good(t) => lag[t] = 0
    /\ \A t \in Token : cached[t] = "user" => left[t] >= 1 /\ lag[t] + left[t] <= Bound
    /\ \A r \in Reader : found[r] = "user" =>
        rpc[r] = "fetched" /\ asked[r] \in Token /\ lag[asked[r]] <= took[r]

\* A token that is no longer good, or is not handed out yet, was neither before.
LEMMA GoodStep ==
    ASSUME RowsInv, [Next]_vars, NEW t \in Token, t \notin used' \/ Good(t)'
    PROVE  t \notin used \/ Good(t)
<1>1. exists' => exists
  <2>1. exists' = exists \/ DeleteAccount
    BY DEF Next, GetUser, Count, Evict, EvictFails, GiveUp, Create, Logout, ChangePassword,
           ChangePasswordOnly, Freeze, Expire, FindCaller, DeleteTarget, DelUserCache, Hit, Fetch, FetchNothing,
           Store, StoreFails, Tick, account, vars
  <2> QED
    BY <2>1 DEF DeleteAccount
<1>2. role' = "user" => role = "user"
  <2>1. role' = role \/ Freeze
    BY DEF Next, GetUser, Count, Evict, EvictFails, GiveUp, Create, Logout, ChangePassword,
           ChangePasswordOnly, DeleteAccount, Expire, FindCaller, DeleteTarget, DelUserCache, Hit, Fetch,
           FetchNothing, Store, StoreFails, Tick, account, vars
  <2> QED
    BY <2>1 DEF Freeze
<1>3. CASE used' = used /\ Remains(devices')
  <2>1. Live' \subseteq Live
    BY <1>3, RemainsLive
  <2> QED
    BY <1>1, <1>2, <1>3, <2>1 DEF Good
<1>4. ASSUME NEW l \in Login, NEW s \in Token, Create(l, s)
      PROVE  t \notin used \/ Good(t)
  <2>1. /\ s \notin used /\ used' = used \cup {s} /\ Live' = Live \cup {s}
        /\ exists' = exists /\ role' = role
    BY <1>4, AppendLive DEF Create, account
  <2> QED
    BY <2>1 DEF Good
<1> QED
  BY <1>3, <1>4, DevicesStep DEF RowsInv, TypeOK

\* What a step without the clock does to the cache and to the lookups.
LEMMA EntriesStep ==
    ASSUME RowsInv, EntriesInv, [Next]_vars
    PROVE  EntriesInv'
<1> DEFINE P == /\ \A t \in Token : t \notin used' \/ Good(t)' => lag'[t] = 0
                /\ \A t \in Token : cached'[t] = "user" =>
                        left'[t] >= 1 /\ lag'[t] + left'[t] <= Bound
                /\ \A r \in Reader : found'[r] = "user" =>
                        rpc'[r] = "fetched" /\ asked'[r] \in Token /\ lag'[asked'[r]] <= took'[r]
<1>1. ASSUME lag' = lag
      PROVE  \A t \in Token : t \notin used' \/ Good(t)' => lag'[t] = 0
  BY <1>1, GoodStep DEF EntriesInv
<1>2. ASSUME UNCHANGED <<lag, reader, cache>> PROVE P
  BY <1>1, <1>2 DEF EntriesInv, reader, cache
<1>3. ASSUME NEW l \in Login, GetUser(l) PROVE P
  BY <1>2, <1>3 DEF GetUser, history
<1>4. ASSUME NEW l \in Login, Count(l) \/ EvictFails(l) \/ GiveUp(l) PROVE P
  BY <1>2, <1>4 DEF Count, EvictFails, GiveUp, history
<1>5. ASSUME NEW l \in Login, Evict(l) PROVE P
  BY <1>2, <1>5 DEF Evict
<1>6. ASSUME NEW l \in Login, NEW t \in Token, Create(l, t) PROVE P
  BY <1>2, <1>6 DEF Create
<1>7. ASSUME NEW t \in Token, Logout(t) PROVE P
  BY <1>2, <1>7 DEF Logout
<1>8. ASSUME ChangePassword PROVE P
  BY <1>2, <1>8 DEF ChangePassword
<1>9. ASSUME ChangePasswordOnly PROVE P
  BY <1>2, <1>9 DEF ChangePasswordOnly
<1>10. ASSUME DeleteAccount PROVE P
  BY <1>2, <1>10 DEF DeleteAccount, history
<1>11. ASSUME Freeze PROVE P
  BY <1>2, <1>11 DEF Freeze, history
<1>12. ASSUME Expire PROVE P
  BY <1>2, <1>12 DEF Expire
<1>13. ASSUME NEW x \in Terminator, NEW c \in Token, NEW t \in Token, FindCaller(x, c, t)
       PROVE  P
  BY <1>2, <1>13 DEF FindCaller, history
<1>14. ASSUME NEW x \in Terminator, DeleteTarget(x) PROVE P
  BY <1>2, <1>14 DEF DeleteTarget
<1>15. ASSUME NEW x \in Terminator, DelUserCache(x) PROVE P
  <2>1. lag' = lag /\ UNCHANGED reader
    BY <1>15 DEF DelUserCache, history
  <2>2. ASSUME NEW t \in Token, cached'[t] = "user"
        PROVE  cached[t] = "user" /\ left'[t] = left[t]
    <3>1. CASE UNCHANGED cache
      BY <2>2, <3>1 DEF cache
    <3>2. CASE /\ cached' = [cached EXCEPT ![caller[x]] = None]
               /\ left' = [left EXCEPT ![caller[x]] = 0]
      <4>1. t # caller[x]
        BY <2>2, <3>2, NoneAssumption DEF RowsInv, TypeOK
      <4> QED
        BY <2>2, <3>2, <4>1 DEF RowsInv, TypeOK
    <3> QED
      BY <1>15, <3>1, <3>2 DEF DelUserCache
  <2> QED
    BY <1>1, <2>1, <2>2 DEF EntriesInv, reader
<1>16. ASSUME NEW r \in Reader, NEW t \in Token, Fetch(r, t) PROVE P
  <2>1. lag' = lag /\ UNCHANGED cache
    BY <1>16 DEF Fetch, history
  <2>2. role = "user" => lag[t] = 0
    BY <1>16 DEF Fetch, EntriesInv, Good
  <2>3. /\ rpc'[r] = "fetched" /\ asked'[r] = t /\ found'[r] = role /\ took'[r] = 0
        /\ \A q \in Reader : q # r => /\ rpc'[q] = rpc[q] /\ asked'[q] = asked[q]
                                      /\ found'[q] = found[q] /\ took'[q] = took[q]
    BY <1>16, TimeAssumption DEF Fetch, RowsInv, TypeOK
  <2> QED
    BY <1>1, <2>1, <2>2, <2>3 DEF EntriesInv, cache
<1>17. ASSUME NEW r \in Reader, NEW t \in Token, Hit(r, t) \/ FetchNothing(r, t)
       PROVE  P
  BY <1>2, <1>17 DEF Hit, FetchNothing, history
<1>18. ASSUME NEW r \in Reader, Looked(r)
       PROVE  \A q \in Reader : found'[q] = "user" =>
                /\ found[q] = "user"
                /\ rpc'[q] = rpc[q] /\ asked'[q] = asked[q] /\ took'[q] = took[q]
  BY <1>18, NoneAssumption, TimeAssumption DEF Looked, RowsInv, TypeOK
<1>19. ASSUME NEW r \in Reader, Store(r) PROVE P
  <2>1. /\ lag' = lag /\ Looked(r) /\ rpc[r] = "fetched" /\ asked[r] \in Token
        /\ cached' = [cached EXCEPT ![asked[r]] = found[r]]
        /\ left' = [left EXCEPT ![asked[r]] = TTL]
    BY <1>19 DEF Store, history, RowsInv
  <2>2. ASSUME NEW t \in Token, cached'[t] = "user"
        PROVE  left'[t] >= 1 /\ lag'[t] + left'[t] <= Bound
    <3>1. CASE t = asked[r]
      <4>1. found[r] = "user" /\ left'[t] = TTL
        BY <2>1, <2>2, <3>1 DEF RowsInv, TypeOK
      <4>2. lag[t] <= took[r] /\ took[r] \in 0 .. FetchTicks /\ lag[t] \in 0 .. Bound + 1
        BY <3>1, <4>1 DEF EntriesInv, RowsInv, TypeOK
      <4> QED
        BY <2>1, <4>1, <4>2, TimeAssumption DEF Bound
    <3>2. CASE t # asked[r]
      BY <2>1, <2>2, <3>2 DEF EntriesInv, RowsInv, TypeOK
    <3> QED
      BY <3>1, <3>2
  <2> QED
    BY <1>1, <1>18, <2>1, <2>2 DEF EntriesInv
<1>20. ASSUME NEW r \in Reader, StoreFails(r) PROVE P
  BY <1>1, <1>18, <1>20 DEF StoreFails, EntriesInv, cache, history
<1>21. ASSUME Tick PROVE P
  <2>1. \A t \in Token : /\ lag[t] \in Nat /\ lag'[t] = Counted(t)
                         /\ lag'[t] \in {lag[t], lag[t] + 1}
    BY <1>21, TimeAssumption DEF Tick, Counted, RowsInv, TypeOK, Bound
  <2>2. ASSUME NEW t \in Token, t \notin used' \/ Good(t)' PROVE lag'[t] = 0
    <3>1. t \notin used \/ Good(t)
      BY <2>2, GoodStep
    <3>2. lag[t] = 0
      BY <3>1 DEF EntriesInv
    <3> QED
      BY <2>1, <3>1, <3>2 DEF Counted
  <2>3. ASSUME NEW t \in Token, cached'[t] = "user"
        PROVE  left'[t] >= 1 /\ lag'[t] + left'[t] <= Bound
    <3>1. cached[t] = "user" /\ left[t] # 1
      BY <1>21, <2>3, NoneAssumption DEF Tick
    <3>2. left[t] \in 0 .. TTL /\ left[t] >= 1 /\ lag[t] + left[t] <= Bound
      BY <3>1 DEF EntriesInv, RowsInv, TypeOK
    <3>3. left'[t] = left[t] - 1
      BY <1>21, <3>2 DEF Tick
    <3>4. left[t] >= 2 /\ Bound \in Nat
      BY <3>1, <3>2, TimeAssumption DEF Bound
    <3> QED
      BY <2>1, <3>2, <3>3, <3>4
  <2>4. ASSUME NEW r \in Reader, found'[r] = "user"
        PROVE  rpc'[r] = "fetched" /\ asked'[r] \in Token /\ lag'[asked'[r]] <= took'[r]
    <3>1. /\ rpc[r] = "fetched" /\ asked[r] \in Token /\ lag[asked[r]] <= took[r]
          /\ rpc' = rpc /\ asked' = asked /\ took[r] \in 0 .. FetchTicks
      BY <1>21, <2>4 DEF Tick, EntriesInv, RowsInv, TypeOK
    <3>2. took'[r] = took[r] + 1
      BY <1>21, <3>1 DEF Tick
    <3>3. lag'[asked[r]] \in {lag[asked[r]], lag[asked[r]] + 1} /\ lag[asked[r]] \in Nat
      BY <2>1, <3>1
    <3> QED
      BY <3>1, <3>2, <3>3, TimeAssumption
  <2> QED
    BY <2>2, <2>3, <2>4
<1>22. ASSUME UNCHANGED vars PROVE P
  BY <1>2, <1>22 DEF vars, history
<1>23. P
  BY <1>3, <1>4, <1>5, <1>6, <1>7, <1>8, <1>9, <1>10, <1>11, <1>12, <1>13, <1>14, <1>15,
     <1>16, <1>17, <1>19, <1>20, <1>21, <1>22, NextCases
<1> QED
  BY <1>23 DEF EntriesInv

\* AuthMiddleware refuses a token a time to live and a read of the database after its
\* device or its user is gone (cache.go:26-47), though login, logout, changePassword,
\* deleteAccount and the expiry leave the cache alone: the entries need no invalidation.
THEOREM TokensRunOut == Spec => []RevokedInTime
<1>1. Init => EntriesInv
  BY NoneAssumption DEF Init, EntriesInv
<1>2. RowsInv /\ EntriesInv /\ [Next]_vars => EntriesInv'
  BY EntriesStep
<1>3. RowsInv /\ EntriesInv => RevokedInTime
  <2> SUFFICES ASSUME RowsInv, EntriesInv, NEW t \in Token, Accepted(t)
               PROVE  lag[t] <= Bound
    BY DEF RevokedInTime, RowsInv, TypeOK
  <2>1. lag[t] \in 0 .. Bound + 1 /\ left[t] \in 0 .. TTL /\ Bound \in Nat
    BY TimeAssumption DEF RowsInv, TypeOK, Bound
  <2>2. CASE cached[t] = "user"
    BY <2>1, <2>2 DEF EntriesInv
  <2>3. ASSUME NEW r \in Reader, asked[r] = t, found[r] = "user"
        PROVE  lag[t] <= Bound
    <3>1. lag[t] <= took[r] /\ took[r] \in 0 .. FetchTicks
      BY <2>3 DEF EntriesInv, RowsInv, TypeOK
    <3> QED
      BY <2>1, <3>1, TimeAssumption DEF Bound
  <2> QED
    BY <2>2, <2>3 DEF Accepted
<1> QED
  BY <1>1, <1>2, <1>3, RowsCorrect, PTL DEF Spec

-----------------------------------------------------------------------------
OldInv == IsFiniteSet(old) /\ OldSessionsBounded

\* Sets of logins are finite.
LEMMA LateFinite ==
    ASSUME RowsInv
    PROVE  /\ IsFiniteSet(late) /\ Cardinality(late) \in Nat
           /\ \A S \in SUBSET Login : /\ IsFiniteSet(S) /\ Cardinality(S) \in Nat
                                     /\ Cardinality(S) <= Cardinality(Login)
           /\ Cardinality(Login) \in Nat
BY LoginAssumption, FS_Subset, FS_CardinalityType DEF RowsInv, TypeOK

\* An old session is created by a login that was late, which is late no more.
LEMMA OldStep ==
    ASSUME RowsInv, OldInv, [Next]_vars
    PROVE  OldInv'
<1>1. ASSUME old' \subseteq old, late' \subseteq late PROVE OldInv'
  <2>1. old' \in SUBSET old /\ IsFiniteSet(old)
    BY <1>1 DEF OldInv
  <2>2. IsFiniteSet(old') /\ Cardinality(old') <= Cardinality(old)
    BY <2>1, FS_Subset
  <2>3. Cardinality(old) \in Nat /\ Cardinality(old') \in Nat
    BY <2>1, <2>2, FS_CardinalityType
  <2>4. Cardinality(late') <= Cardinality(late) /\ Cardinality(late') \in Nat
    BY <1>1, LateFinite, FS_Subset, FS_CardinalityType
  <2> QED
    BY <2>2, <2>3, <2>4, LateFinite DEF OldInv, OldSessionsBounded
<1>2. ASSUME old' = {}, late' \subseteq Login PROVE OldInv'
  <2>1. Cardinality(old') = 0 /\ IsFiniteSet(old')
    BY <1>2, FS_EmptySet
  <2>2. Cardinality(late') <= Cardinality(Login) /\ Cardinality(late') \in Nat
    BY <1>2, LateFinite
  <2> QED
    BY <2>1, <2>2 DEF OldInv, OldSessionsBounded
<1>3. ASSUME NEW l \in Login, NEW t \in Token, Create(l, t) PROVE OldInv'
  <2>1. CASE l \in late
    <3>1. late' = late \ {l} /\ old' = old \cup {t}
      BY <1>3, <2>1 DEF Create
    <3>2. Cardinality(late \ {l}) = Cardinality(late) - 1
      BY <2>1, LateFinite, FS_RemoveElement
    <3>3. /\ IsFiniteSet(old \cup {t})
          /\ Cardinality(old \cup {t}) \in {Cardinality(old), Cardinality(old) + 1}
      BY FS_AddElement DEF OldInv
    <3>4. Cardinality(old) \in Nat /\ Cardinality(late) \in Nat /\ Cardinality(Login) \in Nat
      BY LateFinite, FS_CardinalityType DEF OldInv
    <3>5. Cardinality(old) + Cardinality(late) <= Cardinality(Login)
      BY DEF OldInv, OldSessionsBounded
    <3>6. Cardinality(old \cup {t}) + Cardinality(late \ {l}) <= Cardinality(Login)
      BY <3>2, <3>3, <3>4, <3>5
    <3> QED
      BY <3>1, <3>3, <3>6 DEF OldInv, OldSessionsBounded
  <2>2. CASE l \notin late
    <3>1. late' = late /\ old' = old
      BY <1>3, <2>2 DEF Create
    <3> QED
      BY <1>1, <3>1
  <2> QED
    BY <2>1, <2>2
<1>4. ASSUME NEW l \in Login,
             GetUser(l) \/ Count(l) \/ Evict(l) \/ EvictFails(l) \/ GiveUp(l)
      PROVE  OldInv'
  BY <1>1, <1>4 DEF GetUser, Count, Evict, EvictFails, GiveUp, Keep, history
<1>5. ASSUME NEW t \in Token, Logout(t) PROVE OldInv'
  BY <1>1, <1>5 DEF Logout, Keep
<1>6. CASE ChangePassword
  <2>1. {devices'[i] : i \in DOMAIN devices'} = {}
    BY <1>6 DEF ChangePassword
  <2> QED
    BY <1>2, <1>6, <2>1 DEF ChangePassword, Changed
<1>7. CASE ChangePasswordOnly
  BY <1>2, <1>7 DEF ChangePasswordOnly, Changed
<1>8. CASE DeleteAccount \/ Freeze \/ Expire
  BY <1>1, <1>8 DEF DeleteAccount, Freeze, Expire, Keep, history
<1>9. ASSUME NEW x \in Terminator,
             \/ \E c, t \in Token : FindCaller(x, c, t)
             \/ DeleteTarget(x) \/ DelUserCache(x)
      PROVE  OldInv'
  BY <1>1, <1>9 DEF FindCaller, DeleteTarget, DelUserCache, Keep, history
<1>10. ASSUME NEW r \in Reader,
              \/ \E t \in Token : Hit(r, t) \/ Fetch(r, t) \/ FetchNothing(r, t)
              \/ Store(r) \/ StoreFails(r)
       PROVE  OldInv'
  BY <1>1, <1>10 DEF Hit, Fetch, FetchNothing, Store, StoreFails, history
<1>11. CASE Tick \/ UNCHANGED vars
  BY <1>1, <1>11 DEF Tick, vars, history
<1> QED
  BY <1>3, <1>4, <1>5, <1>6, <1>7, <1>8, <1>9, <1>10, <1>11 DEF Next

\* After a change of the password that went well, whoever knew the one before has no
\* more sessions than logins that were under way (createAccount.go:200-275),
\* however many log in at once.
THEOREM OldSessionsEnd == Spec => []OldSessionsBounded
<1>1. Init => OldInv
  <2> SUFFICES ASSUME Init PROVE OldInv
    OBVIOUS
  <2>1. Cardinality(old) = 0 /\ Cardinality(late) = 0 /\ IsFiniteSet(old)
    BY FS_EmptySet DEF Init
  <2>2. Cardinality(Login) \in Nat
    BY LoginAssumption, FS_CardinalityType
  <2> QED
    BY <2>1, <2>2 DEF OldInv, OldSessionsBounded
<1>2. RowsInv /\ OldInv /\ [Next]_vars => OldInv'
  BY OldStep
<1>3. OldInv => OldSessionsBounded
  BY DEF OldInv
<1> QED
  BY <1>1, <1>2, <1>3, RowsCorrect, PTL DEF Spec

-----------------------------------------------------------------------------
\* The logins that have counted, and made room if they had to, and have not created
\* their device yet.
Creating == {l \in Login : lpc[l] = "create"}

\* The devices and those that are on their way.
DevicesInv ==
    Len(devices) + Cardinality(Creating) <= MaxDevices + Cardinality(Login) - 1 + unevicted

\* The set of logins that are about to create is finite.
LEMMA CreatingFinite ==
    /\ IsFiniteSet(Creating) /\ Cardinality(Creating) \in Nat
    /\ Cardinality(Creating) <= Cardinality(Login)
    /\ Cardinality(Login) \in Nat
<1>1. Creating \in SUBSET Login
  BY DEF Creating
<1> QED
  BY <1>1, LoginAssumption, FS_Subset, FS_CardinalityType

\* So is the next one.
LEMMA NextCreating ==
    /\ Cardinality(Creating') \in Nat
    /\ Cardinality(Creating') <= Cardinality(Login)
<1>1. Creating' \in SUBSET Login
  BY DEF Creating
<1> QED
  BY <1>1, LoginAssumption, FS_Subset, FS_CardinalityType

\* The failed evictions are forgotten when there is no device left, and are counted on
\* otherwise.
LEMMA UnevictedStep ==
    ASSUME RowsInv, [Next]_vars
    PROVE  unevicted' \in Nat /\ (unevicted' >= unevicted \/ devices' = <<>>)
<1>1. unevicted \in Nat
  BY DEF RowsInv, TypeOK
<1> DEFINE Counts == \/ unevicted' = unevicted
                     \/ unevicted' = unevicted + 1
                     \/ unevicted' = 0 /\ devices' = <<>>
<1>2. ASSUME NEW l \in Login,
             \/ GetUser(l) \/ Count(l) \/ Evict(l) \/ EvictFails(l) \/ GiveUp(l)
             \/ \E t \in Token : Create(l, t)
      PROVE  Counts
  <2>1. CASE Evict(l)
    BY <2>1 DEF Evict, Keep
  <2> QED
    BY <1>2, <2>1 DEF GetUser, Count, EvictFails, GiveUp, Create, history
<1>3. ASSUME NEW t \in Token, Logout(t) PROVE Counts
  BY <1>3 DEF Logout, Keep
<1>4. ASSUME ChangePassword \/ ChangePasswordOnly \/ DeleteAccount \/ Freeze PROVE Counts
  BY <1>4 DEF ChangePassword, ChangePasswordOnly, DeleteAccount, Freeze, history
<1>5. ASSUME Expire PROVE Counts
  BY <1>5 DEF Expire, Keep
<1>6. ASSUME NEW x \in Terminator,
             \/ \E c, t \in Token : FindCaller(x, c, t)
             \/ DeleteTarget(x) \/ DelUserCache(x)
      PROVE  Counts
  <2>1. CASE DeleteTarget(x)
    BY <2>1 DEF DeleteTarget, Keep
  <2> QED
    BY <1>6, <2>1 DEF FindCaller, DelUserCache, history
<1>7. ASSUME NEW r \in Reader,
             \/ \E t \in Token : Hit(r, t) \/ Fetch(r, t) \/ FetchNothing(r, t)
             \/ Store(r) \/ StoreFails(r)
      PROVE  Counts
  BY <1>7 DEF Hit, Fetch, FetchNothing, Store, StoreFails, history
<1>8. ASSUME Tick \/ UNCHANGED vars PROVE Counts
  BY <1>8 DEF Tick, vars, history
<1>9. Counts
  BY <1>2, <1>3, <1>4, <1>5, <1>6, <1>7, <1>8 DEF Next
<1> QED
  BY <1>1, <1>9

\* How the set changes with the step of one login.
LEMMA CreatingStep ==
    ASSUME RowsInv, NEW l \in Login,
           NEW n \in {"idle", "count", "evict", "create"}, lpc' = [lpc EXCEPT ![l] = n]
    PROVE  /\ n # "create" /\ lpc[l] # "create" => Creating' = Creating
           /\ n # "create" /\ lpc[l] = "create" =>
                Cardinality(Creating') = Cardinality(Creating) - 1
           /\ n = "create" /\ lpc[l] # "create" =>
                Cardinality(Creating') = Cardinality(Creating) + 1
<1>1. \A k \in Login : lpc'[k] = IF k = l THEN n ELSE lpc[k]
  BY DEF RowsInv, TypeOK
<1>2. ASSUME n # "create", lpc[l] # "create" PROVE Creating' = Creating
  BY <1>1, <1>2 DEF Creating
<1>3. ASSUME n # "create", lpc[l] = "create"
      PROVE  Cardinality(Creating') = Cardinality(Creating) - 1
  <2>1. Creating' = Creating \ {l} /\ l \in Creating
    BY <1>1, <1>3 DEF Creating
  <2> QED
    BY <2>1, CreatingFinite, FS_RemoveElement
<1>4. ASSUME n = "create", lpc[l] # "create"
      PROVE  Cardinality(Creating') = Cardinality(Creating) + 1
  <2>1. Creating' = Creating \cup {l} /\ l \notin Creating
    BY <1>1, <1>4 DEF Creating
  <2> QED
    BY <2>1, CreatingFinite, FS_AddElement
<1> QED
  BY <1>2, <1>3, <1>4

\* A login that counts makes room if there is none, so that of all logins but one each
\* adds a device at most past the maximum.
LEMMA DevicesInvStep ==
    ASSUME RowsInv, DevicesInv, [Next]_vars
    PROVE  DevicesInv'
<1>0. /\ Len(devices) \in Nat /\ MaxDevices \in Nat /\ MaxDevices >= 1
      /\ Cardinality(Creating) \in Nat /\ Cardinality(Creating') \in Nat
      /\ Cardinality(Creating') <= Cardinality(Login) /\ Cardinality(Login) \in Nat
      /\ Len(devices) + Cardinality(Creating) <= MaxDevices + Cardinality(Login) - 1 + unevicted
      /\ unevicted \in Nat /\ unevicted' \in Nat
  BY CreatingFinite, NextCreating, MaxDevicesAssumption, DevicesAreLive, UnevictedStep
  DEF RowsInv, TypeOK, DevicesInv
<1>9. CASE devices' = <<>>
  <2>1. Len(devices') = 0
    BY <1>9, EmptySeq
  <2> QED
    BY <1>0, <2>1 DEF DevicesInv
<1>10. devices' # <<>> => unevicted' >= unevicted
  BY UnevictedStep
<1> SUFFICES ASSUME devices' # <<>> PROVE DevicesInv'
  BY <1>9
<1>1. ASSUME lpc' = lpc, Remains(devices') PROVE DevicesInv'
  <2>1. Creating' = Creating
    BY <1>1 DEF Creating
  <2>2. Len(devices') \in Nat /\ Len(devices') <= Len(devices)
    BY <1>1, LenProperties DEF Remains
  <2> QED
    BY <1>0, <1>10, <2>1, <2>2 DEF DevicesInv
<1>2. ASSUME NEW l \in Login, GetUser(l) PROVE DevicesInv'
  <2>1. Creating' = Creating /\ devices' = devices
    BY <1>2, CreatingStep DEF GetUser
  <2> QED
    BY <1>0, <1>10, <2>1 DEF DevicesInv
<1>3. ASSUME NEW l \in Login, Count(l) PROVE DevicesInv'
  <2>1. CASE Len(devices) >= MaxDevices
    <3>1. Creating' = Creating /\ devices' = devices
      BY <1>3, <2>1, CreatingStep DEF Count
    <3> QED
      BY <1>0, <1>10, <3>1 DEF DevicesInv
  <2>2. CASE ~(Len(devices) >= MaxDevices)
    <3>1. devices' = devices
      BY <1>3 DEF Count
    <3>2. Len(devices) <= MaxDevices - 1
      BY <1>0, <1>10, <2>2
    <3> QED
      BY <1>0, <1>10, <3>1, <3>2 DEF DevicesInv
  <2> QED
    BY <2>1, <2>2
<1>4. ASSUME NEW l \in Login, Evict(l) PROVE DevicesInv'
  <2>1. CASE devices = <<>>
    BY <1>4, <2>1 DEF Evict, Keep
  <2>2. CASE devices # <<>>
    <3>1. Len(devices') = Len(devices) - 1
      BY <1>4, <2>2, TailRemains DEF Evict, Keep, RowsInv, TypeOK
    <3>2. Cardinality(Creating') = Cardinality(Creating) + 1
      BY <1>4, CreatingStep DEF Evict
    <3> QED
      BY <1>0, <1>10, <3>1, <3>2 DEF DevicesInv
  <2> QED
    BY <2>1, <2>2
<1>5. ASSUME NEW l \in Login, NEW t \in Token, Create(l, t) PROVE DevicesInv'
  <2>1. Len(devices') = Len(devices) + 1
    BY <1>5, AppendLive DEF Create
  <2>2. Cardinality(Creating') = Cardinality(Creating) - 1
    BY <1>5, CreatingStep DEF Create
  <2> QED
    BY <1>0, <1>10, <2>1, <2>2 DEF DevicesInv
<1>8. ASSUME NEW l \in Login, EvictFails(l) PROVE DevicesInv'
  <2>1. devices' = devices /\ unevicted' = unevicted + 1
    BY <1>8 DEF EvictFails
  <2>2. Cardinality(Creating') = Cardinality(Creating) + 1
    BY <1>8, CreatingStep DEF EvictFails
  <2> QED
    BY <1>0, <2>1, <2>2 DEF DevicesInv
<1>11. ASSUME NEW l \in Login, GiveUp(l) PROVE DevicesInv'
  <2>1. devices' = devices
    BY <1>11 DEF GiveUp
  <2>2. Creating' = Creating \/ Cardinality(Creating') = Cardinality(Creating) - 1
    BY <1>11, CreatingStep DEF GiveUp
  <2> QED
    BY <1>0, <1>10, <2>1, <2>2 DEF DevicesInv
<1>6. ASSUME lpc' = lpc, ~(\E l \in Login, t \in Token : Create(l, t)) PROVE DevicesInv'
  BY <1>1, <1>6, DevicesStep DEF RowsInv, TypeOK
<1>7. lpc' = lpc \/ \E l \in Login : \/ GetUser(l) \/ Count(l) \/ Evict(l)
                                     \/ EvictFails(l) \/ GiveUp(l)
                                     \/ \E t \in Token : Create(l, t)
  BY DEF Next, Logout, ChangePassword, ChangePasswordOnly, DeleteAccount, Freeze, Expire,
         FindCaller, DeleteTarget, DelUserCache, Hit, Fetch, FetchNothing, Store, StoreFails,
         Tick, login, vars
<1> QED
  BY <1>2, <1>3, <1>4, <1>5, <1>6, <1>7, <1>8, <1>11

\* Logins that race past loginCheckMaxDevices (login.go:55-75) exceed the limit by
\* fewer devices than there are logins at a time and one for each eviction that failed
\* (68-71, where the login goes on) since the account had no device, and never by more:
\* what one creates too many, the next evicts.
THEOREM DevicesStayFew == Spec => []DevicesBounded
<1>1. Init => DevicesInv
  <2> SUFFICES ASSUME Init PROVE DevicesInv
    OBVIOUS
  <2>1. Creating = {} /\ Len(devices) = 0 /\ unevicted = 0
    BY EmptySeq DEF Init, Creating
  <2>2. Cardinality(Creating) = 0 /\ Cardinality(Login) \in Nat
    BY <2>1, CreatingFinite, FS_EmptySet
  <2> QED
    BY <2>1, <2>2, MaxDevicesAssumption DEF DevicesInv
<1>2. RowsInv /\ DevicesInv /\ [Next]_vars => DevicesInv'
  BY DevicesInvStep
<1>3. RowsInv /\ DevicesInv => DevicesBounded
  BY CreatingFinite, DevicesAreLive, MaxDevicesAssumption
  DEF RowsInv, TypeOK, DevicesInv, DevicesBounded
<1> QED
  BY <1>1, <1>2, <1>3, RowsCorrect, PTL DEF Spec

-----------------------------------------------------------------------------
(* The limit that the code says (README, section 4), where it is kept.     *)

\* One login at a time is between its eviction, or a count that found room, and the row of
\* its device.
LoginsApart == \A k, l \in Creating : k = l

\* Such a login has room for its device, or its eviction has failed.
RoomInv == /\ Len(devices) <= MaxDevices + unevicted
           /\ Creating # {} => Len(devices) <= MaxDevices + unevicted - 1

\* An account without a device has room for one.
LEMMA RoomForOne ==
    ASSUME NEW m \in Nat, NEW n \in Nat, m >= 1
    PROVE  0 <= m + n /\ 0 <= m + n - 1
OBVIOUS

\* While logins are apart, every one of them finds room, or an eviction more has failed.
LEMMA RoomStep ==
    ASSUME RowsInv, RoomInv, LoginsApart, [Next]_vars
    PROVE  RoomInv'
<1>0. /\ Len(devices) \in Nat /\ MaxDevices \in Nat /\ MaxDevices >= 1
      /\ lpc \in [Login -> {"idle", "count", "evict", "create"}]
      /\ unevicted \in Nat /\ unevicted' \in Nat
  BY MaxDevicesAssumption, DevicesAreLive, UnevictedStep DEF RowsInv, TypeOK
<1>9. CASE devices' = <<>>
  <2>1. Len(devices') = 0
    BY <1>9, EmptySeq
  <2>2. MaxDevices \in Nat /\ MaxDevices >= 1 /\ unevicted' \in Nat
    BY <1>0
  <2> QED
    BY <2>1, <2>2, RoomForOne DEF RoomInv
<1>10. devices' # <<>> => unevicted' >= unevicted
  BY UnevictedStep
<1> SUFFICES ASSUME devices' # <<>> PROVE RoomInv'
  BY <1>9
<1>1. ASSUME Len(devices') \in Nat, Len(devices') <= Len(devices), Creating' \subseteq Creating
      PROVE  RoomInv'
  <2>1. Len(devices') <= MaxDevices + unevicted'
    BY <1>0, <1>1, <1>10 DEF RoomInv
  <2>2. Creating' # {} => Len(devices') <= MaxDevices + unevicted' - 1
    BY <1>0, <1>1, <1>10 DEF RoomInv
  <2> QED
    BY <2>1, <2>2 DEF RoomInv
<1>2. ASSUME Len(devices') \in Nat, Len(devices') <= MaxDevices + unevicted - 1 PROVE RoomInv'
  BY <1>0, <1>2, <1>10 DEF RoomInv
<1>3. ASSUME NEW l \in Login, GetUser(l) PROVE RoomInv'
  BY <1>0, <1>1, <1>3 DEF GetUser, Creating
<1>4. ASSUME NEW l \in Login, Count(l) PROVE RoomInv'
  <2>1. devices' = devices
    BY <1>4 DEF Count
  <2>2. CASE Len(devices) >= MaxDevices
    <3>1. Creating' \subseteq Creating
      BY <1>0, <1>4, <2>2 DEF Count, Creating
    <3> QED
      BY <1>0, <1>1, <2>1, <3>1
  <2>3. CASE ~(Len(devices) >= MaxDevices)
    BY <1>0, <1>2, <2>1, <2>3
  <2> QED
    BY <2>2, <2>3
<1>5. ASSUME NEW l \in Login, Evict(l) PROVE RoomInv'
  <2>1. CASE devices = <<>>
    BY <1>5, <2>1 DEF Evict, Keep
  <2>2. CASE devices # <<>>
    <3>1. Len(devices') = Len(devices) - 1 /\ Len(devices') \in Nat
      BY <1>5, <2>2, TailRemains, LenProperties DEF Evict, Keep, RowsInv, TypeOK, Remains
    <3>2. Len(devices') <= MaxDevices + unevicted - 1
      BY <1>0, <3>1 DEF RoomInv
    <3> QED
      BY <1>2, <3>1, <3>2
  <2> QED
    BY <2>1, <2>2
<1>6. ASSUME NEW l \in Login, NEW t \in Token, Create(l, t) PROVE RoomInv'
  <2>1. Len(devices') = Len(devices) + 1
    BY <1>6, AppendLive DEF Create
  <2>2. l \in Creating
    BY <1>6 DEF Create, Creating
  <2>3. Creating' = {}
    BY <1>0, <1>6, <2>2 DEF Create, Creating, LoginsApart
  <2> QED
    BY <1>0, <1>10, <2>1, <2>2, <2>3 DEF RoomInv
<1>11. ASSUME NEW l \in Login, EvictFails(l) PROVE RoomInv'
  BY <1>0, <1>11 DEF EvictFails, RoomInv
<1>12. ASSUME NEW l \in Login, GiveUp(l) PROVE RoomInv'
  <2>1. devices' = devices /\ Creating' \subseteq Creating
    BY <1>0, <1>12 DEF GiveUp, Creating
  <2> QED
    BY <1>0, <1>1, <2>1
<1>7. ASSUME lpc' = lpc, ~(\E l \in Login, t \in Token : Create(l, t)) PROVE RoomInv'
  <2>1. Remains(devices')
    BY <1>7, DevicesStep DEF RowsInv, TypeOK
  <2>2. Len(devices') \in Nat /\ Len(devices') <= Len(devices)
    BY <2>1, LenProperties DEF Remains
  <2>3. Creating' = Creating
    BY <1>7 DEF Creating
  <2> QED
    BY <1>1, <2>2, <2>3
<1>8. lpc' = lpc \/ \E l \in Login : \/ GetUser(l) \/ Count(l) \/ Evict(l)
                                     \/ EvictFails(l) \/ GiveUp(l)
                                     \/ \E t \in Token : Create(l, t)
  BY DEF Next, Logout, ChangePassword, ChangePasswordOnly, DeleteAccount, Freeze, Expire,
         FindCaller, DeleteTarget, DelUserCache, Hit, Fetch, FetchNothing, Store, StoreFails,
         Tick, login, vars
<1> QED
  BY <1>3, <1>4, <1>5, <1>6, <1>7, <1>8, <1>11, <1>12

\* Nobody has more devices than MaxDevicesPerUser (consts.go:20, login.go:55-75) but for
\* one of each eviction that failed since he had none, as long as his logins do not overlap
\* there, whatever logouts, terminations and changes of the password come between.
THEOREM DevicesLimited ==
    Spec /\ []LoginsApart => [](Len(devices) <= MaxDevices + unevicted)
<1>1. Init => RoomInv
  <2>1. Init => Creating = {} /\ Len(devices) = 0 /\ unevicted = 0
    BY EmptySeq DEF Init, Creating
  <2> QED
    BY <2>1, MaxDevicesAssumption DEF RoomInv
<1>2. RowsInv /\ RoomInv /\ LoginsApart /\ [Next]_vars => RoomInv'
  BY RoomStep
<1>3. RoomInv => Len(devices) <= MaxDevices + unevicted
  BY DEF RoomInv
<1> QED
  BY <1>1, <1>2, <1>3, RowsCorrect, PTL DEF Spec
=============================================================================
