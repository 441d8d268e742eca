---------------------------- MODULE PushProofs -----------------------------
(* Proofs about the push service: PushHub, for any set of tokens,          *)
(* connections and requests, its types, that no write channel is closed    *)
(* twice, and that a client some Notify is sending to stays registered;    *)
(* PushMessages, for any users, watchers and comments, what the list of    *)
(* messages is, its types, whose rows there are, and whose devices show    *)
(* something.                                                              *)
EXTENDS PushHub, PushMessages, FiniteSetTheorems, WellFoundedInduction, TLAPS

-----------------------------------------------------------------------------
(* PushHub.                                                                *)

\* What `once` buys: only a client whose once is taken was closed, and of its
\* goroutines at most one is about to close it.
OnceInv ==
    /\ \A c \in Client : closes[c] <= IF done[c] THEN 1 ELSE 0
    /\ \A p \in Thread : pc[p] = "close" => done[p[2]] /\ closes[p[2]] = 0
    /\ \A p, q \in Thread :
        pc[p] = "close" /\ pc[q] = "close" /\ p[2] = q[2] => p = q

\* What the lock buys: an entry of the map is a client of that token, and stays
\* while a reader uses it.
LockInv ==
    /\ \A t \in Token : clients[t] # NoClient => TokenOf[clients[t]] = t
    /\ \A r \in readers :
        target[r] \in Client /\ clients[TokenOf[target[r]]] = target[r]

\* A thread belongs to a client.
LEMMA ThreadFacts ==
    /\ \A p \in Thread : p[2] \in Client /\ Own(p) \in Token
    /\ \A c \in Client : /\ <<"handle", c>> \in Thread
                         /\ <<"read", c>> \in Thread
                         /\ <<"write", c>> \in Thread
BY TokenOfAssumption DEF Thread, Own

\* The actions of Next one by one, so that every proof below has one case each.
LEMMA NextCases ==
    ASSUME Next, NEW P,
           \A c \in Client : Upgrade(c) => P,
           \A c \in Client : PeerLost(c) => P,
           \A p \in Thread : NotifyCloseOnce(p) => P,
           \A p \in Thread : NotifyCloseBoth(p) => P,
           \A p \in Thread : RemoveLock(p) => P,
           \A p \in Thread : RemoveNothing(p) => P,
           \A p \in Thread : RemoveClient(p) => P,
           \A c \in Client : RegisterLock(c) => P,
           \A c \in Client : Register(c) => P,
           \A c \in Client : ReadError(c) => P,
           \A c \in Client : Write(c) => P,
           \A r \in Request : Notify(r) => P,
           UNCHANGED vars => P
    PROVE  P
BY ThreadFacts DEF Next, Step, NotifyClose, Remove, Handle, Finished

\* The variables keep the types of the code's fields.
THEOREM TypeCorrect == Spec => []TypeOK
<1>1. Init => TypeOK
  BY DevicesAssumption DEF Init, TypeOK, Location
<1>2. TypeOK /\ [Next]_vars => TypeOK'
  <2> SUFFICES ASSUME TypeOK, [Next]_vars PROVE TypeOK'
    OBVIOUS
  <2> USE ThreadFacts
  <2>1. ASSUME NEW c \in Client, Upgrade(c) PROVE TypeOK'
    BY <2>1 DEF Upgrade, Goto, hub, conn, TypeOK, Location
  <2>2. ASSUME NEW c \in Client, PeerLost(c) PROVE TypeOK'
    BY <2>2 DEF PeerLost, hub, TypeOK
  <2>3. ASSUME NEW p \in Thread, NotifyCloseOnce(p) PROVE TypeOK'
    BY <2>3 DEF NotifyCloseOnce, Do, Goto, hub, TypeOK, Location
  <2>4. ASSUME NEW p \in Thread, NotifyCloseBoth(p) PROVE TypeOK'
    BY <2>4 DEF NotifyCloseBoth, CloseBoth, Goto, hub, TypeOK, Location
  <2>5. ASSUME NEW p \in Thread, RemoveLock(p) PROVE TypeOK'
    BY <2>5 DEF RemoveLock, Lock, Goto, conn, TypeOK, Location
  <2>6. ASSUME NEW p \in Thread, RemoveNothing(p) PROVE TypeOK'
    BY <2>6 DEF RemoveNothing, AfterRemove, Goto, conn, TypeOK, Location
  <2>7. ASSUME NEW p \in Thread, RemoveClient(p) PROVE TypeOK'
    BY <2>7 DEF RemoveClient, AfterRemove, Do, CloseBoth, Goto, TypeOK, Location
  <2>8. ASSUME NEW c \in Client, RegisterLock(c) PROVE TypeOK'
    BY <2>8 DEF RegisterLock, Lock, Goto, conn, TypeOK, Location
  <2>9. ASSUME NEW c \in Client, Register(c) PROVE TypeOK'
    BY <2>9 DEF Register, conn, TypeOK, Location
  <2>10. ASSUME NEW c \in Client, ReadError(c) PROVE TypeOK'
    BY <2>10 DEF ReadError, Goto, hub, conn, TypeOK, Location
  <2>11. ASSUME NEW c \in Client, Write(c) PROVE TypeOK'
    BY <2>11 DEF Write, Receive, ReceiveClosed, PingError, WriteOk, WriteError,
                 Goto, hub, conn, TypeOK, Location
  <2>12. ASSUME NEW r \in Request, Notify(r) PROVE TypeOK'
    BY <2>12 DEF Notify, NotifySend, NotifyPanic, NotifyAbsent, NotifyRLock,
                 hub, conn, TypeOK
  <2>13. CASE UNCHANGED vars
    BY <2>13 DEF vars, TypeOK
  <2> QED
    BY <2>1, <2>2, <2>3, <2>4, <2>5, <2>6, <2>7, <2>8, <2>9, <2>10, <2>11,
       <2>12, <2>13, NextCases
<1> QED
  BY <1>1, <1>2, PTL DEF Spec

\* close(client.write) runs at most once per client (once.go, client.go:41-55).
THEOREM ClosedOnce == Spec => []ChannelClosedOnce
<1>1. TypeOK /\ Init => OnceInv
  BY DEF TypeOK, Init, OnceInv
<1>2. TypeOK /\ OnceInv /\ [Next]_vars => OnceInv'
  <2> SUFFICES ASSUME TypeOK, OnceInv, [Next]_vars PROVE OnceInv'
    OBVIOUS
  <2> USE ThreadFacts
  <2>1. ASSUME NEW c \in Client, Upgrade(c) PROVE OnceInv'
    BY <2>1 DEF Upgrade, Goto, hub, conn, TypeOK, OnceInv
  <2>2. ASSUME NEW c \in Client, PeerLost(c) PROVE OnceInv'
    BY <2>2 DEF PeerLost, OnceInv
  <2>3. ASSUME NEW p \in Thread, NotifyCloseOnce(p) PROVE OnceInv'
    BY <2>3 DEF NotifyCloseOnce, Do, Goto, TypeOK, OnceInv
  <2>4. ASSUME NEW p \in Thread, NotifyCloseBoth(p) PROVE OnceInv'
    <3>1. \A q \in Thread : pc'[q] = "close" => q # p /\ q[2] # p[2]
      BY <2>4 DEF NotifyCloseBoth, Goto, TypeOK, OnceInv
    <3> QED
      BY <2>4, <3>1 DEF NotifyCloseBoth, CloseBoth, Goto, TypeOK, OnceInv
  <2>5. ASSUME NEW p \in Thread, RemoveLock(p) PROVE OnceInv'
    BY <2>5 DEF RemoveLock, Lock, Goto, conn, TypeOK, OnceInv
  <2>6. ASSUME NEW p \in Thread, RemoveNothing(p) PROVE OnceInv'
    BY <2>6 DEF RemoveNothing, AfterRemove, Goto, conn, TypeOK, OnceInv
  <2>7. ASSUME NEW p \in Thread, RemoveClient(p) PROVE OnceInv'
    <3> DEFINE c == clients[Own(p)]
    <3>1. c \in Client
      BY <2>7 DEF RemoveClient, TypeOK
    <3>2. CASE done[c]
      BY <2>7, <3>1, <3>2 DEF RemoveClient, AfterRemove, Do, Goto, TypeOK, OnceInv
    <3>3. CASE ~done[c]
      <4>1. \A q \in Thread : pc'[q] = "close" => pc[q] = "close" /\ q[2] # c
        BY <2>7, <3>3 DEF RemoveClient, AfterRemove, Do, Goto, TypeOK, OnceInv
      <4> QED
        BY <2>7, <3>1, <3>3, <4>1
           DEF RemoveClient, Do, CloseBoth, TypeOK, OnceInv
    <3> QED
      BY <3>2, <3>3
  <2>8. ASSUME NEW c \in Client, RegisterLock(c) PROVE OnceInv'
    BY <2>8 DEF RegisterLock, Lock, Goto, conn, TypeOK, OnceInv
  <2>9. ASSUME NEW c \in Client, Register(c) PROVE OnceInv'
    <3>1. UNCHANGED <<done, closes>>
      BY <2>9 DEF Register, conn
    <3>2. \A q \in Thread : pc'[q] = "close" => pc[q] = "close"
      BY <2>9 DEF Register, TypeOK
    <3> QED
      BY <3>1, <3>2 DEF OnceInv
  <2>10. ASSUME NEW c \in Client, ReadError(c) PROVE OnceInv'
    BY <2>10 DEF ReadError, Goto, conn, TypeOK, OnceInv
  <2>11. ASSUME NEW c \in Client, Write(c) PROVE OnceInv'
    <3>1. UNCHANGED <<done, closes>>
      BY <2>11 DEF Write, Receive, ReceiveClosed, PingError, WriteOk, WriteError,
                   conn
    <3>2. \A q \in Thread : pc'[q] = "close" => pc[q] = "close"
      BY <2>11 DEF Write, Receive, ReceiveClosed, PingError, WriteOk, WriteError,
                   Goto, TypeOK
    <3> QED
      BY <3>1, <3>2 DEF OnceInv
  <2>12. ASSUME NEW r \in Request, Notify(r) PROVE OnceInv'
    BY <2>12 DEF Notify, NotifySend, NotifyPanic, NotifyAbsent, NotifyRLock,
                 conn, OnceInv
  <2>13. CASE UNCHANGED vars
    BY <2>13 DEF vars, OnceInv
  <2> QED
    BY <2>1, <2>2, <2>3, <2>4, <2>5, <2>6, <2>7, <2>8, <2>9, <2>10, <2>11,
       <2>12, <2>13, NextCases
<1>3. TypeOK /\ OnceInv => ChannelClosedOnce
  BY DEF TypeOK, OnceInv, ChannelClosedOnce
<1>4. Init => TypeOK
  BY DevicesAssumption DEF Init, TypeOK, Location
<1> QED
  BY <1>1, <1>2, <1>3, <1>4, TypeCorrect, PTL DEF Spec

\* Every step of another thread leaves the locked part of the map alone.
LEMMA LockCorrect == Spec => []LockInv
<1>1. Init => LockInv
  BY DEF Init, LockInv
<1>2. TypeOK /\ LockInv /\ [Next]_vars => LockInv'
  <2> SUFFICES ASSUME TypeOK, LockInv, [Next]_vars PROVE LockInv'
    OBVIOUS
  <2> USE ThreadFacts
  <2>1. ASSUME NEW c \in Client, Upgrade(c) PROVE LockInv'
    BY <2>1 DEF Upgrade, hub, LockInv
  <2>2. ASSUME NEW c \in Client, PeerLost(c) PROVE LockInv'
    BY <2>2 DEF PeerLost, hub, LockInv
  <2>3. ASSUME NEW p \in Thread, NotifyCloseOnce(p) PROVE LockInv'
    BY <2>3 DEF NotifyCloseOnce, hub, LockInv
  <2>4. ASSUME NEW p \in Thread, NotifyCloseBoth(p) PROVE LockInv'
    BY <2>4 DEF NotifyCloseBoth, hub, LockInv
  <2>5. ASSUME NEW p \in Thread, RemoveLock(p) PROVE LockInv'
    BY <2>5 DEF RemoveLock, Lock, LockInv
  <2>6. ASSUME NEW p \in Thread, RemoveNothing(p) PROVE LockInv'
    BY <2>6 DEF RemoveNothing, LockInv
  <2>7. ASSUME NEW p \in Thread, RemoveClient(p) PROVE LockInv'
    BY <2>7 DEF RemoveClient, Entered, TypeOK, LockInv
  <2>8. ASSUME NEW c \in Client, RegisterLock(c) PROVE LockInv'
    BY <2>8 DEF RegisterLock, Lock, LockInv
  <2>9. ASSUME NEW c \in Client, Register(c) PROVE LockInv'
    BY <2>9 DEF Register, Entered, TypeOK, LockInv
  <2>10. ASSUME NEW c \in Client, ReadError(c) PROVE LockInv'
    BY <2>10 DEF ReadError, hub, LockInv
  <2>11. ASSUME NEW c \in Client, Write(c) PROVE LockInv'
    BY <2>11 DEF Write, Receive, ReceiveClosed, PingError, WriteOk, WriteError,
                 hub, LockInv
  <2>12. ASSUME NEW r \in Request, Notify(r) PROVE LockInv'
    BY <2>12 DEF Notify, NotifySend, NotifyPanic, NotifyAbsent, NotifyRLock,
                 hub, TypeOK, LockInv
  <2>13. CASE UNCHANGED vars
    BY <2>13 DEF vars, LockInv
  <2> QED
    BY <2>1, <2>2, <2>3, <2>4, <2>5, <2>6, <2>7, <2>8, <2>9, <2>10, <2>11,
       <2>12, <2>13, NextCases
<1> QED
  BY <1>1, <1>2, TypeCorrect, PTL DEF Spec

\* Under API.lock's read lock the client found stays the one registered
\* (stream.go:50-63 against 65-78).
THEOREM TargetRegistered == Spec => []TargetStaysRegistered
<1>1. LockInv => TargetStaysRegistered
  BY DEF LockInv, TargetStaysRegistered
<1> QED
  BY <1>1, LockCorrect, PTL

-----------------------------------------------------------------------------
(* PushHub: what the code says and does not keep (README, section 4), and  *)
(* what is left of it.                                                     *)

\* A goroutine of a connection ends because the peer is gone or the connection closed;
\* Handle closes nothing of its own, and is over when its client is in the map.
LinkInv ==
    /\ \A c \in Client : closes[c] > 0 => link[c] = "closed"
    /\ \A p \in Thread : p[1] = "handle" => pc[p] \notin {"once", "close"}
    /\ \A p \in Thread :
        p[1] # "handle" /\ pc[p] \in {"once", "close", "lock", "remove"} => link[p[2]] # "up"
    /\ \A c \in Client : clients[TokenOf[c]] = c => pc[<<"handle", c>>] = "done"

LEMMA LinkStep ==
    ASSUME TypeOK, LockInv, LinkInv, [Next]_vars
    PROVE  LinkInv'
<1> USE ThreadFacts, NoClientAssumption
<1>1. ASSUME NEW c \in Client, Upgrade(c) PROVE LinkInv'
  BY <1>1 DEF Upgrade, Goto, hub, conn, TypeOK, LinkInv
<1>2. ASSUME NEW c \in Client, PeerLost(c) PROVE LinkInv'
  BY <1>2 DEF PeerLost, hub, TypeOK, LinkInv
<1>3. ASSUME NEW p \in Thread, NotifyCloseOnce(p) PROVE LinkInv'
  BY <1>3 DEF NotifyCloseOnce, Do, Goto, hub, TypeOK, LinkInv
<1>4. ASSUME NEW p \in Thread, NotifyCloseBoth(p) PROVE LinkInv'
  BY <1>4 DEF NotifyCloseBoth, CloseBoth, Goto, hub, TypeOK, LinkInv
<1>5. ASSUME NEW p \in Thread, RemoveLock(p) PROVE LinkInv'
  BY <1>5 DEF RemoveLock, Lock, Goto, conn, TypeOK, LinkInv
<1>6. ASSUME NEW p \in Thread, RemoveNothing(p) PROVE LinkInv'
  BY <1>6 DEF RemoveNothing, AfterRemove, Goto, conn, TypeOK, LinkInv
<1>7. ASSUME NEW p \in Thread, RemoveClient(p) PROVE LinkInv'
  <2>1. /\ pc' = [pc EXCEPT ![p] = AfterRemove(p)]
        /\ p[1] = "handle" => pc'[p] = "reglock" /\ pc[p] = "remove"
        /\ p[1] # "handle" => pc'[p] = "done"
    BY <1>7 DEF RemoveClient, AfterRemove, Do, Goto, TypeOK
  <2>2. \A q \in Thread : q # p => pc'[q] = pc[q]
    BY <2>1 DEF TypeOK
  <2>3. \A d \in Client : /\ link'[d] \in {link[d], "closed"}
                          /\ closes'[d] = closes[d] \/ link'[d] = "closed"
    BY <1>7 DEF RemoveClient, CloseBoth, TypeOK
  <2>4. \A d \in Client : clients'[TokenOf[d]] = d => clients[TokenOf[d]] = d
    BY <1>7 DEF RemoveClient, TypeOK
  <2>5. \A q \in Thread : pc'[q] \in {"once", "close", "lock", "remove"} => pc'[q] = pc[q]
    BY <2>1, <2>2
  <2>6. \A c \in Client : closes'[c] > 0 => link'[c] = "closed"
    BY <2>3 DEF LinkInv
  <2>7. \A q \in Thread : q[1] = "handle" => pc'[q] \notin {"once", "close"}
    BY <2>5 DEF LinkInv
  <2>8. \A q \in Thread :
          q[1] # "handle" /\ pc'[q] \in {"once", "close", "lock", "remove"}
          => link'[q[2]] # "up"
    BY <2>3, <2>5 DEF LinkInv
  <2>9. \A c \in Client : clients'[TokenOf[c]] = c => pc'[<<"handle", c>>] = "done"
    BY <2>1, <2>2, <2>4 DEF LinkInv
  <2> QED
    BY <2>6, <2>7, <2>8, <2>9 DEF LinkInv
<1>8. ASSUME NEW c \in Client, RegisterLock(c) PROVE LinkInv'
  BY <1>8 DEF RegisterLock, Lock, Goto, conn, TypeOK, LinkInv
<1>9. ASSUME NEW c \in Client, Register(c) PROVE LinkInv'
  <2>1. UNCHANGED <<link, closes>>
    BY <1>9 DEF Register, conn
  <2>2. \A q \in Thread : pc'[q] \in {"once", "close", "lock", "remove"} => pc'[q] = pc[q]
    BY <1>9 DEF Register, TypeOK
  <2>3. ASSUME NEW d \in Client, clients'[TokenOf[d]] = d PROVE pc'[<<"handle", d>>] = "done"
    <3>1. CASE d = c
      BY <1>9, <3>1 DEF Register, TypeOK
    <3>2. CASE d # c
      <4>1. clients[TokenOf[d]] = d
        BY <1>9, <2>3, <3>2 DEF Register, TypeOK
      <4>2. pc'[<<"handle", d>>] = pc[<<"handle", d>>]
        BY <1>9, <3>2 DEF Register, TypeOK
      <4> QED
        BY <4>1, <4>2 DEF LinkInv
    <3> QED
      BY <3>1, <3>2
  <2> QED
    BY <2>1, <2>2, <2>3 DEF LinkInv
<1>10. ASSUME NEW c \in Client, ReadError(c) PROVE LinkInv'
  BY <1>10 DEF ReadError, Goto, hub, conn, TypeOK, LinkInv
<1>11. ASSUME NEW c \in Client, Write(c) PROVE LinkInv'
  <2>1. UNCHANGED <<clients, link, closes>>
    BY <1>11 DEF Write, Receive, ReceiveClosed, PingError, WriteOk, WriteError, hub, conn
  <2>2. \A q \in Thread : q # <<"write", c>> => pc'[q] = pc[q]
    BY <1>11 DEF Write, Receive, ReceiveClosed, PingError, WriteOk, WriteError, Goto, TypeOK
  <2>3. /\ pc'[<<"write", c>>] \in {"serve", "send", "once"}
        /\ pc'[<<"write", c>>] = "once" => link[c] # "up"
    BY <1>11
       DEF Write, Receive, ReceiveClosed, PingError, WriteOk, WriteError, Goto, TypeOK, LinkInv
  <2> DEFINE w == <<"write", c>>
  <2>4. w \in Thread /\ w[1] = "write" /\ w[2] = c
    OBVIOUS
  <2>5. \A d \in Client : <<"handle", d>> # w
    OBVIOUS
  <2> HIDE DEF w
  <2>6. \A q \in Thread : q[1] = "handle" => pc'[q] \notin {"once", "close"}
    BY <2>2, <2>4 DEF LinkInv, w
  <2>7. ASSUME NEW q \in Thread, q[1] # "handle", pc'[q] \in {"once", "close", "lock", "remove"}
        PROVE  link'[q[2]] # "up"
    <3>1. CASE q = w
      BY <2>1, <2>3, <2>4, <2>7, <3>1 DEF w
    <3>2. CASE q # w
      BY <2>1, <2>2, <2>7, <3>2 DEF LinkInv, w
    <3> QED
      BY <3>1, <3>2
  <2>8. \A d \in Client : clients'[TokenOf[d]] = d => pc'[<<"handle", d>>] = "done"
    BY <2>1, <2>2, <2>5 DEF LinkInv, w
  <2>9. \A d \in Client : closes'[d] > 0 => link'[d] = "closed"
    BY <2>1 DEF LinkInv
  <2> QED
    BY <2>6, <2>7, <2>8, <2>9 DEF LinkInv
<1>12. ASSUME NEW r \in Request, Notify(r) PROVE LinkInv'
  BY <1>12 DEF Notify, NotifySend, NotifyPanic, NotifyAbsent, NotifyRLock,
               hub, conn, TypeOK, LinkInv
<1>13. CASE UNCHANGED vars
  BY <1>13 DEF vars, LinkInv
<1> QED
  BY <1>1, <1>2, <1>3, <1>4, <1>5, <1>6, <1>7, <1>8, <1>9, <1>10, <1>11,
     <1>12, <1>13, NextCases

\* What a request has under the read lock is one of the devices it is for.
TodoInv ==
    /\ \A r \in Request : todo[r] \subseteq Devices[r]
    /\ \A r \in readers : TokenOf[target[r]] \in todo[r]

LEMMA TodoStep ==
    ASSUME TypeOK, LockInv, TodoInv, [Next]_vars
    PROVE  TodoInv'
<1>1. CASE UNCHANGED <<readers, todo, target>>
  BY <1>1 DEF TodoInv
<1>2. ASSUME NEW r \in Request, Notify(r) PROVE TodoInv'
  BY <1>2 DEF Notify, NotifySend, NotifyPanic, NotifyAbsent, NotifyRLock,
              hub, TypeOK, LockInv, TodoInv
<1> QED
  BY <1>1, <1>2, NextCases
     DEF Upgrade, PeerLost, NotifyCloseOnce, NotifyCloseBoth, RemoveLock, RemoveNothing,
         RemoveClient, RegisterLock, Register, ReadError, Write, Receive, ReceiveClosed,
         PingError, WriteOk, WriteError, Lock, hub, vars

\* The three invariants of the hub that its action properties need.
HubInv == TypeOK /\ LockInv /\ LinkInv /\ TodoInv

LEMMA HubCorrect == Spec => []HubInv
<1>1. Init => HubInv
  <2>1. Init => TypeOK /\ LockInv /\ TodoInv
    BY DevicesAssumption DEF Init, TypeOK, Location, LockInv, TodoInv
  <2>2. Init => LinkInv
    <3>1. Init => \A p \in Thread : pc[p] = "none"
      BY DEF Init
    <3>2. Init => \A c \in Client : clients[TokenOf[c]] # c
      BY ThreadFacts, NoClientAssumption, TokenOfAssumption DEF Init
    <3> QED
      BY <3>1, <3>2 DEF Init, LinkInv
  <2> QED
    BY <2>1, <2>2 DEF HubInv
<1>2. HubInv /\ [Next]_vars /\ TypeOK' /\ LockInv' => HubInv'
  BY LinkStep, TodoStep DEF HubInv
<1> QED
  BY <1>1, <1>2, TypeCorrect, LockCorrect, PTL DEF Spec

\* A connection whose peer answers is closed by a goroutine of another connection of its
\* device, which comes to API.remove, and by nothing else.
ClosedWithinToken ==
    [][\A c \in Client :
        link[c] = "up" /\ link'[c] = "closed" =>
            \E p \in Thread : p[2] # c /\ Own(p) = TokenOf[c] /\ pc[p] = "remove"]_vars

LEMMA ClosingStep ==
    ASSUME HubInv, [Next]_vars, NEW c \in Client, link[c] = "up", link'[c] = "closed"
    PROVE  \E p \in Thread : p[2] # c /\ Own(p) = TokenOf[c] /\ pc[p] = "remove"
<1> USE ThreadFacts, NoClientAssumption DEF HubInv
<1>1. ASSUME NEW p \in Thread, NotifyCloseBoth(p) PROVE FALSE
  BY <1>1 DEF NotifyCloseBoth, CloseBoth, TypeOK, LinkInv
<1>2. ASSUME NEW p \in Thread, RemoveClient(p)
      PROVE  p[2] # c /\ Own(p) = TokenOf[c] /\ pc[p] = "remove"
  <2>1. clients[Own(p)] = c /\ pc[p] = "remove"
    BY <1>2 DEF RemoveClient, CloseBoth, TypeOK
  <2>2. Own(p) = TokenOf[c]
    BY <2>1 DEF LockInv
  <2>3. p[2] # c
    BY <2>1, <2>2 DEF LinkInv, Thread
  <2> QED
    BY <2>1, <2>2, <2>3
<1>3. link' # link
  OBVIOUS
<1>4. ASSUME NEW d \in Client, PeerLost(d) PROVE FALSE
  BY <1>4 DEF PeerLost, TypeOK
<1>5. ASSUME NEW d \in Client, Write(d) PROVE FALSE
  BY <1>3, <1>5
     DEF Write, Receive, ReceiveClosed, PingError, WriteOk, WriteError, conn
<1>6. ASSUME NEW r \in Request, Notify(r) PROVE FALSE
  BY <1>3, <1>6 DEF Notify, NotifySend, NotifyPanic, NotifyAbsent, NotifyRLock, conn
<1>7. ASSUME NEW d \in Client,
             Upgrade(d) \/ RegisterLock(d) \/ Register(d) \/ ReadError(d)
      PROVE  FALSE
  BY <1>3, <1>7 DEF Upgrade, RegisterLock, Lock, Register, ReadError, conn
<1>8. \A p \in Thread : ~NotifyCloseOnce(p) /\ ~RemoveLock(p) /\ ~RemoveNothing(p)
  BY <1>3 DEF NotifyCloseOnce, RemoveLock, Lock, RemoveNothing, conn
<1>9. ~UNCHANGED vars /\ Next
  BY <1>3 DEF vars
<1> HIDE DEF HubInv
<1> DEFINE P == \E p \in Thread : p[2] # c /\ Own(p) = TokenOf[c] /\ pc[p] = "remove"
<1> QED
  BY <1>1, <1>2, <1>4, <1>5, <1>6, <1>7, <1>8, <1>9, NextCases, Zenon

\* No device loses its connection by what others do, whatever pings, deadlines and
\* removals run at a time (stream.go:65-78, client.go:48-58).
THEOREM ClosedByItsToken == Spec => ClosedWithinToken
<1>1. HubInv =>
        [\A c \in Client :
            link[c] = "up" /\ link'[c] = "closed" =>
                \E p \in Thread : p[2] # c /\ Own(p) = TokenOf[c] /\ pc[p] = "remove"]_vars
      \/ ~[Next]_vars
  BY ClosingStep
<1> QED
  BY <1>1, HubCorrect, PTL DEF Spec, ClosedWithinToken

\* A connection that no other one of its device comes to replace is closed only when its
\* peer is gone, so that the code keeps what stream.go:27-28 and client.go:48 say of it: what
\* breaks it is a late removal by an older connection of the same device.
THEOREM LoneConnectionStays ==
    ASSUME \A c, d \in Client : TokenOf[c] = TokenOf[d] => c = d
    PROVE  Spec => ClosedOnlyByReplacement
<1>1. HubInv =>
        [\A c \in Client :
            link[c] = "up" /\ link'[c] = "closed" =>
                \E d \in Client \ {c} : pc[<<"handle", d>>] = "remove"]_vars
      \/ ~[Next]_vars
  BY ClosingStep, ThreadFacts DEF Own
<1> QED
  BY <1>1, HubCorrect, PTL DEF Spec, ClosedOnlyByReplacement

\* A request that is for one device gives it up only as it should ("Notify notifies the
\* clients with the given userID", stream.go:49): a panic takes the devices after it along,
\* and nothing else is missed.
THEOREM LoneDeviceNotified ==
    ASSUME \A r \in Request : \A t, u \in Devices[r] : t = u
    PROVE  Spec => OnlyDeadDevicesMissed
<1>1. ASSUME HubInv, [Next]_vars, NEW r \in Request, NEW t \in todo[r] \ todo'[r],
             clients[t] # NoClient, closes[clients[t]] = 0
      PROVE  buf'[clients[t]] = 1
  <2> USE <1>1 DEF HubInv
  <2>1. r \in readers => TokenOf[target[r]] = t /\ clients[t] = target[r]
    BY DEF TodoInv, LockInv
  <2>2. ASSUME NEW q \in Request, Notify(q) PROVE buf'[clients[t]] = 1
    BY <2>1, <2>2
       DEF Notify, NotifySend, NotifyPanic, NotifyAbsent, NotifyRLock, TypeOK, LockInv
  <2>3. CASE todo' = todo
    BY <2>3
  <2> QED
    BY <2>2, <2>3, NextCases
       DEF Upgrade, PeerLost, NotifyCloseOnce, NotifyCloseBoth, RemoveLock, RemoveNothing,
           RemoveClient, RegisterLock, Register, ReadError, Write, Receive, ReceiveClosed,
           PingError, WriteOk, WriteError, Lock, vars
<1>2. HubInv =>
        [\A r \in Request : \A t \in todo[r] \ todo'[r] :
            clients[t] # NoClient /\ closes[clients[t]] = 0 => buf'[clients[t]] = 1]_vars
      \/ ~[Next]_vars
  BY <1>1
<1> QED
  BY <1>2, HubCorrect, PTL DEF Spec, OnlyDeadDevicesMissed

-----------------------------------------------------------------------------
(* PushMessages: the list of messages.                                     *)

\* The least element of a set of numbers, which stands for induction below: a
\* statement that fails for some length of the list fails for a least one.
LEMMA LeastElement ==
    ASSUME NEW S, S \subseteq Nat, S # {}
    PROVE  \E n \in S : \A m \in S : n <= m
<1> DEFINE R == {p \in Nat \X Nat : p[1] < p[2]}
<1>1. IsWellFoundedOn(R, Nat)
  BY NatLessThanWellFounded DEF OpToRel
<1>2. \A m, n \in Nat : m < n => <<m, n>> \in R
  OBVIOUS
<1> HIDE DEF R
<1>3. PICK n \in S : \A m \in S : ~ (<<m, n>> \in R)
  BY <1>1, WFMin, Zenon
<1>4. \A m \in S : n \in Nat /\ m \in Nat /\ ~ (m < n)
  BY <1>2, <1>3
<1> QED
  BY <1>3, <1>4

\* The constants as the lemmas below need them.
LEMMA MessageFacts ==
    /\ Len(Attention) \in Nat
    /\ \A k \in 1 .. Len(Attention) : Attention[k] \in User
    /\ \A c \in Comment : AuthorOf[c] \in User /\ Target(c) \in User
BY UserAssumption, AttentionAssumption, CommentAssumption DEF Target

\* The lists of the first n watchers, as far as the loop has come.
IsLoop(lists, n) ==
    lists = [k \in 0 .. n |->
                [c \in Comment |->
                    IF k = 0 THEN Answer(c)
                    ELSE Add(c, lists[k - 1][c], Attention[k])]]

\* The loop can be run to any length: had it no result for some length, then it
\* would have none for a least one, but one more step leads there.
LEMMA LoopEnds == \A n \in Nat : \E lists : IsLoop(lists, n)
<1> DEFINE S == {n \in Nat : ~ \E lists : IsLoop(lists, n)}
<1> SUFFICES ASSUME S # {} PROVE FALSE
  OBVIOUS
<1>1. PICK n \in S : \A m \in S : n <= m
  BY LeastElement, Zenon
<1>2. n \in Nat /\ ~ \E lists : IsLoop(lists, n)
  OBVIOUS
<1>3. CASE n = 0
  <2> DEFINE lists == [k \in 0 .. 0 |-> [c \in Comment |-> Answer(c)]]
  <2>1. IsLoop(lists, 0)
    BY DEF IsLoop
  <2> QED
    BY <1>2, <1>3, <2>1
<1>4. CASE n # 0
  <2>1. n - 1 \in Nat /\ n - 1 \notin S
    BY <1>1, <1>2, <1>4
  <2>2. PICK f : IsLoop(f, n - 1)
    BY <2>1
  <2> DEFINE step(k, from) ==
        [c \in Comment |-> IF k = 0 THEN Answer(c) ELSE Add(c, from[c], Attention[k])]
  <2> DEFINE g == [k \in 0 .. n |-> IF k = n THEN step(n, f[n - 1]) ELSE f[k]]
  <2>3. \A k \in 0 .. n - 1 : f[k] = step(k, f[k - 1])
    BY <2>1, <2>2 DEF IsLoop
  <2> HIDE DEF step
  <2>4. \A k \in 0 .. n : g[k] = step(k, g[k - 1])
    <3> SUFFICES ASSUME NEW k \in 0 .. n PROVE g[k] = step(k, g[k - 1])
      OBVIOUS
    <3>1. CASE k = n
      BY <3>1, <1>2, <1>4
    <3>2. CASE k = 0
      <4>1. \A a, b : step(0, a) = step(0, b)
        BY DEF step
      <4> QED
        BY <3>2, <4>1, <2>3, <1>2, <1>4
    <3>3. CASE k # n /\ k # 0
      BY <3>3, <2>3, <1>2
    <3> QED
      BY <3>1, <3>2, <3>3
  <2>5. g = [k \in 0 .. n |-> step(k, g[k - 1])]
    <3> HIDE DEF g
    <3>1. DOMAIN g = 0 .. n /\ g = [k \in 0 .. n |-> g[k]]
      BY DEF g
    <3> QED
      BY <3>1, <2>4
  <2>6. IsLoop(g, n)
    <3> HIDE DEF g
    <3> QED
      BY <2>5 DEF IsLoop, step
  <2> QED
    BY <1>2, <2>6
<1> QED
  BY <1>3, <1>4

\* The recursive definition has a value: each list is the one before it and what
\* its watcher adds.
LEMMA ListsDefined == IsLoop(Lists, Len(Attention))
<1>1. PICK lists : IsLoop(lists, Len(Attention))
  BY LoopEnds, MessageFacts
<1>2. Lists = CHOOSE l : IsLoop(l, Len(Attention))
  BY DEF Lists, IsLoop
<1> QED
  BY <1>1, <1>2

\* The first k watchers, and the reasons a user of them, or the one answered, has.
Watchers(k) == {Attention[i] : i \in 1 .. k}
Reasons(c, u, k) ==
    {r \in {"reply"} : u = Target(c)} \cup {r \in {"favorite"} : u \in Watchers(k)}

MessageOf(c) == [comment : {c}, user : User, kinds : SUBSET Kinds]

\* What the list is when the loop has seen k watchers: one message for each of them
\* and for who is answered, the comment's author excepted, with all his reasons; and
\* the answer comes first, where Add looks for it.
IsListOf(c, k, list) ==
    /\ list \in Seq(MessageOf(c))
    /\ Answered(c) => Len(list) > 0 /\ list[1].user = Target(c)
    /\ \A i, j \in DOMAIN list : list[i].user = list[j].user => i = j
    /\ \A u \in User : (\E i \in DOMAIN list : list[i].user = u)
                           <=> u # AuthorOf[c] /\ (u \in Watchers(k) \/ u = Target(c))
    /\ \A i \in DOMAIN list : list[i].kinds = Reasons(c, list[i].user, k)

\* The list before the loop.
LEMMA FirstList == \A c \in Comment : IsListOf(c, 0, Answer(c))
<1> SUFFICES ASSUME NEW c \in Comment PROVE IsListOf(c, 0, Answer(c))
  OBVIOUS
<1>1. Target(c) \in User /\ AuthorOf[c] \in User /\ Watchers(0) = {}
  BY MessageFacts DEF Watchers
<1>2. CASE Answered(c)
  <2> DEFINE m == Message(c, Target(c), {"reply"})
  <2>1. /\ m \in MessageOf(c) /\ m.user = Target(c) /\ m.kinds = {"reply"}
    BY <1>1 DEF Message, MessageOf, Kinds
  <2> HIDE DEF m
  <2>2. /\ <<m>> \in Seq(MessageOf(c)) /\ Len(<<m>>) = 1 /\ DOMAIN <<m>> = {1}
        /\ <<m>>[1] = m
    BY <2>1
  <2>3. Answer(c) = <<m>>
    BY <1>2 DEF Answer, m
  <2>4. Reasons(c, Target(c), 0) = {"reply"}
    BY <1>1 DEF Reasons
  <2> QED
    BY <1>1, <1>2, <2>1, <2>2, <2>3, <2>4 DEF IsListOf, Answered
<1>3. CASE ~ Answered(c)
  BY <1>1, <1>3 DEF IsListOf, Answer, Answered
<1> QED
  BY <1>2, <1>3

\* The body of the loop: the attention of the k-th watcher.
LEMMA NextList ==
    ASSUME NEW c \in Comment, NEW k \in 1 .. Len(Attention), NEW list,
           IsListOf(c, k - 1, list)
    PROVE  IsListOf(c, k, Add(c, list, Attention[k]))
<1> DEFINE u == Attention[k]
           next == Add(c, list, u)
<1>1. u \in User /\ Target(c) \in User /\ AuthorOf[c] \in User
  BY MessageFacts
<1>2. Watchers(k) = Watchers(k - 1) \cup {u} /\ u \notin Watchers(k - 1)
  <2>1. 1 .. k = 1 .. k - 1 \cup {k}
    BY MessageFacts
  <2>2. \A i \in 1 .. k - 1 : Attention[i] # Attention[k]
    BY AttentionAssumption
  <2> QED
    BY <2>1, <2>2 DEF Watchers
<1>3. \A v : v # u => Reasons(c, v, k) = Reasons(c, v, k - 1)
  BY <1>2 DEF Reasons
<1>4. Reasons(c, u, k) = Reasons(c, u, k - 1) \cup {"favorite"}
  BY <1>2 DEF Reasons
<1>5. list \in Seq(MessageOf(c)) /\ Len(list) \in Nat /\ DOMAIN list = 1 .. Len(list)
  BY DEF IsListOf
<1>6. \A i \in DOMAIN list : /\ list[i] \in MessageOf(c)
                             /\ list[i].user \in User /\ list[i].kinds \subseteq Kinds
  <2>1. \A i \in DOMAIN list : list[i] \in MessageOf(c)
    BY <1>5
  <2> QED
    BY <2>1 DEF MessageOf
<1>7. CASE Answered(c) /\ u = Target(c)
  <2>1. Len(list) > 0 /\ list[1].user = u /\ 1 \in DOMAIN list
    BY <1>5, <1>7 DEF IsListOf
  <2> DEFINE m == [list[1] EXCEPT !.kinds = @ \cup {"favorite"}]
  <2>2. /\ m \in MessageOf(c) /\ m.user = u
        /\ m.kinds = list[1].kinds \cup {"favorite"}
    BY <1>6, <2>1 DEF MessageOf, Kinds
  <2>3. next = [list EXCEPT ![1] = m]
    BY <1>7 DEF Add
  <2> HIDE DEF m
  <2>4. /\ next \in Seq(MessageOf(c)) /\ Len(next) = Len(list)
        /\ DOMAIN next = DOMAIN list /\ next[1] = m
        /\ \A i \in DOMAIN list : i # 1 => next[i] = list[i]
    BY <1>5, <2>1, <2>2, <2>3
  <2> HIDE DEF next, u
  <2>5. \A i \in DOMAIN list : next[i].user = list[i].user
    BY <2>1, <2>2, <2>4
  <2>6. \A i \in DOMAIN next : next[i].kinds = Reasons(c, next[i].user, k)
    <3> SUFFICES ASSUME NEW i \in DOMAIN next
                 PROVE  next[i].kinds = Reasons(c, next[i].user, k)
      OBVIOUS
    <3>1. list[i].kinds = Reasons(c, list[i].user, k - 1)
      BY <2>4 DEF IsListOf
    <3>2. CASE i = 1
      BY <3>1, <3>2, <1>4, <2>1, <2>2, <2>4
    <3>3. CASE i # 1
      <4>1. list[i].user # u
        BY <3>3, <2>1, <2>4 DEF IsListOf
      <4> QED
        BY <3>1, <3>3, <4>1, <1>3, <2>4
    <3> QED
      BY <3>2, <3>3
  <2>7. IsListOf(c, k, next)
    BY <1>2, <1>7, <2>1, <2>4, <2>5, <2>6 DEF IsListOf
  <2> QED
    BY <2>7 DEF next, u
<1>8. CASE ~ (Answered(c) /\ u = Target(c)) /\ u # AuthorOf[c]
  <2> DEFINE m == Message(c, u, {"favorite"})
  <2>1. m \in MessageOf(c) /\ m.user = u /\ m.kinds = {"favorite"}
    BY <1>1 DEF Message, MessageOf, Kinds
  <2>2. next = Append(list, m)
    BY <1>8 DEF Add
  <2>3. u # Target(c)
    BY <1>8 DEF Answered
  <2> HIDE DEF m
  <2>4. /\ next \in Seq(MessageOf(c)) /\ Len(next) = Len(list) + 1
        /\ DOMAIN next = 1 .. Len(list) + 1 /\ next[Len(list) + 1] = m
        /\ \A i \in 1 .. Len(list) : next[i] = list[i]
    BY <1>5, <2>1, <2>2
  <2> HIDE DEF next, u
  <2>5. \A i \in 1 .. Len(list) : next[i].user # u
    BY <1>1, <1>2, <1>5, <2>3, <2>4 DEF IsListOf
  <2>6. \A i, j \in DOMAIN next : next[i].user = next[j].user => i = j
    BY <1>5, <2>1, <2>4, <2>5 DEF IsListOf
  <2>7. \A i \in DOMAIN next : next[i].kinds = Reasons(c, next[i].user, k)
    <3>1. Reasons(c, u, k) = {"favorite"}
      BY <1>2, <2>3 DEF Reasons
    <3>2. \A i \in 1 .. Len(list) : next[i].kinds = Reasons(c, next[i].user, k)
      BY <1>3, <1>5, <2>4, <2>5 DEF IsListOf
    <3>3. next[Len(list) + 1].kinds = Reasons(c, next[Len(list) + 1].user, k)
      BY <2>1, <2>4, <3>1
    <3> QED
      BY <1>5, <2>4, <3>2, <3>3
  <2>8. \A v \in User : (\E i \in DOMAIN next : next[i].user = v)
                            <=> v # AuthorOf[c] /\ (v \in Watchers(k) \/ v = Target(c))
    <3> TAKE v \in User
    <3>1. (\E i \in DOMAIN next : next[i].user = v)
              <=> (\E i \in DOMAIN list : list[i].user = v) \/ v = u
      BY <1>5, <2>1, <2>4
    <3> QED
      BY <3>1, <1>2, <1>8 DEF IsListOf
  <2>9. Answered(c) => Len(next) > 0 /\ next[1].user = Target(c)
    BY <1>5, <2>4 DEF IsListOf
  <2>10. IsListOf(c, k, next)
    BY <2>4, <2>6, <2>7, <2>8, <2>9 DEF IsListOf
  <2> QED
    BY <2>10 DEF next, u
<1>9. CASE ~ (Answered(c) /\ u = Target(c)) /\ u = AuthorOf[c]
  <2>1. next = list
    BY <1>9 DEF Add
  <2>2. \A i \in DOMAIN list : list[i].user # u
    BY <1>6, <1>9 DEF IsListOf
  <2> HIDE DEF next, u
  <2>3. IsListOf(c, k, list)
    BY <1>2, <1>3, <1>9, <2>2 DEF IsListOf
  <2> QED
    BY <2>1, <2>3 DEF next, u
<1> QED
  BY <1>7, <1>8, <1>9

\* The lists are what the loop says they are, after any number of watchers: were
\* one not, then there would be a first one.
LEMMA ListsCorrect ==
    \A k \in 0 .. Len(Attention) : \A c \in Comment : IsListOf(c, k, Lists[k][c])
<1> DEFINE S == {k \in 0 .. Len(Attention) :
                    ~ \A c \in Comment : IsListOf(c, k, Lists[k][c])}
<1> SUFFICES ASSUME S # {} PROVE FALSE
  OBVIOUS
<1>1. PICK k \in S : \A m \in S : k <= m
  <2>1. S \subseteq Nat
    BY MessageFacts
  <2> QED
    BY <2>1, LeastElement, Zenon
<1>2. k \in 0 .. Len(Attention) /\ ~ \A c \in Comment : IsListOf(c, k, Lists[k][c])
  OBVIOUS
<1>3. CASE k = 0
  <2>1. \A c \in Comment : Lists[0][c] = Answer(c)
    BY ListsDefined, MessageFacts DEF IsLoop
  <2> QED
    BY <1>2, <1>3, <2>1, FirstList
<1>4. CASE k # 0
  <2>1. k \in 1 .. Len(Attention) /\ k - 1 \in 0 .. Len(Attention) /\ k - 1 \notin S
    BY <1>1, <1>2, <1>4, MessageFacts
  <2>2. \A c \in Comment : IsListOf(c, k - 1, Lists[k - 1][c])
    BY <2>1
  <2>3. \A c \in Comment : Lists[k][c] = Add(c, Lists[k - 1][c], Attention[k])
    BY <1>2, <1>4, ListsDefined, MessageFacts DEF IsLoop
  <2> QED
    BY <1>2, <2>1, <2>2, <2>3, NextList
<1> QED
  BY <1>3, <1>4

\* What watchers rely on, of the list and for any number of them: it has one message
\* for everybody the comment concerns, for nobody else, and names all the reasons
\* (routeApiPOST.go:233-267, where two queries are merged).
THEOREM ListIsAudience ==
    \A c \in Comment :
        /\ PushList(c) \in Seq(MessageOf(c))
        /\ {PushList(c)[i].user : i \in DOMAIN PushList(c)} = Audience(c)
        /\ \A i, j \in DOMAIN PushList(c) :
            PushList(c)[i].user = PushList(c)[j].user => i = j
        /\ \A i \in DOMAIN PushList(c) :
            PushList(c)[i].kinds = Concern(c, PushList(c)[i].user)
<1> SUFFICES ASSUME NEW c \in Comment
             PROVE  /\ PushList(c) \in Seq(MessageOf(c))
                    /\ {PushList(c)[i].user : i \in DOMAIN PushList(c)} = Audience(c)
                    /\ \A i, j \in DOMAIN PushList(c) :
                        PushList(c)[i].user = PushList(c)[j].user => i = j
                    /\ \A i \in DOMAIN PushList(c) :
                        PushList(c)[i].kinds = Concern(c, PushList(c)[i].user)
  OBVIOUS
<1> DEFINE n == Len(Attention)
<1>1. IsListOf(c, n, PushList(c))
  BY ListsCorrect, MessageFacts DEF PushList
<1> HIDE DEF n
<1>2. DOMAIN Attention = 1 .. n
  BY AttentionAssumption DEF n
<1>3. Audience(c) = (Watchers(n) \cup {Target(c)}) \ {AuthorOf[c]}
  BY <1>2 DEF Audience, Watchers
<1>4. \A u : Reasons(c, u, n) = Concern(c, u)
  BY <1>2 DEF Reasons, Concern, Watchers
<1>5. Watchers(n) \subseteq User /\ Target(c) \in User
  BY MessageFacts DEF Watchers, n
<1>6. \A i \in DOMAIN PushList(c) : PushList(c)[i].user \in User
  <2>1. \A i \in DOMAIN PushList(c) : PushList(c)[i] \in MessageOf(c)
    BY <1>1 DEF IsListOf
  <2> QED
    BY <2>1 DEF MessageOf
<1>7. {PushList(c)[i].user : i \in DOMAIN PushList(c)} = Audience(c)
  BY <1>1, <1>3, <1>5, <1>6 DEF IsListOf
<1> QED
  BY <1>1, <1>4, <1>7 DEF IsListOf

\* The same as the steps below need it: the places in the list, and who has one.
LEMMA Places ==
    ASSUME NEW c \in Comment
    PROVE  /\ Len(PushList(c)) \in Nat
           /\ DOMAIN PushList(c) = 1 .. Len(PushList(c))
           /\ \A i \in DOMAIN PushList(c) : PushList(c)[i].user \in Audience(c)
           /\ \A u \in Audience(c) : \E i \in DOMAIN PushList(c) : PushList(c)[i].user = u
           /\ Audience(c) \subseteq User
<1>1. /\ PushList(c) \in Seq(MessageOf(c))
      /\ {PushList(c)[i].user : i \in DOMAIN PushList(c)} = Audience(c)
  BY ListIsAudience
<1>2. \A i \in DOMAIN PushList(c) : PushList(c)[i] \in MessageOf(c)
  BY <1>1
<1>3. \A i \in DOMAIN PushList(c) : PushList(c)[i].user \in User
  BY <1>2 DEF MessageOf
<1> QED
  BY <1>1, <1>3

\* A set of places has a last one.
LEMMA LastPlace ==
    ASSUME NEW n \in Nat, NEW is, is \subseteq 1 .. n, is # {}
    PROVE  LastOf(is) \in Nat
<1>1. \A i \in is : i \in Nat /\ n - i \in Nat
  OBVIOUS
<1> DEFINE S == {n - i : i \in is}
<1>2. S \subseteq Nat
  BY <1>1
<1>3. S # {}
  OBVIOUS
<1>4. PICK m \in S : \A k \in S : m <= k
  BY <1>2, <1>3, LeastElement, Zenon
<1>5. PICK last \in is : m = n - last
  OBVIOUS
<1>6. \A i \in is : m <= n - i
  <2> TAKE i \in is
  <2>1. n - i \in S
    OBVIOUS
  <2> QED
    BY <1>4, <2>1
<1>7. \A i \in is : i <= last
  BY <1>1, <1>5, <1>6
<1>8. LastOf(is) \in is
  BY <1>7 DEF LastOf
<1> QED
  BY <1>1, <1>8

-----------------------------------------------------------------------------
(* PushMessages: the requests.                                             *)

\* A message wanted, as WantedOnly says it.
Wanted(c, u) == GetPush(u, applied[c]) \cap Concern(c, u) # {}

\* The rows of a comment are created and deleted together.
WholeRows ==
    \A c \in Comment : \A i, j \in DOMAIN PushList(c) :
        <<c, i>> \in rows => <<c, j>> \in rows

\* Before a send has reached the push service there is nothing of its comment on any
\* device and nobody to notify, so the settings it is prepared with are those that
\* everything to come is judged by; and whoever is notified wants it.
SendInv ==
    \A c \in Comment :
        /\ stage[c] = "new" => send[c] = "none"
        /\ send[c] \in {"none", "flying", "lost"} =>
            sendTo[c] = {} /\ \A u \in User : \A id \in shown[u] : id[1] # c
        /\ \A u \in sendTo[c] : u \in Audience(c) /\ Wanted(c, u)

MessageInv == MessageTypeOK /\ WholeRows /\ SendInv /\ WantedOnly

\* The actions of MessageNext one by one.
LEMMA MessageCases ==
    ASSUME [MessageNext]_messageVars, NEW P,
           \A u \in User : SetPush(u) => P,
           \A c \in Comment : HandOver(c) => P,
           \A c \in Comment : Commit(c) => P,
           \A c \in Comment : Delete(c) => P,
           \A c \in Comment : Lose(c) => P,
           \A c \in Comment : CreateRows(c) => P,
           \A c \in Comment : NotifyDevice(c) => P,
           \A c \in Comment : SendEnds(c) => P,
           \A c \in Comment : ReadRows(c) => P,
           \A c \in Comment : DeleteRows(c) => P,
           \A c \in Comment : Recall(c) => P,
           \A c \in Comment : RecallEnds(c) => P,
           \A c \in Comment : Abort(c) => P,
           UNCHANGED messageVars => P
    PROVE  P
BY DEF MessageNext, Push, MessagesFinished

\* The ids of a comment's messages.
LEMMA Ids ==
    /\ \A c \in Comment : \A i \in DOMAIN PushList(c) : <<c, i>> \in Id
    /\ \A id \in Id : /\ id = <<id[1], id[2]>> /\ id[1] \in Comment
                      /\ id[2] \in DOMAIN PushList(id[1])
BY DEF Id

\* DoPush on the reasons a user has is what getPush showed him.
LEMMA PushedWant ==
    ASSUME NEW c \in Comment, NEW i \in Pushed(c)
    PROVE  /\ i \in DOMAIN PushList(c)
           /\ PushList(c)[i].user \in Audience(c)
           /\ Wanted(c, PushList(c)[i].user)
<1>1. i \in DOMAIN PushList(c)
  BY DEF Pushed
<1> DEFINE u == PushList(c)[i].user
<1>2. DoPush(u, Concern(c, u), applied[c])
  BY <1>1, ListIsAudience DEF Pushed
<1> HIDE DEF u
<1>3. Wanted(c, u)
  BY <1>2 DEF DoPush, Wanted, GetPush
<1> QED
  BY <1>1, <1>3, Places DEF u

\* A step of a request that leaves rows, devices and what they show alone.
LEMMA RequestMoves ==
    ASSUME MessageInv, UNCHANGED <<chosen, rows, sendTo, shown>>,
           \A c \in Comment : stage'[c] = "new" => stage[c] = "new" /\ send'[c] = send[c],
           \A c \in Comment : send'[c] \in {"none", "flying", "lost"} =>
                                send[c] \in {"none", "flying", "lost"}
    PROVE  WholeRows' /\ SendInv' /\ WantedOnly'
<1>1. WholeRows'
  BY DEF MessageInv, WholeRows
<1>2. SendInv'
  BY DEF MessageInv, SendInv, chosen, Wanted
<1>3. WantedOnly'
  BY DEF MessageInv, WantedOnly, chosen
<1> QED
  BY <1>1, <1>2, <1>3

\* Every step keeps the invariant.  What a send tells the devices was decided by
\* the settings it was prepared with, which nobody writes again.
LEMMA MessageStep == MessageInv /\ [MessageNext]_messageVars => MessageInv'
<1> SUFFICES ASSUME MessageInv, [MessageNext]_messageVars PROVE MessageInv'
  OBVIOUS
<1>0. MessageTypeOK
  BY DEF MessageInv
<1>1. ASSUME NEW u \in User, SetPush(u) PROVE MessageInv'
  <2>1. MessageTypeOK'
    BY <1>0, <1>1, SettingsAssumption DEF SetPush, MessageTypeOK, push
  <2>2. /\ UNCHANGED <<applied, stage, send, rows, sendTo, shown>>
    BY <1>1 DEF SetPush, push
  <2>3. WholeRows' /\ SendInv' /\ WantedOnly'
    BY <2>2 DEF MessageInv, WholeRows, SendInv, WantedOnly, Wanted
  <2> QED
    BY <2>1, <2>3 DEF MessageInv
<1>2. ASSUME NEW c \in Comment, HandOver(c) PROVE MessageInv'
  <2>1. MessageTypeOK'
    BY <1>0, <1>2 DEF HandOver, MessageTypeOK, push
  <2>2. /\ UNCHANGED <<rows, sendTo, shown>> /\ stage[c] = "new" /\ send[c] = "none"
        /\ stage'[c] = "open" /\ send'[c] = "flying"
        /\ \A d \in Comment : d # c => /\ applied'[d] = applied[d]
                                       /\ stage'[d] = stage[d] /\ send'[d] = send[d]
    BY <1>0, <1>2 DEF HandOver, MessageTypeOK, push, MessageInv, SendInv
  <2>3. sendTo[c] = {} /\ \A u \in User : \A id \in shown[u] : id[1] # c
    BY <2>2 DEF MessageInv, SendInv
  <2>4. WholeRows'
    BY <2>2 DEF MessageInv, WholeRows
  <2>5. SendInv'
    BY <2>2, <2>3 DEF MessageInv, SendInv, Wanted
  <2>6. \A u \in User : \A id \in shown[u] : applied'[id[1]] = applied[id[1]]
    BY <1>0, <2>2, <2>3, Ids DEF MessageTypeOK
  <2>7. WantedOnly'
    BY <2>2, <2>6 DEF MessageInv, WantedOnly
  <2> QED
    BY <2>1, <2>4, <2>5, <2>7 DEF MessageInv
<1>3. ASSUME NEW c \in Comment, Commit(c) PROVE MessageInv'
  <2>1. MessageTypeOK'
    BY <1>0, <1>3 DEF Commit, MessageTypeOK, push, chosen
  <2>2. WholeRows' /\ SendInv' /\ WantedOnly'
    BY <1>0, <1>3, RequestMoves DEF Commit, push, MessageTypeOK
  <2> QED
    BY <2>1, <2>2 DEF MessageInv
<1>4. ASSUME NEW c \in Comment, Delete(c) PROVE MessageInv'
  <2>1. MessageTypeOK'
    BY <1>0, <1>4 DEF Delete, MessageTypeOK, push, chosen
  <2>2. WholeRows' /\ SendInv' /\ WantedOnly'
    BY <1>0, <1>4, RequestMoves DEF Delete, push, MessageTypeOK
  <2> QED
    BY <2>1, <2>2 DEF MessageInv
<1>5. ASSUME NEW c \in Comment, Lose(c) PROVE MessageInv'
  <2>1. MessageTypeOK'
    BY <1>0, <1>5 DEF Lose, MessageTypeOK, push, chosen
  <2>2. \A d \in Comment : stage[d] = "new" => send'[d] = send[d]
    BY <1>0, <1>5 DEF Lose, MessageTypeOK, MessageInv, SendInv
  <2>3. WholeRows' /\ SendInv' /\ WantedOnly'
    BY <1>0, <1>5, <2>2, RequestMoves DEF Lose, push, MessageTypeOK
  <2> QED
    BY <2>1, <2>3 DEF MessageInv
<1>6. ASSUME NEW c \in Comment, CreateRows(c) PROVE MessageInv'
  <2> DEFINE to == {PushList(c)[i].user : i \in Pushed(c)}
  <2>1. to \subseteq Audience(c) /\ \A u \in to : Wanted(c, u)
    BY PushedWant
  <2>2. to \subseteq User
    BY <2>1, Places
  <2> HIDE DEF to
  <2>3. /\ rows' = rows \cup {<<c, i>> : i \in DOMAIN PushList(c)}
        /\ sendTo' = [sendTo EXCEPT ![c] = to] /\ send' = [send EXCEPT ![c] = "loop"]
        /\ send[c] = "flying"
        /\ UNCHANGED <<chosen, stage, recall, recallTo, recalled, shown>>
    BY <1>6 DEF CreateRows, to
  <2>4. MessageTypeOK'
    BY <1>0, <2>2, <2>3, Ids DEF MessageTypeOK, chosen
  <2>5. WholeRows'
    BY <2>3 DEF MessageInv, WholeRows
  <2>6. SendInv'
    BY <1>0, <2>1, <2>3 DEF MessageInv, MessageTypeOK, SendInv, Wanted, chosen
  <2>7. WantedOnly'
    BY <2>3 DEF MessageInv, WantedOnly, chosen
  <2> QED
    BY <2>4, <2>5, <2>6, <2>7 DEF MessageInv
<1>7. ASSUME NEW c \in Comment, NotifyDevice(c) PROVE MessageInv'
  <2> DEFINE last == <<c, Len(PushList(c))>>
  <2>1. PICK u \in sendTo[c] :
            /\ sendTo' = [sendTo EXCEPT ![c] = @ \ {u}]
            /\ shown' = [shown EXCEPT ![u] = @ \cup {last}]
            /\ send[c] = "loop"
            /\ UNCHANGED <<chosen, stage, send, recall, rows, recallTo, recalled>>
    BY <1>7 DEF NotifyDevice
  <2>2. u \in User /\ u \in Audience(c) /\ Wanted(c, u)
    BY <1>0, <2>1 DEF MessageTypeOK, MessageInv, SendInv
  <2>3. last \in Id /\ last[1] = c
    BY <2>2, Places, Ids
  <2> HIDE DEF last
  <2>4. MessageTypeOK'
    BY <1>0, <2>1, <2>2, <2>3 DEF MessageTypeOK, chosen
  <2>5. WholeRows'
    BY <2>1 DEF MessageInv, WholeRows
  <2>6. \A v \in User : \A id \in shown'[v] : id \in shown[v] \/ (v = u /\ id = last)
    BY <1>0, <2>1, <2>2 DEF MessageTypeOK
  <2>7. \A d \in Comment : sendTo'[d] \subseteq sendTo[d]
    BY <1>0, <2>1 DEF MessageTypeOK
  <2>8. SendInv'
    BY <1>0, <2>1, <2>3, <2>6, <2>7 DEF MessageInv, SendInv, Wanted, chosen
  <2>9. WantedOnly'
    BY <2>1, <2>2, <2>3, <2>6 DEF MessageInv, WantedOnly, Wanted, chosen
  <2> QED
    BY <2>4, <2>5, <2>8, <2>9 DEF MessageInv
<1>8. ASSUME NEW c \in Comment, SendEnds(c) PROVE MessageInv'
  <2>1. MessageTypeOK'
    BY <1>0, <1>8 DEF SendEnds, MessageTypeOK, push, chosen
  <2>2. \A d \in Comment : stage[d] = "new" => send'[d] = send[d]
    BY <1>0, <1>8 DEF SendEnds, MessageTypeOK, MessageInv, SendInv
  <2>3. WholeRows' /\ SendInv' /\ WantedOnly'
    BY <1>0, <1>8, <2>2, RequestMoves DEF SendEnds, push, MessageTypeOK
  <2> QED
    BY <2>1, <2>3 DEF MessageInv
<1>9. ASSUME NEW c \in Comment, ReadRows(c) PROVE MessageInv'
  <2> DEFINE is == {id[2] : id \in RowsOf(c)} \cap Pushed(c)
             to == {PushList(c)[i].user : i \in is}
             last == IF is = {} THEN 0 ELSE LastOf(is)
  <2>1. is \subseteq 1 .. Len(PushList(c)) /\ Len(PushList(c)) \in Nat
    BY Places DEF Pushed
  <2>2. to \subseteq User
    <3>1. \A i \in is : PushList(c)[i].user \in User
      BY <2>1, Places
    <3> QED
      BY <3>1
  <2>3. last \in Nat
    <3> HIDE DEF is
    <3>1. CASE is = {}
      BY <3>1
    <3>2. CASE is # {}
      BY <2>1, <3>2, LastPlace
    <3> QED
      BY <3>1, <3>2
  <2> HIDE DEF is, to, last
  <2>4. /\ recallTo' = [recallTo EXCEPT ![c] = to]
        /\ recalled' = [recalled EXCEPT ![c] = last]
        /\ recall' = [recall EXCEPT ![c] = "read"]
        /\ UNCHANGED <<chosen, stage, send, rows, sendTo, shown>>
    BY <1>9 DEF ReadRows, is, to, last
  <2>5. MessageTypeOK'
    BY <1>0, <2>2, <2>3, <2>4 DEF MessageTypeOK, chosen
  <2>6. WholeRows' /\ SendInv' /\ WantedOnly'
    BY <2>4, RequestMoves
  <2> QED
    BY <2>5, <2>6 DEF MessageInv
<1>10. ASSUME NEW c \in Comment, DeleteRows(c) PROVE MessageInv'
  <2>1. MessageTypeOK'
    BY <1>0, <1>10 DEF DeleteRows, MessageTypeOK, chosen
  <2>2. /\ UNCHANGED <<chosen, stage, send, sendTo, shown>>
        /\ \A d \in Comment : \A i \in DOMAIN PushList(d) :
            <<d, i>> \in rows' <=> <<d, i>> \in rows /\ d # c
    BY <1>10 DEF DeleteRows, RowsOf
  <2>3. WholeRows'
    BY <2>2 DEF MessageInv, WholeRows
  <2>4. SendInv' /\ WantedOnly'
    BY <2>2 DEF MessageInv, SendInv, WantedOnly, Wanted, chosen
  <2> QED
    BY <2>1, <2>3, <2>4 DEF MessageInv
<1>11. ASSUME NEW c \in Comment, Recall(c) PROVE MessageInv'
  <2>1. PICK u \in recallTo[c] :
            /\ recallTo' = [recallTo EXCEPT ![c] = @ \ {u}]
            /\ shown' = [shown EXCEPT ![u] = @ \ {<<c, recalled[c]>>}]
            /\ UNCHANGED <<chosen, stage, send, recall, rows, sendTo, recalled>>
    BY <1>11 DEF Recall
  <2>2. u \in User
    BY <1>0, <2>1 DEF MessageTypeOK
  <2>3. MessageTypeOK'
    BY <1>0, <2>1, <2>2 DEF MessageTypeOK, chosen
  <2>4. \A v \in User : shown'[v] \subseteq shown[v]
    BY <1>0, <2>1 DEF MessageTypeOK
  <2>5. WholeRows'
    BY <2>1 DEF MessageInv, WholeRows
  <2>6. SendInv'
    BY <2>1, <2>4 DEF MessageInv, SendInv, Wanted, chosen
  <2>7. WantedOnly'
    BY <2>1, <2>4 DEF MessageInv, WantedOnly, chosen
  <2> QED
    BY <2>3, <2>5, <2>6, <2>7 DEF MessageInv
<1>12. ASSUME NEW c \in Comment, RecallEnds(c) PROVE MessageInv'
  <2>1. MessageTypeOK'
    BY <1>0, <1>12 DEF RecallEnds, MessageTypeOK, push, chosen
  <2>2. WholeRows' /\ SendInv' /\ WantedOnly'
    BY <1>12, RequestMoves DEF RecallEnds, push
  <2> QED
    BY <2>1, <2>2 DEF MessageInv
<1>13. ASSUME NEW c \in Comment, Abort(c) PROVE MessageInv'
  <2>1. MessageTypeOK'
    BY <1>0, <1>13 DEF Abort, MessageTypeOK, chosen
  <2>2. UNCHANGED <<chosen, stage, send, rows, shown>>
    BY <1>13 DEF Abort
  <2>3. \A d \in Comment : sendTo'[d] \subseteq sendTo[d]
    BY <1>0, <1>13 DEF Abort, MessageTypeOK
  <2>4. WholeRows'
    BY <2>2 DEF MessageInv, WholeRows
  <2>5. SendInv'
    BY <2>2, <2>3 DEF MessageInv, SendInv, Wanted, chosen
  <2>6. WantedOnly'
    BY <2>2 DEF MessageInv, WantedOnly, chosen
  <2> QED
    BY <2>1, <2>4, <2>5, <2>6 DEF MessageInv
<1>14. CASE UNCHANGED messageVars
  <2>1. MessageTypeOK'
    BY <1>0, <1>14 DEF messageVars, MessageTypeOK, push, chosen
  <2>2. WholeRows' /\ SendInv' /\ WantedOnly'
    BY <1>14, RequestMoves DEF messageVars, push
  <2> QED
    BY <2>1, <2>2 DEF MessageInv
<1> QED
  BY <1>1, <1>2, <1>3, <1>4, <1>5, <1>6, <1>7, <1>8, <1>9, <1>10, <1>11, <1>12,
     <1>13, <1>14, MessageCases

\* The inductive invariant holds.
LEMMA MessagesCorrect == MessageSpec => []MessageInv
<1>1. MessageInit => MessageInv
  BY SettingsAssumption
     DEF MessageInit, MessageInv, MessageTypeOK, WholeRows, SendInv, WantedOnly
<1> QED
  BY <1>1, MessageStep, PTL DEF MessageSpec

\* The tables and requests keep their types.
THEOREM MessageTypeCorrect == MessageSpec => []MessageTypeOK
<1>1. MessageInv => MessageTypeOK
  BY DEF MessageInv
<1> QED
  BY <1>1, MessagesCorrect, PTL

\* A push goes only to users who chose to be told, as getPush showed it to them
\* (send_push.go:24-53 against contents/push.go:13-40).
THEOREM OnlyWanted == MessageSpec => []WantedOnly
<1>1. MessageInv => WantedOnly
  BY DEF MessageInv
<1> QED
  BY <1>1, MessagesCorrect, PTL

\* The rows of a comment, if there are any, are its audience, each with all his
\* reasons, and there is one for each (notification.go:45-58).
THEOREM RowsMatchAudience == MessageSpec => []RowsAreAudience
<1>1. MessageInv => RowsAreAudience
  <2> SUFFICES ASSUME MessageInv, NEW c \in Comment, RowsOf(c) # {}
               PROVE  /\ \A u \in Audience(c) : \E id \in RowsOf(c) :
                            Addressee(id) = u /\ PushList(c)[id[2]].kinds = Concern(c, u)
                      /\ Cardinality(RowsOf(c)) = Cardinality(Audience(c))
    BY DEF RowsAreAudience
  <2> DEFINE n == Len(PushList(c))
  <2>1. rows \subseteq Id
    BY DEF MessageInv, MessageTypeOK
  <2>2. \E i \in DOMAIN PushList(c) : <<c, i>> \in rows
    BY <2>1, Ids DEF RowsOf
  <2>3. \A i \in DOMAIN PushList(c) : <<c, i>> \in rows
    BY <2>2 DEF MessageInv, WholeRows
  <2>4. RowsOf(c) = {<<c, i>> : i \in 1 .. n}
    BY <2>1, <2>3, Ids, Places DEF RowsOf
  <2>5. n \in Nat /\ DOMAIN PushList(c) = 1 .. n
    BY Places
  <2>6. ASSUME NEW u \in Audience(c)
        PROVE  \E id \in RowsOf(c) :
                    Addressee(id) = u /\ PushList(c)[id[2]].kinds = Concern(c, u)
    <3>1. PICK i \in 1 .. n : PushList(c)[i].user = u
      BY Places
    <3>2. <<c, i>> \in RowsOf(c) /\ Addressee(<<c, i>>) = u
      BY <2>4, <3>1 DEF Addressee
    <3>3. PushList(c)[<<c, i>>[2]].kinds = Concern(c, u)
      BY <2>5, <3>1, ListIsAudience
    <3> QED
      BY <3>2, <3>3
  <2>7. Cardinality(RowsOf(c)) = n
    <3> DEFINE f == [i \in 1 .. n |-> <<c, i>>]
    <3>1. f \in Bijection(1 .. n, RowsOf(c))
      BY <2>4 DEF Bijection, Injection, Surjection, IsInjective
    <3> QED
      BY <2>5, <3>1, FS_CountingElements DEF ExistsBijection
  <2>8. Cardinality(Audience(c)) = n
    <3> DEFINE f == [i \in 1 .. n |-> PushList(c)[i].user]
    <3>1. f \in [1 .. n -> Audience(c)]
      BY <2>5, Places
    <3>2. f \in Bijection(1 .. n, Audience(c))
      BY <2>5, <3>1, Places, ListIsAudience
         DEF Bijection, Injection, Surjection, IsInjective
    <3> QED
      BY <2>5, <3>2, FS_CountingElements DEF ExistsBijection
  <2> QED
    BY <2>6, <2>7, <2>8
<1> QED
  BY <1>1, MessagesCorrect, PTL

-----------------------------------------------------------------------------
(* What the code says and does not keep (README, section 4), where it does. *)

\* A device is told of the message that was written for its user ("notifies the clients
\* with the given userID", stream.go:49), if every comment concerns one user at most: the
\* address of the loop's variable is wrong for lists of two messages and more.
THEOREM LoneMessageRight ==
    ASSUME \A c \in Comment : \A u, v \in Audience(c) : u = v
    PROVE  MessageSpec => []RightMessage
<1>1. MessageInv => RightMessage
  <2> SUFFICES ASSUME MessageInv, NEW u \in User, NEW id \in shown[u]
               PROVE  Addressee(id) = u
    BY DEF RightMessage
  <2>1. id \in Id
    BY DEF MessageInv, MessageTypeOK
  <2>2. id[1] \in Comment /\ id[2] \in DOMAIN PushList(id[1])
    BY <2>1, Ids
  <2>3. Addressee(id) \in Audience(id[1])
    BY <2>2, Places DEF Addressee
  <2>4. u \in Audience(id[1])
    BY DEF MessageInv, WantedOnly
  <2> QED
    BY <2>2, <2>3, <2>4
<1> QED
  BY <1>1, MessagesCorrect, PTL

\* A recall reaches the push service only when the send of its comment has created its
\* rows or is lost, which nothing in the code sees to.
SendFirst ==
    \A c \in Comment :
        recall[c] \in {"none", "flying", "lost"} \/ send[c] \in {"loop", "done", "lost"}

\* No row of a comment survives its recall.
RowsRecalled == \A c \in Comment : recall[c] \in {"loop", "done"} => RowsOf(c) = {}

\* Where recall and push of a comment keep their order (the TODO of notification.go:79), the
\* recall deletes every row of it: then only the message on the devices may be left, by the
\* address of the loop's variable or a loop that did not take place.
THEOREM RecallDeletes == MessageSpec /\ []SendFirst => []RowsRecalled
<1>1. MessageInit => RowsRecalled
  BY DEF MessageInit, RowsRecalled
<1>2. /\ MessageInv /\ SendFirst /\ RowsRecalled /\ [MessageNext]_messageVars
      => RowsRecalled'
  <2> SUFFICES ASSUME MessageInv, SendFirst, RowsRecalled, [MessageNext]_messageVars
               PROVE  RowsRecalled'
    OBVIOUS
  <2>0. recall \in [Comment -> {"none", "flying", "read", "loop", "done", "lost"}]
    BY DEF MessageInv, MessageTypeOK
  <2>1. ASSUME rows' = rows, \A d \in Comment : recall'[d] \in {"loop", "done"} =>
                                                recall[d] \in {"loop", "done"}
        PROVE  RowsRecalled'
    BY <2>1 DEF RowsRecalled, RowsOf
  <2>2. ASSUME NEW c \in Comment, CreateRows(c) PROVE RowsRecalled'
    <3>1. send[c] = "flying" /\ UNCHANGED recall
      BY <2>2 DEF CreateRows
    <3>2. recall[c] \notin {"loop", "done"}
      BY <3>1 DEF SendFirst
    <3>3. \A d \in Comment : d # c => RowsOf(d)' = RowsOf(d)
      BY <2>2 DEF CreateRows, RowsOf
    <3> QED
      BY <3>1, <3>2, <3>3 DEF RowsRecalled
  <2>3. ASSUME NEW c \in Comment, DeleteRows(c) PROVE RowsRecalled'
    <3>1. rows' \subseteq rows /\ RowsOf(c)' = {}
      BY <2>3 DEF DeleteRows, RowsOf
    <3>2. \A d \in Comment : d # c => recall'[d] = recall[d]
      BY <2>0, <2>3 DEF DeleteRows
    <3> QED
      BY <3>1, <3>2 DEF RowsRecalled, RowsOf
  <2>4. ASSUME NEW c \in Comment,
               HandOver(c) \/ Commit(c) \/ Delete(c) \/ Lose(c) \/ NotifyDevice(c) \/ SendEnds(c)
        PROVE  RowsRecalled'
    BY <2>0, <2>1, <2>4 DEF HandOver, Commit, Delete, Lose, NotifyDevice, SendEnds, push
  <2>5. ASSUME NEW c \in Comment, ReadRows(c) \/ Recall(c) \/ RecallEnds(c) \/ Abort(c)
        PROVE  RowsRecalled'
    BY <2>0, <2>1, <2>5 DEF ReadRows, Recall, RecallEnds, Abort, push
  <2>6. ASSUME NEW u \in User, SetPush(u) PROVE RowsRecalled'
    BY <2>1, <2>6 DEF SetPush, push
  <2>7. CASE UNCHANGED messageVars
    BY <2>1, <2>7 DEF messageVars, push
  <2> QED
    BY <2>2, <2>3, <2>4, <2>5, <2>6, <2>7, MessageCases
<1> QED
  BY <1>1, <1>2, MessagesCorrect, PTL DEF MessageSpec
=============================================================================
