------------------------------ MODULE PushHub ------------------------------
(***************************************************************************)
(* The WebSocket hub of the push service (pkg/push/stream.go, client.go,   *)
(* once.go): one goroutine of net/http per accepted connection runs        *)
(* API.Handle, which starts a reading and a writing goroutine; the         *)
(* goroutines of the internal listener call API.Notify once per device.    *)
(* All of them meet at the RWMutex API.lock, at the write channel of a     *)
(* client (capacity 1) and at the client's `once`.                         *)
(*                                                                         *)
(* Close of the API and NotifyDeletedUser are called by no code of the     *)
(* repository and are left out.                                            *)
(***************************************************************************)
EXTENDS Integers, FiniteSets

CONSTANTS
    Token,      \* login tokens, the keys of API.clients
    Client,     \* connections the service accepts over its life
    TokenOf,    \* the token each connection presents
    Request,    \* calls of SendMessages
    Devices,    \* the Android devices (tokens) each of them writes to
    NoClient    \* an absent entry of API.clients

ASSUME TokenOfAssumption == TokenOf \in [Client -> Token]
ASSUME DevicesAssumption == Devices \in [Request -> SUBSET Token]
ASSUME NoClientAssumption == NoClient \notin Client

VARIABLES
    clients,    \* API.clients
    writer,     \* threads between API.lock.Lock and Unlock, waiting for readers
    readers,    \* requests between API.lock.RLock and RUnlock
    pc,         \* where each goroutine of a connection is
    done,       \* client.once.done
    link,       \* the connection: "up", "lost" (peer gone) or "closed" by us
    buf,        \* messages in client.write
    closes,     \* how many times close(client.write) was executed
    todo,       \* devices a request has still to notify
    target      \* the client a request is sending to

hub == <<clients, writer, readers>>
conn == <<done, link, buf, closes>>
vars == <<clients, writer, readers, pc, done, link, buf, closes, todo, target>>

Thread == {"handle", "read", "write"} \X Client
Own(p) == TokenOf[p[2]]

\* Where a goroutine may be.  "once", "close" is NotifyClose up to onClose;
\* "lock", "remove" is API.remove; "reglock", "register" is API.register.
Location == {"none", "serve", "send", "once", "close", "lock", "remove",
             "reglock", "register", "done"}

TypeOK ==
    /\ clients \in [Token -> Client \cup {NoClient}]
    /\ writer \in SUBSET Thread
    /\ readers \in SUBSET Request
    /\ pc \in [Thread -> Location]
    /\ done \in [Client -> BOOLEAN]
    /\ link \in [Client -> {"up", "lost", "closed"}]
    /\ buf \in [Client -> 0..1]
    /\ closes \in [Client -> Nat]
    /\ todo \in [Request -> SUBSET Token]
    /\ target \in [Request -> Client \cup {NoClient}]

Init ==
    /\ clients = [t \in Token |-> NoClient]
    /\ writer = {}
    /\ readers = {}
    /\ pc = [p \in Thread |-> "none"]
    /\ done = [c \in Client |-> FALSE]
    /\ link = [c \in Client |-> "up"]
    /\ buf = [c \in Client |-> 0]
    /\ closes = [c \in Client |-> 0]
    /\ todo = Devices
    /\ target = [r \in Request |-> NoClient]

Goto(p, l) == pc' = [pc EXCEPT ![p] = l]

-----------------------------------------------------------------------------
(* client.once around conn.Close() and close(client.write).  Do lets one    *)
(* caller in and does not make the others wait.                            *)

\* Mutant: the early return on done is missing.
DoWithoutOnce(p, c, inside, after) ==
    /\ done' = [done EXCEPT ![c] = TRUE]
    /\ Goto(p, inside)

Do(p, c, inside, after) ==
    /\ done' = [done EXCEPT ![c] = TRUE]
    /\ Goto(p, IF done[c] THEN after ELSE inside)

\* Mutant: conn.Close is forgotten.
CloseChanOnly(c) ==
    /\ closes' = [closes EXCEPT ![c] = @ + 1]
    /\ UNCHANGED link

CloseBoth(c) ==
    /\ link' = [link EXCEPT ![c] = "closed"]
    /\ closes' = [closes EXCEPT ![c] = @ + 1]

-----------------------------------------------------------------------------
(* API.lock.  Lock makes later RLocks wait from the moment it is called    *)
(* and enters when the readers of that moment have left.                   *)

Lock(p, next) ==
    /\ writer = {}
    /\ writer' = {p}
    /\ Goto(p, next)
    /\ UNCHANGED <<clients, readers, conn, todo, target>>

\* Mutant: the lock does not wait for the readers inside.
EnteredAtOnce(p) == p \in writer

Entered(p) == p \in writer /\ readers = {}

-----------------------------------------------------------------------------
(* client.NotifyClose, the deferred call of both goroutines.               *)

\* Mutant: onClose runs without the connection and channel being closed.
NotifyCloseOnceSkip(p) ==
    /\ pc[p] = "once"
    /\ Do(p, p[2], "lock", "done")
    /\ UNCHANGED <<hub, link, buf, closes, todo, target>>

NotifyCloseOnce(p) ==
    /\ pc[p] = "once"
    /\ Do(p, p[2], "close", "done")
    /\ UNCHANGED <<hub, link, buf, closes, todo, target>>

\* Mutant: onClose is forgotten.
NotifyCloseSilently(p) ==
    /\ pc[p] = "close"
    /\ CloseBoth(p[2])
    /\ Goto(p, "done")
    /\ UNCHANGED <<hub, done, buf, todo, target>>

NotifyCloseBoth(p) ==
    /\ pc[p] = "close"
    /\ CloseBoth(p[2])
    /\ Goto(p, "lock")
    /\ UNCHANGED <<hub, done, buf, todo, target>>

-----------------------------------------------------------------------------
(* API.remove: closes and drops whatever client the token has now.  What   *)
(* happens between Lock and Unlock is one step: no reader is inside, and   *)
(* of the goroutines outside only the victim's own look at what changes.   *)

AfterRemove(p) == IF p[1] = "handle" THEN "reglock" ELSE "done"

RemoveLock(p) == pc[p] = "lock" /\ Lock(p, "remove")

\* The token has no client: unlock and return.
RemoveNothing(p) ==
    /\ pc[p] = "remove"
    /\ Entered(p)
    /\ clients[Own(p)] = NoClient
    /\ writer' = {}
    /\ Goto(p, AfterRemove(p))
    /\ UNCHANGED <<clients, readers, conn, todo, target>>

\* c.Close() and delete(a.clients, remove.token).
RemoveClient(p) ==
    /\ pc[p] = "remove"
    /\ Entered(p)
    /\ clients[Own(p)] # NoClient
    /\ LET c == clients[Own(p)] IN
        /\ Do(p, c, AfterRemove(p), AfterRemove(p))
        /\ IF done[c] THEN UNCHANGED <<link, closes>> ELSE CloseBoth(c)
    /\ clients' = [clients EXCEPT ![Own(p)] = NoClient]
    /\ writer' = {}
    /\ UNCHANGED <<readers, buf, todo, target>>

-----------------------------------------------------------------------------
(* API.Handle.                                                             *)

\* The upgrade succeeded: newClient, and a.remove(client) is called.
Upgrade(c) ==
    /\ pc[<<"handle", c>>] = "none"
    /\ Goto(<<"handle", c>>, "lock")
    /\ UNCHANGED <<hub, conn, todo, target>>

RegisterLock(c) ==
    pc[<<"handle", c>>] = "reglock" /\ Lock(<<"handle", c>>, "register")

\* API.register, then the two go statements.
Register(c) ==
    /\ pc[<<"handle", c>>] = "register"
    /\ Entered(<<"handle", c>>)
    /\ clients' = [clients EXCEPT ![TokenOf[c]] = c]
    /\ writer' = {}
    /\ pc' = [pc EXCEPT ![<<"handle", c>>] = "done",
                        ![<<"read", c>>] = "serve",
                        ![<<"write", c>>] = "serve"]
    /\ UNCHANGED <<readers, conn, todo, target>>

-----------------------------------------------------------------------------
(* client.startReading and client.startWriteHandler.                       *)

\* NextReader returns an error: the peer closed, the read deadline passed
\* without a pong, or the connection was closed on this side.
ReadError(c) ==
    /\ pc[<<"read", c>>] = "serve"
    /\ link[c] # "up"
    /\ Goto(<<"read", c>>, "once")
    /\ UNCHANGED <<hub, conn, todo, target>>

\* Mutant: the channel is read whether or not it holds a message.
ReceiveAnyway(c) ==
    /\ pc[<<"write", c>>] = "serve"
    /\ buf' = [buf EXCEPT ![c] = @ - 1]
    /\ Goto(<<"write", c>>, "send")
    /\ UNCHANGED <<hub, done, link, closes, todo, target>>

\* The select takes a message; after close(c.write) what is buffered is
\* still handed out before !ok is.
Receive(c) ==
    /\ pc[<<"write", c>>] = "serve"
    /\ buf[c] > 0
    /\ buf' = [buf EXCEPT ![c] = @ - 1]
    /\ Goto(<<"write", c>>, "send")
    /\ UNCHANGED <<hub, done, link, closes, todo, target>>

ReceiveClosed(c) ==
    /\ pc[<<"write", c>>] = "serve"
    /\ buf[c] = 0
    /\ closes[c] > 0
    /\ Goto(<<"write", c>>, "once")
    /\ UNCHANGED <<hub, conn, todo, target>>

\* The ticker fires and the ping cannot be written.
PingError(c) ==
    /\ pc[<<"write", c>>] = "serve"
    /\ link[c] # "up"
    /\ Goto(<<"write", c>>, "once")
    /\ UNCHANGED <<hub, conn, todo, target>>

\* A write to a peer that is gone may still be taken by the kernel.
WriteOk(c) ==
    /\ pc[<<"write", c>>] = "send"
    /\ link[c] # "closed"
    /\ Goto(<<"write", c>>, "serve")
    /\ UNCHANGED <<hub, conn, todo, target>>

\* writeBytes fails: the write deadline (2s) passed or the connection is gone.
WriteError(c) ==
    /\ pc[<<"write", c>>] = "send"
    /\ link[c] # "up"
    /\ Goto(<<"write", c>>, "once")
    /\ UNCHANGED <<hub, conn, todo, target>>

\* External: the device leaves the network or closes its socket.
PeerLost(c) ==
    /\ pc[<<"handle", c>>] = "done"
    /\ link[c] = "up"
    /\ link' = [link EXCEPT ![c] = "lost"]
    /\ UNCHANGED <<hub, pc, done, buf, closes, todo, target>>

-----------------------------------------------------------------------------
(* API.Notify(device.Token, ..) in the device loop of SendMessages.  The   *)
(* map cannot change under RLock, so the lookup is part of RLock's step.   *)

NotifyAbsent(r, t) ==
    /\ writer = {}
    /\ r \notin readers
    /\ t \in todo[r]
    /\ clients[t] = NoClient
    /\ todo' = [todo EXCEPT ![r] = @ \ {t}]
    /\ UNCHANGED <<hub, pc, conn, target>>

NotifyRLock(r, t) ==
    /\ writer = {}
    /\ r \notin readers
    /\ t \in todo[r]
    /\ clients[t] # NoClient
    /\ readers' = readers \cup {r}
    /\ target' = [target EXCEPT ![r] = clients[t]]
    /\ UNCHANGED <<clients, writer, pc, conn, todo>>

\* c.write <- msg proceeds when the channel has room; the deferred RUnlock.
NotifySend(r) ==
    /\ r \in readers
    /\ closes[target[r]] = 0
    /\ buf[target[r]] = 0
    /\ buf' = [buf EXCEPT ![target[r]] = 1]
    /\ todo' = [todo EXCEPT ![r] = @ \ {TokenOf[target[r]]}]
    /\ readers' = readers \ {r}
    /\ UNCHANGED <<clients, writer, pc, done, link, closes, target>>

\* c.write was closed: the send panics, RUnlock runs, gin's recovery ends the
\* request and with it the rest of the device loop.
NotifyPanic(r) ==
    /\ r \in readers
    /\ closes[target[r]] > 0
    /\ todo' = [todo EXCEPT ![r] = {}]
    /\ readers' = readers \ {r}
    /\ UNCHANGED <<clients, writer, pc, conn, target>>

-----------------------------------------------------------------------------
Handle(c) == RegisterLock(c) \/ Register(c)
Write(c) ==
    \/ Receive(c) \/ ReceiveClosed(c) \/ PingError(c)
    \/ WriteOk(c) \/ WriteError(c)
NotifyClose(p) == NotifyCloseOnce(p) \/ NotifyCloseBoth(p)
Remove(p) == RemoveLock(p) \/ RemoveNothing(p) \/ RemoveClient(p)

\* A step of one goroutine of a connection.
Step(p) ==
    \/ NotifyClose(p)
    \/ Remove(p)
    \/ p[1] = "handle" /\ Handle(p[2])
    \/ p[1] = "read" /\ ReadError(p[2])
    \/ p[1] = "write" /\ Write(p[2])

Notify(r) ==
    \/ NotifySend(r) \/ NotifyPanic(r)
    \/ \E t \in Token : NotifyAbsent(r, t) \/ NotifyRLock(r, t)

\* Every connection came and went and every request ended.
Finished ==
    /\ \A p \in Thread : pc[p] = "done"
    /\ \A r \in Request : todo[r] = {}
    /\ UNCHANGED vars

Next ==
    \/ \E c \in Client : Upgrade(c) \/ PeerLost(c)
    \/ \E p \in Thread : Step(p)
    \/ \E r \in Request : Notify(r)
    \/ Finished

\* The Go scheduler runs every goroutine that can run; waiting readers of the
\* RWMutex are let in when a writer unlocks.  Nothing is assumed of peers.
Fairness ==
    /\ \A p \in Thread : WF_vars(Step(p))
    /\ \A r \in Request : WF_vars(Notify(r))

Spec == Init /\ [][Next]_vars /\ Fairness

-----------------------------------------------------------------------------
(* What the hub owes the rest of the push service.                         *)

\* close(client.write) runs at most once per client, whichever of the reading
\* goroutine, the writing goroutine and the removals of other connections
\* come first: a second close would panic, and in client.go's goroutines, which
\* nothing recovers, end the process.
ChannelClosedOnce == \A c \in Client : closes[c] <= 1

\* While Notify waits in `c.write <- msg` its client stays the one registered
\* for the token: nobody removes or replaces it under the read lock.
TargetStaysRegistered ==
    \A r \in readers : clients[TokenOf[target[r]]] = target[r]

\* A call of Notify blocks on a full channel while it holds the read lock that
\* remove and register wait for: every request comes to its end nevertheless.
RequestsEnd == \A r \in Request : <>(todo[r] = {} /\ r \notin readers)

\* Both goroutines of a client whose once has been taken come to an end.
GoroutinesEnd ==
    \A c \in Client :
        done[c] ~> /\ pc[<<"read", c>>] \in {"none", "done"}
                   /\ pc[<<"write", c>>] \in {"none", "done"}

\* A client that is being closed does not stay in API.clients, where every
\* Notify of its token would panic.
DeadClientsLeave ==
    \A c \in Client :
        (done[c] /\ clients[TokenOf[c]] = c) ~> clients[TokenOf[c]] # c

-----------------------------------------------------------------------------
(* What the code does not satisfy, though it says so (README, section 4).  *)

\* A request gives a device up only because it is not connected, because its own
\* client is closed, or because the message is in its channel (stream.go:49,
\* "Notify notifies the clients with the given userID").
OnlyDeadDevicesMissed ==
    [][\A r \in Request : \A t \in todo[r] \ todo'[r] :
        clients[t] # NoClient /\ closes[clients[t]] = 0 => buf'[clients[t]] = 1]_vars

\* A connection whose peer answers is closed only to make room for a newer
\* connection of its token.  stream.go:27-28 gives the missing pong as the
\* reason for terminating a connection, client.go:48 says that NotifyClose
\* closes the connection it is called for.
ClosedOnlyByReplacement ==
    [][\A c \in Client :
        link[c] = "up" /\ link'[c] = "closed" =>
            \E d \in Client \ {c} : pc[<<"handle", d>>] = "remove"]_vars
=============================================================================
