------------------------------ MODULE Services ------------------------------
(***************************************************************************)
(* The services process: RequestHandlers while superusers shut it down     *)
(* (adminShutdownCommand, pkg/route/contents/adminCommands.go).  The       *)
(* countdown is a global variable that every command tests and decrements  *)
(* without a lock; os.Exit ends the process with every handler and         *)
(* goroutine where it stands, and the database rolls back what was open.   *)
(***************************************************************************)
EXTENDS RequestHandlers, Integers, FiniteSets

CONSTANTS
    Command     \* requests with the keywords "shutdown"

ASSUME CommandAssumption == IsFiniteSet(Command)

VARIABLES
    countDown,  \* shutdownCountDown
    cpc,        \* where each command is
    read,       \* the value it decrements
    up          \* the process runs

serviceVars == <<vars, countDown, cpc, read, up>>

ServiceTypeOK ==
    /\ TypeOK
    /\ countDown \in Int
    /\ cpc \in [Command -> {"new", "told", "decrement", "done"}]
    /\ read \in [Command -> Int]
    /\ up \in BOOLEAN

\* ServicesApiListenHttp.  Its cron job, which would set the countdown back every
\* day, is never started.
ServiceInit ==
    /\ Init
    /\ countDown = 2
    /\ cpc = [k \in Command |-> "new"]
    /\ read = [k \in Command |-> 0]
    /\ up = TRUE

-----------------------------------------------------------------------------
(* A shutdown command.                                                     *)

Move(k, l, m) ==
    /\ up
    /\ cpc[k] = l
    /\ cpc' = [cpc EXCEPT ![k] = m]

\* os.Exit: connections are closed, goroutines gone, and the row is unlocked.
Die ==
    /\ up' = FALSE
    /\ pc' = [r \in Request |-> "done"]
    /\ image' = [r \in Request |-> "none"]
    /\ upload' = [r \in Request |-> "none"]
    /\ signal' = [r \in Request |-> 0]
    /\ cancelled' = [r \in Request |-> FALSE]
    /\ age' = [r \in Request |-> 0]
    /\ gaveUp' = [r \in Request |-> FALSE]
    /\ row' = NoRequest
    /\ bot' = "idle"

\* Mutant: the process ends when one command is left.
ExitEarly(k) ==
    /\ Move(k, "new", "done")
    /\ countDown <= 1
    /\ Die
    /\ UNCHANGED <<countDown, read>>

Exit(k) ==
    /\ Move(k, "new", "done")
    /\ countDown <= 0
    /\ Die
    /\ UNCHANGED <<countDown, read>>

\* "n more times to fully shutdown."
Tell(k) ==
    /\ Move(k, "new", "told")
    /\ countDown > 0
    /\ UNCHANGED <<vars, countDown, read, up>>

\* shutdownCountDown -= 1 is a load and a store.
Load(k) ==
    /\ Move(k, "told", "decrement")
    /\ read' = [read EXCEPT ![k] = countDown]
    /\ UNCHANGED <<vars, countDown, up>>

StoreDown(k) ==
    /\ Move(k, "decrement", "done")
    /\ countDown' = read[k] - 1
    /\ read' = [read EXCEPT ![k] = 0]
    /\ UNCHANGED <<vars, up>>

Shutdown(k) == Exit(k) \/ Tell(k) \/ Load(k) \/ StoreDown(k)

-----------------------------------------------------------------------------
Serving == up /\ UNCHANGED <<countDown, cpc, read, up>>

Down ==
    /\ ~up
    /\ UNCHANGED serviceVars

ServiceNext ==
    \/ Next /\ Serving
    \/ \E k \in Command : Shutdown(k)
    \/ Down

\* As in RequestHandlers, as long as the process runs.
ServiceFairness == WF_serviceVars(Work /\ Serving)

ServiceSpec == ServiceInit /\ [][ServiceNext]_serviceVars /\ ServiceFairness

-----------------------------------------------------------------------------
(* What clients and superusers may expect of the process.                  *)

\* The process ends only after three commands ("n more times"), however their
\* unsynchronised tests and decrements interleave: an update that is lost asks for
\* more of them, never for less.
ExitNeedsThree == ~up => Cardinality({k \in Command : cpc[k] # "new"}) >= 3

\* Whatever holds a handler back, a row lock held by a report that waits for the
\* bot included, and even if an upload never returns, every request that came
\* ends, and so does an uploading goroutine whose upload returned, also when the
\* handler gave up on it and nobody reads uploadChan any more.  No request comes
\* twice: from some time on none is under way.
RequestsEnd ==
    <>[](\A r \in Request : pc[r] \in {"new", "done"} /\ upload[r] # "uploaded")
=============================================================================
