--------------------------- MODULE HostLifecycle ---------------------------
(***************************************************************************)
(* How long the host process lives (internal/host/clients.go, heartbeat.go *)
(* and Server.Run): every loaded page holds a heartbeat stream open, every *)
(* config write and OAuth sign-in takes a hold, and a waiter goroutine     *)
(* ends the process when neither has been there for the grace period.      *)
(* Every other request is counted by nobody, and a shutdown waits for it   *)
(* all the same.                                                           *)
(*                                                                         *)
(* The tracker's methods do their work under a mutex and signal the waiter *)
(* after unlocking it, so a method is two steps here.  The waiter reads    *)
(* the tracker, then sleeps on the signal channel, a timer for the rest of *)
(* the grace period, and the serving context.  Time is a tick that moves   *)
(* the age of idleAt and the waiter's timer together.                      *)
(***************************************************************************)
EXTENDS Integers, FiniteSets

CONSTANTS
    Clients,           \* heartbeat streams
    Writes,            \* PUT /api/config handlers: they take a hold
    SignIns,           \* OAuth sign-ins: a goroutine each, with a hold
    Requests,          \* every other handler: chat, sign-in starts, runs ...
    Grace,             \* the grace period, in ticks
    StopOnLastClient   \* Options.StopOnLastClient

ASSUME ActorsAssumption ==
    /\ IsFiniteSet(Clients)
    /\ IsFiniteSet(Writes)
    /\ IsFiniteSet(SignIns)
    /\ Clients \cap Writes = {}
    /\ Clients \cap SignIns = {}
    /\ Writes \cap SignIns = {}
    /\ Requests \cap (Clients \cup Writes \cup SignIns) = {}

ASSUME GraceAssumption == Grace \in Nat \ {0}

ASSUME OptionAssumption == StopOnLastClient \in BOOLEAN

VARIABLES
    active, armed, holds,  \* clientTracker's fields
    idleAge,               \* time since idleAt; Zero: idleAt.IsZero()
    changed,               \* a wake-up is in the channel of capacity one
    pc,                    \* where each handler is
    waiter,                \* waitForLastClient: where it is
    timer,                 \* what is left of its timer; NoTimer: none
    phase,                 \* Run: "serving", "shutting", "stopped"
    interrupted,           \* Run's ctx is done
    stopServing,           \* stopServing() has been called
    outcome                \* what Run returned

tracker == <<active, armed, holds, idleAge>>
run == <<phase, interrupted, stopServing, outcome>>
vars == <<tracker, changed, pc, waiter, timer, run>>

Zero == -1
NoTimer == -1
Workers == Writes \cup SignIns
Actors == Clients \cup Workers
Running == Actors \cup Requests

Init ==
    /\ active = 0 /\ armed = FALSE /\ holds = 0 /\ idleAge = Zero
    /\ changed = FALSE
    /\ pc = [a \in Running |-> "out"]
    /\ waiter = IF StopOnLastClient THEN "checking" ELSE "off"
    /\ timer = NoTimer
    /\ phase = "serving" /\ interrupted = FALSE /\ stopServing = FALSE
    /\ outcome = "none"

\* serveCtx is done: derived from ctx, and cancelled by stopServing.
ServeDone == interrupted \/ stopServing

\* The state a last-client exit is permitted in: idleFor's second result.
Idle == armed /\ active = 0 /\ holds = 0 /\ idleAge # Zero

-----------------------------------------------------------------------------
(* The handlers.                                                           *)

\* Bug: an unbuffered channel, taken only by a waiter that is in its select.
SignalIfAsleep == changed' = (changed \/ waiter = "asleep")

\* A full channel drops the wake-up.
Signal == changed' = TRUE

\* handleHeartbeat: join() under the lock.
Join(c) ==
    /\ phase = "serving"
    /\ pc[c] = "out"
    /\ pc' = [pc EXCEPT ![c] = "joining"]
    /\ active' = active + 1
    /\ armed' = TRUE
    /\ idleAge' = Zero
    /\ UNCHANGED <<holds, changed, waiter, timer, run>>

\* A count going down, never below zero.
OneLess(count) == IF count > 0 THEN count - 1 ELSE 0

\* Bug: the departure is counted each time it is reported.
LeaveEachTime(c) ==
    /\ pc[c] \in {"attached", "leaving"}
    /\ pc' = [pc EXCEPT ![c] = "leaving"]
    /\ active' = OneLess(active)
    /\ idleAge' = IF active' = 0 THEN 0 ELSE idleAge
    /\ UNCHANGED <<armed, holds, changed, waiter, timer, run>>

\* leave(), when the client disconnects, a write fails or serveCtx is done.
Leave(c) ==
    /\ pc[c] = "attached"
    /\ pc' = [pc EXCEPT ![c] = "leaving"]
    /\ active' = OneLess(active)
    /\ idleAge' = IF active' = 0 THEN 0 ELSE idleAge
    /\ UNCHANGED <<armed, holds, changed, waiter, timer, run>>

\* handleConfigPut and startMCPOAuth: hold() under the lock.
Hold(w) ==
    /\ phase = "serving"
    /\ pc[w] = "out"
    /\ pc' = [pc EXCEPT ![w] = "holding"]
    /\ holds' = holds + 1
    /\ UNCHANGED <<active, armed, idleAge, changed, waiter, timer, run>>

\* Bug: the grace period resumes where it was when the hold began.
ReleaseResuming(w) ==
    /\ pc[w] = "held"
    /\ pc' = [pc EXCEPT ![w] = "releasing"]
    /\ holds' = OneLess(holds)
    /\ UNCHANGED <<active, armed, idleAge, changed, waiter, timer, run>>

\* release(): the grace period restarts.
Release(w) ==
    /\ pc[w] = "held"
    /\ pc' = [pc EXCEPT ![w] = "releasing"]
    /\ holds' = OneLess(holds)
    /\ idleAge' = IF holds' = 0 /\ active = 0 /\ armed THEN 0 ELSE idleAge
    /\ UNCHANGED <<active, armed, changed, waiter, timer, run>>

After == [joining |-> "attached", leaving |-> "out",
          holding |-> "held", releasing |-> "out"]

\* The signal() that ends each of the four.
Signalled(a) ==
    /\ pc[a] \in DOMAIN After
    /\ pc' = [pc EXCEPT ![a] = After[pc[a]]]
    /\ Signal
    /\ UNCHANGED <<tracker, waiter, timer, run>>

\* A request that takes no hold: it neither counts nor signals, and runs for
\* as long as its own timeout lets it (75 s for a chat, 30 s for a sign-in
\* start); serveCtx is not its context.
Serve(r) ==
    /\ phase = "serving"
    /\ pc[r] = "out"
    /\ pc' = [pc EXCEPT ![r] = "answering"]
    /\ UNCHANGED <<tracker, changed, waiter, timer, run>>

Finish(r) ==
    /\ pc[r] = "answering"
    /\ pc' = [pc EXCEPT ![r] = "out"]
    /\ UNCHANGED <<tracker, changed, waiter, timer, run>>

Tick ==
    /\ phase # "stopped"
    /\ idleAge \in 0..(Grace - 1) \/ timer > 0
    /\ idleAge' = IF idleAge \in 0..(Grace - 1) THEN idleAge + 1 ELSE idleAge
    /\ timer' = IF timer > 0 THEN timer - 1 ELSE timer
    /\ UNCHANGED <<active, armed, holds, changed, pc, waiter, run>>

-----------------------------------------------------------------------------
(* waitForLastClient.                                                      *)

Enough == Idle /\ idleAge >= Grace

\* The loop's check of its context, once per turn.
WaiterChecks ==
    /\ waiter = "checking" /\ ~ServeDone
    /\ waiter' = "looking"
    /\ UNCHANGED <<tracker, changed, pc, timer, run>>

WaiterDecides ==
    /\ waiter = "looking"
    /\ Enough
    /\ waiter' = "gone"
    /\ UNCHANGED <<tracker, changed, pc, timer, run>>

\* Bug: a timer is armed while a client is attached, too.
SleepAlwaysTimed == timer' = Grace - idleAge

\* Bug: the waiter counts on a signal for the end of the grace period too.
SleepWithoutTimer == timer' = NoTimer

SleepTimer == timer' = IF Idle THEN Grace - idleAge ELSE NoTimer

WaiterReads ==
    /\ waiter = "looking"
    /\ ~Enough
    /\ waiter' = "reading"
    /\ SleepTimer
    /\ UNCHANGED <<tracker, changed, pc, run>>

\* The select, entered after idleFor has released the lock.
WaiterSleeps ==
    /\ waiter = "reading"
    /\ waiter' = "asleep"
    /\ UNCHANGED <<tracker, changed, pc, timer, run>>

WaiterWakes ==
    /\ waiter = "asleep"
    /\ \/ changed /\ changed' = FALSE
       \/ timer = 0 /\ UNCHANGED changed
    /\ waiter' = "checking"
    /\ timer' = NoTimer
    /\ UNCHANGED <<tracker, pc, run>>

WaiterQuits ==
    /\ waiter \in {"checking", "asleep"} /\ ServeDone
    /\ waiter' = "quit"
    /\ timer' = NoTimer
    /\ UNCHANGED <<tracker, changed, pc, run>>

-----------------------------------------------------------------------------
(* Server.Run.                                                             *)

Interrupt ==
    /\ phase # "stopped" /\ ~interrupted
    /\ interrupted' = TRUE
    /\ UNCHANGED <<tracker, changed, pc, waiter, timer, phase, stopServing, outcome>>

RunSeesInterrupt ==
    /\ phase = "serving" /\ interrupted
    /\ phase' = "shutting"
    /\ UNCHANGED <<tracker, changed, pc, waiter, timer, interrupted, stopServing, outcome>>

\* Bug: the serving context outlives the decision.
StreamsKeptOpen == stopServing' = stopServing

StopStreams == stopServing' = TRUE

RunSeesLastClientGone ==
    /\ phase = "serving" /\ waiter = "gone"
    /\ phase' = "shutting"
    /\ StopStreams
    /\ UNCHANGED <<tracker, changed, pc, waiter, timer, interrupted, outcome>>

\* httpServer.Serve fails; the deferred stopServing runs.
ServeFails ==
    /\ phase = "serving"
    /\ phase' = "stopped"
    /\ stopServing' = TRUE
    /\ outcome' = "serve failed"
    /\ UNCHANGED <<tracker, changed, pc, waiter, timer, interrupted>>

\* gracefulShutdown: Shutdown returns when no handler is running.  A
\* sign-in's goroutine is not a handler, and nothing waits for it.
ShutdownCompletes ==
    /\ phase = "shutting"
    /\ \A a \in Clients \cup Writes \cup Requests : pc[a] = "out"
    /\ phase' = "stopped"
    /\ stopServing' = TRUE
    /\ outcome' = "clean"
    /\ UNCHANGED <<tracker, changed, pc, waiter, timer, interrupted>>

\* Bug: Shutdown is given no timeout.
NobodyOutlasts(a) == FALSE

\* A request still being answered has shutdownTimeout to finish.  A stream
\* returns at once when serveCtx is done, well inside it, and so does the end
\* of a method.
OutlastsTimeout(a) ==
    \/ a \in Requests /\ pc[a] = "answering"
    \/ a \in Writes /\ pc[a] = "held"
    \/ a \in Clients /\ pc[a] = "attached" /\ ~ServeDone

ShutdownTimesOut ==
    /\ phase = "shutting"
    /\ \E a \in Running : OutlastsTimeout(a)
    /\ phase' = "stopped"
    /\ stopServing' = TRUE
    /\ outcome' = "timed out"
    /\ UNCHANGED <<tracker, changed, pc, waiter, timer, interrupted>>

-----------------------------------------------------------------------------
Handlers ==
    /\ phase # "stopped"
    /\ \/ \E c \in Clients : Join(c) \/ Leave(c)
       \/ \E w \in Workers : Hold(w) \/ Release(w)
       \/ \E a \in Actors : Signalled(a)
       \/ \E r \in Requests : Serve(r) \/ Finish(r)

Waiter ==
    /\ phase # "stopped"
    /\ \/ WaiterChecks \/ WaiterDecides \/ WaiterReads
       \/ WaiterSleeps \/ WaiterWakes \/ WaiterQuits

Shutdown == ShutdownCompletes \/ ShutdownTimesOut

Run == RunSeesInterrupt \/ RunSeesLastClientGone \/ Shutdown

Next == Handlers \/ Tick \/ Waiter \/ Interrupt \/ Run \/ ServeFails

Spec == Init /\ [][Next]_vars

\* Time passes, goroutines run, a stream notices that its context is done.
\* No client is obliged to leave and no hold is obliged to end.
Fairness ==
    /\ WF_vars(Tick)
    /\ WF_vars(Waiter)
    /\ WF_vars(Run)
    /\ \A a \in Actors : WF_vars(phase # "stopped" /\ Signalled(a))
    /\ \A c \in Clients : WF_vars(phase # "stopped" /\ ServeDone /\ Leave(c))

FairSpec == Spec /\ Fairness

-----------------------------------------------------------------------------
Attached(c) == pc[c] \in {"joining", "attached"}
Held(w) == pc[w] \in {"holding", "held"}
AttachedClients == {c \in Clients : Attached(c)}
HeldWorkers == {w \in Workers : Held(w)}
Engaged == AttachedClients \cup HeldWorkers

TrackerTypeOK ==
    /\ active \in Nat /\ holds \in Nat
    /\ armed \in BOOLEAN
    /\ idleAge \in Zero..Grace

HandlersTypeOK ==
    pc \in [Running -> {"out", "joining", "attached", "leaving",
                       "holding", "held", "releasing", "answering"}]

WaiterTypeOK ==
    /\ changed \in BOOLEAN
    /\ waiter \in {"off", "checking", "looking", "reading", "asleep", "gone", "quit"}
    /\ timer \in NoTimer..Grace

RunTypeOK ==
    /\ phase \in {"serving", "shutting", "stopped"}
    /\ interrupted \in BOOLEAN /\ stopServing \in BOOLEAN
    /\ outcome \in {"none", "clean", "timed out", "serve failed"}

\* Every variable holds a value of its kind.
TypeOK == TrackerTypeOK /\ HandlersTypeOK /\ WaiterTypeOK /\ RunTypeOK

\* The tracker's counts are the streams and holds that exist, so the clamp
\* at zero never hides a second departure.
CountsAreExact ==
    /\ active = Cardinality(AttachedClients)
    /\ holds = Cardinality(HeldWorkers)

\* A waiter in its select with no wake-up in the channel or on its way sleeps on
\* what the tracker says now: its timer runs out exactly when the grace
\* period does, and it has none while no exit is permitted.
NoLostWakeUp ==
    waiter \in {"reading", "asleep"} /\ ~changed /\ (\A a \in Actors : pc[a] \notin DOMAIN After)
    => timer = IF Idle THEN Grace - idleAge ELSE NoTimer

\* A stop fails to be clean only because of a request that is still being
\* answered, a write or one of those nobody counts: a heartbeat stream, which
\* would go on for ever, and the goroutine of a sign-in never turn "a clean
\* stop back into the unclean-looking exit" (server.go:1012-1022).
OnlyARequestDelaysTheStop ==
    outcome = "timed out" =>
        \/ \E w \in Writes : pc[w] = "held"
        \/ \E r \in Requests : pc[r] = "answering"

\* The host stops on its own for the reason it promises and for no other.
Promise == INSTANCE LastClientExit WITH
    engaged <- Engaged,
    opened <- armed,
    quiet <- IF armed /\ Engaged = {} THEN idleAge ELSE 0,
    gone <- (waiter = "gone")

KeepsPromise == Promise!Spec

\* Once everybody has left for good, the host stops.
StopsWhenAbandoned ==
    <>[](armed /\ Engaged = {}) /\ StopOnLastClient => <>(phase = "stopped")

\* Once interrupted, the host stops, whoever is attached or at work.
StopsWhenInterrupted == interrupted ~> phase = "stopped"

=============================================================================
