------------------------------- MODULE SignIn -------------------------------
(***************************************************************************)
(* The interactive sign-in to the docs MCP server                          *)
(* (internal/host/mcpoauth.go): POST .../oauth/start, DELETE .../oauth and *)
(* the goroutine that waits for the browser to come back.                  *)
(*                                                                         *)
(* The server remembers one flow, in a slot under a mutex.  A flow owns a  *)
(* loopback listener, a context and a hold on the host's life, which       *)
(* HostLifecycle takes as given and which is earned here: a hold nobody    *)
(* releases keeps the process alive for ever.  A page sends one of these   *)
(* requests at a time (its buttons are disabled meanwhile), but two pages  *)
(* do not know of each other, and a page that is reloaded does not know of *)
(* the request its predecessor sent, whose handler is still running.       *)
(*                                                                         *)
(* Left out: what the messages and the token say, the status poll, which   *)
(* changes nothing, and shutdown, which ends a wait as a timeout does.     *)
(***************************************************************************)
EXTENDS Naturals

CONSTANTS
    Pages,        \* bound: requests at a time, each from a page of its own
    Flows,        \* bound: flows the host can start
    NoFlow

ASSUME FlowsAssumption == Flows \subseteq Nat /\ NoFlow \notin Flows

VARIABLES
    step,         \* where each page's request is; "idle": none in flight
    kind,         \* which request it is
    taken,        \* the flow a request has detached and not yet disposed of
    slot,         \* s.mcpOAuth, by flow
    state,        \* its state
    cancelled,    \* flows whose context is cancelled
    listening,    \* flows whose loopback listener is open
    held,         \* flows whose hold is taken
    worker,       \* where the goroutine of each flow is
    credential    \* the flow that stored the credential in the keystore

requests == <<step, kind, taken>>
flow == <<slot, state, cancelled, listening, held>>
vars == <<requests, flow, worker, credential>>

Init ==
    /\ step = [p \in Pages |-> "idle"]
    /\ kind = [p \in Pages |-> "start"]
    /\ taken = [p \in Pages |-> NoFlow]
    /\ slot = NoFlow /\ state = "idle"
    /\ cancelled = {} /\ listening = {} /\ held = {}
    /\ worker = [f \in Flows |-> "none"]
    /\ credential = NoFlow

Goto(p, s) == step' = [step EXCEPT ![p] = s]

-----------------------------------------------------------------------------
(* cancelMCPOAuthFlow, the first thing both requests do.                   *)

\* Under the mutex: the slot is emptied and the flow is this request's alone.
Detach(p, k) ==
    /\ step[p] = "idle"
    /\ Goto(p, "cancelling")
    /\ kind' = [kind EXCEPT ![p] = k]
    /\ taken' = [taken EXCEPT ![p] = slot]
    /\ slot' = NoFlow /\ state' = "idle"
    /\ UNCHANGED <<cancelled, listening, held, worker, credential>>

AfterCancel(p) == IF kind[p] = "start" THEN "setup" ELSE "deleting"

\* Bug: the context and the listener are let go, the hold is not.
DisposeKeepingHold(p) ==
    /\ step[p] = "cancelling"
    /\ Goto(p, AfterCancel(p))
    /\ taken' = [taken EXCEPT ![p] = NoFlow]
    /\ cancelled' = cancelled \cup ({taken[p]} \cap Flows)
    /\ listening' = listening \ {taken[p]}
    /\ UNCHANGED <<kind, slot, state, held, worker, credential>>

\* Bug: the flow is dropped without cancelling its context.
DisposeWithoutCancel(p) ==
    /\ step[p] = "cancelling"
    /\ Goto(p, AfterCancel(p))
    /\ taken' = [taken EXCEPT ![p] = NoFlow]
    /\ listening' = listening \ {taken[p]}
    /\ held' = held \ {taken[p]}
    /\ UNCHANGED <<kind, slot, state, cancelled, worker, credential>>

\* After it: the context is cancelled, the listener closed, the hold released.
Dispose(p) ==
    /\ step[p] = "cancelling"
    /\ Goto(p, AfterCancel(p))
    /\ taken' = [taken EXCEPT ![p] = NoFlow]
    /\ cancelled' = cancelled \cup ({taken[p]} \cap Flows)
    /\ listening' = listening \ {taken[p]}
    /\ held' = held \ {taken[p]}
    /\ UNCHANGED <<kind, slot, state, worker, credential>>

-----------------------------------------------------------------------------
(* startMCPOAuth: discovery, a listener, registration, then the flow.      *)

\* Discovery fails, or no listener can be opened.
SetupFails(p) ==
    /\ step[p] = "setup"
    /\ Goto(p, "idle")
    /\ UNCHANGED <<kind, taken, flow, worker, credential>>

Unused(f) == worker[f] = "none" /\ f \notin listening

\* mcpauth.Listen; the flow is called by the first number that is free.
Listen(p, f) ==
    /\ step[p] = "setup"
    /\ Unused(f) /\ \A g \in Flows : Unused(g) => f <= g
    /\ Goto(p, "registering")
    /\ taken' = [taken EXCEPT ![p] = f]
    /\ listening' = listening \cup {f}
    /\ UNCHANGED <<kind, slot, state, cancelled, held, worker, credential>>

\* Bug: a failed registration forgets the listener it had opened.
RegisterFailsOpen(p) ==
    /\ step[p] = "registering"
    /\ Goto(p, "idle")
    /\ taken' = [taken EXCEPT ![p] = NoFlow]
    /\ UNCHANGED <<kind, flow, worker, credential>>

\* Registration, or one of the local steps after it, fails.
RegisterFails(p) ==
    /\ step[p] = "registering"
    /\ Goto(p, "idle")
    /\ taken' = [taken EXCEPT ![p] = NoFlow]
    /\ listening' = listening \ {taken[p]}
    /\ UNCHANGED <<kind, slot, state, cancelled, held, worker, credential>>

\* Under the mutex the flow takes its hold and the slot, whoever is in it.
Install(p) ==
    /\ step[p] = "registering"
    /\ Goto(p, "idle")
    /\ taken' = [taken EXCEPT ![p] = NoFlow]
    /\ slot' = taken[p] /\ state' = "pending"
    /\ held' = held \cup {taken[p]}
    /\ worker' = [worker EXCEPT ![taken[p]] = "waiting"]
    /\ UNCHANGED <<kind, cancelled, listening, credential>>

\* handleAIMCPOAuthDelete, once the flow is cancelled: the keystore may fail.
Delete(p) ==
    /\ step[p] = "deleting"
    /\ Goto(p, "idle")
    /\ credential' \in {credential, NoFlow}
    /\ UNCHANGED <<kind, taken, flow, worker>>

-----------------------------------------------------------------------------
(* awaitMCPOAuthCallback, one goroutine per flow.                          *)

Work(f, from, to) ==
    /\ worker[f] = from
    /\ worker' = [worker EXCEPT ![f] = to]

\* The browser comes back with a code; a callback already delivered counts
\* even when the context is done by now.
Callback(f) ==
    /\ Work(f, "waiting", "exchanging")
    /\ UNCHANGED <<requests, flow, credential>>

\* Declined, cancelled, or nothing within oauthFlowTimeout.
WaitFails(f) ==
    /\ Work(f, "waiting", "failing")
    /\ UNCHANGED <<requests, flow, credential>>

\* The code becomes a token, unless the context is done.
Exchange(f) ==
    /\ f \notin cancelled
    /\ Work(f, "exchanging", "storing")
    /\ UNCHANGED <<requests, flow, credential>>

\* storeMCPOAuthCredential
Store(f) ==
    /\ Work(f, "storing", "storingURL")
    /\ credential' = f
    /\ UNCHANGED <<requests, flow>>

StoreURL(f) ==
    /\ Work(f, "storingURL", "finishing")
    /\ UNCHANGED <<requests, flow, credential>>

\* The exchange or either write to the keystore fails.
StepFails(f) ==
    /\ \E from \in {"exchanging", "storing", "storingURL"} : Work(f, from, "failing")
    /\ UNCHANGED <<requests, flow, credential>>

Outcome == [failing |-> "failed", finishing |-> "authorized"]

\* Bug: a failure is shown but the hold is kept.
SettleKeepingHold(f) ==
    /\ worker[f] \in DOMAIN Outcome
    /\ worker' = [worker EXCEPT ![f] = "closing"]
    /\ state' = IF slot = NoFlow THEN state ELSE Outcome[worker[f]]
    /\ held' = IF worker[f] = "failing" THEN held ELSE held \ {slot}
    /\ UNCHANGED <<requests, slot, cancelled, listening, credential>>

\* failMCPOAuthFlow and finishMCPOAuthFlow: under the mutex the outcome is
\* given to the flow in the slot, if there is one, and its hold is released.
Settle(f) ==
    /\ worker[f] \in DOMAIN Outcome
    /\ worker' = [worker EXCEPT ![f] = "closing"]
    /\ state' = IF slot = NoFlow THEN state ELSE Outcome[worker[f]]
    /\ held' = held \ {slot}
    /\ UNCHANGED <<requests, slot, cancelled, listening, credential>>

\* The deferred Close of the listener.
Close(f) ==
    /\ Work(f, "closing", "done")
    /\ listening' = listening \ {f}
    /\ UNCHANGED <<requests, slot, state, cancelled, held, credential>>

-----------------------------------------------------------------------------

Handler(p) ==
    \/ Dispose(p)
    \/ SetupFails(p)
    \/ \E f \in Flows : Listen(p, f)
    \/ RegisterFails(p)
    \/ Install(p)
    \/ Delete(p)

Goroutine(f) ==
    \/ Callback(f) \/ WaitFails(f)
    \/ Exchange(f) \/ Store(f) \/ StoreURL(f) \/ StepFails(f)
    \/ Settle(f)
    \/ Close(f)

Next ==
    \/ \E p \in Pages, k \in {"start", "delete"} : Detach(p, k)
    \/ \E p \in Pages : Handler(p)
    \/ \E f \in Flows : Goroutine(f)

\* Every call a handler or a goroutine makes is bounded by a timeout, so each
\* goes on; nobody has to press a button.
Fairness ==
    /\ \A p \in Pages : WF_vars(Handler(p))
    /\ \A f \in Flows : WF_vars(Goroutine(f))

Spec == Init /\ [][Next]_vars /\ Fairness

-----------------------------------------------------------------------------

\* A request installs its flow over one that another request has installed
\* since this one emptied the slot.
Overtakes == \E p \in Pages : Install(p) /\ slot # NoFlow

\* There is somebody left to release the flow's hold, if it has one.
Accounted(f) ==
    f \in held =>
        \/ slot = f /\ state = "pending"
        \/ \E p \in Pages : taken[p] = f

\* A hold always has somebody to release it, the pending flow in the slot or a
\* request about to dispose of it, with one exception: of two requests that
\* start a sign-in at the same time the later drops the earlier's flow from
\* the slot with its hold still taken (mcpoauth.go:99-110, 382-391, 518-542).
HoldOrphanedOnlyByOvertaking ==
    [][\A f \in Flows : Accounted(f) => Accounted(f)' \/ (Overtakes /\ slot = f)]_vars

InProgress(f) == worker[f] \in {"waiting", "exchanging", "storing", "storingURL"}

\* The server can still reach the flow to cancel it, if it has to.
Reachable(f) ==
    InProgress(f) /\ f \notin cancelled =>
        \/ slot = f
        \/ \E p \in Pages : step[p] = "cancelling" /\ taken[p] = f

\* A new sign-in supersedes the one before, and a deletion ends it: a
\* goroutine at work under a context nobody has cancelled is the one in the
\* slot or is about to be cancelled, so there is one beside those at most,
\* with the same exception (mcpoauth.go:83-91, 313-315).
SignInForgottenOnlyByOvertaking ==
    [][\A f \in Flows : Reachable(f) => Reachable(f)' \/ (Overtakes /\ slot = f)]_vars

Owned(f) == slot = f \/ \E p \in Pages : taken[p] = f

\* Every sign-in that is not overtaken stops holding the host open, however it
\* ends: answered, declined, superseded, signed out or left alone
\* (mcpoauth.go:113-123).
HoldsEnd == \A f \in Flows : f \in held ~> f \notin held \/ ~Owned(f)

\* Every listener a sign-in opens is closed again, on the paths that fail
\* before there is a goroutine too (mcpoauth.go:344-373, 424-428).
ListenersClose == \A f \in Flows : f \in listening ~> f \notin listening

=============================================================================
