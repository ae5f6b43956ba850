---------------------------- MODULE SignInProofs ----------------------------
(***************************************************************************)
(* Proofs about SignIn, for any number of requests and flows: of two       *)
(* requests that start a sign-in at the same time the later may drop the   *)
(* earlier's flow, and nothing else loses a hold or a sign-in.             *)
(***************************************************************************)
EXTENDS SignIn, TLAPS

-----------------------------------------------------------------------------
(* The inductive invariant.                                                *)

Steps == {"idle", "cancelling", "setup", "registering", "deleting"}
Places == {"none", "waiting", "exchanging", "storing", "storingURL",
           "failing", "finishing", "closing", "done"}

Types ==
    /\ step \in [Pages -> Steps]
    /\ taken \in [Pages -> Flows \cup {NoFlow}]
    /\ slot \in Flows \cup {NoFlow}
    /\ held \subseteq Flows
    /\ worker \in [Flows -> Places]

\* The flow's goroutine has been started.
Started(f) == worker[f] # "none"

\* A request has a flow in hand only while it cancels one or sets one up.
TakenWhileNeeded ==
    \A p \in Pages : step[p] \notin {"cancelling", "registering"} => taken[p] = NoFlow

\* A flow being set up has no goroutine yet, has its listener open, and is in
\* one request's hand only.
SetupIsPrivate ==
    \A p \in Pages : step[p] = "registering" =>
        /\ taken[p] \in Flows
        /\ ~Started(taken[p])
        /\ taken[p] \in listening
        /\ \A q \in Pages : taken[q] = taken[p] => q = p

\* A flow that is in the slot, is being cancelled or has a hold was installed.
InstalledIsStarted ==
    /\ slot # NoFlow => Started(slot)
    /\ \A p \in Pages : step[p] = "cancelling" /\ taken[p] # NoFlow => Started(taken[p])
    /\ \A f \in held : Started(f)

Inv == Types /\ TakenWhileNeeded /\ SetupIsPrivate /\ InstalledIsStarted

-----------------------------------------------------------------------------
(* The invariant is inductive.                                             *)

\* The server as it starts.
LEMMA InitInv == Init => Inv
BY DEF Init, Inv, Types, Steps, Places, TakenWhileNeeded, SetupIsPrivate, InstalledIsStarted

\* A request takes the flow out of the slot.
LEMMA DetachKeepsInv ==
    ASSUME Inv, NEW p \in Pages, NEW k \in {"start", "delete"}, Detach(p, k)
    PROVE  Inv'
<1> USE DEF Inv, Detach, Goto
<1>1. /\ step'[p] = "cancelling" /\ taken'[p] = slot /\ slot' = NoFlow
      /\ \A q \in Pages \ {p} : step'[q] = step[q] /\ taken'[q] = taken[q]
      /\ UNCHANGED <<listening, held, worker>>
  BY DEF Types
<1>2. Types'
  BY DEF Types, Steps
<1>3. TakenWhileNeeded'
  BY <1>1 DEF TakenWhileNeeded
<1>4. InstalledIsStarted'
  BY <1>1 DEF InstalledIsStarted, Started
<1>5. SetupIsPrivate'
  <2>1. ASSUME NEW r \in Pages, step'[r] = "registering"
        PROVE  /\ taken'[r] \in Flows /\ ~Started(taken[r])' /\ taken'[r] \in listening'
               /\ \A q \in Pages : taken'[q] = taken'[r] => q = r
    <3>1. r # p /\ step[r] = "registering" /\ taken'[r] = taken[r]
      BY <2>1, <1>1
    <3>2. taken[r] # slot
      BY <3>1, FlowsAssumption DEF SetupIsPrivate, InstalledIsStarted
    <3>3. QED
      BY <1>1, <3>1, <3>2 DEF SetupIsPrivate, Started
  <2>2. QED
    BY <2>1 DEF SetupIsPrivate
<1>6. QED
  BY <1>2, <1>3, <1>4, <1>5

\* The flow in hand is disposed of.
LEMMA DisposeKeepsInv ==
    ASSUME Inv, NEW p \in Pages, Dispose(p)
    PROVE  Inv'
<1> USE DEF Inv, Dispose, Goto
<1>1. /\ step[p] = "cancelling" /\ step'[p] \in {"setup", "deleting"} /\ taken'[p] = NoFlow
      /\ \A q \in Pages \ {p} : step'[q] = step[q] /\ taken'[q] = taken[q]
      /\ UNCHANGED <<slot, worker>> /\ held' \subseteq held
      /\ listening' = listening \ {taken[p]}
  BY DEF Types, AfterCancel
<1>2. Types'
  BY DEF Types, Steps, AfterCancel
<1>3. TakenWhileNeeded'
  BY <1>1 DEF TakenWhileNeeded
<1>4. InstalledIsStarted'
  BY <1>1 DEF InstalledIsStarted, Started
<1>5. SetupIsPrivate'
  <2>1. ASSUME NEW r \in Pages, step'[r] = "registering"
        PROVE  /\ taken'[r] \in Flows /\ ~Started(taken[r])' /\ taken'[r] \in listening'
               /\ \A q \in Pages : taken'[q] = taken'[r] => q = r
    <3>1. r # p /\ step[r] = "registering" /\ taken'[r] = taken[r]
      BY <2>1, <1>1
    <3>2. taken[r] # taken[p] /\ taken[r] # NoFlow
      BY <3>1, FlowsAssumption DEF SetupIsPrivate
    <3>3. QED
      BY <1>1, <3>1, <3>2 DEF SetupIsPrivate, Started
  <2>2. QED
    BY <2>1 DEF SetupIsPrivate
<1>6. QED
  BY <1>2, <1>3, <1>4, <1>5

\* A listener nobody has is opened, and the flow is this request's.
LEMMA ListenKeepsInv ==
    ASSUME Inv, NEW p \in Pages, NEW f \in Flows, Listen(p, f)
    PROVE  Inv'
<1> USE DEF Inv, Listen, Goto
<1>1. /\ step'[p] = "registering" /\ taken'[p] = f
      /\ \A q \in Pages \ {p} : step'[q] = step[q] /\ taken'[q] = taken[q]
      /\ UNCHANGED <<slot, held, worker>>
      /\ listening' = listening \cup {f}
      /\ ~Started(f) /\ f \notin listening
  BY DEF Types, Unused, Started
<1>2. Types'
  BY DEF Types, Steps
<1>3. TakenWhileNeeded'
  BY <1>1 DEF TakenWhileNeeded
<1>4. InstalledIsStarted'
  BY <1>1 DEF InstalledIsStarted, Started
<1>5. \A q \in Pages \ {p} : taken[q] # f
  <2>1. \A q \in Pages : step[q] = "registering" => taken[q] # f
    BY <1>1 DEF SetupIsPrivate
  <2>2. \A q \in Pages : step[q] = "cancelling" => taken[q] # f
    BY <1>1, FlowsAssumption DEF InstalledIsStarted
  <2>3. QED
    BY <2>1, <2>2, FlowsAssumption DEF TakenWhileNeeded
<1>6. SetupIsPrivate'
  BY <1>1, <1>5 DEF SetupIsPrivate, Started
<1>7. QED
  BY <1>2, <1>3, <1>4, <1>6

\* A request that ends without installing a flow.
LEMMA EndKeepsInv ==
    ASSUME Inv, NEW p \in Pages, SetupFails(p) \/ RegisterFails(p) \/ Delete(p)
    PROVE  Inv'
<1> USE DEF Inv, Goto
<1>1. /\ step'[p] = "idle" /\ taken'[p] = NoFlow
      /\ \A q \in Pages \ {p} : step'[q] = step[q] /\ taken'[q] = taken[q]
      /\ UNCHANGED <<slot, held, worker>>
      /\ listening' \in {listening, listening \ {taken[p]}}
      /\ step[p] # "registering" => UNCHANGED listening
  BY DEF SetupFails, RegisterFails, Delete, Types, TakenWhileNeeded, flow
<1>2. Types'
  BY <1>1 DEF SetupFails, RegisterFails, Delete, Types, Steps
<1>3. TakenWhileNeeded' /\ InstalledIsStarted'
  BY <1>1 DEF TakenWhileNeeded, InstalledIsStarted, Started
<1>4. SetupIsPrivate'
  <2>1. ASSUME NEW r \in Pages, step'[r] = "registering"
        PROVE  /\ taken'[r] \in Flows /\ ~Started(taken[r])' /\ taken'[r] \in listening'
               /\ \A q \in Pages : taken'[q] = taken'[r] => q = r
    <3>1. r # p /\ step[r] = "registering" /\ taken'[r] = taken[r]
      BY <2>1, <1>1
    <3>2. taken[r] # taken[p] /\ taken[r] # NoFlow
      BY <3>1, FlowsAssumption DEF SetupIsPrivate
    <3>3. QED
      BY <1>1, <3>1, <3>2 DEF SetupIsPrivate, Started
  <2>2. QED
    BY <2>1 DEF SetupIsPrivate
<1>5. QED
  BY <1>2, <1>3, <1>4

\* A new flow takes its hold, the slot and a goroutine together.
LEMMA InstallKeepsInv ==
    ASSUME Inv, NEW p \in Pages, Install(p)
    PROVE  Inv'
<1> USE DEF Inv, Install, Goto
<1>1. /\ step'[p] = "idle" /\ taken'[p] = NoFlow /\ taken[p] \in Flows
      /\ \A q \in Pages \ {p} : step'[q] = step[q] /\ taken'[q] = taken[q] /\ taken[q] # taken[p]
      /\ slot' = taken[p] /\ held' = held \cup {taken[p]} /\ UNCHANGED listening
  BY DEF Types, SetupIsPrivate
<1>2. /\ worker'[taken[p]] = "waiting"
      /\ \A f \in Flows \ {taken[p]} : worker'[f] = worker[f]
  BY <1>1 DEF Types
<1>3. Types'
  BY <1>1 DEF Types, Steps, Places
<1>4. TakenWhileNeeded'
  BY <1>1 DEF TakenWhileNeeded
<1>5. InstalledIsStarted'
  <2>1. \A f \in Flows : Started(f) => Started(f)'
    BY <1>2 DEF Started
  <2>2. \A f \in held' : Started(f)'
    BY <1>1, <1>2, <2>1 DEF InstalledIsStarted, Types, Started
  <2>3. slot' # NoFlow => Started(slot)'
    BY <1>1, <1>2 DEF Started
  <2>4. ASSUME NEW q \in Pages, step'[q] = "cancelling", taken'[q] # NoFlow
        PROVE  Started(taken[q])'
    <3>1. q # p /\ step[q] = "cancelling" /\ taken'[q] = taken[q] /\ taken[q] \in Flows
      BY <1>1, <2>4 DEF Types
    <3>2. worker[taken[q]] # "none" /\ taken[q] # taken[p]
      BY <1>1, <2>4, <3>1 DEF InstalledIsStarted, Started
    <3>3. QED
      BY <1>2, <3>1, <3>2 DEF Started
  <2>5. QED
    BY <2>2, <2>3, <2>4 DEF InstalledIsStarted
<1>6. SetupIsPrivate'
  <2>1. ASSUME NEW r \in Pages, step'[r] = "registering"
        PROVE  /\ taken'[r] \in Flows /\ ~Started(taken[r])' /\ taken'[r] \in listening'
               /\ \A q \in Pages : taken'[q] = taken'[r] => q = r
    <3>1. r # p /\ step[r] = "registering" /\ taken'[r] = taken[r]
      BY <2>1, <1>1
    <3>2. /\ taken[r] # taken[p] /\ taken[r] # NoFlow /\ taken[r] \in Flows
          /\ worker[taken[r]] = "none" /\ taken[r] \in listening
      BY <1>1, <3>1, FlowsAssumption DEF SetupIsPrivate, Started
    <3>3. worker'[taken'[r]] = "none"
      BY <1>2, <3>1, <3>2
    <3>4. \A q \in Pages : taken'[q] = taken'[r] => q = r
      BY <1>1, <3>1, <3>2 DEF SetupIsPrivate
    <3>5. QED
      BY <1>1, <3>1, <3>2, <3>3, <3>4 DEF Started
  <2>2. QED
    BY <2>1 DEF SetupIsPrivate
<1>7. QED
  BY <1>3, <1>4, <1>5, <1>6

\* What a goroutine can do.
LEMMA GoroutineSteps ==
    ASSUME Types, NEW f \in Flows, Goroutine(f)
    PROVE  /\ UNCHANGED <<requests, slot, cancelled>> /\ worker[f] # "none"
           /\ \E to \in Places \ {"none"} : worker' = [worker EXCEPT ![f] = to]
           /\ \A g \in Flows : InProgress(g)' => InProgress(g)
           /\ UNCHANGED <<state, held>> \/ held' = held \ {slot}
           /\ listening' \in {listening, listening \ {f}}
<1>1. /\ UNCHANGED <<requests, slot, cancelled>> /\ worker[f] # "none"
      /\ \E to \in Places \ {"none"} : worker' = [worker EXCEPT ![f] = to]
  BY DEF Goroutine, Work, Callback, WaitFails, Exchange, Store, StoreURL, StepFails,
         Settle, Close, Outcome, flow, requests, Places
<1>2. UNCHANGED <<state, held>> \/ held' = held \ {slot}
  BY DEF Goroutine, Callback, WaitFails, Exchange, Store, StoreURL, StepFails,
         Settle, Close, flow
<1>3. listening' \in {listening, listening \ {f}}
  BY DEF Goroutine, Callback, WaitFails, Exchange, Store, StoreURL, StepFails,
         Settle, Close, flow
<1>4. InProgress(f)' => InProgress(f)
  BY DEF Goroutine, Work, Callback, WaitFails, Exchange, Store, StoreURL,
         StepFails, Settle, Close, InProgress, Types
<1>5. \A g \in Flows \ {f} : worker'[g] = worker[g]
  BY <1>1 DEF Types
<1>6. \A g \in Flows : InProgress(g)' => InProgress(g)
  BY <1>4, <1>5 DEF InProgress
<1>7. QED
  BY <1>1, <1>2, <1>3, <1>6

\* A goroutine that has been started goes on.
LEMMA GoroutineKeepsInv ==
    ASSUME Inv, NEW f \in Flows, Goroutine(f)
    PROVE  Inv'
<1> USE DEF Inv
<1>1. /\ UNCHANGED <<step, taken, slot>> /\ Started(f)
      /\ held' \subseteq held /\ listening' \in {listening, listening \ {f}}
      /\ \E to \in Places \ {"none"} : worker' = [worker EXCEPT ![f] = to]
  BY GoroutineSteps DEF requests, Started
<1>2. \A g \in Flows : Started(g)' <=> Started(g)
  BY <1>1 DEF Types, Started
<1>3. Types'
  BY <1>1 DEF Types
<1>4. TakenWhileNeeded'
  BY <1>1 DEF TakenWhileNeeded
<1>5. SetupIsPrivate'
  BY <1>1, <1>2 DEF SetupIsPrivate, Started
<1>6. InstalledIsStarted'
  BY <1>1, <1>2 DEF InstalledIsStarted, Types, Started
<1>7. QED
  BY <1>3, <1>4, <1>5, <1>6

\* Every step of the requests and of the goroutines.
LEMMA NextInv == Inv /\ [Next]_vars => Inv'
<1> SUFFICES ASSUME Inv, [Next]_vars PROVE Inv'
  OBVIOUS
<1>1. ASSUME NEW p \in Pages, NEW k \in {"start", "delete"}, Detach(p, k)
      PROVE  Inv'
  BY <1>1, DetachKeepsInv
<1>2. ASSUME NEW p \in Pages, Handler(p) PROVE Inv'
  BY <1>2, DisposeKeepsInv, ListenKeepsInv, EndKeepsInv, InstallKeepsInv DEF Handler
<1>3. ASSUME NEW f \in Flows, Goroutine(f) PROVE Inv'
  BY <1>3, GoroutineKeepsInv
<1>4. CASE UNCHANGED vars
  BY <1>4 DEF vars, requests, flow, Inv, Types, TakenWhileNeeded, SetupIsPrivate,
              InstalledIsStarted, Started
<1>5. QED
  BY <1>1, <1>2, <1>3, <1>4 DEF Next

\* So it holds in every state the server can be in.
LEMMA AlwaysInv == Spec => []Inv
BY InitInv, NextInv, PTL DEF Spec

-----------------------------------------------------------------------------
(* Holds.                                                                  *)

HoldStep == \A f \in Flows : Accounted(f) => Accounted(f)' \/ (Overtakes /\ slot = f)

\* A request hands the flow and its hold on, or lets both go.
LEMMA HandlerAccounts ==
    ASSUME Inv, NEW p \in Pages, Handler(p), NEW f \in Flows, Accounted(f)
    PROVE  Accounted(f)' \/ (Overtakes /\ slot = f)
<1> USE DEF Inv, Goto
<1>1. CASE Dispose(p)
  <2>1. /\ \A q \in Pages \ {p} : taken'[q] = taken[q]
        /\ UNCHANGED <<slot, state>> /\ held' = held \ {taken[p]}
    BY <1>1 DEF Dispose, Types
  <2>2. QED
    BY <2>1 DEF Accounted
<1>2. CASE \E g \in Flows : Listen(p, g)
  <2>1. /\ \A q \in Pages \ {p} : taken'[q] = taken[q]
        /\ UNCHANGED <<slot, state, held>> /\ taken[p] = NoFlow
    BY <1>2 DEF Listen, Types, TakenWhileNeeded
  <2>2. f # NoFlow
    BY FlowsAssumption
  <2>3. QED
    BY <2>1, <2>2 DEF Accounted
<1>3. CASE SetupFails(p) \/ RegisterFails(p) \/ Delete(p)
  <2>1. /\ \A q \in Pages \ {p} : taken'[q] = taken[q]
        /\ UNCHANGED <<slot, state, held>> /\ taken[p] \notin held
    BY <1>3, FlowsAssumption
       DEF SetupFails, RegisterFails, Delete, flow, Types, TakenWhileNeeded, SetupIsPrivate,
           InstalledIsStarted
  <2>2. QED
    BY <2>1 DEF Accounted
<1>4. CASE Install(p)
  <2>1. /\ \A q \in Pages \ {p} : taken'[q] = taken[q]
        /\ slot' = taken[p] /\ state' = "pending" /\ held' = held \cup {taken[p]}
    BY <1>4 DEF Install, Types
  <2>2. CASE f = slot
    BY <1>4, <2>2, FlowsAssumption DEF Overtakes
  <2>3. CASE f # slot
    BY <2>1, <2>3 DEF Accounted
  <2>4. QED
    BY <2>2, <2>3
<1>5. QED
  BY <1>1, <1>2, <1>3, <1>4 DEF Handler

\* Every step leaves somebody to release a hold, or is the later of two starts.
LEMMA NextHolds == Inv /\ [Next]_vars => HoldStep
<1> SUFFICES ASSUME Inv, [Next]_vars, NEW f \in Flows, Accounted(f)
             PROVE  Accounted(f)' \/ (Overtakes /\ slot = f)
  BY DEF HoldStep
<1> USE DEF Inv, Goto
<1>1. ASSUME NEW p \in Pages, NEW k \in {"start", "delete"}, Detach(p, k)
      PROVE  Accounted(f)'
  <2>1. /\ taken'[p] = slot /\ taken[p] = NoFlow /\ UNCHANGED held
        /\ \A q \in Pages \ {p} : taken'[q] = taken[q]
    BY <1>1 DEF Detach, Types, TakenWhileNeeded
  <2>2. f # NoFlow
    BY FlowsAssumption
  <2>3. QED
    BY <2>1, <2>2 DEF Accounted
<1>2. ASSUME NEW p \in Pages, Handler(p) PROVE Accounted(f)' \/ (Overtakes /\ slot = f)
  BY <1>2, HandlerAccounts
<1>3. ASSUME NEW g \in Flows, Goroutine(g) PROVE Accounted(f)'
  <2>1. UNCHANGED <<taken, slot>> /\ (UNCHANGED <<state, held>> \/ held' = held \ {slot})
    BY <1>3, GoroutineSteps DEF requests
  <2>2. QED
    BY <2>1 DEF Accounted
<1>4. CASE UNCHANGED vars
  BY <1>4 DEF vars, requests, flow, Accounted
<1>5. QED
  BY <1>1, <1>2, <1>3, <1>4 DEF Next

\* However many requests overlap, a hold loses whoever is to release it in one
\* step only: a request that started a sign-in installs it over the one another
\* request has installed meanwhile (mcpoauth.go:99-110, 382-391, 518-542).
THEOREM HoldsStayAccounted == Spec => HoldOrphanedOnlyByOvertaking
<1>1. Inv /\ [Next]_vars => [HoldStep]_vars
  BY NextHolds
<1>2. Spec => [][HoldStep]_vars
  BY <1>1, AlwaysInv, PTL DEF Spec
<1>3. QED
  BY <1>2 DEF HoldStep, HoldOrphanedOnlyByOvertaking

-----------------------------------------------------------------------------
(* Sign-ins in progress.                                                   *)

LiveStep == \A f \in Flows : Reachable(f) => Reachable(f)' \/ (Overtakes /\ slot = f)

\* A request hands a flow on, cancels it, or overtakes it.
LEMMA HandlerReaches ==
    ASSUME Inv, NEW p \in Pages, Handler(p), NEW f \in Flows, Reachable(f)
    PROVE  Reachable(f)' \/ (Overtakes /\ slot = f)
<1> USE DEF Inv, Goto
<1>1. CASE Dispose(p)
  <2>1. /\ \A q \in Pages \ {p} : step'[q] = step[q] /\ taken'[q] = taken[q]
        /\ UNCHANGED <<slot, worker>>
        /\ f \notin cancelled' => f \notin cancelled /\ f # taken[p]
    BY <1>1 DEF Dispose, Types
  <2>2. QED
    BY <2>1 DEF Reachable, InProgress
<1>2. CASE SetupFails(p) \/ (\E g \in Flows : Listen(p, g)) \/ RegisterFails(p) \/ Delete(p)
  <2>1. /\ \A q \in Pages \ {p} : step'[q] = step[q] /\ taken'[q] = taken[q]
        /\ UNCHANGED <<slot, worker, cancelled>> /\ step[p] # "cancelling"
    BY <1>2 DEF SetupFails, Listen, RegisterFails, Delete, flow, Types
  <2>2. QED
    BY <2>1 DEF Reachable, InProgress
<1>3. CASE Install(p)
  <2>1. /\ \A q \in Pages \ {p} : step'[q] = step[q] /\ taken'[q] = taken[q]
        /\ slot' = taken[p] /\ UNCHANGED cancelled /\ step[p] # "cancelling"
        /\ \A g \in Flows \ {taken[p]} : worker'[g] = worker[g]
    BY <1>3 DEF Install, Types
  <2>2. CASE f = slot
    BY <1>3, <2>2, FlowsAssumption DEF Overtakes
  <2>3. CASE f # slot
    BY <2>1, <2>3 DEF Reachable, InProgress
  <2>4. QED
    BY <2>2, <2>3
<1>4. QED
  BY <1>1, <1>2, <1>3 DEF Handler

\* Every step leaves an uncancelled sign-in within reach, or is the later of
\* two starts.
LEMMA NextLive == Inv /\ [Next]_vars => LiveStep
<1> SUFFICES ASSUME Inv, [Next]_vars, NEW f \in Flows, Reachable(f)
             PROVE  Reachable(f)' \/ (Overtakes /\ slot = f)
  BY DEF LiveStep
<1> USE DEF Inv, Goto
<1>1. ASSUME NEW p \in Pages, NEW k \in {"start", "delete"}, Detach(p, k)
      PROVE  Reachable(f)'
  <2>1. /\ step'[p] = "cancelling" /\ taken'[p] = slot /\ step[p] = "idle"
        /\ \A q \in Pages \ {p} : step'[q] = step[q] /\ taken'[q] = taken[q]
        /\ UNCHANGED <<worker, cancelled>>
    BY <1>1 DEF Detach, Types
  <2>2. QED
    BY <2>1 DEF Reachable, InProgress
<1>2. ASSUME NEW p \in Pages, Handler(p) PROVE Reachable(f)' \/ (Overtakes /\ slot = f)
  BY <1>2, HandlerReaches
<1>3. ASSUME NEW g \in Flows, Goroutine(g) PROVE Reachable(f)'
  <2>1. UNCHANGED <<step, taken, slot, cancelled>> /\ (InProgress(f)' => InProgress(f))
    BY <1>3, GoroutineSteps DEF requests
  <2>2. QED
    BY <2>1 DEF Reachable
<1>4. CASE UNCHANGED vars
  BY <1>4 DEF vars, requests, flow, Reachable, InProgress
<1>5. QED
  BY <1>1, <1>2, <1>3, <1>4 DEF Next

\* However many requests overlap, a goroutine still at work is cancelled, is in
\* the slot or is about to be cancelled, until the later of two starts installs
\* its flow over it: a new sign-in supersedes the one it found
\* (mcpoauth.go:83-91, 313-315).
THEOREM SignInsStayReachable == Spec => SignInForgottenOnlyByOvertaking
<1>1. Inv /\ [Next]_vars => [LiveStep]_vars
  BY NextLive
<1>2. Spec => [][LiveStep]_vars
  BY <1>1, AlwaysInv, PTL DEF Spec
<1>3. QED
  BY <1>2 DEF LiveStep, SignInForgottenOnlyByOvertaking

=============================================================================
