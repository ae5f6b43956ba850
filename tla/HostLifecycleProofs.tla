------------------------ MODULE HostLifecycleProofs ------------------------
(***************************************************************************)
(* Proofs about HostLifecycle, for any finite sets of windows, writes and  *)
(* sign-ins, any other requests and any grace period: its invariants, and  *)
(* that it implements LastClientExit.                                      *)
(***************************************************************************)
EXTENDS HostLifecycle, FiniteSetTheorems, TLAPS

-----------------------------------------------------------------------------
(* The inductive invariant.                                                *)

\* Run shuts down only after it has cancelled the serving context.
ShuttingIsDone == phase = "shutting" => ServeDone

\* Run returns once, and is over then.
OutcomeIsFinal == outcome # "none" => phase = "stopped"

Inv ==
    /\ TypeOK
    /\ CountsAreExact
    /\ NoLostWakeUp
    /\ ShuttingIsDone
    /\ OutcomeIsFinal
    /\ OnlyARequestDelaysTheStop

-----------------------------------------------------------------------------
(* Who is engaged, and the counts.                                         *)

\* The sets the tracker counts are finite.
LEMMA EngagedIsFinite ==
    /\ IsFiniteSet(AttachedClients) /\ Cardinality(AttachedClients) \in Nat
    /\ IsFiniteSet(HeldWorkers) /\ Cardinality(HeldWorkers) \in Nat
<1>1. IsFiniteSet(Workers)
  BY ActorsAssumption, FS_Union DEF Workers
<1>2. AttachedClients \subseteq Clients /\ HeldWorkers \subseteq Workers
  BY DEF AttachedClients, HeldWorkers
<1>3. IsFiniteSet(AttachedClients) /\ IsFiniteSet(HeldWorkers)
  BY <1>1, <1>2, ActorsAssumption, FS_Subset
<1>4. QED
  BY <1>3, FS_CardinalityType

\* Nobody is engaged exactly when both counts are zero.
LEMMA NobodyEngaged ==
    ASSUME CountsAreExact
    PROVE  Engaged = {} <=> active = 0 /\ holds = 0
BY EngagedIsFinite, FS_EmptySet DEF CountsAreExact, Engaged

\* join counts its stream.
LEMMA JoinCounts ==
    ASSUME TypeOK, CountsAreExact, NEW c \in Clients, Join(c)
    PROVE  /\ CountsAreExact'
           /\ Engaged' = Engaged \cup {c} /\ c \notin Engaged
<1>1. /\ AttachedClients' = AttachedClients \cup {c} /\ c \notin AttachedClients
      /\ HeldWorkers' = HeldWorkers /\ c \notin HeldWorkers
  BY ActorsAssumption DEF TypeOK, HandlersTypeOK, Join, AttachedClients, HeldWorkers, Attached, Held, Running, Actors, Workers
<1>2. Cardinality(AttachedClients') = active + 1
  BY <1>1, EngagedIsFinite, FS_AddElement DEF CountsAreExact
<1>3. QED
  BY <1>1, <1>2 DEF Join, CountsAreExact, Engaged

\* leave counts its stream out, and nobody else.
LEMMA LeaveCounts ==
    ASSUME TypeOK, CountsAreExact, NEW c \in Clients, Leave(c)
    PROVE  /\ CountsAreExact'
           /\ Engaged' = Engaged \ {c} /\ c \in Engaged
<1>1. /\ AttachedClients' = AttachedClients \ {c} /\ c \in AttachedClients
      /\ HeldWorkers' = HeldWorkers /\ c \notin HeldWorkers
  BY ActorsAssumption DEF TypeOK, HandlersTypeOK, Leave, AttachedClients, HeldWorkers, Attached, Held, Running, Actors, Workers
<1>2. Cardinality(AttachedClients') = active - 1 /\ active # 0
  BY <1>1, EngagedIsFinite, FS_RemoveElement, FS_EmptySet DEF CountsAreExact
<1>3. active' = active - 1
  <2>1. active \in Nat /\ active' = OneLess(active)
    BY DEF TypeOK, TrackerTypeOK, Leave
  <2>2. QED
    BY <1>2, <2>1 DEF OneLess
<1>4. QED
  BY <1>1, <1>2, <1>3 DEF Leave, CountsAreExact, Engaged

\* hold counts its worker.
LEMMA HoldCounts ==
    ASSUME TypeOK, CountsAreExact, NEW w \in Workers, Hold(w)
    PROVE  /\ CountsAreExact'
           /\ Engaged' = Engaged \cup {w} /\ w \notin Engaged
<1>1. /\ HeldWorkers' = HeldWorkers \cup {w} /\ w \notin HeldWorkers
      /\ AttachedClients' = AttachedClients /\ w \notin AttachedClients
  BY ActorsAssumption DEF TypeOK, HandlersTypeOK, Hold, AttachedClients, HeldWorkers, Attached, Held, Running, Actors, Workers
<1>2. Cardinality(HeldWorkers') = holds + 1
  BY <1>1, EngagedIsFinite, FS_AddElement DEF CountsAreExact
<1>3. QED
  BY <1>1, <1>2 DEF Hold, CountsAreExact, Engaged

\* release counts its worker out, and nobody else.
LEMMA ReleaseCounts ==
    ASSUME TypeOK, CountsAreExact, NEW w \in Workers, Release(w)
    PROVE  /\ CountsAreExact'
           /\ Engaged' = Engaged \ {w} /\ w \in Engaged
<1>1. /\ HeldWorkers' = HeldWorkers \ {w} /\ w \in HeldWorkers
      /\ AttachedClients' = AttachedClients /\ w \notin AttachedClients
  BY ActorsAssumption DEF TypeOK, HandlersTypeOK, Release, AttachedClients, HeldWorkers, Attached, Held, Running, Actors, Workers
<1>2. Cardinality(HeldWorkers') = holds - 1 /\ holds # 0
  BY <1>1, EngagedIsFinite, FS_RemoveElement, FS_EmptySet DEF CountsAreExact
<1>3. holds' = holds - 1
  <2>1. holds \in Nat /\ holds' = OneLess(holds)
    BY DEF TypeOK, TrackerTypeOK, Release
  <2>2. QED
    BY <1>2, <2>1 DEF OneLess
<1>4. QED
  BY <1>1, <1>2, <1>3 DEF Release, CountsAreExact, Engaged

\* A wake-up engages and disengages nobody.
LEMMA SignalledCounts ==
    ASSUME TypeOK, CountsAreExact, NEW a \in Actors, Signalled(a)
    PROVE  CountsAreExact' /\ Engaged' = Engaged
<1>1. /\ pc \in [Running -> {"out", "joining", "attached", "leaving",
                            "holding", "held", "releasing", "answering"}]
      /\ a \in Running
  BY DEF TypeOK, HandlersTypeOK, Running
<1>2. pc' = [pc EXCEPT ![a] = After[pc[a]]]
  BY DEF Signalled
<1>3. \/ pc[a] = "joining" /\ After[pc[a]] = "attached"
      \/ pc[a] = "holding" /\ After[pc[a]] = "held"
      \/ pc[a] \in {"leaving", "releasing"} /\ After[pc[a]] = "out"
  BY DEF Signalled, After
<1>4. \A b \in Running :
          /\ pc'[b] \in {"joining", "attached"} <=> pc[b] \in {"joining", "attached"}
          /\ pc'[b] \in {"holding", "held"} <=> pc[b] \in {"holding", "held"}
  BY <1>1, <1>2, <1>3
<1>5. AttachedClients' = AttachedClients /\ HeldWorkers' = HeldWorkers
  BY <1>4 DEF AttachedClients, HeldWorkers, Attached, Held, Running, Actors
<1>6. QED
  BY <1>5 DEF Signalled, tracker, CountsAreExact, Engaged

\* The requests nobody counts are nobody the tracker knows.
LEMMA RequestCounts ==
    ASSUME TypeOK, CountsAreExact, NEW r \in Requests, Serve(r) \/ Finish(r)
    PROVE  /\ CountsAreExact' /\ Engaged' = Engaged
           /\ \A a \in Actors : pc'[a] = pc[a]
<1>1. \A a \in Actors : pc'[a] = pc[a]
  BY ActorsAssumption DEF TypeOK, HandlersTypeOK, Serve, Finish, Running, Actors, Workers
<1>2. AttachedClients' = AttachedClients /\ HeldWorkers' = HeldWorkers
  BY <1>1 DEF AttachedClients, HeldWorkers, Attached, Held, Actors
<1>3. QED
  BY <1>1, <1>2 DEF Serve, Finish, tracker, CountsAreExact, Engaged

\* Nor does anything that leaves the handlers where they are.
LEMMA SameCounts ==
    ASSUME CountsAreExact, UNCHANGED <<active, holds, pc>>
    PROVE  CountsAreExact' /\ Engaged' = Engaged
BY DEF CountsAreExact, AttachedClients, HeldWorkers, Attached, Held, Engaged

-----------------------------------------------------------------------------
(* The invariant is inductive: initially, and one lemma per part.          *)

\* The host as Run starts it.
LEMMA InitInv == Init => Inv
<1> SUFFICES ASSUME Init PROVE Inv
  OBVIOUS
<1>1. TypeOK
  <2>1. TrackerTypeOK
    <3>1. idleAge \in Zero..Grace
      BY GraceAssumption DEF Init, Zero
    <3>2. active = 0 /\ holds = 0 /\ armed = FALSE
      BY DEF Init
    <3>3. QED
      BY <3>1, <3>2 DEF TrackerTypeOK
  <2>2. HandlersTypeOK
    BY DEF Init, HandlersTypeOK
  <2>3. WaiterTypeOK
    <3>1. timer \in NoTimer..Grace
      BY GraceAssumption DEF Init, NoTimer
    <3>2. changed \in BOOLEAN /\ waiter \in {"checking", "off"}
      BY DEF Init
    <3>3. QED
      BY <3>1, <3>2 DEF WaiterTypeOK
  <2>4. RunTypeOK
    BY DEF Init, RunTypeOK
  <2>5. QED
    BY <2>1, <2>2, <2>3, <2>4 DEF TypeOK
<1>2. AttachedClients = {} /\ HeldWorkers = {}
  BY DEF Init, AttachedClients, HeldWorkers, Attached, Held, Running, Actors, Workers
<1>3. CountsAreExact
  BY <1>2, FS_EmptySet DEF Init, CountsAreExact
<1>4. ShuttingIsDone /\ OutcomeIsFinal /\ OnlyARequestDelaysTheStop
  BY DEF Init, ShuttingIsDone, OutcomeIsFinal, OnlyARequestDelaysTheStop
<1>5. NoLostWakeUp
  BY DEF Init, NoLostWakeUp
<1>6. QED
  BY <1>1, <1>3, <1>4, <1>5 DEF Inv

\* What the handlers do to the tracker.
LEMMA HandlersKeepTypes ==
    ASSUME TypeOK, Handlers
    PROVE  TypeOK'
<1>1. ASSUME NEW a \in Actors,
             \/ a \in Clients /\ (Join(a) \/ Leave(a))
             \/ a \in Workers /\ (Hold(a) \/ Release(a))
      PROVE  TypeOK'
  <2>1. TrackerTypeOK'
    <3>1. TrackerTypeOK
      BY DEF TypeOK
    <3>2. /\ active' \in {active, active + 1, OneLess(active)}
          /\ holds' \in {holds, holds + 1, OneLess(holds)}
      BY <1>1 DEF Join, Leave, Hold, Release
    <3>3. idleAge' \in {idleAge, 0, Zero} /\ armed' \in {armed, TRUE}
      BY <1>1 DEF Join, Leave, Hold, Release
    <3>4. active' \in Nat /\ holds' \in Nat
      BY <3>1, <3>2 DEF TrackerTypeOK, OneLess
    <3>5. idleAge' \in Zero..Grace
      BY <3>1, <3>3, GraceAssumption DEF TrackerTypeOK, Zero
    <3>6. armed' \in BOOLEAN
      BY <3>1, <3>3 DEF TrackerTypeOK
    <3>7. QED
      BY <3>4, <3>5, <3>6 DEF TrackerTypeOK
  <2>2. HandlersTypeOK'
    BY <1>1 DEF TypeOK, HandlersTypeOK, Join, Leave, Hold, Release, Running
  <2>3. WaiterTypeOK' /\ RunTypeOK'
    BY <1>1 DEF TypeOK, WaiterTypeOK, RunTypeOK, Join, Leave, Hold, Release, run
  <2>4. QED
    BY <2>1, <2>2, <2>3 DEF TypeOK
<1>2. ASSUME NEW a \in Actors, Signalled(a)
      PROVE  TypeOK'
  <2>1. After[pc[a]] \in {"attached", "out", "held"}
    BY <1>2 DEF Signalled, After
  <2>2. HandlersTypeOK'
    BY <1>2, <2>1 DEF TypeOK, HandlersTypeOK, Signalled, Running
  <2>3. TrackerTypeOK' /\ RunTypeOK'
    BY <1>2 DEF TypeOK, TrackerTypeOK, RunTypeOK, Signalled, tracker, run
  <2>4. WaiterTypeOK'
    BY <1>2 DEF TypeOK, WaiterTypeOK, Signalled, Signal
  <2>5. QED
    BY <2>2, <2>3, <2>4 DEF TypeOK
<1>3. ASSUME NEW r \in Requests, Serve(r) \/ Finish(r)
      PROVE  TypeOK'
  <2>1. HandlersTypeOK'
    BY <1>3 DEF TypeOK, HandlersTypeOK, Serve, Finish
  <2>2. TrackerTypeOK' /\ WaiterTypeOK' /\ RunTypeOK'
    BY <1>3 DEF TypeOK, TrackerTypeOK, WaiterTypeOK, RunTypeOK, Serve, Finish, tracker, run
  <2>3. QED
    BY <2>1, <2>2 DEF TypeOK
<1>4. QED
  BY <1>1, <1>2, <1>3 DEF Handlers, Actors

\* The clock stays inside the grace period.
LEMMA TickKeepsTypes ==
    ASSUME TypeOK, Tick
    PROVE  TypeOK'
<1>1. /\ idleAge \in Zero..Grace /\ timer \in NoTimer..Grace
      /\ idleAge' = IF idleAge \in 0..(Grace - 1) THEN idleAge + 1 ELSE idleAge
      /\ timer' = IF timer > 0 THEN timer - 1 ELSE timer
  BY DEF TypeOK, TrackerTypeOK, WaiterTypeOK, Tick
<1>2. idleAge' \in Zero..Grace /\ timer' \in NoTimer..Grace
  BY <1>1, GraceAssumption DEF Zero, NoTimer
<1>3. QED
  BY <1>2 DEF TypeOK, TrackerTypeOK, HandlersTypeOK, WaiterTypeOK, RunTypeOK, Tick, run

\* waitForLastClient arms a timer of at most the grace period.
LEMMA WaiterKeepsTypes ==
    ASSUME TypeOK, Waiter
    PROVE  TypeOK'
<1>1. TrackerTypeOK' /\ HandlersTypeOK' /\ RunTypeOK'
  BY DEF TypeOK, TrackerTypeOK, HandlersTypeOK, RunTypeOK, Waiter, WaiterChecks, WaiterDecides,
         WaiterReads, WaiterSleeps, WaiterWakes, WaiterQuits, tracker, run
<1>2. changed' \in BOOLEAN
  BY DEF TypeOK, WaiterTypeOK, Waiter, WaiterChecks, WaiterDecides,
         WaiterReads, WaiterSleeps, WaiterWakes, WaiterQuits
<1>3. waiter' \in {"off", "checking", "looking", "reading", "asleep", "gone", "quit"}
  BY DEF Waiter, WaiterChecks, WaiterDecides, WaiterReads, WaiterSleeps, WaiterWakes, WaiterQuits
<1>4. timer' \in NoTimer..Grace
  <2>1. timer \in NoTimer..Grace /\ NoTimer \in NoTimer..Grace
    BY GraceAssumption DEF TypeOK, WaiterTypeOK, NoTimer
  <2>2. CASE WaiterReads
    <3>1. timer' = IF Idle THEN Grace - idleAge ELSE NoTimer
      BY <2>2 DEF WaiterReads, SleepTimer
    <3>2. Idle => Grace - idleAge \in NoTimer..Grace
      BY GraceAssumption DEF TypeOK, TrackerTypeOK, Idle, Zero, NoTimer
    <3>3. QED
      BY <2>1, <3>1, <3>2
  <2>3. CASE ~WaiterReads
    <3>1. timer' \in {timer, NoTimer}
      BY <2>3 DEF Waiter, WaiterChecks, WaiterDecides, WaiterSleeps, WaiterWakes, WaiterQuits
    <3>2. QED
      BY <2>1, <3>1
  <2>4. QED
    BY <2>2, <2>3
<1>5. QED
  BY <1>1, <1>2, <1>3, <1>4 DEF TypeOK, WaiterTypeOK

\* Every step keeps the types.
LEMMA NextTypeOK ==
    ASSUME TypeOK, Next
    PROVE  TypeOK'
<1>1. CASE Interrupt \/ Run \/ ServeFails
  <2>1. TrackerTypeOK' /\ HandlersTypeOK' /\ WaiterTypeOK'
    BY <1>1 DEF TypeOK, TrackerTypeOK, HandlersTypeOK, WaiterTypeOK, Interrupt, Run,
                RunSeesInterrupt, RunSeesLastClientGone, Shutdown, ShutdownCompletes,
                ShutdownTimesOut, ServeFails, tracker
  <2>2. RunTypeOK'
    BY <1>1 DEF TypeOK, RunTypeOK, Interrupt, Run, RunSeesInterrupt, RunSeesLastClientGone,
                StopStreams, Shutdown, ShutdownCompletes, ShutdownTimesOut, ServeFails
  <2>3. QED
    BY <2>1, <2>2 DEF TypeOK
<1>2. QED
  BY <1>1, HandlersKeepTypes, TickKeepsTypes, WaiterKeepsTypes DEF Next

\* Every step keeps the counts exact.
LEMMA NextCounts ==
    ASSUME TypeOK, CountsAreExact, Next
    PROVE  CountsAreExact'
<1>1. CASE Handlers
  BY <1>1, JoinCounts, LeaveCounts, HoldCounts, ReleaseCounts, SignalledCounts, RequestCounts
     DEF Handlers
<1>2. CASE ~Handlers
  <2>1. UNCHANGED <<active, holds, pc>>
    BY <1>2 DEF Next, Tick, Waiter, WaiterChecks, WaiterDecides, WaiterReads, WaiterSleeps,
                WaiterWakes, WaiterQuits, Interrupt, Run, RunSeesInterrupt, RunSeesLastClientGone,
                Shutdown, ShutdownCompletes, ShutdownTimesOut, ServeFails, tracker
  <2>2. QED
    BY <2>1, SameCounts
<1>3. QED
  BY <1>1, <1>2

\* A waiter about to sleep, or asleep, is out of date only with a wake-up due.
LEMMA NextNoLostWakeUp ==
    ASSUME TypeOK, CountsAreExact, NoLostWakeUp, Next
    PROVE  NoLostWakeUp'
<1>1. ASSUME NEW a \in Actors,
             \/ a \in Clients /\ (Join(a) \/ Leave(a))
             \/ a \in Workers /\ (Hold(a) \/ Release(a))
      PROVE  NoLostWakeUp'
  <2>1. pc'[a] \in {"joining", "leaving", "holding", "releasing"}
    BY <1>1 DEF TypeOK, HandlersTypeOK, Join, Leave, Hold, Release, Running
  <2>2. pc'[a] \in DOMAIN After
    BY <2>1 DEF After
  <2>3. QED
    BY <2>2 DEF NoLostWakeUp
<1>2. ASSUME NEW a \in Actors, Signalled(a)
      PROVE  NoLostWakeUp'
  BY <1>2 DEF Signalled, Signal, NoLostWakeUp
<1>3. CASE Tick
  <2>1. SUFFICES ASSUME timer = IF Idle THEN Grace - idleAge ELSE NoTimer
                 PROVE  timer' = IF Idle' THEN Grace - idleAge' ELSE NoTimer
    BY <1>3 DEF NoLostWakeUp, Tick, run
  <2>2. /\ idleAge \in Zero..Grace
        /\ idleAge' = IF idleAge \in 0..(Grace - 1) THEN idleAge + 1 ELSE idleAge
        /\ timer' = IF timer > 0 THEN timer - 1 ELSE timer
    BY <1>3 DEF TypeOK, TrackerTypeOK, Tick
  <2>3. idleAge' = Zero <=> idleAge = Zero
    BY <2>2, GraceAssumption DEF Zero
  <2>4. Idle' <=> Idle
    BY <1>3, <2>3 DEF Idle, Tick
  <2>5. CASE Idle
    <3>1. idleAge # Zero /\ timer = Grace - idleAge
      BY <2>1, <2>5 DEF Idle
    <3>2. timer' = Grace - idleAge'
      BY <2>2, <3>1, GraceAssumption DEF Zero
    <3>3. QED
      BY <2>4, <2>5, <3>2
  <2>6. CASE ~Idle
    <3>1. timer' = NoTimer
      BY <2>1, <2>2, <2>6 DEF NoTimer
    <3>2. QED
      BY <2>4, <2>6, <3>1
  <2>7. QED
    BY <2>5, <2>6
<1>4. CASE WaiterReads
  BY <1>4 DEF WaiterReads, SleepTimer, NoLostWakeUp, Idle, tracker
<1>5. CASE WaiterSleeps
  BY <1>5 DEF WaiterSleeps, NoLostWakeUp, Idle, tracker
<1>6. CASE WaiterChecks \/ WaiterDecides \/ WaiterWakes \/ WaiterQuits
  BY <1>6 DEF WaiterChecks, WaiterDecides, WaiterWakes, WaiterQuits, NoLostWakeUp
<1>7. CASE Interrupt \/ Run \/ ServeFails
  <2>1. UNCHANGED <<tracker, changed, pc, waiter, timer>>
    BY <1>7 DEF Interrupt, Run, RunSeesInterrupt, RunSeesLastClientGone, Shutdown,
                ShutdownCompletes, ShutdownTimesOut, ServeFails
  <2>2. QED
    BY <2>1 DEF NoLostWakeUp, Idle, tracker
<1>8. ASSUME NEW r \in Requests, Serve(r) \/ Finish(r)
      PROVE  NoLostWakeUp'
  <2>1. UNCHANGED <<tracker, changed, waiter, timer>> /\ \A a \in Actors : pc'[a] = pc[a]
    BY <1>8, RequestCounts DEF Serve, Finish
  <2>2. QED
    BY <2>1 DEF NoLostWakeUp, Idle, tracker
<1>9. QED
  BY <1>1, <1>2, <1>3, <1>4, <1>5, <1>6, <1>7, <1>8 DEF Next, Handlers, Waiter, Actors

\* Every step of Run keeps what its outcome says.
LEMMA NextRun ==
    ASSUME TypeOK, ShuttingIsDone, OutcomeIsFinal, OnlyARequestDelaysTheStop, Next
    PROVE  ShuttingIsDone' /\ OutcomeIsFinal' /\ OnlyARequestDelaysTheStop'
<1>1. CASE Handlers \/ Tick \/ Waiter
  <2>1. phase # "stopped" /\ UNCHANGED run
    BY <1>1 DEF Handlers, Tick, Waiter, Join, Leave, Hold, Release, Signalled, Serve, Finish, WaiterChecks,
                WaiterDecides, WaiterReads, WaiterSleeps, WaiterWakes, WaiterQuits
  <2>2. outcome = "none" /\ UNCHANGED <<phase, interrupted, stopServing, outcome>>
    BY <2>1 DEF OutcomeIsFinal, run
  <2>3. QED
    BY <2>2 DEF ShuttingIsDone, ServeDone, OutcomeIsFinal, OnlyARequestDelaysTheStop
<1>2. CASE ShutdownTimesOut
  <2>1. (\E w \in Writes : pc[w] = "held") \/ (\E r \in Requests : pc[r] = "answering")
    BY <1>2 DEF ShutdownTimesOut, OutlastsTimeout, ShuttingIsDone
  <2>2. QED
    BY <1>2, <2>1 DEF ShutdownTimesOut, ShuttingIsDone, OutcomeIsFinal, OnlyARequestDelaysTheStop
<1>3. CASE ShutdownCompletes \/ ServeFails
  BY <1>3 DEF ShutdownCompletes, ServeFails, ShuttingIsDone, OutcomeIsFinal, OnlyARequestDelaysTheStop
<1>4. CASE Interrupt \/ RunSeesInterrupt \/ RunSeesLastClientGone
  <2>1. outcome = "none" /\ UNCHANGED outcome
    BY <1>4 DEF Interrupt, RunSeesInterrupt, RunSeesLastClientGone, OutcomeIsFinal
  <2>2. QED
    BY <1>4, <2>1 DEF Interrupt, RunSeesInterrupt, RunSeesLastClientGone, StopStreams,
                      ShuttingIsDone, ServeDone, OutcomeIsFinal, OnlyARequestDelaysTheStop
<1>5. QED
  BY <1>1, <1>2, <1>3, <1>4 DEF Next, Run, Shutdown

\* The invariant is inductive.
LEMMA NextInv == Inv /\ [Next]_vars => Inv'
<1>1. ASSUME Inv, Next PROVE Inv'
  BY <1>1, NextTypeOK, NextCounts, NextNoLostWakeUp, NextRun DEF Inv
<1>2. ASSUME Inv, UNCHANGED vars PROVE Inv'
  <2>1. TypeOK'
    BY <1>2 DEF Inv, vars, tracker, run, TypeOK, TrackerTypeOK, HandlersTypeOK, WaiterTypeOK, RunTypeOK
  <2>2. CountsAreExact'
    BY <1>2, SameCounts DEF Inv, vars, tracker
  <2>3. NoLostWakeUp'
    BY <1>2 DEF Inv, vars, tracker, NoLostWakeUp, Idle
  <2>4. ShuttingIsDone' /\ OutcomeIsFinal' /\ OnlyARequestDelaysTheStop'
    BY <1>2 DEF Inv, vars, run, ShuttingIsDone, ServeDone, OutcomeIsFinal, OnlyARequestDelaysTheStop
  <2>5. QED
    BY <2>1, <2>2, <2>3, <2>4 DEF Inv
<1>3. QED
  BY <1>1, <1>2

\* So it holds in every state the host can be in.
LEMMA AlwaysInv == Spec => []Inv
BY InitInv, NextInv, PTL DEF Spec

-----------------------------------------------------------------------------
(* The invariants.                                                         *)

\* Every variable holds a value of its kind, for any number of actors.
THEOREM TypeCorrect == Spec => []TypeOK
BY AlwaysInv, PTL DEF Inv

\* clientTracker's counts are the streams and the holds that exist.
THEOREM CountsAreAlwaysExact == Spec => []CountsAreExact
BY AlwaysInv, PTL DEF Inv

\* waitForLastClient never sleeps on what is no longer so: a dropped or early
\* wake-up costs nothing.
THEOREM NoWakeUpIsLost == Spec => []NoLostWakeUp
BY AlwaysInv, PTL DEF Inv

\* Heartbeat streams and the goroutines of sign-ins never turn a stop into an
\* unclean one: only a request still being answered does.
THEOREM OnlyRequestsDelayTheStop == Spec => []OnlyARequestDelaysTheStop
BY AlwaysInv, PTL DEF Inv

-----------------------------------------------------------------------------
(* HostLifecycle implements LastClientExit.                                *)

Quiet == IF armed /\ Engaged = {} THEN idleAge ELSE 0

\* The host starts where the promise does.
LEMMA InitPromise == Init => Promise!Init
<1> SUFFICES ASSUME Init PROVE Promise!Init
  OBVIOUS
<1>1. Engaged = {}
  BY DEF Init, Engaged, AttachedClients, HeldWorkers, Attached, Held, Running, Actors, Workers
<1>2. QED
  BY <1>1 DEF Init, Promise!Init

\* A step that leaves the tracker, the handlers and the waiter's verdict alone
\* is a stutter.
LEMMA SamePromise ==
    ASSUME CountsAreExact, UNCHANGED <<active, holds, armed, idleAge, pc>>,
           waiter' = "gone" <=> waiter = "gone"
    PROVE  UNCHANGED Promise!vars
<1>1. Engaged' = Engaged
  BY SameCounts
<1>2. QED
  BY <1>1 DEF Promise!vars

\* Every step of the host is a step of the promise or none.
LEMMA NextPromise == Inv /\ Inv' /\ [Next]_vars => [Promise!Next]_Promise!vars
<1> SUFFICES ASSUME Inv, Inv', [Next]_vars PROVE [Promise!Next]_Promise!vars
  OBVIOUS
<1>0. TypeOK /\ CountsAreExact /\ CountsAreExact'
  BY DEF Inv
<1>1. ASSUME NEW c \in Clients, Join(c) PROVE Promise!Engage(c)
  <2>1. Engaged' = Engaged \cup {c} /\ c \notin Engaged
    BY <1>1, <1>0, JoinCounts
  <2>2. armed' = TRUE /\ UNCHANGED waiter
    BY <1>1 DEF Join
  <2>3. QED
    BY <2>1, <2>2 DEF Promise!Engage
<1>2. ASSUME NEW w \in Workers, Hold(w) PROVE Promise!Engage(w)
  <2>1. Engaged' = Engaged \cup {w} /\ w \notin Engaged
    BY <1>2, <1>0, HoldCounts
  <2>2. UNCHANGED <<armed, waiter>> /\ armed \in BOOLEAN /\ w \notin Clients
    BY <1>2, <1>0, ActorsAssumption DEF Hold, Workers, TypeOK, TrackerTypeOK
  <2>3. QED
    BY <2>1, <2>2 DEF Promise!Engage
<1>3. ASSUME NEW c \in Clients, Leave(c) PROVE Promise!Disengage(c)
  <2>1. Engaged' = Engaged \ {c} /\ c \in Engaged
    BY <1>3, <1>0, LeaveCounts
  <2>2. UNCHANGED <<armed, waiter>>
    BY <1>3 DEF Leave
  <2>3. Engaged' = {} => active' = 0
    BY <1>0, EngagedIsFinite, FS_EmptySet DEF CountsAreExact, Engaged
  <2>4. Quiet' = 0
    BY <1>3, <2>3 DEF Leave, Quiet
  <2>5. QED
    BY <2>1, <2>2, <2>4 DEF Promise!Disengage, Quiet
<1>4. ASSUME NEW w \in Workers, Release(w) PROVE Promise!Disengage(w)
  <2>1. Engaged' = Engaged \ {w} /\ w \in Engaged
    BY <1>4, <1>0, ReleaseCounts
  <2>2. UNCHANGED <<armed, waiter>>
    BY <1>4 DEF Release
  <2>3. Engaged' = {} => active' = 0 /\ holds' = 0
    BY <1>0, EngagedIsFinite, FS_EmptySet DEF CountsAreExact, Engaged
  <2>4. Quiet' = 0
    BY <1>4, <2>3 DEF Release, Quiet
  <2>5. QED
    BY <2>1, <2>2, <2>4 DEF Promise!Disengage, Quiet
<1>5. ASSUME NEW a \in Actors, Signalled(a) PROVE UNCHANGED Promise!vars
  <2>1. Engaged' = Engaged /\ UNCHANGED <<armed, idleAge, waiter>>
    BY <1>5, <1>0, SignalledCounts DEF Signalled, tracker
  <2>2. QED
    BY <2>1 DEF Promise!vars
<1>6. CASE Tick
  <2>1. Engaged' = Engaged /\ UNCHANGED <<armed, waiter>>
    BY <1>6, <1>0, SameCounts DEF Tick
  <2>2. idleAge' = IF idleAge \in 0..(Grace - 1) THEN idleAge + 1 ELSE idleAge
    BY <1>6 DEF Tick
  <2>3. CASE armed /\ Engaged = {} /\ idleAge \in 0..(Grace - 1)
    <3>1. idleAge < Grace /\ idleAge' = idleAge + 1
      BY <2>2, <2>3, GraceAssumption
    <3>2. Promise!Tick
      BY <2>1, <2>3, <3>1 DEF Promise!Tick
    <3>3. QED
      BY <3>2 DEF Promise!Next
  <2>4. CASE armed /\ Engaged = {} /\ idleAge \notin 0..(Grace - 1)
    <3>1. idleAge' = idleAge
      BY <2>2, <2>4
    <3>2. QED
      BY <2>1, <3>1 DEF Promise!vars
  <2>5. CASE ~(armed /\ Engaged = {})
    BY <2>1, <2>5 DEF Promise!vars
  <2>6. QED
    BY <2>3, <2>4, <2>5
<1>7. CASE WaiterDecides
  <2>1. /\ armed /\ active = 0 /\ holds = 0 /\ idleAge >= Grace
        /\ waiter' = "gone" /\ UNCHANGED <<tracker, pc>>
    BY <1>7 DEF WaiterDecides, Enough, Idle
  <2>2. Engaged = {} /\ Engaged' = Engaged
    BY <2>1, <1>0, NobodyEngaged, SameCounts DEF tracker
  <2>3. idleAge = Grace
    BY <2>1, <1>0, GraceAssumption DEF TypeOK, TrackerTypeOK, Zero
  <2>4. Promise!Conclude
    BY <2>1, <2>2, <2>3 DEF Promise!Conclude, tracker
  <2>5. QED
    BY <2>4 DEF Promise!Next
<1>8. CASE WaiterChecks \/ WaiterReads \/ WaiterSleeps \/ WaiterWakes \/ WaiterQuits
  <2>1. UNCHANGED <<tracker, pc>> /\ waiter # "gone" /\ waiter' # "gone"
    BY <1>8 DEF WaiterChecks, WaiterReads, WaiterSleeps, WaiterWakes, WaiterQuits
  <2>2. QED
    BY <2>1, <1>0, SamePromise DEF tracker
<1>9. CASE Interrupt \/ Run \/ ServeFails
  <2>1. UNCHANGED <<tracker, pc, waiter>>
    BY <1>9 DEF Interrupt, Run, RunSeesInterrupt, RunSeesLastClientGone, Shutdown,
                ShutdownCompletes, ShutdownTimesOut, ServeFails
  <2>2. QED
    BY <2>1, <1>0, SamePromise DEF tracker
<1>10. CASE UNCHANGED vars
  BY <1>10, <1>0, SamePromise DEF vars, tracker
<1>11. ASSUME NEW r \in Requests, Serve(r) \/ Finish(r) PROVE UNCHANGED Promise!vars
  <2>1. Engaged' = Engaged /\ UNCHANGED <<armed, idleAge, waiter>>
    BY <1>11, <1>0, RequestCounts DEF Serve, Finish, tracker
  <2>2. QED
    BY <2>1 DEF Promise!vars
<1>12. QED
  BY <1>1, <1>2, <1>3, <1>4, <1>5, <1>6, <1>7, <1>8, <1>9, <1>10, <1>11
     DEF Next, Handlers, Waiter, Promise!Next, Actors

\* The host concludes that the user has finished only after a window has been
\* open and then nothing was attached or held for a whole grace period
\* without interruption: waitForLastClient and the tracker, with their
\* dropped wake-ups and delayed signals, do what LastClientExit says.
THEOREM ImplementsLastClientExit == Spec => KeepsPromise
BY InitPromise, AlwaysInv, NextPromise, PTL DEF Spec, KeepsPromise, Promise!Spec

=============================================================================
