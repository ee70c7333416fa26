------------------------ MODULE ServerShutdownProofs -------------------------
(***************************************************************************)
(* Readiness during a shutdown, its outcome and its bound, for any number  *)
(* of listeners, requests, probes and warm_up() calls, and any timeout.    *)
(* What the outcome rests on is proved of the gate alone, and holds here   *)
(* because the listeners and the requests use the gate by its operations.  *)
(***************************************************************************)
EXTENDS ServerShutdown, FiniteSetTheorems, TLAPS

\* The gate of the listeners, with what is proved of every gate.
GateProofs == INSTANCE ShutdownGateProofs WITH
    Guards <- Connections,
    Drainers <- Listeners,
    Untimed <- {},
    Stoppers <- Listeners,
    MaxActive <- Cardinality(Connections) + 1

Refreshers == Probes \cup Warmers

\* The process state left "running" before the listener comes to the token.
DrainingFirst ==
    /\ pc \in [Listeners -> PCs]
    /\ \A l \in Listeners : pc[l] \in {"token1", "token2"} => process # "running"
    /\ shutdown => process # "running"

\* No flag, and no copy of it on the way to the registry, is ahead of the proof.
Earned ==
    /\ DOMAIN saw = Refreshers
    /\ warmed => proven
    /\ component => proven
    /\ \A r \in Refreshers : saw[r] => proven

ReadyInv == DrainingFirst /\ Earned

------------------------------------------------------------------------------
\* A listener that moves to a place other than the token, and leaves the process
\* state and the token alone or ends the process state, keeps the order.
LEMMA MoveKeepsOrder ==
  ASSUME DrainingFirst, NEW l \in Listeners,
         NEW to \in PCs \ {"token1", "token2"}, pc' = [pc EXCEPT ![l] = to],
         process' = process \/ process' \in {"draining", "stopped"},
         shutdown' = shutdown
  PROVE  DrainingFirst'
  BY DEF DrainingFirst

\* Every step of the listeners, and of what surrounds them, keeps the order.
LEMMA OrderStep ==
  ASSUME DrainingFirst, [Next]_vars
  PROVE  DrainingFirst'
  <1> USE DEF health, PCs, First, Second, Returned
  <1>1. ASSUME NEW l \in Listeners,
               ServerError(l) \/ ServerDone(l) \/ SeeStop(l) \/ Eof(l) \/ CloseTimeout(l)
                 \/ CloseForced(l) \/ ClearWarmed(l) \/ SetStopped(l)
        PROVE  DrainingFirst'
    BY <1>1, MoveKeepsOrder
    DEF ServerError, ServerDone, SeeStop, Eof, CloseTimeout, CloseForced, ClearWarmed,
        SetStopped, Go
  <1>2. ASSUME NEW l \in Listeners, SetDraining(l)
        PROVE  DrainingFirst'
    BY <1>2 DEF SetDraining, Go, DrainingFirst
  <1>3. ASSUME NEW l \in Listeners, CancelRequests(l)
        PROVE  DrainingFirst'
    BY <1>3 DEF CancelRequests, Go, DrainingFirst
  <1>4. ASSUME NEW l \in Listeners, Drain(l) \/ DropFuture(l) \/ DropDrain(l)
        PROVE  DrainingFirst'
    BY <1>4 DEF Drain, DropFuture, DropDrain, DrainingFirst
  <1>5. CASE UNCHANGED <<process, shutdown, pc>>
    BY <1>5 DEF DrainingFirst
  <1>6. ASSUME NEW r, Probe(r) \/ WarmUp(r)
        PROVE  UNCHANGED <<process, shutdown, pc>>
    BY <1>6 DEF Probe, WarmUp, LoadReady, StoreReady, StoreWarmed, Warm, Move
  <1>7. QED
    BY <1>1, <1>2, <1>3, <1>4, <1>5, <1>6
    DEF Next, Continue, Request, Signal, Tick, vars

\* Every step of the probes and of warm_up keeps the proof ahead of the flags, and
\* the shutdown only lowers them.
LEMMA EarnedStep ==
  ASSUME Earned, [Next]_vars
  PROVE  Earned'
  <1> USE DEF Earned, health, probes
  <1>1. ASSUME NEW r \in Refreshers, NEW from, NEW to, LoadReady(r, from, to)
        PROVE  Earned'
    BY <1>1 DEF LoadReady, Move
  <1>2. ASSUME NEW r \in Refreshers, NEW from, NEW to, StoreReady(r, from, to)
        PROVE  Earned'
    BY <1>2 DEF StoreReady, Move
  <1>3. ASSUME NEW r \in Refreshers, NEW flag \in BOOLEAN, NEW from, NEW to,
               StoreWarmed(r, flag, from, to)
        PROVE  Earned'
    BY <1>3 DEF StoreWarmed, Move
  <1>4. ASSUME NEW r \in Refreshers, Warm(r)
        PROVE  Earned'
    BY <1>4 DEF Warm
  <1>5. ASSUME NEW r \in Probes, Probe(r)
        PROVE  Earned'
    BY <1>1, <1>2, <1>5 DEF Probe, Refreshers
  <1>6. ASSUME NEW r \in Warmers, WarmUp(r)
        PROVE  Earned'
    BY <1>1, <1>2, <1>3, <1>4, <1>6 DEF WarmUp, Refreshers
  <1>7. ASSUME NEW l \in Listeners, ClearWarmed(l)
        PROVE  Earned'
    BY <1>7 DEF ClearWarmed
  <1>8. CASE UNCHANGED <<warmed, probes>>
    BY <1>8
  <1>9. ASSUME NEW l \in Listeners, ~ClearWarmed(l), Continue(l) \/ ServerError(l) \/ Eof(l)
        PROVE  UNCHANGED <<warmed, probes>>
    BY <1>9
    DEF Continue, ServerError, ServerDone, SeeStop, Eof, CloseTimeout, CloseForced,
        SetDraining, CancelRequests, Drain, SetStopped, DropFuture, DropDrain
  <1>10. QED
    BY <1>5, <1>6, <1>7, <1>8, <1>9 DEF Next, Request, Signal, Tick, vars

\* Nothing is claimed initially that the backend did not earn.
LEMMA InitReady == Init => ReadyInv
  <1> SUFFICES ASSUME Init
               PROVE  ReadyInv
    OBVIOUS
  <1>1. DrainingFirst
    BY DEF Init, DrainingFirst, PCs, Returned
  <1>2. Earned
    BY DEF Init, Earned, Refreshers
  <1>3. QED
    BY <1>1, <1>2 DEF ReadyInv

\* The invariant holds in every reachable state of every instance.
THEOREM ReadinessSafe == Spec => []ReadyInv
  <1>1. ReadyInv /\ [Next]_vars => ReadyInv'
    BY OrderStep, EarnedStep DEF ReadyInv
  <1>2. QED
    BY InitReady, <1>1, PTL DEF Spec

\* "Ready" is answered only before any request is cancelled, and only of a backend
\* that was proven ready, however probes, warm_up() and the shutdown interleave.
THEOREM ReadyIsTrue == Spec => []ReadyMeansServing
  <1>1. ReadyInv => ReadyMeansServing
    BY DEF ReadyInv, DrainingFirst, Earned, ReadyMeansServing, Ready
  <1>2. QED
    BY <1>1, ReadinessSafe, PTL

------------------------------------------------------------------------------
\* The gate's assumption holds of the listeners' gate, whose counter never reaches its
\* maximum.
LEMMA GateAssumed == GateProofs!GateAssumption
  <1>1. IsFiniteSet(Listeners)
    BY ShutdownAssumption, FS_Union DEF Listeners
  <1>2. IsFiniteSet(Connections)
    BY <1>1, ShutdownAssumption, FS_Product DEF Connections
  <1>3. Cardinality(Connections) + 1 \in Nat \ {0}
    BY <1>2, FS_CardinalityType
  <1>4. QED
    BY <1>2, <1>3 DEF GateProofs!GateAssumption, GateProofs!IsFiniteSet, IsFiniteSet

\* A step of the process that concerns the gate is one of the gate's operations.
LEMMA GateStepOrStutter ==
  ASSUME [Next]_vars
  PROVE  Gate!Next \/ UNCHANGED gate
  <1>1. ASSUME NEW l \in Listeners, CloseTimeout(l) \/ CloseForced(l)
        PROVE  Gate!Next
    BY <1>1 DEF CloseTimeout, CloseForced, Gate!Next
  <1>2. ASSUME NEW l \in Listeners, Drain(l) \/ DropDrain(l)
        PROVE  Gate!Next
    BY <1>2 DEF Drain, DropDrain, Gate!Next, Gate!ContinueDrain
  <1>3. ASSUME NEW l \in Listeners, DropFuture(l)
        PROVE  Gate!Next \/ UNCHANGED gate
    BY <1>3 DEF DropFuture, Gate!Next
  <1>4. ASSUME NEW c \in Connections, Request(c)
        PROVE  Gate!Next
    BY <1>4 DEF Request, Gate!Next
  <1>5. ASSUME NEW l \in Listeners,
               ServerDone(l) \/ SeeStop(l) \/ ClearWarmed(l) \/ SetDraining(l)
                 \/ CancelRequests(l) \/ SetStopped(l) \/ ServerError(l) \/ Eof(l)
        PROVE  UNCHANGED gate
    BY <1>5 DEF ServerDone, SeeStop, ClearWarmed, SetDraining, CancelRequests, SetStopped,
                ServerError, Eof
  <1>6. ASSUME NEW r, Probe(r) \/ WarmUp(r)
        PROVE  UNCHANGED gate
    BY <1>6 DEF Probe, WarmUp, LoadReady, StoreReady, StoreWarmed, Warm, Move
  <1>7. CASE Signal \/ Tick \/ UNCHANGED vars
    BY <1>7 DEF Signal, Tick, vars
  <1>8. QED
    BY <1>1, <1>2, <1>3, <1>4, <1>5, <1>6, <1>7 DEF Next, Continue

\* The gate that the process uses and the gate of the proofs are the same.
LEMMA SameGate ==
  /\ Gate!Init => GateProofs!Init
  /\ Gate!Next => GateProofs!Next
  <1>1. Gate!Init => GateProofs!Init
    BY DEF Gate!Init, GateProofs!Init, Gate!None, GateProofs!None
  <1>2. ASSUME NEW c \in Connections,
               Gate!TryEnter(c) \/ Gate!Release(c) \/ Gate!SignalRelease(c)
        PROVE  GateProofs!Next
    BY <1>2
    DEF Gate!TryEnter, Gate!Admit, Gate!Release, Gate!SignalRelease, GateProofs!Next,
        GateProofs!TryEnter, GateProofs!Admit, GateProofs!Release, GateProofs!SignalRelease
  <1>3. ASSUME NEW l \in Listeners, Gate!BeginDrain(l) \/ Gate!DropDrain(l)
        PROVE  GateProofs!Next
    BY <1>3
    DEF Gate!BeginDrain, Gate!DropDrain, Gate!MoveDrain, Gate!Return, Gate!Terminal,
        GateProofs!Next, GateProofs!BeginDrain, GateProofs!DropDrain, GateProofs!MoveDrain,
        GateProofs!Return, GateProofs!Terminal
  <1>4. ASSUME NEW l \in Listeners, Gate!ContinueDrain(l)
        PROVE  GateProofs!Next
    <2>1. GateProofs!ContinueDrain(l)
      BY <1>4
      DEF Gate!ContinueDrain, Gate!SignalDrain, Gate!Wake, Gate!ReadOutcome, Gate!Elapse,
          Gate!ForceDrain, Gate!SignalForce, Gate!ForcePhase, Gate!MoveDrain, Gate!Return,
          Gate!Terminal, GateProofs!ContinueDrain, GateProofs!SignalDrain, GateProofs!Wake,
          GateProofs!ReadOutcome, GateProofs!Elapse, GateProofs!ForceDrain,
          GateProofs!SignalForce, GateProofs!ForcePhase, GateProofs!MoveDrain,
          GateProofs!Return, GateProofs!Terminal
    <2>2. QED
      BY <2>1 DEF GateProofs!Next
  <1>5. ASSUME NEW l \in Listeners, Gate!StopNow(l) \/ Gate!SignalStop(l)
        PROVE  GateProofs!Next
    BY <1>5
    DEF Gate!StopNow, Gate!SignalStop, Gate!FinishStop, Gate!ForcePhase, Gate!Terminal,
        GateProofs!Next, GateProofs!StopNow, GateProofs!SignalStop, GateProofs!FinishStop,
        GateProofs!ForcePhase, GateProofs!Terminal
  <1>6. ASSUME Gate!DropHandle \/ Gate!LastOwnerDrop
        PROVE  GateProofs!Next
    <2>1. Gate!DropHandle => GateProofs!DropHandle
      BY Zenon DEF Gate!DropHandle, GateProofs!DropHandle
    <2>2. Gate!Owned <=> GateProofs!Owned
      BY Zenon DEF Gate!Owned, GateProofs!Owned
    <2>3. Gate!LastOwnerDrop => GateProofs!LastOwnerDrop
      BY <2>2 DEF Gate!LastOwnerDrop, GateProofs!LastOwnerDrop
    <2>4. QED
      BY <1>6, <2>1, <2>3 DEF GateProofs!Next
  <1>7. QED
    BY <1>1, <1>2, <1>3, <1>4, <1>5, <1>6 DEF Gate!Next

\* So the gate's inductive invariant holds in the process.
LEMMA GateHolds == Spec => []GateProofs!GateInv
  <1>1. Init => GateProofs!Init
    BY SameGate DEF Init
  <1>2. [Next]_vars => [GateProofs!Next]_(GateProofs!vars)
    BY GateStepOrStutter, SameGate DEF gate, GateProofs!vars
  <1>3. Spec => GateProofs!Spec
    BY <1>1, <1>2, PTL DEF Spec, GateProofs!Spec
  <1>4. GateProofs!Spec => []GateProofs!GateInv
    BY GateAssumed, GateProofs!GateSafe
  <1>5. QED
    BY <1>3, <1>4, PTL

------------------------------------------------------------------------------
\* A drain() is under way where its listener awaits it, and one that was dropped where
\* the listener's future is dropped; a listener that goes on after its drain has an
\* answer, and one that reports success to the network the right one.
DrainPlaces ==
    \A l \in Listeners :
        /\ drain[l] \in {"signal", "waiting", "woken", "elapsed", "forcing"} =>
             pc[l] = "draining"
        /\ drain[l] \in {"dropped", "aborting"} <=> pc[l] = "dropping"
        /\ drain[l] = "done" => pc[l] \in {"stopped", "dropped", "ok", "err"}
        /\ pc[l] = "stopped" => outcome[l] \in {"graceful", "forced"}
        /\ pc[l] = "ok" /\ l \in Network => outcome[l] = "graceful"

\* What the gate's invariant says of the types of the listeners' drains.
DrainTyped ==
    /\ pc \in [Listeners -> PCs]
    /\ phase \in {"accepting", "draining", "graceful", "forced"}
    /\ drain \in [Listeners -> {"idle", "signal", "waiting", "woken", "elapsed", "dropped",
                                "forcing", "aborting", "done"}]
    /\ outcome \in [Listeners -> {"graceful", "forced", "none"}]

\* They hold wherever the two invariants do.
LEMMA DrainTypes ==
  ASSUME ReadyInv, GateProofs!GateInv
  PROVE  DrainTyped
  BY DEF ReadyInv, DrainingFirst, GateProofs!GateInv, GateProofs!TypeOK, GateProofs!DrainStates,
         GateProofs!Terminal, GateProofs!None, GateProofs!Phases, DrainTyped

\* A listener that is at no drain goes to another such place.
LEMMA MoveKeepsPlaces ==
  ASSUME DrainTyped, DrainPlaces, NEW l \in Listeners, NEW to \in PCs,
         pc' = [pc EXCEPT ![l] = to], UNCHANGED <<drain, outcome>>,
         pc[l] \notin {"draining", "dropping", "stopped", "dropped", "ok", "err"},
         to \notin {"dropping", "stopped"}, to = "ok" => l \notin Network
  PROVE  DrainPlaces'
  BY DEF DrainTyped, DrainPlaces

\* Every step keeps the drains at their places.
LEMMA PlacesStep ==
  ASSUME DrainTyped, DrainPlaces, [Next]_vars
  PROVE  DrainPlaces'
  <1> USE DEF PCs, First, Second, Returned
  <1>1. ASSUME NEW l \in Listeners,
               ServerError(l) \/ ServerDone(l) \/ SeeStop(l) \/ ClearWarmed(l)
                 \/ SetDraining(l) \/ CancelRequests(l)
        PROVE  DrainPlaces'
    BY <1>1, MoveKeepsPlaces
    DEF ServerError, ServerDone, SeeStop, ClearWarmed, SetDraining, CancelRequests, Go, gate
  <1>2. ASSUME NEW l \in Listeners, Eof(l)
        PROVE  DrainPlaces'
    BY <1>2, MoveKeepsPlaces, ShutdownAssumption DEF Eof, Go, gate
  <1>3. ASSUME NEW l \in Listeners, CloseTimeout(l) \/ CloseForced(l)
        PROVE  DrainPlaces'
    BY <1>3, MoveKeepsPlaces
    DEF CloseTimeout, CloseForced, Go, Gate!StopNow, Gate!SignalStop, Gate!FinishStop
  <1>4. ASSUME NEW l \in Listeners, Drain(l)
        PROVE  DrainPlaces'
    <2> USE DEF DrainTyped, DrainPlaces, Gate!MoveDrain, Gate!Return, Gate!Terminal
    <2>1. CASE Gate!BeginDrain(l)
      BY <1>4, <2>1 DEF Drain, Gate!BeginDrain
    <2>2. CASE Gate!SignalDrain(l) \/ Gate!Wake(l) \/ Gate!ReadOutcome(l)
      BY <1>4, <2>2 DEF Drain, Gate!SignalDrain, Gate!Wake, Gate!ReadOutcome
    <2>3. CASE Gate!ForceDrain(l) \/ Gate!SignalForce(l) \/ Gate!Elapse(l)
      BY <1>4, <2>3 DEF Drain, Gate!ForceDrain, Gate!SignalForce, Gate!Elapse
    <2>4. QED
      BY <1>4, <2>1, <2>2, <2>3 DEF Drain
  <1>5. ASSUME NEW l \in Listeners, SetStopped(l)
        PROVE  DrainPlaces'
    BY <1>5 DEF SetStopped, Go, DrainTyped, DrainPlaces, gate
  <1>6. ASSUME NEW l \in Listeners, DropFuture(l)
        PROVE  DrainPlaces'
    <2>1. CASE pc[l] = "draining"
      BY <1>6, <2>1 DEF DropFuture, Gate!DropDrain, Gate!MoveDrain, DrainTyped, DrainPlaces
    <2>2. CASE pc[l] # "draining"
      BY <1>6, <2>2 DEF DropFuture, DrainTyped, DrainPlaces, gate
    <2>3. QED
      BY <2>1, <2>2
  <1>7. ASSUME NEW l \in Listeners, DropDrain(l)
        PROVE  DrainPlaces'
    BY <1>7 DEF DropDrain, Gate!ForceDrain, Gate!SignalForce, Gate!MoveDrain, Gate!Return,
                DrainTyped, DrainPlaces
  <1>8. CASE UNCHANGED <<pc, drain, outcome>>
    BY <1>8 DEF DrainPlaces
  <1>9. ASSUME NEW c \in Connections, Request(c)
        PROVE  UNCHANGED <<pc, drain, outcome>>
    BY <1>9 DEF Request, Gate!TryEnter, Gate!Admit, Gate!Release, Gate!SignalRelease
  <1>10. ASSUME NEW r, Probe(r) \/ WarmUp(r)
         PROVE  UNCHANGED <<pc, drain, outcome>>
    BY <1>10 DEF Probe, WarmUp, LoadReady, StoreReady, StoreWarmed, Warm, Move, gate
  <1>11. QED
    BY <1>1, <1>2, <1>3, <1>4, <1>5, <1>6, <1>7, <1>8, <1>9, <1>10
    DEF Next, Continue, Signal, Tick, vars, gate

\* In every reachable state the drains are at their places.
THEOREM DrainsAreWatched == Spec => []DrainPlaces
  <1>1. Init => DrainPlaces
    BY DEF Init, Gate!Init, DrainPlaces
  <1>2. ReadyInv /\ GateProofs!GateInv /\ DrainPlaces /\ [Next]_vars => DrainPlaces'
    BY DrainTypes, PlacesStep
  <1>3. QED
    BY <1>1, <1>2, ReadinessSafe, GateHolds, PTL DEF Spec

\* A network listener that reports success was told so by its drain, and rightly: no
\* request is left inside the gate.  When every listener has returned, none of their
\* drains is under way, although one failed and the others were dropped: the gate has
\* no owner that could still be draining it.
THEOREM OutcomeHolds == Spec => []OutcomeIsFinal
  <1>1. ReadyInv /\ GateProofs!GateInv /\ DrainPlaces => OutcomeIsFinal
    <2> SUFFICES ASSUME ReadyInv, GateProofs!GateInv, DrainPlaces
                 PROVE  OutcomeIsFinal
      OBVIOUS
    <2>1. ASSUME NEW l \in Network, pc[l] = "ok"
          PROVE  phase = "graceful" /\ HeldConnections = {}
      <3>1. outcome[l] = "graceful"
        BY <2>1 DEF DrainPlaces, Listeners
      <3>2. phase = "graceful"
        BY <3>1 DEF GateProofs!GateInv, GateProofs!SuccessIsTrue, Listeners
      <3>3. QED
        BY <3>2 DEF GateProofs!GateInv, GateProofs!GracefulMeansIdle, GateProofs!Held,
                    HeldConnections
    <2>2. ASSUME AllReturned
          PROVE  phase # "draining"
      <3>1. SUFFICES ASSUME phase = "draining"
                     PROVE  FALSE
        OBVIOUS
      <3>2. PICK l \in Listeners : drain[l] \in {"waiting", "elapsed", "dropped"}
        BY <3>1 DEF GateProofs!GateInv, GateProofs!DrainIsOwned
      <3>3. pc[l] \in {"draining", "dropping"}
        BY <3>2 DEF DrainPlaces
      <3>4. QED
        BY <2>2, <3>3 DEF AllReturned, Returned
    <2>3. QED
      BY <2>1, <2>2 DEF OutcomeIsFinal
  <1>2. QED
    BY <1>1, ReadinessSafe, GateHolds, DrainsAreWatched, PTL

------------------------------------------------------------------------------
\* The timer of the transport and that of the drain fire at the same deadline, and time
\* does not pass beyond it: whatever the transport leaves of the budget, the
\* drain gets no more.
InBudget ==
    /\ spent \in [Listeners -> 0..Timeout]
    /\ due = [l \in Listeners |-> Timeout]

\* Every step keeps the deadline.
LEMMA BudgetStep ==
  ASSUME InBudget, [Next]_vars
  PROVE  InBudget'
  <1> USE ShutdownAssumption DEF InBudget
  <1>1. ASSUME NEW l \in Listeners, CancelRequests(l)
        PROVE  InBudget'
    <2>1. RestOfBudget(l) = Timeout
      BY DEF RestOfBudget
    <2>2. QED
      BY <1>1, <2>1 DEF CancelRequests
  <1>2. CASE Tick
    <2>1. due' = due
      BY <1>2 DEF Tick
    <2>2. ASSUME NEW l \in Listeners
          PROVE  spent[l] + (IF pc[l] \in {"closing", "draining"} THEN 1 ELSE 0) \in 0..Timeout
      BY <1>2 DEF Tick
    <2>3. spent' \in [Listeners -> 0..Timeout]
      BY <1>2, <2>2 DEF Tick
    <2>4. QED
      BY <2>1, <2>3
  <1>3. ASSUME NEW l \in Listeners, ~CancelRequests(l), Continue(l) \/ ServerError(l) \/ Eof(l)
        PROVE  UNCHANGED timers
    BY <1>3
    DEF Continue, ServerError, ServerDone, SeeStop, Eof, CloseTimeout, CloseForced, ClearWarmed,
        SetDraining, Drain, SetStopped, DropFuture, DropDrain
  <1>4. ASSUME NEW r, Probe(r) \/ WarmUp(r)
        PROVE  UNCHANGED timers
    BY <1>4 DEF Probe, WarmUp, LoadReady, StoreReady, StoreWarmed, Warm, Move
  <1>5. CASE UNCHANGED timers
    BY <1>5 DEF timers
  <1>6. QED
    BY <1>1, <1>2, <1>3, <1>4, <1>5 DEF Next, Request, Signal, vars

\* The deadline is one in every reachable state.
LEMMA BudgetAlways == Spec => []InBudget
  <1>1. Init => InBudget
    BY ShutdownAssumption DEF Init, InBudget
  <1>2. QED
    BY <1>1, BudgetStep, PTL DEF Spec

\* The shutdown of no listener waits longer than its budget, for any timeout and any
\* number of listeners, although it waits twice.
THEOREM BudgetHolds == Spec => []ShutdownIsBounded
  <1>1. InBudget => ShutdownIsBounded
    BY ShutdownAssumption DEF InBudget, ShutdownIsBounded
  <1>2. QED
    BY <1>1, BudgetAlways, PTL

------------------------------------------------------------------------------
\* The types of what only the probes and the process state hold.
ServerTypes ==
    /\ stop \in BOOLEAN
    /\ warmed \in BOOLEAN
    /\ process \in {"running", "draining", "stopped"}
    /\ shutdown \in BOOLEAN
    /\ component \in BOOLEAN /\ ready \in BOOLEAN /\ proven \in BOOLEAN
    /\ at \in [Probes \cup Warmers -> Places]
    /\ saw \in [Probes \cup Warmers -> BOOLEAN]

\* A step that changes none of them, or one as its action says, keeps them.
LEMMA ServerTypesStep ==
  ASSUME ServerTypes, [Next]_vars
  PROVE  ServerTypes'
  <1> USE DEF health, probes
  <1>1. ASSUME NEW l \in Listeners, Continue(l) \/ ServerError(l) \/ Eof(l)
        PROVE  ServerTypes'
    <2>1. UNCHANGED <<stop, probes>>
      BY <1>1
      DEF Continue, ServerError, ServerDone, SeeStop, Eof, CloseTimeout, CloseForced,
          ClearWarmed, SetDraining, CancelRequests, Drain, SetStopped, DropFuture, DropDrain
    <2>2. /\ warmed' \in {warmed, FALSE} /\ process' \in {process, "draining", "stopped"}
          /\ shutdown' \in {shutdown, TRUE}
      BY <1>1
      DEF Continue, ServerError, ServerDone, SeeStop, Eof, CloseTimeout, CloseForced,
          ClearWarmed, SetDraining, CancelRequests, Drain, SetStopped, DropFuture, DropDrain
    <2>3. QED
      BY <2>1, <2>2 DEF ServerTypes
  <1>2. ASSUME NEW r \in Probes \cup Warmers, NEW from, NEW to \in Places,
               \/ LoadReady(r, from, to) \/ StoreReady(r, from, to)
               \/ StoreWarmed(r, TRUE, from, to) \/ StoreWarmed(r, FALSE, from, to)
        PROVE  ServerTypes'
    BY <1>2 DEF LoadReady, StoreReady, StoreWarmed, Move, ServerTypes
  <1>3. ASSUME NEW w \in Warmers, Warm(w)
        PROVE  ServerTypes'
    BY <1>3 DEF Warm, Move, ServerTypes, Places
  <1>4. ASSUME NEW p \in Probes, Probe(p)
        PROVE  ServerTypes'
    BY <1>2, <1>4 DEF Probe, Places
  <1>5. ASSUME NEW w \in Warmers, WarmUp(w)
        PROVE  ServerTypes'
    BY <1>2, <1>3, <1>5 DEF WarmUp, Places
  <1>6. CASE Signal \/ Tick \/ UNCHANGED vars \/ \E c \in Connections : Request(c)
    BY <1>6 DEF Signal, Tick, Request, vars, ServerTypes
  <1>7. QED
    BY <1>1, <1>4, <1>5, <1>6 DEF Next

\* The types hold, the gate's and the range of the timers included.
THEOREM ServerTyped == Spec => []TypeOK
  <1>1. Init => ServerTypes
    BY DEF Init, ServerTypes, Places
  <1>2. ServerTypes /\ [Next]_vars => ServerTypes'
    BY ServerTypesStep
  <1>3. Spec => []ServerTypes
    BY <1>1, <1>2, PTL DEF Spec
  <1>4. ServerTypes /\ InBudget /\ ReadyInv /\ GateProofs!GateInv => TypeOK
    <2>1. GateProofs!TypeOK => Gate!TypeOK
      BY DEF GateProofs!TypeOK, Gate!TypeOK, GateProofs!Phases, Gate!Phases, GateProofs!Terminal,
         Gate!Terminal, GateProofs!DrainStates, Gate!DrainStates, GateProofs!None, Gate!None
    <2>2. InBudget => spent \in [Listeners -> Nat] /\ due \in [Listeners -> 0..Timeout]
      BY ShutdownAssumption DEF InBudget
    <2>3. QED
      BY <2>1, <2>2 DEF ServerTypes, ReadyInv, DrainingFirst, GateProofs!GateInv, TypeOK
  <1>5. QED
    BY <1>3, <1>4, BudgetAlways, ReadinessSafe, GateHolds, PTL
==============================================================================
