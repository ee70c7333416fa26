------------------------- MODULE ShutdownGateProofs --------------------------
(***************************************************************************)
(* The safety of the shutdown gate for any number of guards, drains and    *)
(* stop_now() calls.                                                       *)
(***************************************************************************)
EXTENDS ShutdownGate, FiniteSetTheorems, TLAPS

USE DEF None, Terminal, Phases

\* The inductive invariant: what the counter counts, who answers for a draining
\* gate, and what a cancelled token and a reported success imply.
GateInv ==
    /\ TypeOK
    /\ ActiveCountsGuards
    /\ GracefulMeansIdle
    /\ DrainIsOwned
    /\ StopIsDecided
    /\ SuccessIsTrue
    /\ SignalAfterDecision

------------------------------------------------------------------------------
\* The guards that are held form a finite set.
LEMMA HeldFinite == IsFiniteSet(Held)
  BY GateAssumption, FS_Subset DEF Held

\* Taking one free guard makes the set of held guards one larger.
LEMMA HeldGrows ==
  ASSUME TypeOK, NEW g \in Guards, guard[g] = "free",
         guard' = [guard EXCEPT ![g] = "held"]
  PROVE  Cardinality(Held') = Cardinality(Held) + 1
  <1>1. Held' = Held \cup {g} /\ g \notin Held
    BY DEF TypeOK, Held
  <1>2. QED
    BY <1>1, HeldFinite, FS_AddElement

\* Dropping one held guard makes it one smaller.
LEMMA HeldShrinks ==
  ASSUME TypeOK, NEW g \in Guards, guard[g] = "held",
         NEW s \in {"free", "signal"}, guard' = [guard EXCEPT ![g] = s]
  PROVE  /\ Held' = Held \ {g}
         /\ Cardinality(Held') = Cardinality(Held) - 1
  <1>1. Held' = Held \ {g} /\ g \in Held
    BY DEF TypeOK, Held
  <1>2. QED
    BY <1>1, HeldFinite, FS_RemoveElement

\* The size of the set of held guards tells whether it is empty.
LEMMA HeldEmpty == Cardinality(Held) = 0 <=> Held = {}
  BY HeldFinite, FS_EmptySet

\* The set of held guards depends on the guards alone.
LEMMA HeldStays == guard' = guard => Held' = Held
  BY DEF Held

------------------------------------------------------------------------------
\* Every step keeps the counter in the range of its machine word and every call
\* in one of its states.
LEMMA TypeStep ==
  ASSUME TypeOK, [Next]_vars
  PROVE  TypeOK'
  <1> USE GateAssumption DEF TypeOK, DrainStates, MoveDrain, Return
  <1>1. ASSUME NEW g \in Guards, TryEnter(g)
        PROVE  TypeOK'
    BY <1>1 DEF TryEnter, Admit
  <1>2. ASSUME NEW g \in Guards, Release(g)
        PROVE  TypeOK'
    <2>1. active' \in 0..MaxActive
      BY <1>2 DEF Release
    <2>2. QED
      BY <1>2, <2>1 DEF Release
  <1>3. ASSUME NEW g \in Guards, SignalRelease(g)
        PROVE  TypeOK'
    BY <1>3 DEF SignalRelease
  <1>4. ASSUME NEW d \in Drainers, BeginDrain(d)
        PROVE  TypeOK'
    BY <1>4 DEF BeginDrain
  <1>5. ASSUME NEW d \in Drainers, DropDrain(d)
        PROVE  TypeOK'
    BY <1>5 DEF DropDrain
  <1>6. ASSUME NEW d \in Drainers, SignalDrain(d) \/ Wake(d) \/ ReadOutcome(d)
        PROVE  TypeOK'
    BY <1>6 DEF SignalDrain, Wake, ReadOutcome
  <1>7. ASSUME NEW d \in Drainers, Elapse(d) \/ ForceDrain(d) \/ SignalForce(d)
        PROVE  TypeOK'
    BY <1>7 DEF Elapse, ForceDrain, SignalForce, ForcePhase
  <1>8. ASSUME NEW s \in Stoppers, StopNow(s) \/ SignalStop(s)
        PROVE  TypeOK'
    BY <1>8 DEF StopNow, SignalStop, FinishStop, ForcePhase
  <1>9. CASE DropHandle \/ LastOwnerDrop
    BY <1>9 DEF DropHandle, LastOwnerDrop
  <1>10. CASE UNCHANGED vars
    BY <1>10 DEF vars
  <1>11. QED
    BY <1>1, <1>2, <1>3, <1>4, <1>5, <1>6, <1>7, <1>8, <1>9, <1>10
    DEF Next, ContinueDrain

\* The initial gate is accepting, empty and typed.
LEMMA TypeInit == Init => TypeOK
  <1>1. Init => active \in 0..MaxActive
    BY GateAssumption DEF Init
  <1>2. Init => /\ guard \in [Guards -> {"free", "held", "signal"}]
                /\ drain \in [Drainers -> DrainStates]
                /\ outcome \in [Drainers -> Terminal \cup {None}]
                /\ stopper \in [Stoppers -> {"idle", "signal", "done"}]
    BY DEF Init, DrainStates
  <1>3. QED
    BY <1>1, <1>2 DEF Init, TypeOK

\* The type invariant of the gate.
THEOREM TypeCorrect == Spec => []TypeOK
  BY TypeInit, TypeStep, PTL DEF Spec

------------------------------------------------------------------------------
\* Every step keeps the counter in agreement with the guards that are held.
LEMMA CountStep ==
  ASSUME GateInv, TypeOK', [Next]_vars
  PROVE  ActiveCountsGuards'
  <1> USE DEF GateInv, ActiveCountsGuards
  <1>1. ASSUME NEW g \in Guards, TryEnter(g)
        PROVE  ActiveCountsGuards'
    BY <1>1, HeldGrows DEF TryEnter, Admit
  <1>2. ASSUME NEW g \in Guards, Release(g)
        PROVE  ActiveCountsGuards'
    <2>1. \E s \in {"free", "signal"} : guard' = [guard EXCEPT ![g] = s]
      BY <1>2 DEF Release
    <2>2. Cardinality(Held') = Cardinality(Held) - 1
      BY <1>2, <2>1, HeldShrinks DEF Release
    <2>3. active > 0
      <3>1. Held # {}
        BY <1>2 DEF Release, Held
      <3>2. QED
        BY <3>1, HeldEmpty DEF TypeOK
    <2>4. QED
      BY <1>2, <2>2, <2>3 DEF Release
  <1>3. ASSUME NEW g \in Guards, SignalRelease(g)
        PROVE  ActiveCountsGuards'
    <2>1. Held' = Held
      BY <1>3 DEF SignalRelease, Held, TypeOK
    <2>2. QED
      BY <1>3, <2>1 DEF SignalRelease
  <1>4. CASE UNCHANGED <<active, guard>>
    BY <1>4, HeldStays
  <1>5. QED
    BY <1>1, <1>2, <1>3, <1>4
    DEF Next, vars, ContinueDrain, BeginDrain, DropDrain, SignalDrain, Wake,
        ReadOutcome, Elapse, ForceDrain, SignalForce, StopNow, SignalStop,
        FinishStop, DropHandle, LastOwnerDrop

------------------------------------------------------------------------------
\* The decisions are consistent: once graceful, nobody holds a guard; while
\* draining, some call answers for the drain; the token is cancelled and
\* success reported only for a decided outcome.
Decisions ==
    /\ GracefulMeansIdle
    /\ DrainIsOwned
    /\ StopIsDecided
    /\ SuccessIsTrue
    /\ SignalAfterDecision

\* Every step keeps them.
LEMMA DecisionStep ==
  ASSUME GateInv, TypeOK', ActiveCountsGuards', [Next]_vars
  PROVE  Decisions'
  <1> USE DEF GateInv, Decisions, TypeOK, GracefulMeansIdle, DrainIsOwned,
              StopIsDecided, SuccessIsTrue, SignalAfterDecision, Owned, MoveDrain, Return
  <1>0. /\ active = 0 <=> Held = {}
        /\ active' = 0 <=> Held' = {}
    <2>1. IsFiniteSet(Held')
      BY GateAssumption, FS_Subset DEF Held
    <2>2. Cardinality(Held') = 0 <=> Held' = {}
      BY <2>1, FS_EmptySet
    <2>3. QED
      BY <2>2, HeldEmpty DEF ActiveCountsGuards
  <1>1. ASSUME NEW g \in Guards, TryEnter(g)
        PROVE  Decisions'
    BY <1>1 DEF TryEnter, Admit
  <1>2. ASSUME NEW g \in Guards, Release(g)
        PROVE  Decisions'
    <2>1. g \in Held
      BY <1>2 DEF Release, Held
    <2>2. QED
      BY <1>0, <1>2, <2>1 DEF Release, DrainStates
  <1>3. ASSUME NEW g \in Guards, SignalRelease(g)
        PROVE  Decisions'
    <2>1. Held' = Held
      BY <1>3 DEF SignalRelease, Held
    <2>2. QED
      BY <1>3, <2>1 DEF SignalRelease
  <1>4. ASSUME NEW d \in Drainers, BeginDrain(d)
        PROVE  Decisions'
    BY <1>0, <1>4, HeldStays DEF BeginDrain, DrainStates
  <1>5. ASSUME NEW d \in Drainers, DropDrain(d) \/ Elapse(d) \/ Wake(d)
        PROVE  Decisions'
    BY <1>5, HeldStays DEF DropDrain, Elapse, Wake, DrainStates
  <1>6. ASSUME NEW d \in Drainers, SignalDrain(d) \/ ReadOutcome(d)
        PROVE  Decisions'
    BY <1>6, HeldStays DEF SignalDrain, ReadOutcome, DrainStates
  <1>7. ASSUME NEW d \in Drainers, ForceDrain(d) \/ SignalForce(d)
        PROVE  Decisions'
    <2>1. CASE ForceDrain(d)
      BY <2>1, HeldStays DEF ForceDrain, ForcePhase, DrainStates
    <2>2. CASE SignalForce(d)
      BY <2>2, HeldStays DEF SignalForce, DrainStates
    <2>3. QED
      BY <1>7, <2>1, <2>2
  <1>8. ASSUME NEW s \in Stoppers, StopNow(s) \/ SignalStop(s)
        PROVE  Decisions'
    <2>1. CASE StopNow(s)
      BY <2>1, HeldStays DEF StopNow, ForcePhase
    <2>2. CASE SignalStop(s)
      BY <2>2, HeldStays DEF SignalStop, FinishStop
    <2>3. QED
      BY <1>8, <2>1, <2>2
  <1>9. CASE DropHandle \/ LastOwnerDrop
    BY <1>9, HeldStays DEF DropHandle, LastOwnerDrop
  <1>10. CASE UNCHANGED vars
    BY <1>10, HeldStays DEF vars
  <1>11. QED
    BY <1>1, <1>2, <1>3, <1>4, <1>5, <1>6, <1>7, <1>8, <1>9, <1>10
    DEF Next, ContinueDrain

------------------------------------------------------------------------------
\* Initially nothing is held and nothing is decided.
LEMMA InitInv == Init => GateInv
  <1>1. Init => TypeOK
    BY TypeInit
  <1>2. Init => Held = {} /\ ActiveCountsGuards
    BY FS_EmptySet DEF Init, Held, ActiveCountsGuards
  <1>3. QED
    BY <1>1, <1>2
    DEF Init, GateInv, GracefulMeansIdle, DrainIsOwned, StopIsDecided,
        SignalAfterDecision, SuccessIsTrue

\* The invariant is inductive.
LEMMA GateInvStep == GateInv /\ [Next]_vars => GateInv'
  <1> SUFFICES ASSUME GateInv, [Next]_vars
               PROVE  GateInv'
    OBVIOUS
  <1>1. TypeOK'
    BY TypeStep DEF GateInv
  <1>2. ActiveCountsGuards'
    BY <1>1, CountStep
  <1>3. Decisions'
    BY <1>1, <1>2, DecisionStep
  <1>4. QED
    BY <1>1, <1>2, <1>3 DEF GateInv, Decisions

\* The inductive invariant holds in every reachable state of every instance.
THEOREM GateSafe == Spec => []GateInv
  BY InitInv, GateInvStep, PTL DEF Spec

\* A gracefully stopped gate has no live guard: no admitted operation outlives
\* the drain that vouched for it.
THEOREM GracefulIsIdle == Spec => []GracefulMeansIdle
  <1>1. GateInv => GracefulMeansIdle
    BY DEF GateInv
  <1>2. QED
    BY <1>1, GateSafe, PTL

\* A draining gate always has a drain() call that will end it.
THEOREM NoOrphanedDrain == Spec => []DrainIsOwned
  <1>1. GateInv => DrainIsOwned
    BY DEF GateInv
  <1>2. QED
    BY <1>1, GateSafe, PTL

\* A drain() that returned Graceful was right.
THEOREM SuccessHolds == Spec => []SuccessIsTrue
  <1>1. GateInv => SuccessIsTrue
    BY DEF GateInv
  <1>2. QED
    BY <1>1, GateSafe, PTL

------------------------------------------------------------------------------
\* The gate never reopens, a closed gate only empties, and the first outcome is
\* final.
THEOREM GateIsOneWay == Spec => OneWay
  <1> DEFINE OneWayStep == phase # "accepting" =>
                              /\ phase' # "accepting"
                              /\ active' <= active
                              /\ phase \in Terminal => phase' = phase
  <1>1. TypeOK /\ [Next]_vars => [OneWayStep]_vars
    <2> SUFFICES ASSUME TypeOK, Next
                 PROVE  OneWayStep
      OBVIOUS
    <2> USE DEF TypeOK
    <2>1. ASSUME NEW g \in Guards, TryEnter(g) \/ Release(g) \/ SignalRelease(g)
          PROVE  OneWayStep
      BY <2>1 DEF TryEnter, Admit, Release, SignalRelease
    <2>2. ASSUME NEW d \in Drainers, BeginDrain(d) \/ DropDrain(d) \/ ContinueDrain(d)
          PROVE  OneWayStep
      BY <2>2 DEF BeginDrain, DropDrain, ContinueDrain, SignalDrain, Wake,
                  ReadOutcome, Elapse, ForceDrain, SignalForce, ForcePhase
    <2>3. ASSUME NEW s \in Stoppers, StopNow(s) \/ SignalStop(s)
          PROVE  OneWayStep
      BY <2>3 DEF StopNow, SignalStop, FinishStop, ForcePhase
    <2>4. CASE DropHandle \/ LastOwnerDrop
      BY <2>4 DEF DropHandle, LastOwnerDrop
    <2>5. QED
      BY <2>1, <2>2, <2>3, <2>4 DEF Next
  <1>2. QED
    BY <1>1, TypeCorrect, PTL DEF Spec, OneWay
==============================================================================
