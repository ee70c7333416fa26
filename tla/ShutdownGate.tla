---------------------------- MODULE ShutdownGate -----------------------------
(***************************************************************************)
(* The admission gate and bounded shutdown coordinator of                  *)
(* impossible-server-core.  Its State is protected by a mutex, so every    *)
(* critical section is one step; the stop token is cancelled after the     *)
(* mutex is released, so that is a later step, which the other threads may *)
(* precede.  The token is the latch of module CancellationToken.           *)
(***************************************************************************)
EXTENDS Naturals, FiniteSets

CONSTANTS
    Guards,    \* the WorkGuards that callers may hold, each reusable
    Drainers,  \* calls of drain(timeout)
    Untimed,   \* the drainers whose deadline the clock cannot represent
    Stoppers,  \* calls of stop_now()
    MaxActive  \* usize::MAX, the largest value of the active counter

ASSUME GateAssumption ==
    /\ IsFiniteSet(Guards)
    /\ Untimed \subseteq Drainers
    /\ MaxActive \in Nat \ {0}

None == "none"
Terminal == {"graceful", "forced"}
Phases == {"accepting", "draining"} \cup Terminal

VARIABLES
    phase,    \* State.phase; Stopped(outcome) is written as its outcome
    active,   \* State.active
    stopped,  \* Inner.stopped has been cancelled
    guard,    \* each guard: "free", "held", or "signal" inside its drop
    drain,    \* the progress of each drain() call
    outcome,  \* what each drain() call returned
    stopper,  \* each stop_now(): "idle", "signal" after its section, "done"
    handle    \* the application still holds the gate

vars == <<phase, active, stopped, guard, drain, outcome, stopper, handle>>

DrainStates == {"idle", "signal", "waiting", "woken", "elapsed", "dropped",
                "forcing", "aborting", "done"}

TypeOK ==
    /\ phase \in Phases
    /\ active \in 0..MaxActive
    /\ stopped \in BOOLEAN
    /\ guard \in [Guards -> {"free", "held", "signal"}]
    /\ drain \in [Drainers -> DrainStates]
    /\ outcome \in [Drainers -> Terminal \cup {None}]
    /\ stopper \in [Stoppers -> {"idle", "signal", "done"}]
    /\ handle \in BOOLEAN

Init ==
    /\ phase = "accepting"
    /\ active = 0
    /\ stopped = FALSE
    /\ guard = [g \in Guards |-> "free"]
    /\ drain = [d \in Drainers |-> "idle"]
    /\ outcome = [d \in Drainers |-> None]
    /\ stopper = [s \in Stoppers |-> "idle"]
    /\ handle = TRUE

Held == {g \in Guards : guard[g] = "held"}

\* The clones of the gate that keep Inner alive: the application's own, one in
\* every guard, and those of the calls under way.
Owned ==
    \/ handle
    \/ \E g \in Guards : guard[g] # "free"
    \/ \E d \in Drainers : drain[d] \notin {"idle", "done"}
    \/ \E s \in Stoppers : stopper[s] = "signal"

(***************************************************************************)
(* Admission.                                                              *)
(***************************************************************************)

Admit(g, count) ==
    /\ handle
    /\ guard[g] = "free"
    /\ phase = "accepting"
    /\ active' = count
    /\ guard' = [guard EXCEPT ![g] = "held"]
    /\ UNCHANGED <<phase, stopped, drain, outcome, stopper, handle>>

\* Mutant: the counter is incremented without checked_add, and wraps.
TryEnterWrapping(g) == Admit(g, (active + 1) % (MaxActive + 1))

\* try_enter() that admits; a refusal changes nothing.
TryEnter(g) == active < MaxActive /\ Admit(g, active + 1)

\* WorkGuard::drop, its critical section.
Release(g) ==
    /\ guard[g] = "held"
    /\ active' = active - (IF active > 0 THEN 1 ELSE 0)
    /\ IF active' = 0 /\ phase = "draining"
       THEN /\ phase' = "graceful"
            /\ guard' = [guard EXCEPT ![g] = "signal"]
       ELSE /\ guard' = [guard EXCEPT ![g] = "free"]
            /\ UNCHANGED phase
    /\ UNCHANGED <<stopped, drain, outcome, stopper, handle>>

\* WorkGuard::drop of the guard that completed the drain, its cancel().
SignalRelease(g) ==
    /\ guard[g] = "signal"
    /\ guard' = [guard EXCEPT ![g] = "free"]
    /\ stopped' = TRUE
    /\ UNCHANGED <<phase, active, drain, outcome, stopper, handle>>

(***************************************************************************)
(* Draining.                                                               *)
(***************************************************************************)
MoveDrain(d, from, to) == drain[d] = from /\ drain' = [drain EXCEPT ![d] = to]

Return(d, result) == outcome' = [outcome EXCEPT ![d] = result]

\* begin_drain(), and the guard against the future's cancellation: the call
\* returns what was decided before, completes an idle gate, or starts to wait.
BeginDrain(d) ==
    /\ handle
    /\ \/ /\ phase \in Terminal
          /\ MoveDrain(d, "idle", "done")
          /\ Return(d, phase)
          /\ UNCHANGED phase
       \/ /\ phase \notin Terminal
          /\ active = 0
          /\ MoveDrain(d, "idle", "signal")
          /\ phase' = "graceful"
          /\ UNCHANGED outcome
       \/ /\ phase \notin Terminal
          /\ active > 0
          /\ MoveDrain(d, "idle", "waiting")
          /\ phase' = "draining"
          /\ UNCHANGED outcome
    /\ UNCHANGED <<active, stopped, guard, stopper, handle>>

\* begin_drain() of an idle gate, its cancel().
SignalDrain(d) ==
    /\ MoveDrain(d, "signal", "done")
    /\ Return(d, "graceful")
    /\ stopped' = TRUE
    /\ UNCHANGED <<phase, active, guard, stopper, handle>>

\* The awaited stop token is cancelled.
Wake(d) ==
    /\ stopped
    /\ MoveDrain(d, "waiting", "woken")
    /\ UNCHANGED <<phase, active, stopped, guard, outcome, stopper, handle>>

\* Mutant: whoever was woken takes the drain for a success.
ReadOutcomeOptimist(d) ==
    /\ MoveDrain(d, "woken", "done")
    /\ Return(d, "graceful")
    /\ UNCHANGED <<phase, active, stopped, guard, stopper, handle>>

\* terminal_outcome()
ReadOutcome(d) ==
    /\ MoveDrain(d, "woken", "done")
    /\ Return(d, IF phase \in Terminal THEN phase ELSE "forced")
    /\ UNCHANGED <<phase, active, stopped, guard, stopper, handle>>

\* The deadline passes; timeout_at has just seen the token live.
Elapse(d) ==
    /\ d \notin Untimed
    /\ ~stopped
    /\ MoveDrain(d, "waiting", "elapsed")
    /\ UNCHANGED <<phase, active, stopped, guard, outcome, stopper, handle>>

\* Mutant: a dropped drain leaves the gate as it is.
DropDrainUnguarded(d) ==
    /\ MoveDrain(d, "waiting", "done")
    /\ UNCHANGED <<phase, active, stopped, guard, outcome, stopper, handle>>

\* The future is dropped at its await; DrainCancellationGuard is armed.
DropDrain(d) ==
    /\ MoveDrain(d, "waiting", "dropped")
    /\ UNCHANGED <<phase, active, stopped, guard, outcome, stopper, handle>>

\* Mutant: the outcome decided first is overwritten.
OverwritePhase == phase' = "forced"

\* stop_now(), its critical section: the first terminal phase stays.
ForcePhase == phase' = IF phase \in Terminal THEN phase ELSE "forced"

ForceDrain(d) ==
    /\ \/ MoveDrain(d, "elapsed", "forcing")
       \/ MoveDrain(d, "dropped", "aborting")
    /\ ForcePhase
    /\ UNCHANGED <<active, stopped, guard, outcome, stopper, handle>>

\* stop_now(), its cancel(); the drain that timed out returns Forced.
SignalForce(d) ==
    /\ \/ MoveDrain(d, "forcing", "done") /\ Return(d, "forced")
       \/ MoveDrain(d, "aborting", "done") /\ UNCHANGED outcome
    /\ stopped' = TRUE
    /\ UNCHANGED <<phase, active, guard, stopper, handle>>

(***************************************************************************)
(* stop_now() called by the application, and the end of the gate.          *)
(***************************************************************************)
StopNow(s) ==
    /\ handle
    /\ stopper[s] = "idle"
    /\ stopper' = [stopper EXCEPT ![s] = "signal"]
    /\ ForcePhase
    /\ UNCHANGED <<active, stopped, guard, drain, outcome, handle>>

FinishStop(s) ==
    /\ stopper[s] = "signal"
    /\ stopper' = [stopper EXCEPT ![s] = "done"]
    /\ UNCHANGED <<phase, active, guard, drain, outcome, handle>>

\* Mutant: stop_now() forgets the token.
SignalStopForgotten(s) == FinishStop(s) /\ UNCHANGED stopped

SignalStop(s) == FinishStop(s) /\ stopped' = TRUE

DropHandle ==
    /\ handle
    /\ handle' = FALSE
    /\ UNCHANGED <<phase, active, stopped, guard, drain, outcome, stopper>>

\* Inner::drop, when no clone of the gate is left.
LastOwnerDrop ==
    /\ ~Owned
    /\ stopped' = TRUE
    /\ UNCHANGED <<phase, active, guard, drain, outcome, stopper, handle>>

ContinueDrain(d) ==
    \/ SignalDrain(d) \/ Wake(d) \/ ReadOutcome(d)
    \/ Elapse(d) \/ ForceDrain(d) \/ SignalForce(d)

Next ==
    \/ \E g \in Guards : TryEnter(g) \/ Release(g) \/ SignalRelease(g)
    \/ \E d \in Drainers : BeginDrain(d) \/ DropDrain(d) \/ ContinueDrain(d)
    \/ \E s \in Stoppers : StopNow(s) \/ SignalStop(s)
    \/ DropHandle
    \/ LastOwnerDrop

Spec == Init /\ [][Next]_vars

\* Calls under way are run and timers fire; nothing obliges a guard's holder to
\* finish, a drain to be started or the application to let go of the gate.
Fairness ==
    /\ \A g \in Guards : WF_vars(SignalRelease(g))
    /\ \A d \in Drainers : WF_vars(ContinueDrain(d))
    /\ \A s \in Stoppers : WF_vars(SignalStop(s))
    /\ WF_vars(LastOwnerDrop)

FairSpec == Spec /\ Fairness

------------------------------------------------------------------------------
(***************************************************************************)
(* Safety.                                                                 *)
(***************************************************************************)

\* The counter that decides when a drain is complete counts the live guards,
\* through every interleaving of admissions, drops and refusals.
ActiveCountsGuards == active = Cardinality(Held)

\* "Every admitted operation completed within the bound": a gate that stopped
\* gracefully has no guard left, and none appears later.
GracefulMeansIdle == phase = "graceful" => Held = {}

\* "Cancellation cannot leave the gate permanently non-accepting without
\* publishing the stop signal": while the gate drains, some guard is live and
\* some drain() call is still responsible for ending it.
DrainIsOwned ==
    phase = "draining" =>
        /\ Held # {}
        /\ \E d \in Drainers : drain[d] \in {"waiting", "elapsed", "dropped"}

\* The token is a sound announcement: it is cancelled only after the outcome is
\* decided, unless nobody holds the gate any more.  This is why the fallback of
\* terminal_outcome() is never taken.
StopIsDecided == stopped => phase \in Terminal \/ ~Owned

\* Between a critical section and the cancel() that follows it other threads
\* run, but none can undo the decision that is about to be announced, nor can a
\* call be woken before it.
SignalAfterDecision ==
    /\ \A g \in Guards : guard[g] = "signal" => phase = "graceful"
    /\ \A d \in Drainers :
          /\ drain[d] = "signal" => phase = "graceful"
          /\ drain[d] \in {"woken", "forcing", "aborting"} => phase \in Terminal
    /\ \A s \in Stoppers : stopper[s] = "signal" => phase \in Terminal

\* A drain() that reports success is right, whoever else timed out, was dropped
\* or called stop_now() at the same time.
SuccessIsTrue ==
    \A d \in Drainers : outcome[d] = "graceful" => phase = "graceful"

(***************************************************************************)
(* What a step may never do: the gate never reopens, its counter only      *)
(* falls once it is closed, and the first outcome is the final one.        *)
(***************************************************************************)
OneWay ==
    [][phase # "accepting" =>
        /\ phase' # "accepting"
        /\ active' <= active
        /\ phase \in Terminal => phase' = phase]_vars

(***************************************************************************)
(* Liveness.                                                               *)
(***************************************************************************)

\* A retained stop token fires once the shutdown is decided, and also when the
\* last owner of the gate goes away without any shutdown.
StopIsAnnounced == (phase \in Terminal \/ ~Owned) ~> stopped

\* A timed drain() returns although no guard is ever dropped; an untimed one
\* returns once the outcome is decided by anybody.
DrainReturns ==
    \A d \in Drainers :
        (drain[d] = "waiting" /\ (d \notin Untimed \/ phase \in Terminal))
            ~> drain[d] = "done"
==============================================================================
