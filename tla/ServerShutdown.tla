--------------------------- MODULE ServerShutdown ----------------------------
(***************************************************************************)
(* The shutdown of an impossible-ocr-server process: its listeners share   *)
(* one gate, one health registry and one request token, and each of them   *)
(* runs the whole shutdown.  run_server polls the network listeners in one *)
(* task (try_join!), so they alternate where they await; the requests run  *)
(* on other threads and interleave with every access to shared state.      *)
(*                                                                         *)
(* The gate is module ShutdownGate: a listener is a drainer and a caller   *)
(* of stop_now, and a request is a guard, admitted and released as module  *)
(* OcrAdmission says.  Time is counted in ticks, and only where the        *)
(* shutdown budget is spent; what needs no waiting takes no time.          *)
(*                                                                         *)
(* Health probes, and warm_up() calls of a library user, run on other      *)
(* threads: both copy the warmed flag into the registry in two steps.      *)
(***************************************************************************)
EXTENDS Naturals, FiniteSets

CONSTANTS
    Network,  \* the listeners of serve and serve_grpc
    Stdio,    \* the listener of serve_mcp_stdio_until, in a process of its own
    Requests, \* the requests that one listener may carry at once
    Probes,   \* the health and model handlers that may run at once
    Warmers,  \* the warm_up() calls that may run at once
    Timeout   \* ServerLimits.shutdown_timeout, in ticks

ASSUME ShutdownAssumption ==
    /\ IsFiniteSet(Network) /\ IsFiniteSet(Stdio) /\ IsFiniteSet(Requests)
    /\ Network \cap Stdio = {} /\ Probes \cap Warmers = {}
    /\ Timeout \in Nat

Listeners == Network \cup Stdio
Connections == Listeners \X Requests

VARIABLES
    stop,      \* the process's token, cancelled by Ctrl-C
    warmed,    \* AppState.warmed
    process,   \* HealthRegistry's process state
    component, \* HealthRegistry's "backend" component
    ready,     \* OcrPipeline::is_ready()
    proven,    \* warmed has been true
    at, saw,   \* where each probe and warm_up() is, and the readiness it read
    shutdown,  \* AppState.shutdown has been cancelled
    pc,        \* where each listener's future is
    spent,     \* ticks since the listener began its shutdown
    due,       \* the value of spent at which its timer fires
    phase, active, stopped, guard, drain, outcome, stopper, handle  \* the gate

health == <<warmed, process, shutdown>>
probes == <<component, ready, proven, at, saw>>
timers == <<spent, due>>
gate == <<phase, active, stopped, guard, drain, outcome, stopper, handle>>
vars == <<stop, health, probes, pc, timers, gate>>

Gate == INSTANCE ShutdownGate WITH
    Guards <- Connections,
    Drainers <- Listeners,
    Untimed <- {},
    Stoppers <- Listeners,
    MaxActive <- Cardinality(Connections) + 1

\* begin_shutdown is called twice; its three steps are told apart by the call.
First == {"warmed1", "process1", "token1"}
Second == {"warmed2", "process2", "token2"}
Returned == {"ok", "err", "dropped", "absent"}
PCs == {"serving", "closing", "force", "draining", "stopped", "dropping"}
         \cup First \cup Second \cup Returned

\* A probe refreshes; warm_up refreshes, warms, sets the flag and refreshes again.
Places == {"idle", "store", "load1", "store1", "warm", "set", "load2", "store2"}

TypeOK ==
    /\ stop \in BOOLEAN
    /\ warmed \in BOOLEAN
    /\ process \in {"running", "draining", "stopped"}
    /\ shutdown \in BOOLEAN
    /\ component \in BOOLEAN /\ ready \in BOOLEAN /\ proven \in BOOLEAN
    /\ at \in [Probes \cup Warmers -> Places]
    /\ saw \in [Probes \cup Warmers -> BOOLEAN]
    /\ pc \in [Listeners -> PCs]
    /\ spent \in [Listeners -> Nat]
    /\ due \in [Listeners -> 0..Timeout]
    /\ Gate!TypeOK

\* with_backend_state, of a backend that is ready or one to be warmed; run_server
\* serves either MCP over stdio or the network.
Init ==
    /\ stop = FALSE
    /\ warmed \in BOOLEAN /\ ready \in BOOLEAN
    /\ warmed => ready
    /\ component = warmed /\ proven = warmed
    /\ at = [r \in Probes \cup Warmers |-> "idle"]
    /\ saw = [r \in Probes \cup Warmers |-> FALSE]
    /\ process = "running"
    /\ shutdown = FALSE
    /\ \E mcp_stdio \in BOOLEAN :
          pc = [l \in Listeners |-> IF (l \in Stdio) = mcp_stdio THEN "serving" ELSE "absent"]
    /\ spent = [l \in Listeners |-> 0]
    /\ due = [l \in Listeners |-> Timeout]
    /\ Gate!Init

Awaits(l) ==
    \/ pc[l] \in {"serving", "closing"} \cup Returned
    \/ pc[l] = "draining" /\ drain[l] = "waiting"

\* The task is at l, and no future of it has failed: try_join! returns at once.
Polled(l) ==
    /\ \A m \in Listeners \ {l} : Awaits(m)
    /\ \A m \in Listeners : pc[m] # "err"

Go(l, from, to) ==
    /\ Polled(l)
    /\ pc[l] = from
    /\ pc' = [pc EXCEPT ![l] = to]

(***************************************************************************)
(* The server future of the transport.                                     *)
(***************************************************************************)

\* Its requests have left the gate, and it takes no other.
Quiet(l) == \A q \in Requests : guard[<<l, q>>] = "free"

\* The transport fails before or during the shutdown.
ServerError(l) ==
    /\ l \in Network
    /\ Go(l, "serving", "err") \/ Go(l, "closing", "err")
    /\ UNCHANGED <<stop, probes, health, timers, gate>>

\* Its graceful shutdown completes: in the same poll as the stop, which the
\* select may see second, or later.
ServerDone(l) ==
    /\ l \in Network
    /\ stop
    /\ Quiet(l)
    /\ Go(l, "serving", "warmed2") \/ Go(l, "closing", "warmed2")
    /\ UNCHANGED <<stop, probes, health, timers, gate>>

\* The select sees the stop; that of the stdio listener has dropped the request that
\* was being read or run.
SeeStop(l) ==
    /\ stop
    /\ l \in Stdio => Quiet(l)
    /\ Go(l, "serving", "warmed1")
    /\ UNCHANGED <<stop, probes, health, timers, gate>>

\* The end of standard input, or an error of standard input or output, between two
\* requests.
Eof(l) ==
    /\ l \in Stdio
    /\ Quiet(l)
    /\ Go(l, "serving", "ok") \/ Go(l, "serving", "err")
    /\ UNCHANGED <<stop, probes, health, timers, gate>>

\* Mutant: the server future is awaited without a timeout.
CloseTimeoutNever(l) ==
    /\ FALSE
    /\ UNCHANGED vars

\* The server future is still there at the deadline: gate.stop_now().
CloseTimeout(l) ==
    /\ spent[l] >= due[l]
    /\ Go(l, "closing", "force")
    /\ Gate!StopNow(l)
    /\ UNCHANGED <<stop, probes, health, timers>>

CloseForced(l) ==
    /\ Go(l, "force", "err")
    /\ Gate!SignalStop(l)
    /\ UNCHANGED <<stop, probes, health, timers>>

(***************************************************************************)
(* begin_shutdown and finish_drain.                                        *)
(***************************************************************************)
ClearWarmed(l) ==
    /\ Go(l, "warmed1", "process1") \/ Go(l, "warmed2", "process2")
    /\ warmed' = FALSE
    /\ UNCHANGED <<stop, probes, process, shutdown, timers, gate>>

\* Mutant: the requests are cancelled before the health registry says so.
SetDrainingLate(l) ==
    /\ Go(l, "process1", "token1") \/ Go(l, "process2", "token2")
    /\ shutdown' = TRUE
    /\ UNCHANGED <<stop, probes, warmed, process, timers, gate>>

SetDraining(l) ==
    /\ Go(l, "process1", "token1") \/ Go(l, "process2", "token2")
    /\ process' = "draining"
    /\ UNCHANGED <<stop, probes, warmed, shutdown, timers, gate>>

\* Mutant: the drain gets the whole timeout again.
RestOfBudgetAgain(l) == spent[l] + Timeout

\* drain_budget.saturating_sub(started.elapsed()), from now on.
RestOfBudget(l) == spent[l] + (IF spent[l] < Timeout THEN Timeout - spent[l] ELSE 0)

\* The token; then the server future, or the drain, is awaited with a timer.  The
\* stdio listener has no server to wait for.
CancelRequests(l) ==
    /\ \/ Go(l, "token1", IF l \in Stdio THEN "warmed2" ELSE "closing") /\ UNCHANGED due
       \/ Go(l, "token2", "draining") /\ due' = [due EXCEPT ![l] = RestOfBudget(l)]
    /\ shutdown' = TRUE
    /\ UNCHANGED <<stop, probes, warmed, process, spent, gate>>

\* gate.drain(timeout).await
Drain(l) ==
    /\ pc[l] = "draining"
    /\ Polled(l)
    /\ \/ Gate!BeginDrain(l) \/ Gate!SignalDrain(l) \/ Gate!Wake(l)
       \/ Gate!ReadOutcome(l) \/ Gate!ForceDrain(l) \/ Gate!SignalForce(l)
       \/ spent[l] >= due[l] /\ Gate!Elapse(l)
    /\ pc' = IF drain'[l] = "done" THEN [pc EXCEPT ![l] = "stopped"] ELSE pc
    /\ UNCHANGED <<stop, probes, health, timers>>

\* Mutant: the outcome of the drain is not looked at.
SetStoppedOk(l) ==
    /\ Go(l, "stopped", "ok")
    /\ process' = "stopped"
    /\ UNCHANGED <<stop, probes, warmed, shutdown, timers, gate>>

\* The process state, then the result by the outcome.
SetStopped(l) ==
    /\ Go(l, "stopped", IF outcome[l] = "forced" THEN "err" ELSE "ok")
    /\ process' = "stopped"
    /\ UNCHANGED <<stop, probes, warmed, shutdown, timers, gate>>

(***************************************************************************)
(* try_join!: the first error drops the other futures where they await.    *)
(***************************************************************************)
OtherFailed(l) == \E m \in Listeners \ {l} : pc[m] = "err"

DropFuture(l) ==
    /\ OtherFailed(l)
    /\ pc[l] \notin Returned \cup {"dropping"}
    /\ IF pc[l] = "draining"
       THEN pc' = [pc EXCEPT ![l] = "dropping"] /\ Gate!DropDrain(l)
       ELSE pc' = [pc EXCEPT ![l] = "dropped"] /\ UNCHANGED gate
    /\ UNCHANGED <<stop, probes, health, timers>>

\* DrainCancellationGuard::drop
DropDrain(l) ==
    /\ pc[l] = "dropping"
    /\ Gate!ForceDrain(l) \/ Gate!SignalForce(l)
    /\ pc' = IF drain'[l] = "done" THEN [pc EXCEPT ![l] = "dropped"] ELSE pc
    /\ UNCHANGED <<stop, probes, health, timers>>

(***************************************************************************)
(* The environment: the signal, the requests, and time.                    *)
(***************************************************************************)
Signal ==
    /\ stop' = TRUE
    /\ UNCHANGED <<health, probes, pc, timers, gate>>

\* A listener whose transport still runs carries requests; a stdio listener
\* one at a time, and only while it serves.
Carries(l) ==
    \/ l \in Network /\ pc[l] \in {"serving", "closing"} \cup First
    \/ l \in Stdio /\ pc[l] = "serving" /\ Quiet(l) /\ ~stop

Request(c) ==
    /\ \/ Carries(c[1]) /\ Gate!TryEnter(c)
       \/ Gate!Release(c) \/ Gate!SignalRelease(c)
    /\ UNCHANGED <<stop, probes, health, pc, timers>>

\* Time passes while every future awaits, up to the first timer.
Tick ==
    /\ \A l \in Listeners : Awaits(l)
    /\ \A l \in Listeners : pc[l] \in {"closing", "draining"} => spent[l] < due[l]
    /\ \E l \in Listeners : pc[l] \in {"closing", "draining"}
    /\ \A l \in Listeners : ~OtherFailed(l)
    /\ spent' = [l \in Listeners |->
                    spent[l] + (IF pc[l] \in {"closing", "draining"} THEN 1 ELSE 0)]
    /\ UNCHANGED <<stop, probes, health, pc, due, gate>>

(***************************************************************************)
(* Health probes and warm_up().                                            *)
(***************************************************************************)
Move(r, from, to) ==
    /\ at[r] = from
    /\ at' = [at EXCEPT ![r] = to]
    /\ UNCHANGED <<stop, process, shutdown, pc, timers, gate>>

\* refresh_backend_health in two steps: backend_ready(), and the registry.
LoadReady(r, from, to) ==
    /\ Move(r, from, to)
    /\ saw' = [saw EXCEPT ![r] = warmed /\ ready]
    /\ UNCHANGED <<warmed, component, ready, proven>>

StoreReady(r, from, to) ==
    /\ Move(r, from, to)
    /\ component' = saw[r]
    /\ saw' = [saw EXCEPT ![r] = FALSE]
    /\ UNCHANGED <<warmed, ready, proven>>

\* HealthRegistry::snapshot().ready
Ready == process = "running" /\ component

\* ready, status, metrics and models; what the first three answer is Ready.
Probe(p) == LoadReady(p, "idle", "store") \/ StoreReady(p, "store", "idle")

StoreWarmed(w, flag, from, to) ==
    /\ Move(w, from, to)
    /\ warmed' = flag
    /\ proven' = (proven \/ flag)
    /\ UNCHANGED <<component, ready, saw>>

\* OcrPipeline::warm_up of any backend: an error returns, and so does a success
\* that leaves the backend unready.
Warm(w) ==
    /\ \/ Move(w, "warm", "idle") /\ UNCHANGED ready
       \/ Move(w, "warm", "set") /\ ready' = TRUE
    /\ UNCHANGED <<warmed, component, proven, saw>>

WarmUp(w) ==
    \/ StoreWarmed(w, FALSE, "idle", "load1")
    \/ LoadReady(w, "load1", "store1") \/ StoreReady(w, "store1", "warm")
    \/ Warm(w)
    \/ StoreWarmed(w, TRUE, "set", "load2")
    \/ LoadReady(w, "load2", "store2") \/ StoreReady(w, "store2", "idle")

Continue(l) ==
    \/ ServerDone(l) \/ SeeStop(l) \/ CloseTimeout(l) \/ CloseForced(l)
    \/ ClearWarmed(l) \/ SetDraining(l) \/ CancelRequests(l)
    \/ Drain(l) \/ SetStopped(l) \/ DropFuture(l) \/ DropDrain(l)

Next ==
    \/ \E l \in Listeners : Continue(l) \/ ServerError(l) \/ Eof(l)
    \/ \E c \in Connections : Request(c)
    \/ \E p \in Probes : Probe(p)
    \/ \E w \in Warmers : WarmUp(w)
    \/ Signal
    \/ Tick

Spec == Init /\ [][Next]_vars

------------------------------------------------------------------------------
HeldConnections == {c \in Connections : guard[c] = "held"}

AllReturned == \A l \in Listeners : pc[l] \in Returned

\* A network listener that reports success leaves a gate that drained
\* gracefully, and no request of any listener inside it; and a process that returns
\* leaves no drain under way, although try_join! drops the futures of the other
\* listeners at the first error.
OutcomeIsFinal ==
    /\ \A l \in Network : pc[l] = "ok" => phase = "graceful" /\ HeldConnections = {}
    /\ AllReturned => phase # "draining"

\* Readiness goes first and is never wrong: whoever asks is told "ready" only while
\* no request has been cancelled, whichever listener began the shutdown, and not
\* before a backend was proven ready, whatever stale value a probe stores and
\* however warm_up() and the shutdown overlap.
ReadyMeansServing == Ready => ~shutdown /\ proven

\* Waiting for the transport and draining the gate share one budget: "Total
\* graceful shutdown deadline".
ShutdownIsBounded == \A l \in Listeners : spent[l] <= Timeout
==============================================================================
