---------------------------- MODULE OcrAdmission -----------------------------
(***************************************************************************)
(* The life of a recognition request inside impossible-ocr-server: the     *)
(* gate, the permits, the bounded queue for them, the handler, the         *)
(* blocking worker of the engine, and the guards dropped on the way out.   *)
(* Requests run on several threads, so every access to shared state is a   *)
(* step of its own; a future may be dropped wherever it awaits.            *)
(*                                                                         *)
(* The gate is module ShutdownGate, one guard per request and layer.       *)
(* Tokio's Semaphore is external: a returned permit is given to the        *)
(* waiter that came first, and a waiter dropped with its permit passes it  *)
(* on.  gRPC stands for the MCP stdio transport too, which enters the same *)
(* way, one request at a time.                                             *)
(***************************************************************************)
EXTENDS Naturals, Sequences, FiniteSets

CONSTANTS
    Requests,       \* the requests that may arrive, each once
    Drainers,       \* the calls of finish_drain
    Untimed,        \* the drainers whose deadline never comes
    MaxConcurrent,  \* ServerLimits.max_concurrent_requests
    QueueCapacity,  \* ServerLimits.queue_capacity
    MaxItems        \* MAX_BATCH_ITEMS

ASSUME AdmissionAssumption ==
    /\ IsFiniteSet(Requests)
    /\ Untimed \subseteq Drainers
    /\ MaxConcurrent \in Nat \ {0}
    /\ QueueCapacity \in Nat \ {0}
    /\ MaxItems \in Nat \ {0}

\* Where a request is admitted: by the admit_http middleware, or in run_inputs.
Layers == {"outer", "inner"}

VARIABLES
    pc,               \* where each request is
    layer,            \* where its admission is, or is being, decided
    left,             \* the inputs of a request that are still to be recognized
    answer,           \* what a request that executed was answered
    expired,          \* the requests whose deadline has passed
    available,        \* AppState.permits: the free permits
    waiters,          \* AppState.permits: the requests waiting, first come first
    permit,           \* the admissions that own a permit
    queued,           \* AppState.queued
    running,          \* Metrics.active
    completed,        \* Metrics.completed
    failed,           \* Metrics.failed
    workers,          \* the requests with a blocking task in the engine
    warmed,           \* AppState.warmed
    shutdown,         \* AppState.shutdown has been cancelled
    phase, entered, stopped, guard, drain, outcome, stopper, handle  \* the gate

server == <<available, waiters, permit, queued, running, completed, failed>>
local == <<layer, left, answer>>
gate == <<phase, entered, stopped, guard, drain, outcome, stopper, handle>>
env == <<expired, workers, warmed, shutdown>>
vars == <<pc, server, local, gate, env>>

Gate == INSTANCE ShutdownGate WITH
    Guards <- Requests \X Layers,
    Stoppers <- {},
    MaxActive <- 2 * Cardinality(Requests) + 1,
    active <- entered

Awaiting == {"queued", "waiting", "granted"}
Executing == {"handler", "check", "inputs", "recognizing", "close"}
PCs == {"idle", "enter", "acquire", "count", "overflow", "unqueue", "start",
        "return", "leave", "done"} \cup Awaiting \cup Executing
TypeOK ==
    /\ pc \in [Requests -> PCs]
    /\ layer \in [Requests -> Layers \cup {"none"}]
    /\ left \in [Requests -> 0..MaxItems]
    /\ answer \in [Requests -> {"none", "ok", "failed"}]
    /\ expired \subseteq Requests
    /\ available \in 0..MaxConcurrent
    /\ waiters \in Seq(Requests)
    /\ permit \subseteq Requests \X Layers
    /\ queued \in 0..Cardinality(Requests)
    /\ running \in 0..Cardinality(Requests)
    /\ completed \in 0..Cardinality(Requests)
    /\ failed \in 0..Cardinality(Requests)
    /\ workers \subseteq Requests
    /\ warmed \in BOOLEAN
    /\ shutdown \in BOOLEAN
    /\ Gate!TypeOK

Init ==
    /\ pc = [r \in Requests |-> "idle"]
    /\ layer = [r \in Requests |-> "none"]
    /\ left = [r \in Requests |-> 0]
    /\ answer = [r \in Requests |-> "none"]
    /\ expired = {} /\ workers = {}
    /\ available = MaxConcurrent
    /\ waiters = <<>>
    /\ permit = {}
    /\ queued = 0 /\ running = 0 /\ completed = 0 /\ failed = 0
    /\ warmed = TRUE
    /\ shutdown = FALSE
    /\ Gate!Init

Go(r, from, to) == pc[r] = from /\ pc' = [pc EXCEPT ![r] = to]

Admission(r) == <<r, layer[r]>>

\* RequestContext::stopped: the server's token, then the request's deadline.
Stopped(r) == shutdown \/ r \in expired

\* The request's future is gone, and its context with it.
End(r, from) ==
    /\ Go(r, from, "done")
    /\ layer' = [layer EXCEPT ![r] = "none"]
    /\ left' = [left EXCEPT ![r] = 0]
    /\ expired' = expired \ {r}
    /\ UNCHANGED <<answer, workers, warmed, shutdown>>

(***************************************************************************)
(* Arrival.  HTTP routes pass the middleware; gRPC calls, stdio lines, and *)
(* MCP once the shutdown token is cancelled, start in their handler.       *)
(***************************************************************************)
Arrive(r) ==
    /\ \/ /\ Go(r, "idle", "enter")
          /\ layer' = [layer EXCEPT ![r] = "outer"]
       \/ /\ Go(r, "idle", "handler")
          /\ UNCHANGED layer
    /\ \E n \in 1..MaxItems : left' = [left EXCEPT ![r] = n]
    /\ UNCHANGED <<answer, server, gate, env>>

\* gate.try_enter(), in admit_http or in run_inputs.
Enter(r) ==
    /\ Go(r, "enter", "acquire")
    /\ Gate!TryEnter(Admission(r))
    /\ UNCHANGED <<server, local, env>>

EnterRefused(r) ==
    /\ phase # "accepting"
    /\ End(r, "enter")
    /\ UNCHANGED <<server, gate>>

(***************************************************************************)
(* acquire(): try_acquire_owned, then the queue.                           *)
(***************************************************************************)
TryAcquire(r) ==
    /\ IF available > 0
       THEN /\ Go(r, "acquire", "start")
            /\ available' = available - 1
            /\ permit' = permit \cup {Admission(r)}
       ELSE /\ Go(r, "acquire", "count")
            /\ UNCHANGED <<available, permit>>
    /\ UNCHANGED <<waiters, queued, running, completed, failed, local, gate, env>>

\* Mutant: fetch_add is taken to return the counter after it, not before.
CountQueuedOver(r) ==
    /\ Go(r, "count", IF queued > QueueCapacity THEN "overflow" ELSE "queued")
    /\ queued' = queued + 1
    /\ UNCHANGED <<available, waiters, permit, running, completed, failed, local, gate, env>>

\* queued.fetch_add(1), and the comparison of what it returned.
CountQueued(r) ==
    /\ Go(r, "count", IF queued >= QueueCapacity THEN "overflow" ELSE "queued")
    /\ queued' = queued + 1
    /\ UNCHANGED <<available, waiters, permit, running, completed, failed, local, gate, env>>

\* queued.fetch_sub(1), Err(Overloaded)
Overflow(r) ==
    /\ Go(r, "overflow", "leave")
    /\ queued' = queued - 1
    /\ UNCHANGED <<available, waiters, permit, running, completed, failed, local, gate, env>>

\* The first poll of acquire_owned(), after the stop.
PollPermit(r) ==
    /\ ~Stopped(r)
    /\ IF available > 0
       THEN /\ Go(r, "queued", "unqueue")
            /\ available' = available - 1
            /\ permit' = permit \cup {Admission(r)}
            /\ UNCHANGED waiters
       ELSE /\ Go(r, "queued", "waiting")
            /\ waiters' = Append(waiters, r)
            /\ UNCHANGED <<available, permit>>
    /\ UNCHANGED <<queued, running, completed, failed, local, gate, env>>

\* A waiter polled again with its permit; the stop may have come since.
TakePermit(r) ==
    /\ Go(r, "granted", "unqueue")
    /\ permit' = permit \cup {Admission(r)}
    /\ UNCHANGED <<available, waiters, queued, running, completed, failed, local, gate, env>>

\* A permit comes back: to the first waiter, or to the free ones.  The request
\* that gives it back goes on to "to".
GiveBack(r, to) ==
    IF waiters = <<>>
    THEN /\ available' = available + 1
         /\ pc' = [pc EXCEPT ![r] = to]
         /\ UNCHANGED waiters
    ELSE /\ pc' = [pc EXCEPT ![r] = to, ![Head(waiters)] = "granted"]
         /\ waiters' = Tail(waiters)
         /\ UNCHANGED available

\* The acquisition is dropped: by the select, or with the whole future.
AbandonQueue(r) ==
    /\ \/ pc[r] = "granted" /\ GiveBack(r, "unqueue")
       \/ Go(r, "queued", "unqueue") /\ UNCHANGED <<available, waiters>>
       \/ /\ Go(r, "waiting", "unqueue")
          /\ \E i \in DOMAIN waiters :
                /\ waiters[i] = r
                /\ waiters' = SubSeq(waiters, 1, i - 1) \o SubSeq(waiters, i + 1, Len(waiters))
          /\ UNCHANGED available
    /\ UNCHANGED <<permit, queued, running, completed, failed, local, gate, env>>

\* QueueGuard::drop
Unqueue(r) ==
    /\ Go(r, "unqueue", IF Admission(r) \in permit THEN "start" ELSE "leave")
    /\ queued' = queued - 1
    /\ UNCHANGED <<available, waiters, permit, running, completed, failed, local, gate, env>>

\* metrics.active.fetch_add(1); then the handler, or run_admitted_inputs.
Start(r) ==
    /\ Go(r, "start", IF layer[r] = "outer" THEN "handler" ELSE "check")
    /\ running' = running + 1
    /\ UNCHANGED <<available, waiters, permit, queued, completed, failed, local, gate, env>>

(***************************************************************************)
(* The handler: the body is received and decoded, then MCP and gRPC        *)
(* requests that no middleware admitted go through run_inputs.             *)
(***************************************************************************)

\* Mutant: the handler does not look at the admission it was given.
DispatchAgain(r) ==
    /\ Go(r, "handler", "enter")
    /\ layer' = [layer EXCEPT ![r] = "inner"]
    /\ UNCHANGED <<left, answer, server, gate, env>>

\* A decoded request: run_admitted_inputs, or run_inputs which admits it first.
Dispatch(r) ==
    /\ IF layer[r] = "outer"
       THEN Go(r, "handler", "check") /\ UNCHANGED layer
       ELSE Go(r, "handler", "enter") /\ layer' = [layer EXCEPT ![r] = "inner"]
    /\ UNCHANGED <<left, answer, server, gate, env>>

\* The handler returns early or is dropped; the middleware's guards go next.
Exit(r) ==
    /\ \/ layer[r] = "none" /\ End(r, "handler")
       \/ layer[r] # "none" /\ Go(r, "handler", "close") /\ UNCHANGED <<local, env>>
    /\ UNCHANGED <<server, gate>>

\* A body that is refused, or an MCP method that recognizes nothing.
Reject(r) == Exit(r)

\* run_admitted_inputs: backend_ready(), which is not counted as a failure.
CheckReady(r) ==
    /\ Go(r, "check", IF warmed THEN "inputs" ELSE "close")
    /\ UNCHANGED <<server, local, gate, env>>

\* The next input: its blocking task is spawned, unless the stop came first.
BeginItem(r) ==
    /\ ~Stopped(r)
    /\ Go(r, "inputs", "recognizing")
    /\ workers' = workers \cup {r}
    /\ UNCHANGED <<server, local, gate, expired, warmed, shutdown>>

\* The blocking task ends, whether or not its future is still there.
WorkerDone(r) ==
    /\ r \in workers
    /\ workers' = workers \ {r}
    /\ UNCHANGED <<pc, server, local, gate, expired, warmed, shutdown>>

\* The result of one input; the last one completes the request.
ItemRecognized(r) ==
    /\ r \notin workers
    /\ left' = [left EXCEPT ![r] = left[r] - 1]
    /\ IF left[r] > 1
       THEN /\ Go(r, "recognizing", "inputs")
            /\ UNCHANGED <<answer, completed>>
       ELSE /\ Go(r, "recognizing", "close")
            /\ answer' = [answer EXCEPT ![r] = "ok"]
            /\ completed' = completed + 1
    /\ UNCHANGED <<layer, available, waiters, permit, queued, running, failed>>
    /\ UNCHANGED <<gate, env>>

Fail(r, to) ==
    /\ pc' = [pc EXCEPT ![r] = to]
    /\ failed' = failed + 1
    /\ answer' = [answer EXCEPT ![r] = "failed"]
    /\ UNCHANGED <<layer, left, available, waiters, permit, queued, running, completed>>
    /\ UNCHANGED <<gate, env>>

\* Mutant: a batch goes on after an input that failed.
ItemFailedGoesOn(r) ==
    /\ pc[r] = "recognizing" /\ r \notin workers
    /\ Fail(r, IF left[r] > 1 THEN "inputs" ELSE "close")

\* An input that fails in the engine, or before it gets there.
ItemFailed(r) ==
    /\ pc[r] = "recognizing" => r \notin workers
    /\ pc[r] \in {"inputs", "recognizing"}
    /\ Fail(r, "close")

\* Mutant: admit_http awaits the handler without a select.
StopExecutionInner(r) ==
    /\ Stopped(r)
    /\ pc[r] \in {"inputs", "recognizing"}
    /\ Fail(r, "close")

\* The select in run_admitted_inputs or the one in admit_http sees the stop.
StopExecution(r) ==
    /\ Stopped(r)
    /\ \/ pc[r] \in {"inputs", "recognizing"}
       \/ pc[r] = "handler" /\ layer[r] = "outer"
    /\ Fail(r, "close")

\* The client goes away, or Tonic's timeout fires: the future is dropped where
\* it awaits.
Hangup(r) ==
    \/ AbandonQueue(r)
    \/ Exit(r)
    \/ Go(r, "recognizing", "close") /\ UNCHANGED <<server, local, gate, env>>

\* The biased select of acquire() sees the stop.
StopQueued(r) == Stopped(r) /\ AbandonQueue(r)

(***************************************************************************)
(* The way out: the guards are dropped in the reverse order of creation.   *)
(***************************************************************************)

\* Mutant: the gate's guard is dropped first.
CloseWithGuard(r) ==
    /\ Go(r, "close", "return")
    /\ Gate!Release(Admission(r))
    /\ running' = running - 1
    /\ UNCHANGED <<available, waiters, permit, queued, completed, failed, local, env>>

\* Mutant: the permit is dropped before the gauge is lowered.
CloseAfterPermit(r) ==
    /\ pc[r] = "close"
    /\ GiveBack(r, "return")
    /\ permit' = permit \ {Admission(r)}
    /\ UNCHANGED <<queued, running, completed, failed, local, gate, env>>

\* ActiveGuard::drop
Close(r) ==
    /\ Go(r, "close", "return")
    /\ running' = running - 1
    /\ UNCHANGED <<available, waiters, permit, queued, completed, failed, local, gate, env>>

\* OwnedSemaphorePermit::drop
ReturnPermit(r) ==
    /\ pc[r] = "return"
    /\ GiveBack(r, "leave")
    /\ permit' = permit \ {Admission(r)}
    /\ UNCHANGED <<queued, running, completed, failed, local, gate, env>>

\* WorkGuard::drop
Leave(r) ==
    /\ End(r, "leave")
    /\ Gate!Release(Admission(r))
    /\ UNCHANGED server

(***************************************************************************)
(* The rest of the process: deadlines, shutdown, and the gate's own steps. *)
(***************************************************************************)
Expire(r) ==
    /\ pc[r] \notin {"idle", "done"}
    /\ r \notin expired
    /\ expired' = expired \cup {r}
    /\ UNCHANGED <<pc, server, local, gate, workers, warmed, shutdown>>

\* begin_shutdown: the ready flag, then the token.
ClearWarmed ==
    /\ warmed' = FALSE
    /\ UNCHANGED <<pc, server, local, gate, expired, workers, shutdown>>

CancelShutdown ==
    /\ ~warmed
    /\ shutdown' = TRUE
    /\ UNCHANGED <<pc, server, local, gate, expired, workers, warmed>>

\* finish_drain, after begin_shutdown.
Drain(d) ==
    /\ shutdown
    /\ Gate!BeginDrain(d)
    /\ UNCHANGED <<pc, server, local, env>>

GateStep ==
    /\ \/ \E g \in Requests \X Layers : Gate!SignalRelease(g)
       \/ \E d \in Drainers : Gate!ContinueDrain(d)
    /\ UNCHANGED <<pc, server, local, env>>

\* What the request's own task does without waiting for anything.
Proceed(r) ==
    \/ Enter(r) \/ EnterRefused(r) \/ TryAcquire(r) \/ CountQueued(r)
    \/ Overflow(r) \/ PollPermit(r) \/ TakePermit(r) \/ StopQueued(r)
    \/ Unqueue(r) \/ Start(r) \/ CheckReady(r) \/ BeginItem(r)
    \/ ItemRecognized(r) \/ ItemFailed(r) \/ StopExecution(r)
    \/ Close(r) \/ ReturnPermit(r) \/ Leave(r)

\* The bytes of a request come to an end, or its client does.
Receive(r) == Dispatch(r) \/ Reject(r)

Next ==
    \/ \E r \in Requests :
          \/ Arrive(r) \/ Proceed(r) \/ Receive(r) \/ Hangup(r)
          \/ WorkerDone(r) \/ Expire(r)
    \/ ClearWarmed \/ CancelShutdown
    \/ \E d \in Drainers : Drain(d)
    \/ GateStep

Spec == Init /\ [][Next]_vars

\* Tasks that can go on are polled.  A request that no middleware covers is
\* bounded by the lifetime of its connection.  Workers, and clients that the
\* middleware covers, owe nothing, and no deadline need pass.
Fairness ==
    /\ \A r \in Requests :
          /\ WF_vars(Proceed(r))
          /\ WF_vars(layer[r] = "none" /\ Receive(r))
    /\ WF_vars(GateStep)

FairSpec == Spec /\ Fairness

------------------------------------------------------------------------------
\* Every permit is free, owned by one admission, or assigned to a waiter that
\* has not run yet: whatever is dropped, none is lost or used twice.  Only so many
\* requests wait for one, although the counter is raised before it is checked and
\* other requests see the raised value.
PermitsConserved ==
    /\ available + Cardinality(permit)
         + Cardinality({r \in Requests : pc[r] = "granted"}) = MaxConcurrent
    /\ available > 0 => waiters = <<>>
    /\ Cardinality({r \in Requests : pc[r] \in Awaiting}) <= QueueCapacity

\* Who is in the queue for a permit, and who has one, as PermitQueue sees them.
Seated == {r \in Requests : pc[r] \in Awaiting}
Owners == {r \in Requests : pc[r] = "granted" \/ \E l \in Layers : <<r, l>> \in permit}

Queue == INSTANCE PermitQueue WITH
    Clients <- Requests,
    Permits <- MaxConcurrent,
    Places <- QueueCapacity,
    owners <- Owners,
    seated <- Seated,
    line <- waiters

\* The semaphore, the counter of the queue and the steps around them are a queue for
\* permits as PermitQueue specifies it: no newcomer overtakes a waiter, a permit that
\* is dropped is handed on or free again, and refusals keep the queue bounded, although
\* no step of the code sees counter and semaphore at once.
ImplementsQueue == Queue!Spec

\* A request that passed the middleware does not take a second guard or permit,
\* for which it would wait while it holds the first.
AdmittedOnce ==
    \A r \in Requests :
        /\ Cardinality({l \in Layers : guard[<<r, l>>] = "held"}) <= 1
        /\ pc[r] \in Awaiting => \A l \in Layers : <<r, l>> \notin permit

\* Each request is counted once, as completed or failed, whatever stopped it
\* and however many inputs it has; a client that left is not counted.
CountedOnce ==
    /\ completed = Cardinality({r \in Requests : answer[r] = "ok"})
    /\ failed = Cardinality({r \in Requests : answer[r] = "failed"})

\* A gracefully drained server has everything back: no request holds or awaits
\* a permit, and the queue and the gauge are empty.
GracefulMeansReleased ==
    phase = "graceful" =>
        available = MaxConcurrent /\ waiters = <<>> /\ queued = 0 /\ running = 0

\* The metrics never show more requests active than permits are out: the gauge is raised
\* after the permit and lowered before it, on every way out, by a stop, an error or a
\* future that is dropped where it awaits.
GaugeWithinPermits == running <= Cardinality(permit)

\* Every request ends when its deadline has passed, although a worker never
\* returns and a client sends nothing; none waits for ever for a permit.
LateRequestsEnd ==
    \A r \in Requests : pc[r] # "idle" /\ r \in expired ~> pc[r] = "done"

\* A drain needs no deadline of a request, of a client or of its own: once the
\* shutdown token is cancelled every guard comes back.
DrainSucceeds == phase = "draining" ~> phase = "graceful"
==============================================================================
