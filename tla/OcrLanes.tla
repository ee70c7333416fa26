------------------------------ MODULE OcrLanes -------------------------------
(***************************************************************************)
(* The session lanes of impossible-ocr-onnx: blocking workers take a lane  *)
(* of the pool, run the native runtime on it under the eyes of a monitor   *)
(* thread, and return it.                                                  *)
(*                                                                         *)
(* A critical section of the pool's mutex is one step.  The native run is  *)
(* external: it ends when it likes, and only a terminated one has to.      *)
(***************************************************************************)
EXTENDS FiniteSets

CONSTANTS
    Runs,   \* calls of run_detector or run_recognizer, each at most once
    Lanes   \* the session pairs

None == "none"

ASSUME LanesAssumption ==
    /\ Lanes # {}
    /\ None \notin Lanes

VARIABLES
    available,           \* LanePoolInner.available
    pc, lane,            \* where each call is, and the lane its guard holds
    cancelled, expired,  \* the requests that are cancelled, past their deadline
    monitor,             \* where each monitor thread is
    done, reason,        \* what a monitor shares with its run
    terminated,          \* the native runs asked to terminate
    output, outcome      \* how the native run and the call ended

pool == <<available, lane>>
request == <<cancelled, expired>>
watch == <<monitor, done, reason, terminated>>
vars == <<pool, pc, request, watch, output, outcome>>

Working == {"lane", "spawn", "running", "finish", "join", "reconcile", "release"}
Alive(r) == monitor[r] \in {"check", "look", "terminate", "parked"}
Reasons == {"running", "cancelled", "deadline"}

\* The types; the guard of a working call derefs to a lane.
TypeOK ==
    /\ available \subseteq Lanes
    /\ pc \in [Runs -> {"idle", "acquire", "waiting", "done"} \cup Working]
    /\ lane \in [Runs -> Lanes \cup {None}]
    /\ \A r \in Runs : lane[r] # None <=> pc[r] \in Working
    /\ cancelled \subseteq Runs /\ expired \subseteq Runs
    /\ monitor \in [Runs -> {"off", "check", "look", "terminate", "parked", "ended"}]
    /\ done \subseteq Runs /\ terminated \subseteq Runs
    /\ reason \in [Runs -> Reasons]
    /\ output \in [Runs -> {None, "ok", "failed"}]
    /\ outcome \in [Runs -> {None, "ok", "cancelled", "deadline", "internal"}]

Init ==
    /\ available = Lanes
    /\ pc = [r \in Runs |-> "idle"]
    /\ lane = [r \in Runs |-> None]
    /\ cancelled = {} /\ expired = {}
    /\ monitor = [r \in Runs |-> "off"]
    /\ done = {} /\ terminated = {}
    /\ reason = [r \in Runs |-> "running"]
    /\ output = [r \in Runs |-> None]
    /\ outcome = [r \in Runs |-> None]

\* stop_reason(): a cancellation goes before a deadline.
StopReason(r) ==
    IF r \in cancelled THEN "cancelled" ELSE IF r \in expired THEN "deadline" ELSE "running"

Go(r, from, to) == pc[r] = from /\ pc' = [pc EXCEPT ![r] = to]

(***************************************************************************)
(* LanePool::acquire.                                                      *)
(***************************************************************************)
Begin(r) ==
    /\ Go(r, "idle", "acquire")
    /\ UNCHANGED <<pool, request, watch, output, outcome>>

\* check_request() fails.
Refuse(r) ==
    /\ StopReason(r) # "running"
    /\ Go(r, "acquire", "done")
    /\ outcome' = [outcome EXCEPT ![r] = StopReason(r)]
    /\ UNCHANGED <<pool, request, watch, output>>

Take(r) ==
    /\ StopReason(r) = "running"
    /\ \E l \in available :
         /\ available' = available \ {l}
         /\ lane' = [lane EXCEPT ![r] = l]
    /\ Go(r, "acquire", "lane")
    /\ UNCHANGED <<request, watch, output, outcome>>

Wait(r) ==
    /\ StopReason(r) = "running"
    /\ available = {}
    /\ Go(r, "acquire", "waiting")
    /\ UNCHANGED <<pool, request, watch, output, outcome>>

\* Mutant: wait() instead of wait_timeout().
WakeNever(r) == FALSE /\ UNCHANGED vars /\ r \in Runs

\* wait_timeout() returns: after at most MONITOR_INTERVAL, or spuriously.
Wake(r) ==
    /\ Go(r, "waiting", "acquire")
    /\ UNCHANGED <<pool, request, watch, output, outcome>>

(***************************************************************************)
(* run_session.                                                            *)
(***************************************************************************)

\* check_request() again, now that the call has a lane.
CheckRun(r) ==
    /\ IF StopReason(r) = "running"
       THEN Go(r, "lane", "spawn") /\ UNCHANGED outcome
       ELSE Go(r, "lane", "release") /\ outcome' = [outcome EXCEPT ![r] = StopReason(r)]
    /\ UNCHANGED <<pool, request, watch, output>>

\* The tensor, the run options or the monitor thread cannot be created.
SetupFails(r) ==
    /\ Go(r, "lane", "release") \/ Go(r, "spawn", "release")
    /\ outcome' = [outcome EXCEPT ![r] = "internal"]
    /\ UNCHANGED <<pool, request, watch, output>>

\* The monitor is spawned and the native run starts.
Spawn(r) ==
    /\ Go(r, "spawn", "running")
    /\ monitor' = [monitor EXCEPT ![r] = "check"]
    /\ UNCHANGED <<pool, request, done, reason, terminated, output, outcome>>

\* The native run returns, or panics; a terminated one may have been too far.
RunEnds(r) ==
    /\ Go(r, "running", "finish")
    /\ \E o \in {"ok", "failed"} : output' = [output EXCEPT ![r] = o]
    /\ UNCHANGED <<pool, request, watch, outcome>>

\* StopMonitor::finish: the flag, then the join, then the reason.
Finish(r) ==
    /\ Go(r, "finish", "join")
    /\ done' = done \cup {r}
    /\ UNCHANGED <<pool, request, monitor, reason, terminated, output, outcome>>

\* Mutant: the monitor is told to end, but not waited for.
JoinDetached(r) ==
    /\ Go(r, "join", "reconcile")
    /\ UNCHANGED <<pool, request, watch, output, outcome>>

Join(r) ==
    /\ monitor[r] = "ended"
    /\ Go(r, "join", "reconcile")
    /\ UNCHANGED <<pool, request, watch, output, outcome>>

\* StopReason::reconcile.
Stronger(a, b) ==
    IF "cancelled" \in {a, b} THEN "cancelled"
    ELSE IF "deadline" \in {a, b} THEN "deadline" ELSE "running"

Decide(r, stop) ==
    /\ Go(r, "reconcile", "release")
    /\ \E o \in IF stop # "running" THEN {stop}
                ELSE IF output[r] = "ok" THEN {"ok", "internal"} ELSE {"internal"} :
         outcome' = [outcome EXCEPT ![r] = o]
    /\ UNCHANGED <<pool, request, watch, output>>

\* Mutant: only what the monitor saw counts.
ReconcileStale(r) == Decide(r, reason[r])

\* Mutant: the error of the native run goes before its reason.
ReconcileErrorFirst(r) ==
    IF output[r] = "failed"
    THEN /\ Go(r, "reconcile", "release")
         /\ outcome' = [outcome EXCEPT ![r] = "internal"]
         /\ UNCHANGED <<pool, request, watch, output>>
    ELSE Decide(r, Stronger(reason[r], StopReason(r)))

\* A stop that the monitor saw, or that came since, beats the output; the
\* output may still be refused for its shape or its values.
Reconcile(r) == Decide(r, Stronger(reason[r], StopReason(r)))

\* Mutant: a lane whose run failed is not returned.
ReleaseLosing(r) ==
    /\ Go(r, "release", "done")
    /\ available' = IF outcome[r] = "ok" THEN available \cup {lane[r]} ELSE available
    /\ lane' = [lane EXCEPT ![r] = None]
    /\ UNCHANGED <<request, watch, output, outcome>>

\* LaneGuard::drop: the lane goes back and notify_one wakes one waiter, if any.
Release(r) ==
    /\ pc[r] = "release"
    /\ available' = available \cup {lane[r]}
    /\ lane' = [lane EXCEPT ![r] = None]
    /\ LET waiting == {w \in Runs : pc[w] = "waiting"}
           freed == [pc EXCEPT ![r] = "done"]
       IN  IF waiting = {} THEN pc' = freed
           ELSE \E w \in waiting : pc' = [freed EXCEPT ![w] = "acquire"]
    /\ UNCHANGED <<request, watch, output, outcome>>

(***************************************************************************)
(* The monitor thread.                                                     *)
(***************************************************************************)
MonitorGo(r, from, to) == monitor[r] = from /\ monitor' = [monitor EXCEPT ![r] = to]

CheckDone(r) ==
    /\ MonitorGo(r, "check", IF r \in done THEN "ended" ELSE "look")
    /\ UNCHANGED <<pool, pc, request, done, reason, terminated, output, outcome>>

\* stop_reason(), and the store of a reason to stop.
Look(r) ==
    /\ MonitorGo(r, "look", IF StopReason(r) = "running" THEN "parked" ELSE "terminate")
    /\ reason' = [reason EXCEPT ![r] = StopReason(r)]
    /\ UNCHANGED <<pool, pc, request, done, terminated, output, outcome>>

\* Mutant: the monitor leaves the run to itself.
TerminateForgotten(r) ==
    /\ MonitorGo(r, "terminate", "ended")
    /\ UNCHANGED <<pool, pc, request, done, reason, terminated, output, outcome>>

Terminate(r) ==
    /\ MonitorGo(r, "terminate", "ended")
    /\ terminated' = terminated \cup {r}
    /\ UNCHANGED <<pool, pc, request, done, reason, output, outcome>>

\* park_timeout() returns.
Unpark(r) ==
    /\ MonitorGo(r, "parked", "check")
    /\ UNCHANGED <<pool, pc, request, done, reason, terminated, output, outcome>>

(***************************************************************************)
(* The request.                                                            *)
(***************************************************************************)
Cancel(r) ==
    /\ r \notin cancelled
    /\ cancelled' = cancelled \cup {r}
    /\ UNCHANGED <<pool, pc, expired, watch, output, outcome>>

Expire(r) ==
    /\ r \notin expired
    /\ expired' = expired \cup {r}
    /\ UNCHANGED <<pool, pc, cancelled, watch, output, outcome>>

Acquire(r) == Refuse(r) \/ Take(r) \/ Wait(r) \/ Wake(r)
RunSession(r) ==
    \/ CheckRun(r) \/ SetupFails(r) \/ Spawn(r)
    \/ Finish(r) \/ Join(r) \/ Reconcile(r) \/ Release(r)
Monitor(r) == CheckDone(r) \/ Look(r) \/ Terminate(r) \/ Unpark(r)

Next == \E r \in Runs :
    Begin(r) \/ Acquire(r) \/ RunSession(r) \/ RunEnds(r) \/ Monitor(r) \/ Cancel(r) \/ Expire(r)

Spec == Init /\ [][Next]_vars

\* Threads run, and waits end by their timeouts.  A native run need not end
\* unless it was asked to.
Fairness == \A r \in Runs :
    /\ WF_vars(Acquire(r))
    /\ WF_vars(RunSession(r))
    /\ WF_vars(Monitor(r))
    /\ WF_vars(r \in terminated /\ RunEnds(r))

FairSpec == Spec /\ Fairness

------------------------------------------------------------------------------
\* Every lane is in the pool or with one worker, never both, never lost,
\* whatever fails, stops or wakes up for nothing.
LanesConserved ==
    /\ \A r \in Runs : lane[r] \notin available
    /\ \A r, s \in Runs : r # s /\ lane[r] # None => lane[r] # lane[s]
    /\ \A l \in Lanes : l \in available \/ \E r \in Runs : lane[r] = l

\* A monitor lives only inside its run: none terminates anything after the
\* result was decided and the lane went back to the pool.
MonitorInsideRun == \A r \in Runs : Alive(r) => pc[r] \in {"running", "finish", "join"}

\* A run that was terminated is reported as stopped, neither by the error that
\* the termination caused nor by an output that made it.
TerminatedIsReported ==
    \A r \in terminated : pc[r] \in {"release", "done"} => outcome[r] \in {"cancelled", "deadline"}

\* No output leaves a run whose request was stopped meanwhile, were it only
\* after its monitor had ended.
OutputIsWanted ==
    [][\A r \in Runs : outcome[r] = None /\ outcome'[r] = "ok" =>
          r \notin cancelled \cup expired]_vars

\* A request that is stopped gets its answer, while it waits for a lane that a
\* hanging run never frees as well as while it runs itself.
StoppedRunReturns ==
    \A r \in Runs : r \in cancelled \cup expired /\ pc[r] # "idle" ~> pc[r] = "done"
==============================================================================
