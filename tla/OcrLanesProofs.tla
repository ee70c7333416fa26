--------------------------- MODULE OcrLanesProofs ----------------------------
(***************************************************************************)
(* The safety of the session lanes for any number of calls and lanes.      *)
(***************************************************************************)
EXTENDS OcrLanes, Naturals, TLAPS

\* What ties a monitor to its run: it is not there before the run starts, it
\* ends with a termination, and it terminates for a reason that it published.
MonitorFollowsRun == \A r \in Runs :
    /\ pc[r] \in {"idle", "acquire", "waiting", "lane", "spawn"} => monitor[r] = "off"
    /\ r \in terminated => monitor[r] = "ended"
    /\ monitor[r] = "terminate" \/ r \in terminated => reason[r] \in {"cancelled", "deadline"}

\* The inductive invariant.
LanesInv ==
    /\ TypeOK
    /\ LanesConserved
    /\ MonitorInsideRun
    /\ TerminatedIsReported
    /\ MonitorFollowsRun

\* None is not a lane, so that an empty guard is told from a full one.
USE LanesAssumption DEF None

------------------------------------------------------------------------------
\* Every step keeps the types, and with them that a working call has a lane.
LEMMA TypeStep ==
  ASSUME TypeOK, [Next]_vars
  PROVE  TypeOK'
  <1> USE DEF TypeOK, Working, Reasons, StopReason, Go, MonitorGo,
              pool, request, watch
  <1>1. ASSUME NEW r \in Runs, Begin(r) \/ Refuse(r) \/ Wait(r) \/ Wake(r)
        PROVE  TypeOK'
    BY <1>1 DEF Begin, Refuse, Wait, Wake
  <1>2. ASSUME NEW r \in Runs, Take(r)
        PROVE  TypeOK'
    BY <1>2 DEF Take
  <1>3. ASSUME NEW r \in Runs, CheckRun(r) \/ SetupFails(r) \/ Spawn(r) \/ RunEnds(r)
        PROVE  TypeOK'
    BY <1>3 DEF CheckRun, SetupFails, Spawn, RunEnds
  <1>4. ASSUME NEW r \in Runs, Finish(r) \/ Join(r)
        PROVE  TypeOK'
    BY <1>4 DEF Finish, Join
  <1>5. ASSUME NEW r \in Runs, Reconcile(r)
        PROVE  TypeOK'
    BY <1>5 DEF Reconcile, Decide, Stronger
  <1>6. ASSUME NEW r \in Runs, Release(r)
        PROVE  TypeOK'
    BY <1>6 DEF Release
  <1>7. ASSUME NEW r \in Runs, Monitor(r)
        PROVE  TypeOK'
    BY <1>7 DEF Monitor, CheckDone, Look, Terminate, Unpark
  <1>8. ASSUME NEW r \in Runs, Cancel(r) \/ Expire(r)
        PROVE  TypeOK'
    BY <1>8 DEF Cancel, Expire
  <1>9. CASE UNCHANGED vars
    BY <1>9 DEF vars
  <1>10. QED
    BY <1>1, <1>2, <1>3, <1>4, <1>5, <1>6, <1>7, <1>8, <1>9
    DEF Next, Acquire, RunSession

\* No lane is lost or doubled: one leaves the pool when a guard takes it, and
\* returns to it when the guard is dropped.
LEMMA LanesStep ==
  ASSUME TypeOK, LanesConserved, [Next]_vars
  PROVE  LanesConserved'
  <1> USE DEF TypeOK, LanesConserved, Go
  <1>1. ASSUME NEW r \in Runs, Take(r)
        PROVE  LanesConserved'
    BY <1>1 DEF Take, Working
  <1>2. ASSUME NEW r \in Runs, Release(r)
        PROVE  LanesConserved'
    BY <1>2 DEF Release, Working
  <1>3. CASE UNCHANGED pool
    BY <1>3 DEF pool
  <1>4. QED
    BY <1>1, <1>2, <1>3
    DEF Next, vars, Acquire, RunSession, Monitor, Begin, Refuse, Wait, Wake,
        CheckRun, SetupFails, Spawn, RunEnds, Finish, Join, Reconcile, Decide, CheckDone,
        Look, Terminate, Unpark, Cancel, Expire

------------------------------------------------------------------------------
\* What is said of monitors and of reports.
Watched == MonitorInsideRun /\ TerminatedIsReported /\ MonitorFollowsRun

\* Every step keeps a monitor inside its run and its termination reported.
LEMMA WatchedStep ==
  ASSUME LanesInv, TypeOK', [Next]_vars
  PROVE  Watched'
  <1> USE DEF LanesInv, Watched, TypeOK, MonitorInsideRun, TerminatedIsReported,
              MonitorFollowsRun, Alive, Go, MonitorGo, pool, request, watch
  <1>1. ASSUME NEW r \in Runs, Begin(r) \/ Wait(r) \/ Wake(r) \/ Take(r)
        PROVE  Watched'
    BY <1>1 DEF Begin, Wait, Wake, Take
  <1>2. ASSUME NEW r \in Runs, Refuse(r)
        PROVE  Watched'
    <2>1. r \notin terminated
      BY <1>2 DEF Refuse
    <2>2. QED
      BY <1>2, <2>1 DEF Refuse
  <1>3. ASSUME NEW r \in Runs, CheckRun(r) \/ SetupFails(r) \/ Spawn(r) \/ RunEnds(r)
        PROVE  Watched'
    BY <1>3 DEF CheckRun, SetupFails, Spawn, RunEnds
  <1>4. ASSUME NEW r \in Runs, Finish(r) \/ Join(r)
        PROVE  Watched'
    BY <1>4 DEF Finish, Join
  <1>5. ASSUME NEW r \in Runs, Reconcile(r)
        PROVE  Watched'
    <2>1. r \in terminated => Stronger(reason[r], StopReason(r)) \in {"cancelled", "deadline"}
      BY DEF Stronger
    <2>2. r \in terminated => outcome'[r] \in {"cancelled", "deadline"}
      BY <1>5, <2>1 DEF Reconcile, Decide
    <2>3. \A s \in Runs : s # r => pc'[s] = pc[s] /\ outcome'[s] = outcome[s]
      BY <1>5 DEF Reconcile, Decide
    <2>4. pc[r] = "reconcile" /\ pc'[r] = "release" /\ UNCHANGED watch
      BY <1>5 DEF Reconcile, Decide
    <2>5. QED
      BY <2>2, <2>3, <2>4
  <1>6. ASSUME NEW r \in Runs, Release(r)
        PROVE  Watched'
    BY <1>6 DEF Release
  <1>7. ASSUME NEW r \in Runs, CheckDone(r) \/ Unpark(r)
        PROVE  Watched'
    BY <1>7 DEF CheckDone, Unpark
  <1>8. ASSUME NEW r \in Runs, Look(r) \/ Terminate(r)
        PROVE  Watched'
    BY <1>8 DEF Look, Terminate, StopReason
  <1>9. ASSUME NEW r \in Runs, Cancel(r) \/ Expire(r)
        PROVE  Watched'
    BY <1>9 DEF Cancel, Expire
  <1>10. CASE UNCHANGED vars
    BY <1>10 DEF vars
  <1>11. QED
    BY <1>1, <1>2, <1>3, <1>4, <1>5, <1>6, <1>7, <1>8, <1>9, <1>10
    DEF Next, Acquire, RunSession, Monitor

------------------------------------------------------------------------------
\* Initially every lane is in the pool and there is no monitor.
LEMMA InitInv == Init => LanesInv
  BY DEF Init, LanesInv, TypeOK, Working, Reasons, LanesConserved,
         MonitorInsideRun, TerminatedIsReported, MonitorFollowsRun, Alive

\* The invariant holds in every reachable state of every instance.
THEOREM LanesSafe == Spec => []LanesInv
  <1>1. LanesInv /\ [Next]_vars => LanesInv'
    <2> SUFFICES ASSUME LanesInv, [Next]_vars
                 PROVE  LanesInv'
      OBVIOUS
    <2>1. TypeOK'
      BY TypeStep DEF LanesInv
    <2>2. LanesConserved'
      BY LanesStep DEF LanesInv
    <2>3. Watched'
      BY <2>1, WatchedStep
    <2>4. QED
      BY <2>1, <2>2, <2>3 DEF LanesInv, Watched
  <1>2. QED
    BY InitInv, <1>1, PTL DEF Spec

\* The types hold: a working call always has the lane that its guard derefs to.
THEOREM LanesTyped == Spec => []TypeOK
  <1>1. LanesInv => TypeOK
    BY DEF LanesInv
  <1>2. QED
    BY <1>1, LanesSafe, PTL

\* No lane is ever lost, and none is shared by two workers.
THEOREM NoLaneIsShared == Spec => []LanesConserved
  <1>1. LanesInv => LanesConserved
    BY DEF LanesInv
  <1>2. QED
    BY <1>1, LanesSafe, PTL

\* No monitor outlives the run it watches.
THEOREM NoMonitorOutlivesItsRun == Spec => []MonitorInsideRun
  <1>1. LanesInv => MonitorInsideRun
    BY DEF LanesInv
  <1>2. QED
    BY <1>1, LanesSafe, PTL

\* A terminated run is reported as stopped.
THEOREM TerminationIsReported == Spec => []TerminatedIsReported
  <1>1. LanesInv => TerminatedIsReported
    BY DEF LanesInv
  <1>2. QED
    BY <1>1, LanesSafe, PTL

\* No output leaves a run whose request was stopped before the decision.
THEOREM NoUnwantedOutput == Spec => OutputIsWanted
  <1> DEFINE Wanted == \A r \in Runs : outcome[r] = None /\ outcome'[r] = "ok" =>
                          r \notin cancelled \cup expired
  <1>1. TypeOK /\ [Next]_vars => [Wanted]_vars
    <2> SUFFICES ASSUME TypeOK, Next
                 PROVE  Wanted
      OBVIOUS
    <2> USE DEF TypeOK
    <2>1. ASSUME NEW r \in Runs, Reconcile(r)
          PROVE  Wanted
      <3>1. \A s \in Runs : s # r => outcome'[s] = outcome[s]
        BY <2>1 DEF Reconcile, Decide
      <3>2. outcome'[r] = "ok" => Stronger(reason[r], StopReason(r)) = "running"
        BY <2>1 DEF Reconcile, Decide, Stronger, StopReason
      <3>3. Stronger(reason[r], StopReason(r)) = "running" => r \notin cancelled \cup expired
        BY DEF Stronger, StopReason
      <3>4. QED
        BY <3>1, <3>2, <3>3
    <2>2. ASSUME NEW r \in Runs, Refuse(r) \/ CheckRun(r) \/ SetupFails(r)
          PROVE  Wanted
      BY <2>2 DEF Refuse, CheckRun, SetupFails, StopReason
    <2>3. CASE UNCHANGED outcome
      BY <2>3
    <2>4. QED
      BY <2>1, <2>2, <2>3
      DEF Next, Acquire, RunSession, Monitor, Begin, Wait, Wake, Take, Spawn,
          RunEnds, Finish, Join, Release, CheckDone, Look, Terminate, Unpark,
          Cancel, Expire
  <1>2. QED
    BY <1>1, LanesTyped, PTL DEF Spec, OutputIsWanted

------------------------------------------------------------------------------
(***************************************************************************)
(* The token that a monitor watches, and everyone else who can be stopped: *)
(* the one-way token of module CancellationToken, for any number of calls  *)
(* of cancel() and cancelled().                                            *)
(***************************************************************************)
CONSTANTS Cancellers, Waiters
VARIABLES set, notifications, canceller, waiter, seen

Token == INSTANCE CancellationToken WITH cancelled <- set

\* What the calls under way know: one call of cancel() changed the flag, and it
\* notifies once; a waiter parks on a Notified that is older than the flag.
TokenInv ==
    /\ Token!TypeOK
    /\ \A c, d \in Cancellers :
          {canceller[c], canceller[d]} \subseteq {"notify", "true"} => c = d
    /\ set <=> \E c \in Cancellers : canceller[c] \in {"notify", "true"}
    /\ notifications = 1 <=> \E c \in Cancellers : canceller[c] = "true"
    /\ \A w \in Waiters :
          /\ seen[w] <= notifications
          /\ waiter[w] \in {"checked", "parked"} => seen[w] = 0
          /\ waiter[w] = "returned" => set

LEMMA TokenInit == Token!Init => TokenInv
  <1> SUFFICES ASSUME Token!Init PROVE TokenInv
    OBVIOUS
  <1> USE DEF Token!Init
  <1>1. Token!TypeOK
    <2>1. canceller \in [Cancellers -> {"idle", "notify", "true", "false"}]
      OBVIOUS
    <2>2. waiter \in [Waiters -> {"idle", "loop", "created", "checked", "parked", "returned"}]
      OBVIOUS
    <2>3. notifications \in 0..1 /\ seen \in [Waiters -> 0..1]
      OBVIOUS
    <2> QED
      BY <2>1, <2>2, <2>3, Zenon DEF Token!TypeOK
  <1>2. \A c \in Cancellers : canceller[c] = "idle"
    OBVIOUS
  <1>3. notifications = 0 /\ set = FALSE
    OBVIOUS
  <1>4. \A w \in Waiters : seen[w] = 0 /\ waiter[w] = "idle"
    OBVIOUS
  <1> QED
    BY <1>1, <1>2, <1>3, <1>4 DEF TokenInv

LEMMA TokenStep ==
  ASSUME TokenInv, [Token!Next]_Token!vars
  PROVE  TokenInv'
  <1> USE DEF TokenInv, Token!TypeOK
  <1>1. ASSUME NEW c \in Cancellers, Token!Swap(c) PROVE TokenInv'
    <2>1. CASE set
      <3>1. canceller' = [canceller EXCEPT ![c] = "false"] /\ canceller[c] = "idle"
        BY <1>1, <2>1 DEF Token!Swap
      <3>2. \A d \in Cancellers : \A s \in {"notify", "true"} :
               canceller'[d] = s <=> canceller[d] = s
        BY <3>1
      <3> QED
        BY <1>1, <2>1, <3>1, <3>2 DEF Token!Swap
    <2>2. CASE ~set
      <3>1. canceller' = [canceller EXCEPT ![c] = "notify"] /\ canceller[c] = "idle"
        BY <1>1, <2>2 DEF Token!Swap
      <3> QED
        BY <1>1, <2>2, <3>1 DEF Token!Swap
    <2> QED
      BY <2>1, <2>2
  <1>2. ASSUME NEW c \in Cancellers, Token!NotifyWaiters(c) PROVE TokenInv'
    <2>1. notifications = 0
      BY <1>2 DEF Token!NotifyWaiters
    <2> QED
      BY <1>2, <2>1 DEF Token!NotifyWaiters
  <1>3. ASSUME NEW w \in Waiters, Token!Enter(w) \/ Token!Continue(w) PROVE TokenInv'
    <2>1. UNCHANGED <<set, notifications, canceller>>
      BY <1>3 DEF Token!Enter, Token!Continue, Token!CreateNotified, Token!Check,
                  Token!AwaitNotified, Token!Wake, Token!Move
    <2>2. CASE Token!Enter(w) \/ Token!AwaitNotified(w) \/ Token!Wake(w)
      BY <2>1, <2>2 DEF Token!Enter, Token!AwaitNotified, Token!Wake, Token!Move
    <2>3. CASE Token!CreateNotified(w)
      BY <2>1, <2>3 DEF Token!CreateNotified, Token!Move
    <2>4. CASE Token!Check(w)
      BY <2>1, <2>4 DEF Token!Check, Token!Move
    <2> QED
      BY <1>3, <2>2, <2>3, <2>4 DEF Token!Continue
  <1>4. CASE UNCHANGED Token!vars
    BY <1>4 DEF Token!vars
  <1> QED
    BY <1>1, <1>2, <1>3, <1>4 DEF Token!Next

THEOREM TokenSafe == Token!Spec => []TokenInv
  BY TokenInit, TokenStep, PTL DEF Token!Spec

\* Once the flag is set and the call that set it has notified, nobody is parked
\* on a Notified that the notification missed.
NoMissedWakeup ==
    (set /\ \A c \in Cancellers : canceller[c] # "notify") =>
        \A w \in Waiters : waiter[w] = "parked" => notifications > seen[w]

\* A cancelled() that is about to sleep or asleep is woken, whatever came between
\* its look at the flag and its sleep.
THEOREM WakeupsArrive == Token!Spec => []NoMissedWakeup
  <1>1. TokenInv => NoMissedWakeup
    BY DEF TokenInv, Token!TypeOK, NoMissedWakeup
  <1> QED
    BY <1>1, TokenSafe, PTL

\* The safety of the latch that the users of a token rely on.
LatchSafety ==
    /\ Token!AbstractLatch!Init
    /\ [][Token!AbstractLatch!Next]_(Token!AbstractLatch!vars)

LEMMA TokenImplementsStep ==
  ASSUME TokenInv, [Token!Next]_Token!vars
  PROVE  [Token!AbstractLatch!Next]_(Token!AbstractLatch!vars)
  <1> USE DEF TokenInv, Token!TypeOK
  <1> DEFINE Winners == {c \in Cancellers : canceller[c] \in {"notify", "true"}}
             Waiting == {w \in Waiters : waiter[w] \notin {"idle", "returned"}}
             Released == {w \in Waiters : waiter[w] = "returned"}
  <1>1. ASSUME NEW c \in Cancellers, Token!Swap(c)
        PROVE  Token!AbstractLatch!Set(c) \/ UNCHANGED Token!AbstractLatch!vars
    <2>1. CASE set
      <3>1. Winners' = Winners /\ set' = set /\ waiter' = waiter
        BY <1>1, <2>1 DEF Token!Swap
      <3> QED
        BY <3>1 DEF Token!AbstractLatch!vars
    <2>2. CASE ~set
      <3>1. Winners' = {c} /\ set' = TRUE /\ waiter' = waiter
        BY <1>1, <2>2 DEF Token!Swap
      <3> QED
        BY <2>2, <3>1 DEF Token!AbstractLatch!Set
    <2> QED
      BY <2>1, <2>2
  <1>2. ASSUME NEW c \in Cancellers, Token!NotifyWaiters(c)
        PROVE  UNCHANGED Token!AbstractLatch!vars
    <2>1. Winners' = Winners /\ set' = set /\ waiter' = waiter
      BY <1>2 DEF Token!NotifyWaiters
    <2> QED
      BY <2>1 DEF Token!AbstractLatch!vars
  <1>3. ASSUME NEW w \in Waiters, Token!Enter(w) PROVE Token!AbstractLatch!Wait(w)
    <2>1. /\ w \notin Waiting \cup Released
          /\ Waiting' = Waiting \cup {w} /\ Released' = Released
          /\ Winners' = Winners /\ set' = set
      BY <1>3 DEF Token!Enter, Token!Move
    <2> QED
      BY <2>1 DEF Token!AbstractLatch!Wait
  <1>4. ASSUME NEW w \in Waiters, Token!Continue(w)
        PROVE  Token!AbstractLatch!Release(w) \/ UNCHANGED Token!AbstractLatch!vars
    <2>1. Winners' = Winners /\ set' = set
      BY <1>4 DEF Token!Continue, Token!CreateNotified, Token!Check,
                  Token!AwaitNotified, Token!Wake, Token!Move
    <2>2. CASE Token!Check(w) /\ set
      <3>1. /\ w \in Waiting
            /\ Waiting' = Waiting \ {w} /\ Released' = Released \cup {w}
        BY <2>2 DEF Token!Check, Token!Move
      <3> QED
        BY <2>1, <2>2, <3>1 DEF Token!AbstractLatch!Release
    <2>3. CASE ~(Token!Check(w) /\ set)
      <3>1. Waiting' = Waiting /\ Released' = Released
        BY <1>4, <2>3 DEF Token!Continue, Token!CreateNotified, Token!Check,
                          Token!AwaitNotified, Token!Wake, Token!Move
      <3> QED
        BY <2>1, <3>1 DEF Token!AbstractLatch!vars
    <2> QED
      BY <2>2, <2>3
  <1>5. CASE UNCHANGED Token!vars
    BY <1>5 DEF Token!vars, Token!AbstractLatch!vars
  <1> QED
    BY <1>1, <1>2, <1>3, <1>4, <1>5 DEF Token!Next, Token!AbstractLatch!Next

\* The token is a latch: one of the callers that race sets it, it is never
\* cleared, and nobody's wait returns before it is set.
THEOREM TokenIsLatch == Token!Spec => LatchSafety
  <1>1. Token!Init => Token!AbstractLatch!Init
    BY DEF Token!Init, Token!AbstractLatch!Init
  <1> QED
    BY <1>1, TokenImplementsStep, TokenSafe, PTL DEF Token!Spec, LatchSafety
==============================================================================
