------------------------- MODULE OcrAdmissionProofs --------------------------
(***************************************************************************)
(* Admission, permits and counters for any number of requests, drains,     *)
(* permits and queue places, and batches of any length.                    *)
(***************************************************************************)
EXTENDS OcrAdmission, FiniteSetTheorems, FunctionTheorems, SequenceTheorems, TLAPS

USE DEF Layers, Awaiting, Executing, PCs

Ended == {"close", "return", "leave", "done"}

\* What the place of a request says of its layer, its inputs and its answer.
Placed ==
    /\ pc \in [Requests -> PCs]
    /\ layer \in [Requests -> Layers \cup {"none"}]
    /\ left \in [Requests -> 0..MaxItems]
    /\ answer \in [Requests -> {"none", "ok", "failed"}]
    /\ \A r \in Requests :
          /\ pc[r] \in {"idle", "done"} => layer[r] = "none"
          /\ pc[r] = "handler" => layer[r] # "inner"
          /\ pc[r] \notin {"idle", "done", "handler"} => layer[r] # "none"
          /\ pc[r] \notin Ended => answer[r] = "none"
          /\ pc[r] \notin Ended \cup {"idle"} => left[r] # 0

\* The semaphore's line: requests that wait, each once, and only while no permit is free.
Lined ==
    /\ waiters \in Seq(Requests)
    /\ available \in Nat
    /\ available > 0 => waiters = <<>>
    /\ \A i \in 1..Len(waiters) : pc[waiters[i]] = "waiting"
    /\ \A i, j \in 1..Len(waiters) : waiters[i] = waiters[j] => i = j

------------------------------------------------------------------------------
\* The head of the line is a request that waits.
LEMMA HeadWaits ==
  ASSUME Lined, waiters # <<>>
  PROVE  Head(waiters) \in Requests /\ pc[Head(waiters)] = "waiting"
  BY EmptySeq DEF Lined

\* The steps that leave the place of every request alone.
LEMMA StandStill ==
  ASSUME \/ \E r \in Requests : WorkerDone(r) \/ Expire(r)
         \/ ClearWarmed \/ CancelShutdown
         \/ \E d \in Drainers : Drain(d)
         \/ GateStep
  PROVE  UNCHANGED <<pc, local, server>>
  BY DEF WorkerDone, Expire, ClearWarmed, CancelShutdown, Drain, GateStep

\* A returned permit moves the one that returns it, and perhaps a waiter.
LEMMA GiveBackPlaced ==
  ASSUME Placed, Lined, NEW r \in Requests, NEW to \in {"unqueue", "leave"},
         pc[r] \in {"granted", "return"}, to = "unqueue" => pc[r] = "granted",
         GiveBack(r, to), UNCHANGED local
  PROVE  Placed'
  <1>1. CASE waiters = <<>>
    BY <1>1 DEF Placed, GiveBack, local, Ended
  <1>2. CASE waiters # <<>>
    BY <1>2, HeadWaits DEF Placed, GiveBack, local, Ended
  <1>3. QED
    BY <1>1, <1>2

\* Every step keeps them.
LEMMA PlacedStep ==
  ASSUME Placed, Lined, [Next]_vars
  PROVE  Placed'
  <1> USE AdmissionAssumption DEF Go, End, Ended, local, env
  <1>1. ASSUME NEW r \in Requests, Arrive(r)
        PROVE  Placed'
    BY <1>1 DEF Arrive, Placed
  <1>2. ASSUME NEW r \in Requests, Enter(r) \/ EnterRefused(r) \/ TryAcquire(r)
        PROVE  Placed'
    BY <1>2 DEF Enter, EnterRefused, TryAcquire, Placed
  <1>3. ASSUME NEW r \in Requests, CountQueued(r) \/ Overflow(r) \/ PollPermit(r) \/ TakePermit(r)
        PROVE  Placed'
    BY <1>3 DEF CountQueued, Overflow, PollPermit, TakePermit, Placed
  <1>4. ASSUME NEW r \in Requests, AbandonQueue(r)
        PROVE  Placed'
    <2>1. CASE pc[r] = "granted" /\ GiveBack(r, "unqueue")
      BY <1>4, <2>1, GiveBackPlaced DEF AbandonQueue
    <2>2. CASE Go(r, "queued", "unqueue") \/ Go(r, "waiting", "unqueue")
      BY <1>4, <2>2 DEF AbandonQueue, Placed
    <2>3. QED
      BY <1>4, <2>1, <2>2 DEF AbandonQueue
  <1>5. ASSUME NEW r \in Requests, Unqueue(r) \/ Start(r) \/ CheckReady(r) \/ BeginItem(r)
        PROVE  Placed'
    BY <1>5 DEF Unqueue, Start, CheckReady, BeginItem, Placed
  <1>6. ASSUME NEW r \in Requests, Dispatch(r) \/ Exit(r)
        PROVE  Placed'
    BY <1>6 DEF Dispatch, Exit, Placed
  <1>7. ASSUME NEW r \in Requests, ItemRecognized(r)
        PROVE  Placed'
    BY <1>7 DEF ItemRecognized, Placed
  <1>8. ASSUME NEW r \in Requests, ItemFailed(r) \/ StopExecution(r)
        PROVE  Placed'
    BY <1>8 DEF ItemFailed, StopExecution, Fail, Placed
  <1>9. ASSUME NEW r \in Requests, Go(r, "recognizing", "close") /\ UNCHANGED local
        PROVE  Placed'
    BY <1>9 DEF Placed
  <1>10. ASSUME NEW r \in Requests, Close(r) \/ Leave(r)
        PROVE  Placed'
    BY <1>10 DEF Close, Leave, Placed
  <1>11. ASSUME NEW r \in Requests, ReturnPermit(r)
        PROVE  Placed'
    BY <1>11, GiveBackPlaced DEF ReturnPermit
  <1>12. CASE UNCHANGED <<pc, local>>
    BY <1>12 DEF Placed
  <1>13. QED
    BY <1>1, <1>2, <1>3, <1>4, <1>5, <1>6, <1>7, <1>8, <1>9, <1>10, <1>11, <1>12, StandStill
    DEF Next, Proceed, Receive, Reject, Hangup, StopQueued, vars

------------------------------------------------------------------------------
\* A request that leaves the line leaves the others in their order.
LEMMA LeaveLine ==
  ASSUME NEW S, NEW line \in Seq(S), NEW i \in 1..Len(line)
  PROVE  LET rest == SubSeq(line, 1, i - 1) \o SubSeq(line, i + 1, Len(line))
         IN  /\ rest \in Seq(S)
             /\ Len(rest) = Len(line) - 1
             /\ \A j \in 1..(Len(line) - 1) : rest[j] = line[IF j < i THEN j ELSE j + 1]
  <1>1. Len(line) \in Nat
    BY LenProperties
  <1> DEFINE before == SubSeq(line, 1, i - 1)
             after == SubSeq(line, i + 1, Len(line))
             rest == before \o after
  <1>2. /\ before \in Seq(S)
        /\ Len(before) = i - 1
        /\ \A j \in 1..(i - 1) : before[j] = line[j]
    <2>1. \A j \in 1..(i - 1) : j \in 1..Len(line)
      BY <1>1
    <2>2. 1 \in 1..(Len(line) + 1) /\ i - 1 \in 0..Len(line)
      BY <1>1
    <2>3. QED
      BY <1>1, <2>1, <2>2, SubSeqProperties
  <1>3. /\ after \in Seq(S)
        /\ Len(after) = Len(line) - i
        /\ \A j \in 1..(Len(line) - i) : after[j] = line[i + j]
    <2>1. i + 1 \in 1..(Len(line) + 1) /\ Len(line) \in (i + 1 - 1)..Len(line)
      BY <1>1
    <2>2. QED
      BY <1>1, <2>1, SubSeqProperties
  <1>4. /\ rest \in Seq(S)
        /\ Len(rest) = Len(before) + Len(after)
        /\ \A j \in 1..(Len(before) + Len(after)) :
              rest[j] = IF j <= Len(before) THEN before[j] ELSE after[j - Len(before)]
    BY <1>2, <1>3, ConcatProperties
  <1> HIDE DEF before, after
  <1>5. Len(rest) = Len(line) - 1
    BY <1>1, <1>2, <1>3, <1>4
  <1>6. ASSUME NEW j \in 1..(Len(line) - 1)
        PROVE  rest[j] = line[IF j < i THEN j ELSE j + 1]
    <2>1. CASE j < i
      BY <1>1, <1>2, <1>3, <1>4, <2>1
    <2>2. CASE ~(j < i)
      <3>1. rest[j] = after[j - (i - 1)]
        BY <1>1, <1>2, <1>3, <1>4, <2>2
      <3>2. j - (i - 1) \in 1..(Len(line) - i)
        BY <1>1, <2>2
      <3>3. after[j - (i - 1)] = line[i + (j - (i - 1))]
        BY <1>3, <3>2
      <3>4. i + (j - (i - 1)) = j + 1
        BY <1>1
      <3>5. QED
        BY <2>2, <3>1, <3>3, <3>4
    <2>3. QED
      BY <2>1, <2>2
  <1>7. QED
    BY <1>4, <1>5, <1>6 DEF before, after

\* What goes on from elsewhere to elsewhere does not disturb the line.
LEMMA MoveLined ==
  ASSUME Placed, Lined, NEW r \in Requests, NEW to,
         pc[r] # "waiting", pc' = [pc EXCEPT ![r] = to],
         waiters' = waiters, available' \in Nat, available' <= available
  PROVE  Lined'
  BY ElementOfSeq DEF Placed, Lined

\* Nor does the future of a request that is gone.
LEMMA GiveBackLined ==
  ASSUME Placed, Lined, NEW r \in Requests, NEW to \in {"unqueue", "leave"},
         pc[r] \in {"granted", "return"}, GiveBack(r, to)
  PROVE  Lined'
  <1>1. CASE waiters = <<>>
    BY <1>1, EmptySeq DEF Placed, Lined, GiveBack
  <1>2. CASE waiters # <<>>
    <2>1. /\ waiters' \in Seq(Requests)
          /\ Len(waiters') = Len(waiters) - 1
          /\ \A i \in 1..Len(waiters') : waiters'[i] = waiters[i + 1]
          /\ Head(waiters) = waiters[1] /\ Len(waiters) \in Nat /\ Len(waiters) >= 1
      BY <1>2, HeadTailProperties, EmptySeq DEF Lined, GiveBack
    <2>2. available' = available /\ available = 0
      BY <1>2 DEF Lined, GiveBack
    <2>3. \A i \in 1..Len(waiters') : pc'[waiters'[i]] = "waiting"
      <3> SUFFICES ASSUME NEW i \in 1..Len(waiters')
                   PROVE  pc'[waiters[i + 1]] = "waiting"
        BY <2>1
      <3>1. i + 1 \in 1..Len(waiters) /\ 1 \in 1..Len(waiters) /\ i + 1 # 1
        BY <2>1
      <3>2. waiters[i + 1] # waiters[1] /\ pc[waiters[i + 1]] = "waiting"
            /\ waiters[i + 1] \in Requests
        BY <3>1, ElementOfSeq DEF Lined
      <3>3. QED
        BY <1>2, <2>1, <3>2 DEF Placed, GiveBack
    <2>4. \A i, j \in 1..Len(waiters') : waiters'[i] = waiters'[j] => i = j
      BY <2>1 DEF Lined
    <2>5. QED
      BY <2>1, <2>2, <2>3, <2>4 DEF Lined
  <1>3. QED
    BY <1>1, <1>2

\* Every step keeps the line.
LEMMA LinedStep ==
  ASSUME Placed, Lined, [Next]_vars
  PROVE  Lined'
  <1> USE DEF Go, End, env, local
  <1>1. ASSUME NEW r \in Requests, pc[r] # "waiting", \E to : pc' = [pc EXCEPT ![r] = to],
               waiters' = waiters, available' \in Nat, available' <= available
        PROVE  Lined'
    BY <1>1, MoveLined
  <1>2. ASSUME NEW r \in Requests,
               Arrive(r) \/ Enter(r) \/ EnterRefused(r) \/ CountQueued(r) \/ Overflow(r)
                 \/ TakePermit(r) \/ Unqueue(r) \/ Start(r) \/ CheckReady(r)
        PROVE  Lined'
    BY <1>1, <1>2
    DEF Arrive, Enter, EnterRefused, CountQueued, Overflow, TakePermit, Unqueue, Start,
        CheckReady, server, Lined
  <1>3. ASSUME NEW r \in Requests,
               BeginItem(r) \/ ItemRecognized(r) \/ ItemFailed(r) \/ StopExecution(r)
                 \/ Dispatch(r) \/ Exit(r) \/ Close(r) \/ Leave(r)
                 \/ (Go(r, "recognizing", "close") /\ UNCHANGED server)
        PROVE  Lined'
    BY <1>1, <1>3
    DEF BeginItem, ItemRecognized, ItemFailed, StopExecution, Fail, Dispatch, Exit, Close,
        Leave, server, Lined
  <1>4. ASSUME NEW r \in Requests, TryAcquire(r)
        PROVE  Lined'
    BY <1>1, <1>4 DEF TryAcquire, Lined
  <1>5. ASSUME NEW r \in Requests, PollPermit(r)
        PROVE  Lined'
    <2>1. CASE available > 0
      BY <1>1, <1>5, <2>1 DEF PollPermit, Lined
    <2>2. CASE ~(available > 0)
      <3>1. /\ waiters' \in Seq(Requests)
            /\ Len(waiters) \in Nat
            /\ Len(waiters') = Len(waiters) + 1
            /\ \A i \in 1..Len(waiters) : waiters'[i] = waiters[i]
            /\ waiters'[Len(waiters) + 1] = r
        BY <1>5, <2>2, AppendProperties, LenProperties DEF PollPermit, Lined
      <3>2. \A i \in 1..Len(waiters) : waiters[i] # r /\ waiters[i] \in Requests
        BY <1>5, ElementOfSeq DEF PollPermit, Lined
      <3>3. pc' = [pc EXCEPT ![r] = "waiting"] /\ available' = available
        BY <1>5, <2>2 DEF PollPermit
      <3>4. \A i \in 1..Len(waiters') : i \in 1..Len(waiters) \/ i = Len(waiters) + 1
        BY <3>1
      <3>5. \A i \in 1..Len(waiters') : pc'[waiters'[i]] = "waiting"
        <4> SUFFICES ASSUME NEW i \in 1..Len(waiters')
                     PROVE  pc'[waiters'[i]] = "waiting"
          OBVIOUS
        <4>1. CASE i \in 1..Len(waiters)
          BY <3>1, <3>2, <3>3, <4>1 DEF Placed, Lined
        <4>2. CASE i = Len(waiters) + 1
          BY <3>1, <3>3, <4>2 DEF Placed
        <4>3. QED
          BY <3>4, <4>1, <4>2
      <3>6. \A i, j \in 1..Len(waiters') : waiters'[i] = waiters'[j] => i = j
        BY <3>1, <3>2, <3>4 DEF Lined
      <3>7. QED
        BY <2>2, <3>1, <3>3, <3>5, <3>6 DEF Lined
    <2>3. QED
      BY <2>1, <2>2
  <1>6. ASSUME NEW r \in Requests, AbandonQueue(r)
        PROVE  Lined'
    <2>1. CASE pc[r] = "granted" /\ GiveBack(r, "unqueue")
      BY <2>1, GiveBackLined
    <2>2. CASE Go(r, "queued", "unqueue") /\ UNCHANGED <<available, waiters>>
      BY <1>1, <2>2 DEF Lined
    <2>3. ASSUME Go(r, "waiting", "unqueue"), UNCHANGED available,
                 NEW i \in DOMAIN waiters, waiters[i] = r,
                 waiters' = SubSeq(waiters, 1, i - 1) \o SubSeq(waiters, i + 1, Len(waiters))
          PROVE  Lined'
      <3>1. i \in 1..Len(waiters) /\ Len(waiters) \in Nat
        BY <2>3, LenProperties DEF Lined
      <3>2. /\ waiters' \in Seq(Requests)
            /\ Len(waiters') = Len(waiters) - 1
            /\ \A j \in 1..Len(waiters') : waiters'[j] = waiters[IF j < i THEN j ELSE j + 1]
        <4> DEFINE rest == SubSeq(waiters, 1, i - 1) \o SubSeq(waiters, i + 1, Len(waiters))
        <4>1. /\ rest \in Seq(Requests)
              /\ Len(rest) = Len(waiters) - 1
              /\ \A j \in 1..(Len(waiters) - 1) : rest[j] = waiters[IF j < i THEN j ELSE j + 1]
          BY <3>1, LeaveLine DEF Lined
        <4>2. waiters' = rest
          BY <2>3
        <4>3. QED
          BY <4>1, <4>2
      <3>3. \A j \in 1..Len(waiters) : j # i =>
               waiters[j] # r /\ waiters[j] \in Requests /\ pc[waiters[j]] = "waiting"
        BY <2>3, <3>1, ElementOfSeq DEF Lined
      <3>4. ASSUME NEW j \in 1..Len(waiters')
            PROVE  pc'[waiters'[j]] = "waiting"
        <4> DEFINE k == IF j < i THEN j ELSE j + 1
        <4>1. k \in 1..Len(waiters) /\ k # i /\ waiters'[j] = waiters[k]
          BY <3>1, <3>2
        <4>2. pc' = [pc EXCEPT ![r] = "unqueue"]
          BY <2>3
        <4>3. QED
          BY <3>3, <4>1, <4>2 DEF Placed
      <3>5. \A j, k \in 1..Len(waiters') : waiters'[j] = waiters'[k] => j = k
        BY <3>1, <3>2 DEF Lined
      <3>6. available' = 0
        BY <2>3, <3>1, EmptySeq DEF Lined
      <3>7. QED
        BY <3>2, <3>4, <3>5, <3>6 DEF Lined
    <2>4. QED
      BY <1>6, <2>1, <2>2, <2>3 DEF AbandonQueue
  <1>7. ASSUME NEW r \in Requests, ReturnPermit(r)
        PROVE  Lined'
    BY <1>7, GiveBackLined DEF ReturnPermit
  <1>8. CASE UNCHANGED <<pc, server>>
    BY <1>8 DEF Lined, server
  <1>9. ASSUME NEW r \in Requests, Hangup(r)
        PROVE  Lined'
    <2>1. CASE AbandonQueue(r) \/ Exit(r)
      BY <1>3, <1>6, <2>1
    <2>2. CASE Go(r, "recognizing", "close") /\ UNCHANGED server
      BY <1>3, <2>2
    <2>3. QED
      BY <1>9, <2>1, <2>2 DEF Hangup
  <1>10. ASSUME NEW r \in Requests, Proceed(r)
         PROVE  Lined'
    BY <1>2, <1>3, <1>4, <1>5, <1>6, <1>7, <1>10 DEF Proceed, StopQueued
  <1>11. QED
    BY <1>2, <1>3, <1>8, <1>9, <1>10, StandStill DEF Next, Receive, Reject, vars

------------------------------------------------------------------------------
Inside == PCs \ {"idle", "enter", "done"}
Owning == {"start", "return"} \cup Executing

\* A guard is held by who passed the gate and has not left.
Guarded ==
    /\ guard \in [Requests \X Layers -> {"free", "held", "signal"}]
    /\ \A r \in Requests, l \in Layers :
          guard[<<r, l>>] = "held" <=> l = layer[r] /\ pc[r] \in Inside

\* A permit is owned from its assignment, by the admission that asked for it, until it
\* is given back.
Permitted ==
    /\ permit \subseteq Requests \X Layers
    /\ \A r \in Requests, l \in Layers :
          <<r, l>> \in permit => l = layer[r] /\ pc[r] \in Owning \cup {"unqueue"}
    /\ \A r \in Requests :
          pc[r] \in Owning /\ layer[r] # "none" => <<r, layer[r]>> \in permit

\* What a request does between its admission and its last step does not move its guard.
LEMMA StillGuarded ==
  ASSUME Guarded, guard' = guard, layer' = layer,
         \A q \in Requests : pc'[q] \in Inside <=> pc[q] \in Inside
  PROVE  Guarded'
  BY DEF Guarded

\* The steps of the gate that are not those of a request hold and release nothing.
LEMMA GateGuarded ==
  ASSUME Placed, Guarded, UNCHANGED <<pc, layer>>,
         \/ GateStep
         \/ \E d \in Drainers : Drain(d)
         \/ UNCHANGED guard
  PROVE  Guarded'
  <1>1. ASSUME NEW g \in Requests \X Layers, Gate!SignalRelease(g)
        PROVE  Guarded'
    BY <1>1 DEF Gate!SignalRelease, Guarded
  <1>2. ASSUME NEW d \in Drainers, Gate!ContinueDrain(d) \/ Gate!BeginDrain(d)
        PROVE  guard' = guard
    BY <1>2
    DEF Gate!ContinueDrain, Gate!BeginDrain, Gate!SignalDrain, Gate!Wake, Gate!ReadOutcome,
        Gate!Elapse, Gate!ForceDrain, Gate!SignalForce
  <1>3. CASE guard' = guard
    BY <1>3 DEF Guarded
  <1>4. QED
    BY <1>1, <1>2, <1>3 DEF GateStep, Drain

\* Every step keeps the guards where the requests are.
LEMMA GuardedStep ==
  ASSUME Placed, Lined, Guarded, Placed', [Next]_vars
  PROVE  Guarded'
  <1> USE DEF Go, End, local, env, gate
  <1>1. ASSUME NEW r \in Requests, Arrive(r) \/ EnterRefused(r) \/ Dispatch(r) \/ Exit(r)
        PROVE  Guarded'
    BY <1>1 DEF Arrive, EnterRefused, Dispatch, Exit, Placed, Guarded, Inside
  <1>2. ASSUME NEW r \in Requests, Enter(r)
        PROVE  Guarded'
    BY <1>2 DEF Enter, Admission, Gate!TryEnter, Gate!Admit, Placed, Guarded, Inside
  <1>3. ASSUME NEW r \in Requests,
               \/ TryAcquire(r) \/ CountQueued(r) \/ Overflow(r) \/ PollPermit(r) \/ TakePermit(r)
               \/ Unqueue(r) \/ Start(r) \/ CheckReady(r) \/ BeginItem(r) \/ ItemRecognized(r)
        PROVE  Guarded'
    <2>1. /\ pc[r] \in Inside /\ layer' = layer /\ guard' = guard
          /\ \E to \in Inside : pc' = [pc EXCEPT ![r] = to]
      BY <1>3
      DEF TryAcquire, CountQueued, Overflow, PollPermit, TakePermit, Unqueue, Start, CheckReady,
          BeginItem, ItemRecognized, Inside
    <2>2. QED
      BY <2>1, StillGuarded DEF Placed
  <1>4. ASSUME NEW r \in Requests,
               \/ ItemFailed(r) \/ StopExecution(r) \/ Close(r)
               \/ Go(r, "recognizing", "close") /\ UNCHANGED <<local, gate>>
        PROVE  Guarded'
    <2>1. /\ pc[r] \in Inside /\ layer' = layer /\ guard' = guard
          /\ \E to \in Inside : pc' = [pc EXCEPT ![r] = to]
      BY <1>4 DEF ItemFailed, StopExecution, Fail, Close, Inside
    <2>2. QED
      BY <2>1, StillGuarded DEF Placed
  <1>5. ASSUME NEW r \in Requests, NEW to \in {"unqueue", "leave"},
               pc[r] \in {"granted", "return"}, GiveBack(r, to), UNCHANGED <<local, gate>>
        PROVE  Guarded'
    <2>1. CASE waiters = <<>>
      BY <1>5, <2>1, StillGuarded DEF GiveBack, Placed, Inside
    <2>2. CASE waiters # <<>>
      <3>1. \A q \in Requests : pc'[q] \in Inside <=> pc[q] \in Inside
        <4> DEFINE h == Head(waiters)
        <4>1. /\ h \in Requests /\ pc[h] = "waiting"
              /\ pc' = [pc EXCEPT ![r] = to, ![h] = "granted"]
          BY <1>5, <2>2, HeadWaits DEF GiveBack
        <4> HIDE DEF h
        <4>2. QED
          BY <1>5, <4>1 DEF Placed, Inside
      <3>2. QED
        BY <1>5, <3>1, StillGuarded
    <2>3. QED
      BY <2>1, <2>2
  <1>6. ASSUME NEW r \in Requests, AbandonQueue(r)
        PROVE  Guarded'
    <2>1. CASE Go(r, "queued", "unqueue") \/ Go(r, "waiting", "unqueue")
      BY <1>6, <2>1 DEF AbandonQueue, Placed, Guarded, Inside
    <2>2. QED
      BY <1>5, <1>6, <2>1 DEF AbandonQueue
  <1>7. ASSUME NEW r \in Requests, ReturnPermit(r)
        PROVE  Guarded'
    BY <1>5, <1>7 DEF ReturnPermit
  <1>8. ASSUME NEW r \in Requests, Leave(r)
        PROVE  Guarded'
    <2>1. <<r, layer[r]>> \in Requests \X Layers
      BY <1>8 DEF Leave, Placed
    <2>2. \E s \in {"free", "signal"} : guard' = [guard EXCEPT ![<<r, layer[r]>>] = s]
      BY <1>8 DEF Leave, Admission, Gate!Release
    <2>3. /\ pc' = [pc EXCEPT ![r] = "done"] /\ layer' = [layer EXCEPT ![r] = "none"]
          /\ pc[r] = "leave"
      BY <1>8 DEF Leave
    <2>4. guard' \in [Requests \X Layers -> {"free", "held", "signal"}]
      BY <2>1, <2>2 DEF Guarded
    <2>5. ASSUME NEW q \in Requests, NEW l \in Layers
          PROVE  guard'[<<q, l>>] = "held" <=> l = layer'[q] /\ pc'[q] \in Inside
      <3>1. CASE q # r
        <4>1. <<q, l>> \in Requests \X Layers /\ <<q, l>> # <<r, layer[r]>>
          BY <3>1
        <4>2. guard'[<<q, l>>] = guard[<<q, l>>]
          BY <2>1, <2>2, <4>1 DEF Guarded
        <4>3. pc'[q] = pc[q] /\ layer'[q] = layer[q]
          BY <2>3, <3>1 DEF Placed
        <4>4. QED
          BY <4>2, <4>3 DEF Guarded
      <3>2. CASE q = r /\ l = layer[r]
        BY <2>1, <2>2, <2>3, <3>2 DEF Placed, Guarded, Inside
      <3>3. CASE q = r /\ l # layer[r]
        BY <2>1, <2>2, <2>3, <3>3 DEF Placed, Guarded, Inside
      <3>4. QED
        BY <3>1, <3>2, <3>3
    <2>6. QED
      BY <2>4, <2>5 DEF Guarded
  <1>9. CASE UNCHANGED <<pc, local>> /\ (GateStep \/ (\E d \in Drainers : Drain(d)) \/ UNCHANGED guard)
    BY <1>9, GateGuarded
  <1>10. ASSUME NEW r \in Requests, Proceed(r) \/ Receive(r) \/ Hangup(r)
         PROVE  Guarded'
    BY <1>1, <1>2, <1>3, <1>4, <1>6, <1>7, <1>8, <1>10
    DEF Proceed, Receive, Hangup, Reject, StopQueued
  <1>11. ASSUME NEW r \in Requests, WorkerDone(r) \/ Expire(r) \/ ClearWarmed \/ CancelShutdown
         PROVE  UNCHANGED guard
    BY <1>11 DEF WorkerDone, Expire, ClearWarmed, CancelShutdown
  <1>12. CASE ClearWarmed \/ CancelShutdown
    BY <1>9, <1>12, StandStill DEF ClearWarmed, CancelShutdown
  <1>13. QED
    BY <1>1, <1>9, <1>10, <1>11, <1>12, StandStill DEF Next, vars

------------------------------------------------------------------------------
\* What neither gains nor gives back a permit, nor starts to own one.
LEMMA StillPermitted ==
  ASSUME Permitted, permit' = permit, layer' = layer,
         \A q \in Requests : /\ pc'[q] \in Owning => pc[q] \in Owning
                             /\ pc[q] \in Owning \cup {"unqueue"} => pc'[q] \in Owning \cup {"unqueue"}
  PROVE  Permitted'
  BY DEF Permitted

\* A request that got a permit goes on with it.
LEMMA GainPermitted ==
  ASSUME Placed, Permitted, NEW r \in Requests, NEW to \in {"start", "unqueue"},
         pc[r] \notin Owning \cup {"idle", "done"}, pc' = [pc EXCEPT ![r] = to], layer' = layer,
         permit' = permit \cup {<<r, layer[r]>>}
  PROVE  Permitted'
  BY DEF Placed, Permitted, Owning

\* Every step keeps the permits with their requests.
LEMMA PermittedStep ==
  ASSUME Placed, Lined, Permitted, [Next]_vars
  PROVE  Permitted'
  <1> USE DEF Go, End, local, env, server, Admission
  <1>1. ASSUME NEW r \in Requests, Arrive(r) \/ EnterRefused(r) \/ Dispatch(r) \/ Exit(r) \/ Leave(r)
        PROVE  Permitted'
    BY <1>1 DEF Arrive, EnterRefused, Dispatch, Exit, Leave, Placed, Permitted, Owning
  <1>2. ASSUME NEW r \in Requests, permit' = permit, layer' = layer,
               NEW to, pc' = [pc EXCEPT ![r] = to],
               to \in Owning => pc[r] \in Owning,
               pc[r] \in Owning \cup {"unqueue"} => to \in Owning \cup {"unqueue"}
        PROVE  Permitted'
    BY <1>2, StillPermitted DEF Placed
  <1>3. ASSUME NEW r \in Requests, Enter(r) \/ CountQueued(r) \/ Overflow(r) \/ Start(r) \/ CheckReady(r)
                                     \/ BeginItem(r)
        PROVE  Permitted'
    BY <1>2, <1>3 DEF Enter, CountQueued, Overflow, Start, CheckReady, BeginItem, Owning
  <1>4. ASSUME NEW r \in Requests,
               \/ ItemRecognized(r) \/ ItemFailed(r) \/ StopExecution(r) \/ Close(r)
               \/ Go(r, "recognizing", "close") /\ UNCHANGED <<server, local>>
        PROVE  Permitted'
    BY <1>2, <1>4 DEF ItemRecognized, ItemFailed, StopExecution, Fail, Close, Owning
  <1>5. ASSUME NEW r \in Requests, TryAcquire(r) \/ PollPermit(r) \/ TakePermit(r)
        PROVE  Permitted'
    <2>1. CASE ~TakePermit(r) /\ ~(available > 0)
      BY <1>2, <1>5, <2>1 DEF TryAcquire, PollPermit, Owning
    <2>2. CASE TakePermit(r) \/ available > 0
      BY <1>5, <2>2, GainPermitted DEF TryAcquire, PollPermit, TakePermit, Owning
    <2>3. QED
      BY <2>1, <2>2
  <1>6. ASSUME NEW r \in Requests, Unqueue(r)
        PROVE  Permitted'
    BY <1>6 DEF Unqueue, Placed, Permitted, Owning
  <1>7. ASSUME NEW r \in Requests, AbandonQueue(r)
        PROVE  Permitted'
    <2>1. CASE pc[r] = "granted" /\ GiveBack(r, "unqueue")
      <3>1. CASE waiters = <<>>
        BY <1>2, <1>7, <2>1, <3>1 DEF AbandonQueue, GiveBack, Owning
      <3>2. CASE waiters # <<>>
        <4> DEFINE h == Head(waiters)
        <4>1. /\ h \in Requests /\ pc[h] = "waiting"
              /\ pc' = [pc EXCEPT ![r] = "unqueue", ![h] = "granted"]
          BY <2>1, <3>2, HeadWaits DEF GiveBack
        <4> HIDE DEF h
        <4>2. permit' = permit /\ layer' = layer
          BY <1>7 DEF AbandonQueue
        <4>3. QED
          BY <2>1, <4>1, <4>2, StillPermitted DEF Placed, Owning
      <3>3. QED
        BY <3>1, <3>2
    <2>2. CASE Go(r, "queued", "unqueue") \/ Go(r, "waiting", "unqueue")
      BY <1>2, <1>7, <2>2 DEF AbandonQueue, Owning
    <2>3. QED
      BY <1>7, <2>1, <2>2 DEF AbandonQueue
  <1>8. ASSUME NEW r \in Requests, ReturnPermit(r)
        PROVE  Permitted'
    <2>1. /\ permit' = permit \ {<<r, layer[r]>>} /\ layer' = layer
          /\ pc[r] = "return" /\ GiveBack(r, "leave")
      BY <1>8 DEF ReturnPermit
    <2>2. CASE waiters = <<>>
      BY <2>1, <2>2 DEF GiveBack, Placed, Permitted, Owning
    <2>3. CASE waiters # <<>>
      <3> DEFINE h == Head(waiters)
      <3>1. /\ h \in Requests /\ pc[h] = "waiting"
            /\ pc' = [pc EXCEPT ![r] = "leave", ![h] = "granted"]
        BY <2>1, <2>3, HeadWaits DEF GiveBack
      <3> HIDE DEF h
      <3>2. QED
        BY <2>1, <3>1 DEF Placed, Permitted, Owning
    <2>4. QED
      BY <2>2, <2>3
  <1>9. CASE UNCHANGED <<pc, local, server>>
    BY <1>9 DEF Permitted
  <1>10. ASSUME NEW r \in Requests, Proceed(r) \/ Receive(r) \/ Hangup(r)
         PROVE  Permitted'
    BY <1>1, <1>3, <1>4, <1>5, <1>6, <1>7, <1>8, <1>10
    DEF Proceed, Receive, Hangup, Reject, StopQueued
  <1>11. QED
    BY <1>1, <1>9, <1>10, StandStill DEF Next, vars

------------------------------------------------------------------------------
At(places) == {r \in Requests : pc[r] \in places}
Running == {r \in Requests : pc[r] \in Executing /\ layer[r] # "none"}
Answered(as) == {r \in Requests : answer[r] = as}
Queuing == Awaiting \cup {"overflow", "unqueue"}

\* Every counter counts what it is meant to.
Counted ==
    /\ queued = Cardinality(At(Queuing))
    /\ running = Cardinality(Running)
    /\ CountedOnce

\* Subsets of the requests are finite, and so are their permits.
LEMMA RequestsFinite ==
  /\ \A S \in SUBSET Requests : IsFiniteSet(S) /\ Cardinality(S) \in 0..Cardinality(Requests)
  /\ \A S \in SUBSET (Requests \X Layers) : IsFiniteSet(S) /\ Cardinality(S) \in Nat
  <1>1. IsFiniteSet(Requests) /\ IsFiniteSet(Layers)
    <2>1. IsFiniteSet({"outer"}) /\ IsFiniteSet({"inner"})
      BY FS_Singleton
    <2>2. IsFiniteSet({"outer"} \cup {"inner"})
      BY <2>1, FS_Union
    <2>3. Layers = {"outer"} \cup {"inner"}
      OBVIOUS
    <2>4. QED
      BY <2>2, <2>3, AdmissionAssumption
  <1>2. IsFiniteSet(Requests \X Layers)
    BY <1>1, FS_Product
  <1>3. QED
    BY <1>1, <1>2, FS_Subset, FS_CardinalityType

\* A request that moves into some places makes those there one more.
LEMMA Joins ==
  ASSUME Placed, NEW places, NEW r \in Requests, NEW to \in places, pc[r] \notin places,
         pc' = [pc EXCEPT ![r] = to]
  PROVE  Cardinality(At(places)') = Cardinality(At(places)) + 1
  <1>1. At(places)' = At(places) \cup {r} /\ r \notin At(places)
    BY DEF At, Placed
  <1>2. IsFiniteSet(At(places))
    BY RequestsFinite DEF At
  <1>3. QED
    BY <1>1, <1>2, FS_AddElement

\* One that moves out of them makes them one less.
LEMMA Parts ==
  ASSUME Placed, NEW places, NEW r \in Requests, NEW to, to \notin places, pc[r] \in places,
         pc' = [pc EXCEPT ![r] = to]
  PROVE  Cardinality(At(places)') = Cardinality(At(places)) - 1
  <1>1. At(places)' = At(places) \ {r} /\ r \in At(places)
    BY DEF At, Placed
  <1>2. IsFiniteSet(At(places))
    BY RequestsFinite DEF At
  <1>3. QED
    BY <1>1, <1>2, FS_RemoveElement

\* One that moves elsewhere, or within them, changes nothing.
LEMMA Stays ==
  ASSUME Placed, NEW places, NEW r \in Requests, NEW to, pc[r] \in places <=> to \in places,
         pc' = [pc EXCEPT ![r] = to]
  PROVE  At(places)' = At(places)
  BY DEF At, Placed

\* Nor does a permit that goes to a waiter, where waiting and having is the same.
LEMMA StaysBack ==
  ASSUME Placed, Lined, NEW places, NEW r \in Requests, NEW to,
         pc[r] \in places <=> to \in places, "waiting" \in places <=> "granted" \in places,
         pc[r] # "waiting", GiveBack(r, to)
  PROVE  At(places)' = At(places)
  <1>1. CASE waiters = <<>>
    BY <1>1, Stays DEF GiveBack
  <1>2. CASE waiters # <<>>
    <2> DEFINE h == Head(waiters)
    <2>1. /\ h \in Requests /\ pc[h] = "waiting" /\ h # r
          /\ pc' = [pc EXCEPT ![r] = to, ![h] = "granted"]
      BY <1>2, HeadWaits DEF GiveBack
    <2> HIDE DEF h
    <2>2. \A q \in Requests : pc'[q] = IF q = h THEN "granted" ELSE IF q = r THEN to ELSE pc[q]
      BY <2>1 DEF Placed
    <2>3. \A q \in Requests : pc'[q] \in places <=> pc[q] \in places
      BY <2>1, <2>2
    <2>4. QED
      BY <2>3 DEF At
  <1>3. QED
    BY <1>1, <1>2

\* Every step keeps the queue counter.
LEMMA QueuedStep ==
  ASSUME Placed, Lined, queued = Cardinality(At(Queuing)), [Next]_vars
  PROVE  queued' = Cardinality(At(Queuing)')
  <1> DEFINE Goal == queued' = Cardinality(At(Queuing)')
  <1> USE DEF Go, End, env, server, local, Queuing
  <1>1. ASSUME NEW r \in Requests, CountQueued(r)
        PROVE  Goal
    BY <1>1, Joins DEF CountQueued
  <1>2. ASSUME NEW r \in Requests, Overflow(r) \/ Unqueue(r)
        PROVE  Goal
    BY <1>2, Parts DEF Overflow, Unqueue
  <1>3. ASSUME NEW r \in Requests, NEW to, pc' = [pc EXCEPT ![r] = to],
               pc[r] \in Queuing <=> to \in Queuing, queued' = queued
        PROVE  Goal
    BY <1>3, Stays
  <1>4. ASSUME NEW r \in Requests,
               \/ Arrive(r) \/ Enter(r) \/ EnterRefused(r) \/ TryAcquire(r) \/ PollPermit(r)
               \/ TakePermit(r) \/ Start(r) \/ CheckReady(r) \/ BeginItem(r)
        PROVE  Goal
    BY <1>3, <1>4
    DEF Arrive, Enter, EnterRefused, TryAcquire, PollPermit, TakePermit, Start, CheckReady, BeginItem
  <1>5. ASSUME NEW r \in Requests,
               \/ ItemRecognized(r) \/ ItemFailed(r) \/ StopExecution(r) \/ Dispatch(r) \/ Exit(r)
               \/ Close(r) \/ Leave(r)
               \/ Go(r, "recognizing", "close") /\ UNCHANGED server
        PROVE  Goal
    BY <1>3, <1>5
    DEF ItemRecognized, ItemFailed, StopExecution, Fail, Dispatch, Exit, Close, Leave
  <1>6. ASSUME NEW r \in Requests, AbandonQueue(r)
        PROVE  Goal
    <2>1. CASE pc[r] = "granted" /\ GiveBack(r, "unqueue")
      BY <1>6, <2>1, StaysBack DEF AbandonQueue
    <2>2. CASE Go(r, "queued", "unqueue") \/ Go(r, "waiting", "unqueue")
      BY <1>3, <1>6, <2>2 DEF AbandonQueue
    <2>3. QED
      BY <1>6, <2>1, <2>2 DEF AbandonQueue
  <1>7. ASSUME NEW r \in Requests, ReturnPermit(r)
        PROVE  Goal
    BY <1>7, StaysBack DEF ReturnPermit
  <1>8. CASE UNCHANGED <<pc, server>>
    BY <1>8 DEF At
  <1>9. ASSUME NEW r \in Requests, Proceed(r) \/ Receive(r) \/ Hangup(r)
        PROVE  Goal
    BY <1>1, <1>2, <1>4, <1>5, <1>6, <1>7, <1>9 DEF Proceed, Receive, Hangup, Reject, StopQueued
  <1>10. QED
    BY <1>4, <1>8, <1>9, StandStill DEF Next, vars

\* Every step keeps the gauge of active requests.
LEMMA RunningStep ==
  ASSUME Placed, Lined, running = Cardinality(Running), [Next]_vars
  PROVE  running' = Cardinality(Running')
  <1> DEFINE Goal == running' = Cardinality(Running')
  <1> USE DEF Go, End, env, server, local
  <1>0. IsFiniteSet(Running)
    BY RequestsFinite DEF Running
  <1>1. ASSUME NEW r \in Requests, Start(r)
        PROVE  Goal
    <2>1. Running' = Running \cup {r} /\ r \notin Running
      BY <1>1 DEF Start, Placed, Running
    <2>2. QED
      BY <1>0, <1>1, <2>1, FS_AddElement DEF Start
  <1>2. ASSUME NEW r \in Requests, Close(r)
        PROVE  Goal
    <2>1. Running' = Running \ {r} /\ r \in Running
      BY <1>2 DEF Close, Placed, Running
    <2>2. QED
      BY <1>0, <1>2, <2>1, FS_RemoveElement DEF Close
  <1>3. ASSUME NEW r \in Requests, NEW to, pc' = [pc EXCEPT ![r] = to],
               \A q \in Requests \ {r} : layer'[q] = layer[q],
               pc[r] \in Executing /\ layer[r] # "none" <=> to \in Executing /\ layer'[r] # "none",
               running' = running
        PROVE  Goal
    <2>1. Running' = Running
      BY <1>3 DEF Placed, Running
    <2>2. QED
      BY <1>3, <2>1
  <1>4. ASSUME NEW r \in Requests,
               \/ Arrive(r) \/ Enter(r) \/ EnterRefused(r) \/ TryAcquire(r) \/ CountQueued(r)
               \/ Overflow(r) \/ PollPermit(r) \/ TakePermit(r) \/ Unqueue(r)
        PROVE  Goal
    BY <1>3, <1>4
    DEF Arrive, Enter, EnterRefused, TryAcquire, CountQueued, Overflow, PollPermit, TakePermit,
        Unqueue, Placed
  <1>5. ASSUME NEW r \in Requests, CheckReady(r) \/ BeginItem(r) \/ ItemRecognized(r)
        PROVE  Goal
    BY <1>3, <1>5 DEF CheckReady, BeginItem, ItemRecognized
  <1>6. ASSUME NEW r \in Requests,
               \/ ItemFailed(r) \/ StopExecution(r)
               \/ Go(r, "recognizing", "close") /\ UNCHANGED <<server, local>>
        PROVE  Goal
    BY <1>3, <1>6 DEF ItemFailed, StopExecution, Fail
  <1>7. ASSUME NEW r \in Requests, Dispatch(r) \/ Exit(r) \/ Leave(r)
        PROVE  Goal
    BY <1>3, <1>7 DEF Dispatch, Exit, Leave, Placed
  <1>8. ASSUME NEW r \in Requests, NEW to \in {"unqueue", "leave"},
               pc[r] \in {"granted", "return"}, GiveBack(r, to), UNCHANGED <<running, layer>>
        PROVE  Goal
    <2>1. At(Executing)' = At(Executing)
      BY <1>8, StaysBack
    <2>2. Running = {q \in At(Executing) : layer[q] # "none"}
      BY DEF Running, At
    <2>3. Running' = {q \in At(Executing)' : layer'[q] # "none"}
      BY DEF Running, At
    <2>4. QED
      BY <1>8, <2>1, <2>2, <2>3
  <1>9. ASSUME NEW r \in Requests, AbandonQueue(r)
        PROVE  Goal
    <2>1. CASE pc[r] = "granted" /\ GiveBack(r, "unqueue")
      BY <1>8, <1>9, <2>1 DEF AbandonQueue
    <2>2. CASE Go(r, "queued", "unqueue") \/ Go(r, "waiting", "unqueue")
      BY <1>3, <1>9, <2>2 DEF AbandonQueue
    <2>3. QED
      BY <1>9, <2>1, <2>2 DEF AbandonQueue
  <1>10. ASSUME NEW r \in Requests, ReturnPermit(r)
         PROVE  Goal
    BY <1>8, <1>10 DEF ReturnPermit
  <1>11. CASE UNCHANGED <<pc, local, server>>
    BY <1>11 DEF Running
  <1>12. ASSUME NEW r \in Requests, Proceed(r) \/ Receive(r) \/ Hangup(r)
         PROVE  Goal
    BY <1>1, <1>2, <1>4, <1>5, <1>6, <1>7, <1>9, <1>10, <1>12
    DEF Proceed, Receive, Hangup, Reject, StopQueued
  <1>13. QED
    BY <1>4, <1>11, <1>12, StandStill DEF Next, vars

\* Every step keeps the counters of completed and failed requests.
LEMMA AnswersStep ==
  ASSUME Placed, CountedOnce, [Next]_vars
  PROVE  CountedOnce'
  <1> USE DEF Go, End, env, server, local
  <1>0. /\ IsFiniteSet(Answered("ok")) /\ IsFiniteSet(Answered("failed"))
    BY RequestsFinite DEF Answered
  <1>1. ASSUME NEW r \in Requests, answer[r] = "none", answer' = [answer EXCEPT ![r] = "ok"],
               completed' = completed + 1, failed' = failed
        PROVE  CountedOnce'
    <2>1. /\ Answered("ok")' = Answered("ok") \cup {r} /\ r \notin Answered("ok")
          /\ Answered("failed")' = Answered("failed")
      BY <1>1 DEF Answered, Placed
    <2>2. QED
      BY <1>0, <1>1, <2>1, FS_AddElement DEF CountedOnce, Answered
  <1>2. ASSUME NEW r \in Requests, answer[r] = "none", answer' = [answer EXCEPT ![r] = "failed"],
               completed' = completed, failed' = failed + 1
        PROVE  CountedOnce'
    <2>1. /\ Answered("failed")' = Answered("failed") \cup {r} /\ r \notin Answered("failed")
          /\ Answered("ok")' = Answered("ok")
      BY <1>2 DEF Answered, Placed
    <2>2. QED
      BY <1>0, <1>2, <2>1, FS_AddElement DEF CountedOnce, Answered
  <1>3. CASE UNCHANGED <<answer, completed, failed>>
    BY <1>3 DEF CountedOnce
  <1>4. ASSUME NEW r \in Requests, ItemRecognized(r)
        PROVE  CountedOnce'
    <2>1. answer[r] = "none"
      BY <1>4 DEF ItemRecognized, Placed, Ended
    <2>2. QED
      BY <1>1, <1>3, <1>4, <2>1 DEF ItemRecognized
  <1>5. ASSUME NEW r \in Requests, ItemFailed(r) \/ StopExecution(r)
        PROVE  CountedOnce'
    <2>1. answer[r] = "none" /\ Fail(r, "close")
      BY <1>5 DEF ItemFailed, StopExecution, Placed, Ended
    <2>2. QED
      BY <1>2, <2>1 DEF Fail
  <1>6. ASSUME NEW r \in Requests,
               \/ Arrive(r) \/ Enter(r) \/ EnterRefused(r) \/ TryAcquire(r) \/ CountQueued(r)
               \/ Overflow(r) \/ PollPermit(r) \/ TakePermit(r) \/ Unqueue(r) \/ Start(r)
        PROVE  UNCHANGED <<answer, completed, failed>>
    BY <1>6
    DEF Arrive, Enter, EnterRefused, TryAcquire, CountQueued, Overflow, PollPermit, TakePermit,
        Unqueue, Start
  <1>7. ASSUME NEW r \in Requests,
               \/ CheckReady(r) \/ BeginItem(r) \/ Dispatch(r) \/ Exit(r) \/ Close(r) \/ Leave(r)
               \/ AbandonQueue(r) \/ ReturnPermit(r)
        PROVE  UNCHANGED <<answer, completed, failed>>
    BY <1>7 DEF CheckReady, BeginItem, Dispatch, Exit, Close, Leave, AbandonQueue, ReturnPermit
  <1>8. ASSUME NEW r \in Requests, Proceed(r) \/ Receive(r) \/ Hangup(r)
        PROVE  CountedOnce'
    BY <1>3, <1>4, <1>5, <1>6, <1>7, <1>8 DEF Proceed, Receive, Hangup, Reject, StopQueued
  <1>9. QED
    BY <1>3, <1>6, <1>8, StandStill DEF Next, vars

------------------------------------------------------------------------------
\* Where a permit is, while it is nobody's to use yet.
Granted == At({"granted"})

\* Every permit is somewhere.
Conserved == available + Cardinality(permit) + Cardinality(Granted) = MaxConcurrent

\* The places in the queue are not exceeded.
Bounded == Cardinality(At(Awaiting)) <= QueueCapacity

\* A returned permit is free, or with the waiter that came first.
LEMMA GiveBackCounts ==
  ASSUME Placed, Lined, NEW r \in Requests, NEW to \in {"unqueue", "leave"},
         pc[r] \in {"granted", "return"}, GiveBack(r, to)
  PROVE  available' + Cardinality(Granted') =
           available + Cardinality(Granted) + (IF pc[r] = "granted" THEN 0 ELSE 1)
  <1>0. /\ IsFiniteSet(Granted) /\ Cardinality(Granted) \in Nat
        /\ IsFiniteSet(Granted \ {r}) /\ Cardinality(Granted \ {r}) \in Nat
    BY RequestsFinite DEF Granted, At
  <1>1. Cardinality(Granted \ {r}) = Cardinality(Granted) - (IF pc[r] = "granted" THEN 1 ELSE 0)
    BY <1>0, FS_RemoveElement DEF Granted, At
  <1>2. CASE waiters = <<>>
    <2>1. Granted' = Granted \ {r} /\ available' = available + 1
      BY <1>2 DEF GiveBack, Placed, Granted, At
    <2>2. QED
      BY <1>0, <1>1, <2>1 DEF Lined
  <1>3. CASE waiters # <<>>
    <2> DEFINE h == Head(waiters)
    <2>1. /\ h \in Requests /\ pc[h] = "waiting" /\ h # r
          /\ pc' = [pc EXCEPT ![r] = to, ![h] = "granted"]
          /\ available' = available
      BY <1>3, HeadWaits DEF GiveBack
    <2> HIDE DEF h
    <2>2. Granted' = (Granted \ {r}) \cup {h} /\ h \notin Granted \ {r}
      BY <2>1 DEF Placed, Granted, At
    <2>3. Cardinality(Granted') = Cardinality(Granted \ {r}) + 1
      BY <1>0, <2>2, FS_AddElement
    <2>4. QED
      BY <1>0, <1>1, <2>1, <2>3 DEF Lined
  <1>4. QED
    BY <1>2, <1>3

\* Every step keeps the permits.
LEMMA ConservedStep ==
  ASSUME Placed, Lined, Permitted, Conserved, [Next]_vars
  PROVE  Conserved'
  <1> USE DEF Go, End, env, server, local, Admission
  <1>0. /\ IsFiniteSet(permit) /\ Cardinality(permit) \in Nat
        /\ IsFiniteSet(Granted) /\ Cardinality(Granted) \in Nat
        /\ available \in Nat
    BY RequestsFinite DEF Permitted, Granted, At, Lined
  <1>1. ASSUME NEW r \in Requests, NEW to, pc' = [pc EXCEPT ![r] = to], pc[r] # "granted",
               to # "granted", UNCHANGED <<available, permit>>
        PROVE  Conserved'
    BY <1>1, Stays DEF Conserved, Granted
  <1>2. ASSUME NEW r \in Requests, NEW to, pc' = [pc EXCEPT ![r] = to], pc[r] # "granted",
               to # "granted", available > 0, available' = available - 1,
               pc[r] \in {"acquire", "queued"}, permit' = permit \cup {<<r, layer[r]>>}
        PROVE  Conserved'
    <2>1. layer[r] \in Layers
      BY <1>2 DEF Placed
    <2>2. <<r, layer[r]>> \notin permit
      BY <1>2, <2>1 DEF Permitted, Owning
    <2>3. Cardinality(permit') = Cardinality(permit) + 1
      BY <1>0, <1>2, <2>2, FS_AddElement
    <2>4. Granted' = Granted
      BY <1>2, Stays DEF Granted
    <2>5. QED
      BY <1>0, <1>2, <2>3, <2>4 DEF Conserved
  <1>3. ASSUME NEW r \in Requests, TakePermit(r)
        PROVE  Conserved'
    <2>1. layer[r] \in Layers
      BY <1>3 DEF TakePermit, Placed
    <2>2. <<r, layer[r]>> \notin permit
      BY <1>3, <2>1 DEF TakePermit, Permitted, Owning
    <2>3. Cardinality(permit') = Cardinality(permit) + 1
      BY <1>0, <1>3, <2>2, FS_AddElement DEF TakePermit
    <2>4. Cardinality(Granted') = Cardinality(Granted) - 1
      BY <1>3, Parts DEF TakePermit, Granted
    <2>5. QED
      BY <1>0, <1>3, <2>3, <2>4 DEF TakePermit, Conserved
  <1>4. ASSUME NEW r \in Requests, TryAcquire(r) \/ PollPermit(r)
        PROVE  Conserved'
    <2>1. CASE available > 0
      BY <1>2, <1>4, <2>1 DEF TryAcquire, PollPermit
    <2>2. CASE ~(available > 0)
      BY <1>1, <1>4, <2>2 DEF TryAcquire, PollPermit
    <2>3. QED
      BY <2>1, <2>2
  <1>5. ASSUME NEW r \in Requests,
               \/ Arrive(r) \/ Enter(r) \/ EnterRefused(r) \/ CountQueued(r) \/ Overflow(r)
               \/ Unqueue(r) \/ Start(r) \/ CheckReady(r) \/ BeginItem(r)
        PROVE  Conserved'
    BY <1>1, <1>5
    DEF Arrive, Enter, EnterRefused, CountQueued, Overflow, Unqueue, Start, CheckReady, BeginItem
  <1>6. ASSUME NEW r \in Requests,
               \/ ItemRecognized(r) \/ ItemFailed(r) \/ StopExecution(r) \/ Dispatch(r) \/ Exit(r)
               \/ Close(r) \/ Leave(r)
               \/ Go(r, "recognizing", "close") /\ UNCHANGED server
        PROVE  Conserved'
    BY <1>1, <1>6
    DEF ItemRecognized, ItemFailed, StopExecution, Fail, Dispatch, Exit, Close, Leave
  <1>7. ASSUME NEW r \in Requests, AbandonQueue(r)
        PROVE  Conserved'
    <2>1. CASE pc[r] = "granted" /\ GiveBack(r, "unqueue")
      <3>1. available' + Cardinality(Granted') = available + Cardinality(Granted)
        BY <1>0, <2>1, GiveBackCounts
      <3>2. permit' = permit
        BY <1>7 DEF AbandonQueue
      <3>3. Cardinality(Granted') \in Nat /\ available' \in Nat
        BY <2>1, RequestsFinite, GiveBackLined DEF Granted, At, Lined
      <3>4. QED
        BY <1>0, <3>1, <3>2, <3>3 DEF Conserved
    <2>2. CASE Go(r, "queued", "unqueue") \/ Go(r, "waiting", "unqueue")
      BY <1>1, <1>7, <2>2 DEF AbandonQueue
    <2>3. QED
      BY <1>7, <2>1, <2>2 DEF AbandonQueue
  <1>8. ASSUME NEW r \in Requests, ReturnPermit(r)
        PROVE  Conserved'
    <2>1. available' + Cardinality(Granted') = available + Cardinality(Granted) + 1
      BY <1>0, <1>8, GiveBackCounts DEF ReturnPermit
    <2>2. layer[r] # "none" /\ <<r, layer[r]>> \in permit
      BY <1>8 DEF ReturnPermit, Placed, Permitted, Owning
    <2>3. Cardinality(permit') = Cardinality(permit) - 1
      BY <1>0, <1>8, <2>2, FS_RemoveElement DEF ReturnPermit
    <2>4. Cardinality(Granted') \in Nat /\ available' \in Nat
      BY <1>8, RequestsFinite, GiveBackLined DEF ReturnPermit, Granted, At, Lined
    <2>5. QED
      BY <1>0, <2>1, <2>3, <2>4 DEF Conserved
  <1>9. CASE UNCHANGED <<pc, server>>
    BY <1>9 DEF Conserved, Granted, At
  <1>10. ASSUME NEW r \in Requests, Proceed(r) \/ Receive(r) \/ Hangup(r)
         PROVE  Conserved'
    BY <1>3, <1>4, <1>5, <1>6, <1>7, <1>8, <1>10 DEF Proceed, Receive, Hangup, Reject, StopQueued
  <1>11. QED
    BY <1>5, <1>9, <1>10, StandStill DEF Next, vars

\* Every step keeps the bound of the queue.
LEMMA BoundedStep ==
  ASSUME Placed, Lined, Bounded, queued = Cardinality(At(Queuing)), [Next]_vars
  PROVE  Bounded'
  <1> USE AdmissionAssumption DEF Go, End, env, server, local
  <1>0. /\ IsFiniteSet(At(Awaiting)) /\ Cardinality(At(Awaiting)) \in Nat
        /\ Cardinality(At(Queuing)) \in Nat
        /\ Cardinality(At(Awaiting)) <= Cardinality(At(Queuing))
    <2>1. At(Awaiting) \subseteq At(Queuing) /\ IsFiniteSet(At(Queuing))
      BY RequestsFinite DEF At, Queuing
    <2>2. QED
      BY <2>1, RequestsFinite, FS_Subset DEF At
  <1>1. CASE At(Awaiting)' \subseteq At(Awaiting)
    <2>1. Cardinality(At(Awaiting)') <= Cardinality(At(Awaiting)) /\ Cardinality(At(Awaiting)') \in Nat
      BY <1>0, <1>1, RequestsFinite, FS_Subset DEF At
    <2>2. QED
      BY <1>0, <2>1 DEF Bounded
  <1>2. ASSUME NEW r \in Requests, CountQueued(r)
        PROVE  Bounded'
    <2>1. CASE queued >= QueueCapacity
      BY <1>1, <1>2, <2>1, Stays DEF CountQueued
    <2>2. CASE ~(queued >= QueueCapacity)
      <3>1. Cardinality(At(Awaiting)') = Cardinality(At(Awaiting)) + 1
        BY <1>2, <2>2, Joins DEF CountQueued
      <3>2. QED
        BY <1>0, <2>2, <3>1 DEF Bounded
    <2>3. QED
      BY <2>1, <2>2
  <1>3. ASSUME NEW r \in Requests, NEW to, pc' = [pc EXCEPT ![r] = to],
               to \in Awaiting => pc[r] \in Awaiting
        PROVE  Bounded'
    <2>1. At(Awaiting)' \subseteq At(Awaiting)
      BY <1>3 DEF At, Placed
    <2>2. QED
      BY <1>1, <2>1
  <1>4. ASSUME NEW r \in Requests,
               \/ Arrive(r) \/ Enter(r) \/ EnterRefused(r) \/ TryAcquire(r) \/ Overflow(r)
               \/ PollPermit(r) \/ TakePermit(r) \/ Unqueue(r) \/ Start(r) \/ CheckReady(r)
        PROVE  Bounded'
    BY <1>3, <1>4
    DEF Arrive, Enter, EnterRefused, TryAcquire, Overflow, PollPermit, TakePermit, Unqueue, Start,
        CheckReady
  <1>5. ASSUME NEW r \in Requests,
               \/ BeginItem(r) \/ ItemRecognized(r) \/ ItemFailed(r) \/ StopExecution(r)
               \/ Dispatch(r) \/ Exit(r) \/ Close(r) \/ Leave(r)
               \/ Go(r, "recognizing", "close") /\ UNCHANGED server
        PROVE  Bounded'
    BY <1>3, <1>5
    DEF BeginItem, ItemRecognized, ItemFailed, StopExecution, Fail, Dispatch, Exit, Close, Leave
  <1>6. ASSUME NEW r \in Requests, NEW to \in {"unqueue", "leave"},
               pc[r] \in {"granted", "return"}, GiveBack(r, to)
        PROVE  Bounded'
    <2>1. CASE waiters = <<>>
      BY <1>3, <1>6, <2>1 DEF GiveBack
    <2>2. CASE waiters # <<>>
      <3> DEFINE h == Head(waiters)
      <3>1. /\ h \in Requests /\ pc[h] = "waiting"
            /\ pc' = [pc EXCEPT ![r] = to, ![h] = "granted"]
        BY <1>6, <2>2, HeadWaits DEF GiveBack
      <3> HIDE DEF h
      <3>2. At(Awaiting)' \subseteq At(Awaiting)
        BY <3>1 DEF At, Placed
      <3>3. QED
        BY <1>1, <3>2
    <2>3. QED
      BY <2>1, <2>2
  <1>7. ASSUME NEW r \in Requests, AbandonQueue(r) \/ ReturnPermit(r)
        PROVE  Bounded'
    BY <1>3, <1>6, <1>7 DEF AbandonQueue, ReturnPermit
  <1>8. CASE UNCHANGED <<pc, server>>
    BY <1>1, <1>8 DEF At
  <1>9. ASSUME NEW r \in Requests, Proceed(r) \/ Receive(r) \/ Hangup(r)
        PROVE  Bounded'
    BY <1>2, <1>4, <1>5, <1>7, <1>9 DEF Proceed, Receive, Hangup, Reject, StopQueued
  <1>10. QED
    BY <1>4, <1>8, <1>9, StandStill DEF Next, vars

------------------------------------------------------------------------------
\* The inductive invariant of admission.
AdmissionInv ==
    /\ Placed
    /\ Lined
    /\ Guarded
    /\ Permitted
    /\ Counted
    /\ Conserved
    /\ Bounded

\* At first there are only free permits.
LEMMA InitAdmission == Init => AdmissionInv
  <1> SUFFICES ASSUME Init
               PROVE  AdmissionInv
    OBVIOUS
  <1>1. Placed
    BY AdmissionAssumption DEF Init, Placed, Ended
  <1>2. Lined
    BY AdmissionAssumption, EmptySeq DEF Init, Lined
  <1>3. Guarded
    BY DEF Init, Gate!Init, Guarded, Inside
  <1>4. Permitted
    BY DEF Init, Permitted, Owning
  <1>5. /\ At(Queuing) = {} /\ At(Awaiting) = {} /\ Granted = {} /\ Running = {}
        /\ Answered("ok") = {} /\ Answered("failed") = {}
    BY DEF Init, At, Queuing, Granted, Running, Answered
  <1>6. Counted
    BY <1>5, FS_EmptySet DEF Init, Counted, CountedOnce, Answered
  <1>7. Conserved /\ Bounded
    BY <1>5, FS_EmptySet, AdmissionAssumption DEF Init, Conserved, Bounded
  <1>8. QED
    BY <1>1, <1>2, <1>3, <1>4, <1>6, <1>7 DEF AdmissionInv

\* The invariant holds in every reachable state of every instance.
THEOREM AdmissionSafe == Spec => []AdmissionInv
  <1>1. AdmissionInv /\ [Next]_vars => AdmissionInv'
    <2> SUFFICES ASSUME AdmissionInv, [Next]_vars
                 PROVE  AdmissionInv'
      OBVIOUS
    <2>1. Placed' /\ Lined' /\ Permitted' /\ Conserved'
      BY PlacedStep, LinedStep, PermittedStep, ConservedStep DEF AdmissionInv
    <2>2. Guarded'
      BY <2>1, GuardedStep DEF AdmissionInv
    <2>3. Counted'
      BY QueuedStep, RunningStep, AnswersStep DEF AdmissionInv, Counted
    <2>4. Bounded'
      BY BoundedStep DEF AdmissionInv, Counted
    <2>5. QED
      BY <2>1, <2>2, <2>3, <2>4 DEF AdmissionInv
  <1>2. QED
    BY InitAdmission, <1>1, PTL DEF Spec

\* No permit is lost or used twice, whatever is dropped, and the queue is bounded.
THEOREM PermitsHold == Spec => []PermitsConserved
  <1>1. AdmissionInv => PermitsConserved
    <2>1. {r \in Requests : pc[r] = "granted"} = Granted
      BY DEF Granted, At
    <2>2. {r \in Requests : pc[r] \in Awaiting} = At(Awaiting)
      BY DEF At
    <2>3. QED
      BY <2>1, <2>2 DEF AdmissionInv, Conserved, Bounded, Lined, PermitsConserved
  <1>2. QED
    BY <1>1, AdmissionSafe, PTL

\* Whoever passed the middleware takes no second guard and awaits no second permit.
THEOREM OneAdmission == Spec => []AdmittedOnce
  <1>1. AdmissionInv => AdmittedOnce
    <2> SUFFICES ASSUME AdmissionInv, NEW r \in Requests
                 PROVE  /\ Cardinality({l \in Layers : guard[<<r, l>>] = "held"}) <= 1
                        /\ pc[r] \in Awaiting => \A l \in Layers : <<r, l>> \notin permit
      BY DEF AdmittedOnce
    <2>1. {l \in Layers : guard[<<r, l>>] = "held"} \subseteq {layer[r]}
      BY DEF AdmissionInv, Guarded
    <2>2. Cardinality({l \in Layers : guard[<<r, l>>] = "held"}) <= 1
      <3>1. IsFiniteSet({layer[r]}) /\ Cardinality({layer[r]}) = 1
        BY FS_Singleton
      <3>2. QED
        BY <2>1, <3>1, FS_Subset
    <2>3. pc[r] \in Awaiting => \A l \in Layers : <<r, l>> \notin permit
      BY DEF AdmissionInv, Permitted, Owning
    <2>4. QED
      BY <2>2, <2>3
  <1>2. QED
    BY <1>1, AdmissionSafe, PTL

\* Every request is counted once, in batches of any length.
THEOREM OneCount == Spec => []CountedOnce
  <1>1. AdmissionInv => CountedOnce
    BY DEF AdmissionInv, Counted
  <1>2. QED
    BY <1>1, AdmissionSafe, PTL

------------------------------------------------------------------------------
\* The steps of the server that concern the gate are the gate's own, each with a guard
\* that the gate knows.
LEMMA GateStepOrStutter ==
  ASSUME Placed, [Next]_vars
  PROVE  Gate!Next \/ UNCHANGED gate
  <1> USE DEF Go, End, env, server, local
  <1>1. ASSUME NEW r \in Requests, Enter(r)
        PROVE  Gate!Next
    <2>1. <<r, layer[r]>> \in Requests \X Layers
      BY <1>1 DEF Enter, Placed
    <2>2. QED
      BY <1>1, <2>1 DEF Enter, Admission, Gate!Next
  <1>2. ASSUME NEW r \in Requests, Leave(r)
        PROVE  Gate!Next
    <2>1. <<r, layer[r]>> \in Requests \X Layers
      BY <1>2 DEF Leave, Placed
    <2>2. QED
      BY <1>2, <2>1 DEF Leave, Admission, Gate!Next
  <1>3. CASE GateStep \/ \E d \in Drainers : Drain(d)
    BY <1>3 DEF GateStep, Drain, Gate!Next
  <1>4. ASSUME NEW r \in Requests,
               \/ Arrive(r) \/ EnterRefused(r) \/ TryAcquire(r) \/ CountQueued(r) \/ Overflow(r)
               \/ PollPermit(r) \/ TakePermit(r) \/ Unqueue(r) \/ Start(r) \/ CheckReady(r)
               \/ BeginItem(r) \/ AbandonQueue(r)
        PROVE  UNCHANGED gate
    BY <1>4
    DEF Arrive, EnterRefused, TryAcquire, CountQueued, Overflow, PollPermit, TakePermit, Unqueue,
        Start, CheckReady, BeginItem, AbandonQueue
  <1>5. ASSUME NEW r \in Requests,
               \/ ItemRecognized(r) \/ ItemFailed(r) \/ StopExecution(r) \/ Dispatch(r) \/ Exit(r)
               \/ Close(r) \/ ReturnPermit(r) \/ WorkerDone(r) \/ Expire(r)
        PROVE  UNCHANGED gate
    BY <1>5
    DEF ItemRecognized, ItemFailed, StopExecution, Fail, Dispatch, Exit, Close, ReturnPermit,
        WorkerDone, Expire
  <1>6. ASSUME NEW r \in Requests, Proceed(r) \/ Receive(r) \/ Hangup(r)
        PROVE  Gate!Next \/ UNCHANGED gate
    BY <1>1, <1>2, <1>4, <1>5, <1>6 DEF Proceed, Receive, Hangup, Reject, StopQueued
  <1>7. CASE ClearWarmed \/ CancelShutdown \/ UNCHANGED vars
    BY <1>7 DEF ClearWarmed, CancelShutdown, vars
  <1>8. QED
    BY <1>3, <1>4, <1>5, <1>6, <1>7 DEF Next

------------------------------------------------------------------------------
\* The gate counts the guards that requests hold, and calls itself drained when there
\* are none.
Emptied ==
    /\ entered = Cardinality(Gate!Held)
    /\ phase = "graceful" => entered = 0

\* The guards that are held form a finite set.
LEMMA HeldFinite == IsFiniteSet(Gate!Held)
  <1>1. IsFiniteSet(Layers)
    <2>1. IsFiniteSet({"outer"})
      BY FS_Singleton
    <2>2. IsFiniteSet({"outer"} \cup {"inner"})
      BY <2>1, FS_AddElement
    <2>3. QED
      BY <2>2
  <1>2. IsFiniteSet(Requests \X Layers)
    BY <1>1, AdmissionAssumption, FS_Product
  <1>3. Gate!Held \subseteq Requests \X Layers
    BY DEF Gate!Held
  <1>4. QED
    BY <1>2, <1>3, FS_Subset

\* The steps of the gate keep that.
LEMMA EmptiedStep ==
  ASSUME Guarded, Emptied, Gate!Next \/ UNCHANGED gate
  PROVE  Emptied'
  <1> USE HeldFinite
  <1>0. entered \in Nat
    BY FS_CardinalityType DEF Emptied
  <1>1. ASSUME NEW g \in Requests \X Layers, Gate!TryEnter(g)
        PROVE  Emptied'
    <2>1. Gate!Held' = Gate!Held \cup {g} /\ g \notin Gate!Held
      BY <1>1 DEF Gate!TryEnter, Gate!Admit, Gate!Held, Guarded
    <2>2. Cardinality(Gate!Held') = Cardinality(Gate!Held) + 1
      BY <2>1, FS_AddElement
    <2>3. QED
      BY <1>1, <2>2 DEF Gate!TryEnter, Gate!Admit, Emptied
  <1>2. ASSUME NEW g \in Requests \X Layers, Gate!Release(g)
        PROVE  Emptied'
    <2>1. \E s \in {"free", "signal"} : guard' = [guard EXCEPT ![g] = s]
      BY <1>2 DEF Gate!Release
    <2>2. Gate!Held' = Gate!Held \ {g} /\ g \in Gate!Held
      BY <1>2, <2>1 DEF Gate!Release, Gate!Held, Guarded
    <2>3. Cardinality(Gate!Held') = Cardinality(Gate!Held) - 1
      BY <2>2, FS_RemoveElement
    <2>4. entered > 0
      <3>1. Gate!Held # {}
        BY <2>2
      <3>2. Cardinality(Gate!Held) # 0
        BY <3>1, FS_EmptySet
      <3>3. QED
        BY <1>0, <3>2 DEF Emptied
    <2>5. entered' = entered - 1 /\ (phase' = "graceful" => entered' = 0 \/ phase = "graceful")
      BY <1>0, <1>2, <2>4 DEF Gate!Release
    <2>6. QED
      BY <1>0, <2>3, <2>4, <2>5 DEF Emptied
  <1>3. ASSUME NEW g \in Requests \X Layers, Gate!SignalRelease(g)
        PROVE  Emptied'
    <2>1. Gate!Held' = Gate!Held
      BY <1>3 DEF Gate!SignalRelease, Gate!Held, Guarded
    <2>2. QED
      BY <1>3, <2>1 DEF Gate!SignalRelease, Emptied
  <1>4. ASSUME UNCHANGED <<entered, guard>>,
               phase' = "graceful" => phase = "graceful" \/ entered = 0
        PROVE  Emptied'
    BY <1>4 DEF Emptied, Gate!Held
  <1>5. ASSUME NEW d \in Drainers, Gate!BeginDrain(d) \/ Gate!DropDrain(d) \/ Gate!ContinueDrain(d)
        PROVE  Emptied'
    BY <1>4, <1>5
    DEF Gate!BeginDrain, Gate!DropDrain, Gate!ContinueDrain, Gate!SignalDrain, Gate!Wake,
        Gate!ReadOutcome, Gate!Elapse, Gate!ForceDrain, Gate!ForcePhase, Gate!SignalForce,
        Gate!Terminal
  <1>6. CASE Gate!DropHandle \/ Gate!LastOwnerDrop \/ UNCHANGED gate
    BY <1>4, <1>6 DEF Gate!DropHandle, Gate!LastOwnerDrop, gate
  <1>7. QED
    BY <1>1, <1>2, <1>3, <1>5, <1>6 DEF Gate!Next

\* When nobody holds a guard, nobody is in the queue, executes, or has a permit.
LEMMA NobodyInside ==
  ASSUME AdmissionInv, Gate!Held = {}
  PROVE  available = MaxConcurrent /\ waiters = <<>> /\ queued = 0 /\ running = 0
  <1>1. \A r \in Requests : pc[r] \in Inside => layer[r] \notin Layers
    BY DEF AdmissionInv, Guarded, Gate!Held
  <1>2. \A r \in Requests : pc[r] \in {"idle", "enter", "handler", "done"}
    BY <1>1 DEF AdmissionInv, Placed, Inside
  <1>3. /\ At(Queuing) = {} /\ Running = {} /\ Granted = {}
    BY <1>1, <1>2 DEF AdmissionInv, Placed, Inside, At, Queuing, Running, Granted
  <1>4. permit = {}
    <2> SUFFICES ASSUME NEW p \in permit
                 PROVE  FALSE
      OBVIOUS
    <2>1. PICK r \in Requests, l \in Layers : p = <<r, l>>
      BY DEF AdmissionInv, Permitted
    <2>2. l = layer[r] /\ pc[r] \in Inside
      BY <2>1 DEF AdmissionInv, Permitted, Owning, Inside
    <2>3. QED
      BY <1>1, <2>2
  <1>5. available = MaxConcurrent
    <2>1. Cardinality(permit) = 0 /\ Cardinality(Granted) = 0
      BY <1>3, <1>4, FS_EmptySet
    <2>2. QED
      BY <2>1, AdmissionAssumption DEF AdmissionInv, Conserved, Lined
  <1>6. queued = 0 /\ running = 0
    BY <1>3, FS_EmptySet DEF AdmissionInv, Counted
  <1>7. QED
    BY <1>5, <1>6, AdmissionAssumption DEF AdmissionInv, Lined

\* A graceful drain leaves nothing behind: every permit, queue place and count is back.
THEOREM GracefulReleases == Spec => []GracefulMeansReleased
  <1>1. Init => Emptied
    <2> SUFFICES ASSUME Init
                 PROVE  Emptied
      OBVIOUS
    <2>1. Gate!Held = {}
      BY DEF Init, Gate!Init, Gate!Held
    <2>2. QED
      BY <2>1, FS_EmptySet DEF Init, Gate!Init, Emptied
  <1>2. AdmissionInv /\ Emptied /\ [Next]_vars => Emptied'
    BY GateStepOrStutter, EmptiedStep DEF AdmissionInv
  <1>3. AdmissionInv /\ Emptied => GracefulMeansReleased
    <2> SUFFICES ASSUME AdmissionInv, Emptied, phase = "graceful"
                 PROVE  available = MaxConcurrent /\ waiters = <<>> /\ queued = 0 /\ running = 0
      BY DEF GracefulMeansReleased
    <2>1. Gate!Held = {}
      BY HeldFinite, FS_EmptySet DEF Emptied
    <2>2. QED
      BY <2>1, NobodyInside
  <1>4. QED
    BY <1>1, <1>2, <1>3, AdmissionSafe, PTL DEF Spec

------------------------------------------------------------------------------
(***************************************************************************)
(* The queue for permits.  Its owners are as many as permits are not free. *)
(***************************************************************************)
Holders == {r \in Requests : \E l \in Layers : <<r, l>> \in permit}

\* Who holds a permit holds one.
LEMMA HoldersAre ==
  ASSUME AdmissionInv
  PROVE  /\ \A r \in Holders : layer[r] \in Layers /\ <<r, layer[r]>> \in permit
         /\ \A r \in Requests, l \in Layers : <<r, l>> \in permit => l = layer[r] /\ r \in Holders
         /\ \A r \in Holders : pc[r] \in Owning \cup {"unqueue"}
  BY DEF Holders, AdmissionInv, Permitted

\* They are as many as their permits.
LEMMA HoldersCounted ==
  ASSUME AdmissionInv
  PROVE  IsFiniteSet(Holders) /\ Cardinality(Holders) = Cardinality(permit)
  <1> DEFINE f == [r \in Holders |-> <<r, layer[r]>>]
  <1>1. permit \subseteq Requests \X Layers
    BY DEF AdmissionInv, Permitted
  <1>2. \A r \in Holders : f[r] = <<r, layer[r]>>
    OBVIOUS
  <1>3. f \in [Holders -> permit]
    BY HoldersAre
  <1>4. \A r, q \in Holders : f[r] = f[q] => r = q
    BY <1>2
  <1>5. ASSUME NEW x \in permit
        PROVE  \E r \in Holders : f[r] = x
    <2>1. PICK r \in Requests, l \in Layers : x = <<r, l>>
      BY <1>1
    <2>2. l = layer[r] /\ r \in Holders
      BY <2>1, HoldersAre
    <2>3. QED
      BY <1>2, <2>1, <2>2
  <1> HIDE DEF f
  <1>6. f \in Bijection(Holders, permit)
    BY <1>3, <1>4, <1>5, Fun_IsInj, Fun_IsSurj DEF Bijection
  <1>7. IsFiniteSet(Holders)
    BY RequestsFinite DEF Holders
  <1>8. QED
    BY <1>6, <1>7, FS_Bijection DEF ExistsBijection

\* The gauge shows no more than the permits that are out: every request that it counts
\* holds one, from before until after it is counted.
THEOREM GaugeHolds == Spec => []GaugeWithinPermits
  <1>1. ASSUME AdmissionInv
        PROVE  GaugeWithinPermits
    <2>1. Running \subseteq Holders
      BY <1>1 DEF AdmissionInv, Placed, Permitted, Owning, Running, Holders
    <2>2. IsFiniteSet(Holders)
      BY RequestsFinite DEF Holders
    <2>3. Cardinality(Running) <= Cardinality(Holders)
      BY <2>1, <2>2, FS_Subset
    <2>4. Cardinality(Holders) = Cardinality(permit)
      BY <1>1, HoldersCounted
    <2>5. QED
      BY <1>1, <2>3, <2>4 DEF AdmissionInv, Counted, GaugeWithinPermits
  <1>2. QED
    BY <1>1, AdmissionSafe, PTL

\* The queue counts as the server does.
LEMMA QueueCounts == \A S : Queue!Cardinality(S) = Cardinality(S)
  BY DEF Queue!Cardinality, Cardinality

\* A permit is free, or it has an owner.
LEMMA OwnersCounted ==
  ASSUME AdmissionInv
  PROVE  Queue!Free <=> available > 0
  <1>1. Owners = Granted \cup Holders
    BY DEF Owners, Granted, At, Holders
  <1>2. Granted \cap Holders = {}
    BY HoldersAre DEF Granted, At, Owning
  <1>3. /\ IsFiniteSet(Granted) /\ Cardinality(Granted) \in Nat
        /\ IsFiniteSet(permit) /\ Cardinality(permit) \in Nat
    BY RequestsFinite DEF Granted, At, AdmissionInv, Permitted
  <1>4. Cardinality(Granted \cup Holders) = Cardinality(Granted) + Cardinality(permit)
    <2>1. Cardinality(Granted \cap Holders) = 0
      BY <1>2, FS_EmptySet
    <2>2. Cardinality(Granted \cup Holders)
            = Cardinality(Granted) + Cardinality(Holders) - Cardinality(Granted \cap Holders)
      BY <1>3, HoldersCounted, FS_Union
    <2>3. QED
      BY <1>3, <2>1, <2>2, HoldersCounted
  <1>5. /\ available \in Nat /\ MaxConcurrent \in Nat
        /\ available + Cardinality(permit) + Cardinality(Granted) = MaxConcurrent
    BY AdmissionAssumption DEF AdmissionInv, Conserved, Lined
  <1>6. Cardinality(Owners) = Cardinality(Granted) + Cardinality(permit)
    BY <1>1, <1>4
  <1>7. QED
    BY <1>3, <1>5, <1>6, QueueCounts DEF Queue!Free

\* A request that moves without a permit and a place, or with them, is not seen.
LEMMA QueueStill ==
  ASSUME AdmissionInv, NEW r \in Requests, NEW to, pc' = [pc EXCEPT ![r] = to],
         pc[r] \in Awaiting <=> to \in Awaiting, pc[r] = "granted" <=> to = "granted",
         UNCHANGED <<permit, waiters>>
  PROVE  UNCHANGED Queue!vars
  <1>1. \A q \in Requests : pc'[q] = IF q = r THEN to ELSE pc[q]
    BY DEF AdmissionInv, Placed
  <1>2. Owners' = Owners
    BY <1>1 DEF Owners
  <1>3. Seated' = Seated
    BY <1>1 DEF Seated
  <1>4. QED
    BY <1>2, <1>3 DEF Queue!vars

\* A request that takes a free permit.
LEMMA QueueTakes ==
  ASSUME AdmissionInv, NEW r \in Requests, NEW to \in {"start", "unqueue"},
         pc[r] \in {"acquire", "queued"}, pc' = [pc EXCEPT ![r] = to],
         available > 0, permit' = permit \cup {<<r, layer[r]>>}, UNCHANGED waiters
  PROVE  Queue!Take(r)
  <1>1. \A q \in Requests : pc'[q] = IF q = r THEN to ELSE pc[q]
    BY DEF AdmissionInv, Placed
  <1>2. layer[r] \in Layers
    BY DEF AdmissionInv, Placed
  <1>3. r \notin Owners
    BY HoldersAre DEF Owners, Holders, Owning
  <1>4. waiters = <<>>
    BY DEF AdmissionInv, Lined
  <1>5. Owners' = Owners \cup {r}
    BY <1>1, <1>2 DEF Owners
  <1>6. Seated' = Seated \ {r}
    BY <1>1 DEF Seated
  <1>7. QED
    BY <1>3, <1>4, <1>5, <1>6, OwnersCounted DEF Queue!Take

\* One that is counted and not refused finds a place.
LEMMA QueueSits ==
  ASSUME AdmissionInv, NEW r \in Requests, CountQueued(r), ~(queued >= QueueCapacity)
  PROVE  Queue!Sit(r)
  <1>1. \A q \in Requests : pc'[q] = IF q = r THEN "queued" ELSE pc[q]
    BY DEF AdmissionInv, Placed, CountQueued, Go
  <1>2. pc[r] = "count" /\ permit' = permit /\ waiters' = waiters
    BY DEF CountQueued, Go
  <1>3. r \notin Owners \cup Seated
    BY <1>2, HoldersAre DEF Owners, Holders, Owning, Seated
  <1>4. Owners' = Owners
    BY <1>1, <1>2 DEF Owners
  <1>5. Seated' = Seated \cup {r}
    BY <1>1 DEF Seated
  <1>6. Cardinality(Seated) < QueueCapacity
    <2>1. Seated \subseteq At(Queuing)
      BY DEF Seated, At, Queuing
    <2>2. IsFiniteSet(At(Queuing)) /\ Cardinality(At(Queuing)) \in Nat
      BY RequestsFinite DEF At
    <2>3. Cardinality(Seated) <= Cardinality(At(Queuing)) /\ Cardinality(Seated) \in Nat
      BY <2>1, <2>2, RequestsFinite, FS_Subset DEF Seated
    <2>4. QED
      BY <2>2, <2>3, AdmissionAssumption DEF AdmissionInv, Counted
  <1>7. QED
    BY <1>2, <1>3, <1>4, <1>5, <1>6, QueueCounts DEF Queue!Sit

\* The first poll of a request that finds no permit puts it at the end of the line.
LEMMA QueueJoins ==
  ASSUME AdmissionInv, NEW r \in Requests, PollPermit(r), ~(available > 0)
  PROVE  Queue!Join(r)
  <1>1. \A q \in Requests : pc'[q] = IF q = r THEN "waiting" ELSE pc[q]
    BY DEF AdmissionInv, Placed, PollPermit, Go
  <1>2. pc[r] = "queued" /\ permit' = permit /\ waiters' = Append(waiters, r)
    BY DEF PollPermit, Go
  <1>3. r \in Seated \ Owners
    BY <1>2, HoldersAre DEF Owners, Holders, Owning, Seated
  <1>4. \A i \in 1..Len(waiters) : waiters[i] # r
    BY <1>2 DEF AdmissionInv, Lined
  <1>5. Owners' = Owners /\ Seated' = Seated
    BY <1>1, <1>2 DEF Owners, Seated
  <1>6. QED
    BY <1>2, <1>3, <1>4, <1>5, OwnersCounted DEF Queue!Join

\* A waiter finds that it has a permit.
LEMMA QueueRises ==
  ASSUME AdmissionInv, NEW r \in Requests, TakePermit(r)
  PROVE  Queue!Rise(r)
  <1>1. \A q \in Requests : pc'[q] = IF q = r THEN "unqueue" ELSE pc[q]
    BY DEF AdmissionInv, Placed, TakePermit, Go
  <1>2. pc[r] = "granted" /\ permit' = permit \cup {<<r, layer[r]>>} /\ waiters' = waiters
    BY DEF TakePermit, Go, Admission
  <1>3. layer[r] \in Layers
    BY <1>2 DEF AdmissionInv, Placed
  <1>4. r \in Seated \cap Owners
    BY <1>2 DEF Owners, Seated
  <1>5. Owners' = Owners
    BY <1>1, <1>2, <1>3 DEF Owners
  <1>6. Seated' = Seated \ {r}
    BY <1>1 DEF Seated
  <1>7. QED
    BY <1>2, <1>4, <1>5, <1>6 DEF Queue!Rise

\* A permit comes back from its owner, who leaves the queue if it was there.
LEMMA QueueReturns ==
  ASSUME AdmissionInv, NEW r \in Requests, NEW to \in {"unqueue", "leave"},
         pc[r] \in {"granted", "return"}, GiveBack(r, to),
         permit' = permit \ {<<r, layer[r]>>}
  PROVE  Queue!Return(r)
  <1>1. layer[r] \in Layers
    BY DEF AdmissionInv, Placed
  <1>2. r \in Owners
    BY <1>1 DEF AdmissionInv, Permitted, Owners, Owning
  <1>3. \A q \in Requests : q # r => ((\E l \in Layers : <<q, l>> \in permit') <=>
                                      (\E l \in Layers : <<q, l>> \in permit))
    OBVIOUS
  <1>4. ~(\E l \in Layers : <<r, l>> \in permit')
    BY HoldersAre
  <1>5. CASE waiters = <<>>
    <2>1. \A q \in Requests : pc'[q] = IF q = r THEN to ELSE pc[q]
      BY <1>5 DEF AdmissionInv, Placed, GiveBack
    <2>2. waiters' = waiters
      BY <1>5 DEF GiveBack
    <2>3. Owners' = Owners \ {r}
      BY <1>3, <1>4, <2>1 DEF Owners
    <2>4. Seated' = Seated \ {r}
      BY <2>1 DEF Seated
    <2>5. QED
      BY <1>2, <1>5, <2>2, <2>3, <2>4 DEF Queue!Return
  <1>6. CASE waiters # <<>>
    <2>1. PICK h : h = Head(waiters)
      OBVIOUS
    <2>2. h \in Requests /\ pc[h] = "waiting" /\ h # r
      BY <1>6, <2>1, HeadWaits DEF AdmissionInv
    <2>3. pc' = [pc EXCEPT ![r] = to, ![h] = "granted"] /\ waiters' = Tail(waiters)
      BY <1>6, <2>1 DEF GiveBack
    <2>4. \A q \in Requests : pc'[q] = IF q = h THEN "granted" ELSE IF q = r THEN to ELSE pc[q]
      BY <2>2, <2>3 DEF AdmissionInv, Placed
    <2>5. Owners' = (Owners \ {r}) \cup {h}
      BY <1>3, <1>4, <2>2, <2>4 DEF Owners
    <2>6. Seated' = Seated \ {r}
      BY <2>2, <2>4 DEF Seated
    <2>7. QED
      BY <1>2, <1>6, <2>1, <2>3, <2>5, <2>6 DEF Queue!Return
  <1>7. QED
    BY <1>5, <1>6

\* A request that gives up passes on a permit it was given, or leaves its place.
LEMMA QueueLosesOne ==
  ASSUME AdmissionInv, NEW r \in Requests, AbandonQueue(r)
  PROVE  Queue!Return(r) \/ Queue!GiveUp(r)
  <1>1. permit' = permit
    BY DEF AbandonQueue
  <1>2. CASE pc[r] = "granted" /\ GiveBack(r, "unqueue")
    <2>1. <<r, layer[r]>> \notin permit
      BY <1>2 DEF AdmissionInv, Permitted, Owning, Placed
    <2>2. permit' = permit \ {<<r, layer[r]>>}
      BY <1>1, <2>1
    <2>3. QED
      BY <1>2, <2>2, QueueReturns
  <1>3. CASE pc[r] \in {"queued", "waiting"}
    <2>1. pc' = [pc EXCEPT ![r] = "unqueue"]
      BY <1>3 DEF AbandonQueue, Go
    <2>2. \A q \in Requests : pc'[q] = IF q = r THEN "unqueue" ELSE pc[q]
      BY <2>1 DEF AdmissionInv, Placed
    <2>3. r \in Seated \ Owners
      BY <1>3, HoldersAre DEF Owners, Holders, Owning, Seated
    <2>4. Owners' = Owners
      BY <1>1, <1>3, <2>2 DEF Owners
    <2>5. Seated' = Seated \ {r}
      BY <2>2 DEF Seated
    <2>6. CASE pc[r] = "queued"
      <3>1. waiters' = waiters
        BY <2>6 DEF AbandonQueue, Go
      <3>2. \A i \in 1..Len(waiters) : waiters[i] # r
        BY <2>6 DEF AdmissionInv, Lined
      <3>3. QED
        BY <2>3, <2>4, <2>5, <3>1, <3>2 DEF Queue!GiveUp
    <2>7. CASE pc[r] = "waiting"
      <3>1. DOMAIN waiters = 1..Len(waiters)
        BY LenProperties DEF AdmissionInv, Lined
      <3>2. PICK i \in DOMAIN waiters :
               /\ waiters[i] = r
               /\ waiters' = SubSeq(waiters, 1, i - 1) \o SubSeq(waiters, i + 1, Len(waiters))
        BY <2>7 DEF AbandonQueue, Go
      <3>3. QED
        BY <2>3, <2>4, <2>5, <3>1, <3>2 DEF Queue!GiveUp
    <2>8. QED
      BY <1>3, <2>6, <2>7
  <1>4. QED
    BY <1>2, <1>3 DEF AbandonQueue, Go

\* Every step of the server is one of the queue, or none.
LEMMA QueueStepOrStutter ==
  ASSUME AdmissionInv, [Next]_vars
  PROVE  [Queue!Next]_(Queue!vars)
  <1> USE DEF Go, End, env, server, local, Admission
  <1>0. Placed
    BY DEF AdmissionInv
  <1>1. ASSUME NEW r \in Requests, TryAcquire(r) \/ PollPermit(r)
        PROVE  [Queue!Next]_(Queue!vars)
    <2>1. CASE available > 0
      BY <1>1, <2>1, QueueTakes DEF TryAcquire, PollPermit, Queue!Next
    <2>2. CASE ~(available > 0) /\ TryAcquire(r)
      BY <2>2, QueueStill DEF TryAcquire
    <2>3. CASE ~(available > 0) /\ PollPermit(r)
      BY <2>3, QueueJoins DEF Queue!Next
    <2>4. QED
      BY <1>1, <2>1, <2>2, <2>3
  <1>2. ASSUME NEW r \in Requests, CountQueued(r)
        PROVE  [Queue!Next]_(Queue!vars)
    <2>1. CASE queued >= QueueCapacity
      BY <1>2, <2>1, QueueStill DEF CountQueued
    <2>2. CASE ~(queued >= QueueCapacity)
      BY <1>2, <2>2, QueueSits DEF Queue!Next
    <2>3. QED
      BY <2>1, <2>2
  <1>3. ASSUME NEW r \in Requests, TakePermit(r)
        PROVE  [Queue!Next]_(Queue!vars)
    BY <1>3, QueueRises DEF Queue!Next
  <1>4. ASSUME NEW r \in Requests, AbandonQueue(r)
        PROVE  [Queue!Next]_(Queue!vars)
    BY <1>4, QueueLosesOne DEF Queue!Next
  <1>5. ASSUME NEW r \in Requests, ReturnPermit(r)
        PROVE  [Queue!Next]_(Queue!vars)
    BY <1>5, QueueReturns DEF ReturnPermit, Queue!Next
  <1>6. ASSUME NEW r \in Requests,
               \/ Arrive(r) \/ Enter(r) \/ EnterRefused(r) \/ Overflow(r) \/ Unqueue(r)
               \/ Start(r) \/ CheckReady(r) \/ BeginItem(r)
        PROVE  UNCHANGED Queue!vars
    BY <1>6, QueueStill
    DEF Arrive, Enter, EnterRefused, Overflow, Unqueue, Start, CheckReady, BeginItem
  <1>7. ASSUME NEW r \in Requests,
               \/ ItemRecognized(r) \/ ItemFailed(r) \/ StopExecution(r) \/ Dispatch(r) \/ Exit(r)
               \/ Close(r) \/ Leave(r)
               \/ Go(r, "recognizing", "close") /\ UNCHANGED server
        PROVE  UNCHANGED Queue!vars
    BY <1>7, QueueStill
    DEF ItemRecognized, ItemFailed, StopExecution, Fail, Dispatch, Exit, Close, Leave
  <1>8. CASE UNCHANGED <<pc, server>>
    BY <1>8 DEF Owners, Seated, Queue!vars
  <1>9. ASSUME NEW r \in Requests, Proceed(r) \/ Receive(r) \/ Hangup(r)
        PROVE  [Queue!Next]_(Queue!vars)
    BY <1>1, <1>2, <1>3, <1>4, <1>5, <1>6, <1>7, <1>9
    DEF Proceed, Receive, Hangup, Reject, StopQueued
  <1>10. QED
    BY <1>6, <1>8, <1>9, StandStill DEF Next, vars

\* The semaphore of the server, its counter and the steps around them are a queue for
\* permits, for any number of requests, permits and places: nobody is overtaken, and
\* what is dropped anywhere goes to the next in the line or is free again.
THEOREM PermitsAreQueued == Spec => ImplementsQueue
  <1>1. Init => Queue!Init
    BY DEF Init, Queue!Init, Owners, Seated
  <1>2. AdmissionInv /\ [Next]_vars => [Queue!Next]_(Queue!vars)
    BY QueueStepOrStutter
  <1>3. QED
    BY <1>1, <1>2, AdmissionSafe, PTL DEF Spec, ImplementsQueue, Queue!Spec
==============================================================================
