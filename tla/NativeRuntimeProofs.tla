-------------------------- MODULE NativeRuntimeProofs --------------------------
(***************************************************************************)
(* Proofs about the loading of the native runtime, for any processes,      *)
(* loads, libraries and crashes.                                           *)
(***************************************************************************)
EXTENDS NativeRuntime, TLAPS

SlotTyped ==
    /\ pc \in [Loads -> Steps]
    /\ slot \in [Processes -> Libraries \cup {"none"}]
    /\ inits \in [Processes -> Nat]

\* A process initializes nothing before it claims its slot, and commits nothing
\* before it is initialized.
SlotsCount ==
    \A p \in Processes :
        /\ inits[p] <= 1
        /\ slot[p] = "none" => inits[p] = 0
        /\ p \in committed => inits[p] = 1

\* The load inside the mutex is alone there, and the slot is its own.
InsideIsAlone ==
    \A l \in Loads :
        /\ pc[l] \in Inside =>
              /\ ProcessOf[l] \in locked \ committed
              /\ Holds(l)
              /\ pc[l] = "init" => inits[ProcessOf[l]] = 0
              /\ pc[l] = "commit" => inits[ProcessOf[l]] = 1
              /\ \A k \in Loads :
                    pc[k] \in Inside /\ ProcessOf[k] = ProcessOf[l] => k = l
        /\ pc[l] \in {"warm", "ready"} => Holds(l) /\ ProcessOf[l] \in committed

SlotInv == SlotTyped /\ SlotsCount /\ InsideIsAlone

\* The steps outside of the mutex and of the environment leave the memory of the
\* processes alone, and move loads between the steps outside.
LEMMA Outside ==
    ASSUME SlotInv, NEW l \in Loads, Prepare(l) \/ Warm(l)
    PROVE  /\ UNCHANGED <<slot, committed, locked, inits>>
           /\ pc[l] \notin Inside
           /\ \E to \in Steps \ Inside :
                 /\ pc' = [pc EXCEPT ![l] = to]
                 /\ to \in {"warm", "ready"} => pc[l] = "warm"
<1> USE DEF SlotInv, SlotTyped, Steps, Inside, Staging
<1>1. CASE Admit(l)
  BY <1>1 DEF Admit, Refuse, memory
<1>2. CASE EnsureRoot(l) \/ CreateRoot(l) \/ Look(l)
  BY <1>2 DEF EnsureRoot, CreateRoot, Look, Step, Refuse, memory
<1>3. CASE Stage(l)
  BY <1>3 DEF Stage
<1>4. CASE Write(l) \/ Mark(l) \/ Rename(l)
  BY <1>4 DEF Write, Mark, Rename, Step, memory
<1>5. CASE Discard(l) \/ Open(l)
  BY <1>5 DEF Discard, Open, Step, memory
<1>6. CASE IoError(l)
  BY <1>6 DEF IoError, Refuse, memory
<1>7. CASE Warm(l)
  BY <1>7 DEF Warm, Step, Refuse, memory
<1> QED
  BY <1>1, <1>2, <1>3, <1>4, <1>5, <1>6, <1>7 DEF Prepare

LEMMA SlotStart == Init => SlotInv
  BY NativeAssumption DEF Init, SlotInv, SlotTyped, SlotsCount, InsideIsAlone, Steps, Inside

LEMMA SlotStep == SlotInv /\ [Next]_vars => SlotInv'
<1> SUFFICES ASSUME SlotInv, [Next]_vars PROVE SlotInv'
  OBVIOUS
<1> USE NativeAssumption DEF Holds
<1>1. ASSUME NEW l \in Loads, Prepare(l) \/ Warm(l) PROVE SlotInv'
  <2>1. PICK to \in Steps \ Inside :
           /\ UNCHANGED <<slot, committed, locked, inits>>
           /\ pc[l] \notin Inside
           /\ pc' = [pc EXCEPT ![l] = to]
           /\ to \in {"warm", "ready"} => pc[l] = "warm"
    BY <1>1, Outside
  <2> QED
    BY <2>1 DEF SlotInv, SlotTyped, SlotsCount, InsideIsAlone
<1>2. ASSUME NEW l \in Loads, Enter(l) PROVE SlotInv'
  <2> DEFINE p == ProcessOf[l]
  <2>1. /\ p \in Processes /\ pc[l] = "lock" /\ p \notin locked
        /\ UNCHANGED <<inits, committed>>
    BY <1>2 DEF Enter
  <2>2. \A k \in Loads : ProcessOf[k] = p => pc[k] \notin Inside
    BY <2>1 DEF SlotInv, InsideIsAlone
  <2>3. CASE slot[p] = "none"
    <3>1. /\ pc' = [pc EXCEPT ![l] = "init"]
          /\ slot' = [slot EXCEPT ![p] = LibraryOf[l]]
          /\ locked' = locked \cup {p}
      BY <1>2, <2>3 DEF Enter
    <3>2. inits[p] = 0 /\ p \notin committed
      BY <2>1, <2>3 DEF SlotInv, SlotsCount
    <3>3. SlotTyped'
      BY <3>1, <2>1 DEF SlotInv, SlotTyped, Steps, Inside
    <3>4. SlotsCount'
      BY <3>1, <3>2, <2>1 DEF SlotInv, SlotTyped, SlotsCount
    <3>5. InsideIsAlone'
      BY <3>1, <3>2, <2>1, <2>2 DEF SlotInv, SlotTyped, InsideIsAlone, Inside
    <3> QED
      BY <3>3, <3>4, <3>5 DEF SlotInv
  <2>4. CASE slot[p] # "none"
    <3>1. /\ UNCHANGED <<slot, locked>>
          /\ \/ pc' = [pc EXCEPT ![l] = "warm"] /\ Holds(l) /\ p \in committed
             \/ pc' = [pc EXCEPT ![l] = "failed"]
      BY <1>2, <2>4 DEF Enter
    <3> QED
      BY <3>1, <2>1 DEF SlotInv, SlotTyped, SlotsCount, InsideIsAlone, Steps, Inside
  <2> QED
    BY <2>3, <2>4
<1>3. ASSUME NEW l \in Loads, InitNative(l) PROVE SlotInv'
  <2> DEFINE p == ProcessOf[l]
  <2>1. /\ p \in Processes /\ pc[l] = "init" /\ UNCHANGED <<slot, committed>>
        /\ inits' = [inits EXCEPT ![p] = @ + 1]
        /\ \/ pc' = [pc EXCEPT ![l] = "commit"] /\ locked' = locked
           \/ pc' = [pc EXCEPT ![l] = "failed"] /\ locked' = locked \ {p}
    BY <1>3 DEF InitNative, Initialize, Step, Refuse
  <2>2. /\ p \in locked \ committed /\ Holds(l) /\ inits[p] = 0
        /\ \A k \in Loads \ {l} : ProcessOf[k] = p => pc[k] \notin Inside
    BY <2>1 DEF SlotInv, InsideIsAlone, Inside
  <2>3. inits' = [inits EXCEPT ![p] = 1]
    <3>1. inits[p] + 1 = 1
      BY <2>2
    <3>2. inits' = [inits EXCEPT ![p] = inits[p] + 1]
      BY <2>1
    <3> QED
      BY <3>1, <3>2
  <2>4. slot[p] # "none"
    BY <2>2
  <2>5. SlotTyped'
    BY <2>1, <2>3 DEF SlotInv, SlotTyped, Steps, Inside
  <2>6. SlotsCount'
    BY <2>1, <2>2, <2>3, <2>4 DEF SlotInv, SlotTyped, SlotsCount
  <2>7. InsideIsAlone'
    BY <2>1, <2>2, <2>3 DEF SlotInv, SlotTyped, InsideIsAlone, Inside
  <2> QED
    BY <2>5, <2>6, <2>7 DEF SlotInv
<1>4. ASSUME NEW l \in Loads, Commit(l) PROVE SlotInv'
  <2> DEFINE p == ProcessOf[l]
  <2>1. /\ p \in Processes /\ pc[l] = "commit" /\ UNCHANGED <<slot, inits>>
        /\ locked' = locked \ {p}
        /\ \/ pc' = [pc EXCEPT ![l] = "warm"] /\ committed' = committed \cup {p}
           \/ pc' = [pc EXCEPT ![l] = "failed"] /\ committed' = committed
    BY <1>4 DEF Commit, Step, Refuse
  <2>2. /\ p \in locked \ committed /\ Holds(l) /\ inits[p] = 1
        /\ \A k \in Loads \ {l} : ProcessOf[k] = p => pc[k] \notin Inside
    BY <2>1 DEF SlotInv, InsideIsAlone, Inside
  <2>3. SlotTyped'
    BY <2>1 DEF SlotInv, SlotTyped, Steps
  <2>4. SlotsCount'
    BY <2>1, <2>2 DEF SlotInv, SlotTyped, SlotsCount
  <2>5. InsideIsAlone'
    BY <2>1, <2>2 DEF SlotInv, SlotTyped, InsideIsAlone, Inside
  <2> QED
    BY <2>3, <2>4, <2>5 DEF SlotInv
<1>5. ASSUME NEW p \in Processes, Crash(p) PROVE SlotInv'
  <2>1. /\ slot' = [slot EXCEPT ![p] = "none"]
        /\ committed' = committed \ {p}
        /\ locked' = locked \ {p}
        /\ inits' = [inits EXCEPT ![p] = 0]
        /\ pc' = [l \in Loads |-> IF ProcessOf[l] = p THEN "idle" ELSE pc[l]]
    BY <1>5 DEF Crash
  <2>2. SlotTyped'
    BY <2>1 DEF SlotInv, SlotTyped, Steps
  <2>3. SlotsCount'
    BY <2>1 DEF SlotInv, SlotTyped, SlotsCount
  <2>4. \A l \in Loads : IF ProcessOf[l] = p THEN pc'[l] = "idle" ELSE pc'[l] = pc[l]
    BY <2>1
  <2>5. InsideIsAlone'
    BY <2>1, <2>4 DEF SlotInv, SlotTyped, InsideIsAlone, Inside
  <2> QED
    BY <2>2, <2>3, <2>5 DEF SlotInv
<1>6. CASE (\E b \in Libraries : Replace(b)) \/ UNCHANGED vars
  <2>1. UNCHANGED <<pc, slot, committed, locked, inits>>
    BY <1>6 DEF Replace, vars, memory
  <2> QED
    BY <2>1 DEF SlotInv, SlotTyped, SlotsCount, InsideIsAlone
<1> QED
  BY <1>1, <1>2, <1>3, <1>4, <1>5, <1>6 DEF Next, Load

\* The inductive invariant of the slots.
THEOREM SlotsSafe == Spec => []SlotInv
  BY SlotStart, SlotStep, PTL DEF Spec

\* The native runtime is initialized at most once per process, and a load that
\* succeeds runs on its own library.
THEOREM RuntimeIsOne == Spec => []OneRuntime
<1>1. SlotInv => OneRuntime
  BY NativeAssumption DEF SlotInv, SlotsCount, InsideIsAlone, OneRuntime
<1> QED
  BY <1>1, SlotsSafe, PTL

(***************************************************************************)
(* What is published.                                                      *)
(***************************************************************************)
StageTyped ==
    /\ source \in [Libraries -> {"good", "bad"}]
    /\ pc \in [Loads -> Steps]
    /\ final \in [Libraries -> {"none", "complete", "damaged"}]
    /\ staging \in [DOMAIN staging -> Contents]
    /\ name \in [Loads -> Names \cup {<<>>}]
    /\ pid \in [Processes -> Pids]
    /\ counter \in [Processes -> Nat]

\* A load that stages has a directory of its own, and beyond the check of its
\* copy it holds the library.
StagesAlone ==
    \A l \in Loads : pc[l] \in Staging =>
        /\ name[l] \in DOMAIN staging
        /\ pc[l] = "mark" => staging[name[l]] = "good"
        /\ pc[l] = "rename" => staging[name[l]] = "complete"
        /\ \A k \in Loads \ {l} : pc[k] \in Staging => name[k] # name[l]

StageInv == StageTyped /\ StagesAlone

LEMMA StageStart == Init => StageInv
<1> SUFFICES ASSUME Init PROVE StageInv
  OBVIOUS
<1>1. final \in [Libraries -> {"none", "complete", "damaged"}]
  BY DEF Init
<1>2. DOMAIN staging = {} /\ staging \in [DOMAIN staging -> Contents]
  BY DEF Init
<1> QED
  BY <1>1, <1>2 DEF Init, StageInv, StageTyped, StagesAlone, Steps, Staging

\* A load that leaves its directory, or never had one, disturbs no other load.
LEMMA Elsewhere ==
    ASSUME StageInv, NEW l \in Loads, NEW to \in Steps \ Staging,
           pc' = [pc EXCEPT ![l] = to],
           final' \in [Libraries -> {"none", "complete", "damaged"}],
           \/ UNCHANGED <<staging, name>>
           \/ /\ staging' = Without(name[l]) \/ UNCHANGED staging
              /\ Forget(l)
              /\ pc[l] \in Staging,
           UNCHANGED <<source, pid, counter>>
    PROVE  StageInv'
<1>1. /\ staging' \in [DOMAIN staging' -> Contents]
      /\ \A n \in DOMAIN staging :
            n # name[l] => n \in DOMAIN staging' /\ staging'[n] = staging[n]
      /\ UNCHANGED staging \/ pc[l] \in Staging
  BY DEF StageInv, StageTyped, Without
<1>2. /\ name' \in [Loads -> Names \cup {<<>>}]
      /\ \A k \in Loads \ {l} : name'[k] = name[k]
  BY DEF StageInv, StageTyped, Forget
<1>3. \A k \in Loads : pc'[k] = IF k = l THEN to ELSE pc[k]
  BY DEF StageInv, StageTyped
<1>4. StageTyped'
  BY <1>1, <1>2 DEF StageInv, StageTyped
<1>5. StagesAlone'
  <2> SUFFICES ASSUME NEW k \in Loads, pc'[k] \in Staging
               PROVE  /\ name'[k] \in DOMAIN staging'
                      /\ pc'[k] = "mark" => staging'[name'[k]] = "good"
                      /\ pc'[k] = "rename" => staging'[name'[k]] = "complete"
                      /\ \A j \in Loads \ {k} : pc'[j] \in Staging => name'[j] # name'[k]
    BY DEF StagesAlone
  <2>1. k # l /\ pc'[k] = pc[k] /\ name'[k] = name[k] /\ name[k] \in DOMAIN staging
    BY <1>2, <1>3 DEF StageInv, StagesAlone
  <2>2. name[k] \in DOMAIN staging' /\ staging'[name[k]] = staging[name[k]]
    BY <1>1, <2>1 DEF StageInv, StagesAlone
  <2>3. \A j \in Loads \ {k} : pc'[j] \in Staging => name'[j] # name'[k]
    BY <1>2, <1>3, <2>1 DEF StageInv, StagesAlone
  <2> QED
    BY <2>1, <2>2, <2>3 DEF StageInv, StagesAlone
<1> QED
  BY <1>4, <1>5 DEF StageInv

\* A load changes the content of its own directory, and nothing else.
LEMMA Within ==
    ASSUME StageInv, NEW l \in Loads, pc[l] \in Staging,
           NEW to \in Staging, pc' = [pc EXCEPT ![l] = to],
           NEW content \in Contents, Put(l, content),
           to = "mark" => content = "good",
           to = "rename" => content = "complete",
           UNCHANGED <<source, final, name, pid, counter>>
    PROVE  StageInv'
<1>1. /\ name[l] \in DOMAIN staging
      /\ DOMAIN staging' = DOMAIN staging
      /\ staging' \in [DOMAIN staging' -> Contents]
      /\ staging'[name[l]] = content
      /\ \A n \in DOMAIN staging : n # name[l] => staging'[n] = staging[n]
  BY DEF StageInv, StageTyped, StagesAlone, Put
<1>2. \A k \in Loads : pc'[k] = IF k = l THEN to ELSE pc[k]
  BY DEF StageInv, StageTyped
<1>3. StageTyped'
  BY <1>1 DEF StageInv, StageTyped, Steps
<1>4. StagesAlone'
  BY <1>1, <1>2 DEF StageInv, StagesAlone
<1> QED
  BY <1>3, <1>4 DEF StageInv

LEMMA StageStep == StageInv /\ [Next]_vars => StageInv'
<1> SUFFICES ASSUME StageInv, [Next]_vars PROVE StageInv'
  OBVIOUS
<1> USE NativeAssumption
<1>1. ASSUME NEW l \in Loads, Admit(l) \/ EnsureRoot(l) \/ CreateRoot(l) \/ Look(l) \/ Open(l)
      PROVE  StageInv'
  <2>1. /\ UNCHANGED <<source, final, staging, name, pid, counter>>
        /\ \E to \in Steps \ Staging : pc' = [pc EXCEPT ![l] = to]
    BY <1>1 DEF Admit, EnsureRoot, CreateRoot, Look, Open, Step, Refuse, disk, memory,
               Steps, Staging, Inside
  <2> QED
    BY <2>1, Elsewhere DEF StageInv, StageTyped
<1>2. ASSUME NEW l \in Loads, Enter(l) \/ InitNative(l) \/ Commit(l) \/ Warm(l)
      PROVE  StageInv'
  <2>1. /\ UNCHANGED <<source, final, staging, name, pid, counter>>
        /\ \E to \in Steps \ Staging : pc' = [pc EXCEPT ![l] = to]
    BY <1>2 DEF Enter, InitNative, Initialize, Commit, Warm, Step, Refuse, disk, memory,
               Steps, Staging, Inside
  <2> QED
    BY <2>1, Elsewhere DEF StageInv, StageTyped
<1>3. ASSUME NEW l \in Loads, IoError(l) PROVE StageInv'
  <2>1. UNCHANGED <<source, final, staging, name, pid, counter>>
    BY <1>3 DEF IoError, disk, memory
  <2>2. CASE pc' = [pc EXCEPT ![l] = "failed"]
    BY <2>1, <2>2, Elsewhere DEF StageInv, StageTyped, Steps, Staging
  <2>3. CASE pc[l] \in Staging /\ pc' = [pc EXCEPT ![l] = "discard"]
    BY <2>1, <2>3 DEF StageInv, StageTyped, StagesAlone, Steps, Staging
  <2> QED
    BY <1>3, <2>2, <2>3 DEF IoError, Refuse
<1>4. ASSUME NEW l \in Loads, Stage(l) PROVE StageInv'
  <2> DEFINE p == ProcessOf[l]
             new == <<LibraryOf[l], pid[p], counter[p]>>
  <2>1. /\ p \in Processes /\ pc[l] = "stage" /\ new \in Names
        /\ counter' = [counter EXCEPT ![p] = @ + 1]
        /\ UNCHANGED <<source, final, pid>>
    BY <1>4 DEF Stage, StageInv, StageTyped, Names
  <2>2. counter' \in [Processes -> Nat]
    BY <2>1 DEF StageInv, StageTyped
  <2> HIDE DEF p, new
  <2>3. CASE new \in DOMAIN staging
    <3>1. UNCHANGED <<staging, name>> /\ pc' = [pc EXCEPT ![l] = "failed"]
      BY <1>4, <2>3 DEF Stage, p, new
    <3>2. StageTyped'
      BY <2>1, <2>2, <3>1 DEF StageInv, StageTyped, Steps
    <3>3. StagesAlone'
      BY <3>1 DEF StageInv, StageTyped, StagesAlone, Staging
    <3> QED
      BY <3>2, <3>3 DEF StageInv
  <2>4. CASE new \notin DOMAIN staging
    <3>1. /\ pc' = [pc EXCEPT ![l] = "write"]
          /\ staging' = [n \in DOMAIN staging \cup {new} |->
                             IF n = new THEN "partial" ELSE staging[n]]
          /\ name' = [name EXCEPT ![l] = new]
      BY <1>4, <2>4 DEF Stage, p, new
    <3>2. StageTyped'
      BY <2>1, <2>2, <3>1 DEF StageInv, StageTyped, Steps, Staging, Contents
    <3>3. \A k \in Loads \ {l} : pc'[k] = pc[k] /\ name'[k] = name[k]
      BY <3>1 DEF StageInv, StageTyped
    <3>4. pc'[l] = "write" /\ name'[l] = new
      BY <3>1 DEF StageInv, StageTyped
    <3>5. \A n \in DOMAIN staging : n # new /\ n \in DOMAIN staging' /\ staging'[n] = staging[n]
      BY <2>4, <3>1
    <3>6. new \in DOMAIN staging'
      BY <3>1
    <3>7. StagesAlone'
      BY <3>3, <3>4, <3>5, <3>6 DEF StageInv, StagesAlone
    <3> QED
      BY <3>2, <3>7 DEF StageInv
  <2> QED
    BY <2>3, <2>4
<1>5. ASSUME NEW l \in Loads, Write(l) PROVE StageInv'
  <2>1. /\ pc[l] = "write" /\ UNCHANGED <<source, final, name, pid, counter>>
        /\ \E content \in Contents, to \in Staging :
              /\ Put(l, content) /\ pc' = [pc EXCEPT ![l] = to]
              /\ (to = "mark" /\ content = "good") \/ to = "discard"
    <3>1. source[LibraryOf[l]] \in {"good", "bad"}
      BY DEF StageInv, StageTyped
    <3> QED
      BY <1>5, <3>1 DEF Write, Step, Contents, Staging, memory
  <2> QED
    BY <2>1, Within DEF Staging
<1>6. ASSUME NEW l \in Loads, Mark(l) PROVE StageInv'
  <2>1. staging[name[l]] = "good"
    BY <1>6 DEF Mark, Step, StageInv, StagesAlone, Staging
  <2>2. /\ pc[l] = "mark" /\ pc' = [pc EXCEPT ![l] = "rename"] /\ Put(l, "complete")
        /\ UNCHANGED <<source, final, name, pid, counter>>
    BY <1>6, <2>1 DEF Mark, Step, memory
  <2> QED
    BY <2>2, Within DEF Staging, Contents
<1>7. ASSUME NEW l \in Loads, Rename(l) PROVE StageInv'
  <2>1. pc[l] = "rename" /\ pc[l] \in Staging /\ UNCHANGED <<source, pid, counter>>
    BY <1>7 DEF Rename, Staging, memory
  <2>2. CASE Published(l)
    <3>1. UNCHANGED <<final, staging, name>> /\ pc' = [pc EXCEPT ![l] = "discard"]
      BY <1>7, <2>2 DEF Rename
    <3> QED
      BY <2>1, <3>1 DEF StageInv, StageTyped, StagesAlone, Steps, Staging
  <2>3. CASE ~Published(l)
    <3>1. /\ pc' = [pc EXCEPT ![l] = "open"]
          /\ final' = [final EXCEPT ![LibraryOf[l]] = staging[name[l]]]
          /\ staging' = Without(name[l])
          /\ Forget(l)
      BY <1>7, <2>3 DEF Rename
    <3>2. staging[name[l]] = "complete"
      BY <2>1 DEF StageInv, StagesAlone
    <3>3. final' \in [Libraries -> {"none", "complete", "damaged"}]
      BY <3>1, <3>2 DEF StageInv, StageTyped
    <3>4. "open" \in Steps \ Staging
      BY DEF Steps, Staging
    <3> QED
      BY <2>1, <3>1, <3>3, <3>4, Elsewhere
  <2> QED
    BY <2>2, <2>3
<1>8. ASSUME NEW l \in Loads, Discard(l) PROVE StageInv'
  <2>1. /\ pc[l] \in Staging
        /\ \E to \in Steps \ Staging : pc' = [pc EXCEPT ![l] = to]
        /\ staging' = Without(name[l]) \/ UNCHANGED staging
        /\ Forget(l)
        /\ UNCHANGED <<source, final, pid, counter>>
    <3>1. pc' = [pc EXCEPT ![l] = "open"] \/ pc' = [pc EXCEPT ![l] = "failed"]
      BY <1>8 DEF Discard, Step
    <3>2. \E to \in Steps \ Staging : pc' = [pc EXCEPT ![l] = to]
      BY <3>1 DEF Steps, Staging
    <3> QED
      BY <1>8, <3>2 DEF Discard, Step, Staging, memory
  <2> QED
    BY <2>1, Elsewhere DEF StageInv, StageTyped
<1>9. ASSUME NEW b \in Libraries, Replace(b) PROVE StageInv'
  BY <1>9 DEF Replace, memory, StageInv, StageTyped, StagesAlone
<1>10. ASSUME NEW p \in Processes, Crash(p) PROVE StageInv'
  <2>1. UNCHANGED <<source, final, staging>>
    BY <1>10 DEF Crash, disk
  <2>2. /\ pid' \in [Processes -> Pids]
        /\ counter' \in [Processes -> Nat]
    BY <1>10 DEF Crash, StageInv, StageTyped
  <2>3. /\ pc' = [l \in Loads |-> IF ProcessOf[l] = p THEN "idle" ELSE pc[l]]
        /\ name' = [l \in Loads |-> IF ProcessOf[l] = p THEN <<>> ELSE name[l]]
    BY <1>10 DEF Crash
  <2>4. StageTyped'
    BY <2>1, <2>2, <2>3 DEF StageInv, StageTyped, Steps
  <2>5. \A l \in Loads : pc'[l] \in Staging => pc'[l] = pc[l] /\ name'[l] = name[l]
    BY <2>3 DEF Staging
  <2>6. StagesAlone'
    BY <2>1, <2>5 DEF StageInv, StagesAlone
  <2> QED
    BY <2>4, <2>6 DEF StageInv
<1>11. CASE UNCHANGED vars
  BY <1>11 DEF vars, disk, memory, StageInv, StageTyped, StagesAlone
<1> QED
  BY <1>1, <1>2, <1>3, <1>4, <1>5, <1>6, <1>7, <1>8, <1>9, <1>10, <1>11
  DEF Next, Prepare, Load

\* Only a complete directory is published, once for each digest, for any
\* processes, loads and crashes.
THEOREM PublishedHolds == Spec => PublishedIsVerified
<1> USE NativeAssumption
<1>1. StageInv /\ [Next]_vars =>
         [\A b \in Libraries :
             final'[b] # final[b] => final[b] = "none" /\ final'[b] = "complete"]_vars
  <2> SUFFICES ASSUME StageInv, Next, NEW b \in Libraries, final'[b] # final[b]
               PROVE  final[b] = "none" /\ final'[b] = "complete"
    OBVIOUS
  <2>1. PICK l \in Loads : Rename(l)
    BY DEF Next, Prepare, Load, Admit, IoError, EnsureRoot, CreateRoot, Look, Stage,
           Write, Mark, Discard, Open, Enter, InitNative, Initialize, Commit, Warm,
           Replace, Crash, disk
  <2>2. /\ ~Published(l)
        /\ final' = [final EXCEPT ![LibraryOf[l]] = staging[name[l]]]
        /\ pc[l] = "rename"
    BY <2>1 DEF Rename
  <2>3. staging[name[l]] = "complete"
    BY <2>2 DEF StageInv, StagesAlone, Staging
  <2> QED
    BY <2>2, <2>3 DEF Published, StageInv, StageTyped
<1> QED
  BY <1>1, StageStart, StageStep, PTL DEF Spec, PublishedIsVerified

(***************************************************************************)
(* Why a load fails.                                                       *)
(***************************************************************************)

\* The running processes have different identifiers, and a staging directory is named
\* after the process that made it and a counter that the process has passed: a
\* name is taken only if an earlier process of the same identifier left it behind.
NamesInv ==
    /\ crashes \in Nat
    /\ \A p, q \in Processes : pid[p] = pid[q] => p = q
    /\ \A l \in Loads : pc[l] \in Staging =>
          /\ name[l][1] = LibraryOf[l] /\ name[l][2] = pid[ProcessOf[l]]
          /\ name[l][3] \in 0..(counter[ProcessOf[l]] - 1)
    /\ crashes = 0 =>
          \A n \in DOMAIN staging, p \in Processes :
             n[2] = pid[p] => n[3] \in 0..(counter[p] - 1)

\* A step that makes no directory and lets no load begin to stage keeps the names.
LEMMA NamesKept ==
    ASSUME NamesInv, UNCHANGED <<pid, counter, crashes>>, DOMAIN staging' \subseteq DOMAIN staging,
           \A k \in Loads : pc'[k] \in Staging => pc[k] \in Staging /\ name'[k] = name[k]
    PROVE  NamesInv'
BY DEF NamesInv

\* The steps of a load that make no directory.
LEMMA LoadKeepsNames ==
    ASSUME StageInv, NEW l \in Loads, (Prepare(l) /\ ~Stage(l)) \/ Load(l)
    PROVE  /\ UNCHANGED <<pid, counter, crashes>>
           /\ DOMAIN staging' \subseteq DOMAIN staging
           /\ \A n \in DOMAIN staging \ DOMAIN staging' : pc[l] \in Staging /\ n = name[l]
           /\ \A k \in Loads : pc'[k] \in Staging => pc[k] \in Staging /\ name'[k] = name[k]
<1> USE DEF StageInv, StageTyped, Steps, Staging, Inside, disk, memory
<1>1. CASE Admit(l) \/ EnsureRoot(l) \/ CreateRoot(l) \/ Look(l) \/ Open(l)
  BY <1>1 DEF Admit, EnsureRoot, CreateRoot, Look, Open, Step, Refuse
<1>2. CASE IoError(l)
  BY <1>2 DEF IoError, Refuse
<1>3. CASE Write(l) \/ Mark(l)
  BY <1>3 DEF Write, Mark, Step, Put
<1>4. CASE Rename(l) \/ Discard(l)
  BY <1>4 DEF Rename, Discard, Step, Forget, Without
<1>5. CASE Enter(l) \/ InitNative(l) \/ Commit(l) \/ Warm(l)
  BY <1>5 DEF Enter, InitNative, Initialize, Commit, Warm, Step, Refuse
<1> QED
  BY <1>1, <1>2, <1>3, <1>4, <1>5 DEF Prepare, Load

\* What the creation of a staging directory does.
LEMMA StageMakes ==
    ASSUME StageInv, NEW l \in Loads, Stage(l),
           NEW new, new = <<LibraryOf[l], pid[ProcessOf[l]], counter[ProcessOf[l]]>>
    PROVE  /\ pc[l] = "stage" /\ UNCHANGED <<source, final, pid, slot, committed, locked, refused, crashes>>
           /\ counter' = [counter EXCEPT ![ProcessOf[l]] = counter[ProcessOf[l]] + 1]
           /\ \/ /\ new \in DOMAIN staging
                 /\ UNCHANGED <<staging, name>>
                 /\ pc' = [pc EXCEPT ![l] = "failed"]
              \/ /\ new \notin DOMAIN staging
                 /\ DOMAIN staging' = DOMAIN staging \cup {new}
                 /\ name' = [name EXCEPT ![l] = new]
                 /\ pc' = [pc EXCEPT ![l] = "write"]
BY DEF Stage

\* Every step keeps the names.
LEMMA NamesStep == StageInv /\ NamesInv /\ [Next]_vars => NamesInv'
<1> SUFFICES ASSUME StageInv, NamesInv, [Next]_vars PROVE NamesInv'
  OBVIOUS
<1> USE NativeAssumption DEF StageInv, StageTyped
<1>1. ASSUME NEW l \in Loads, (Prepare(l) /\ ~Stage(l)) \/ Load(l) PROVE NamesInv'
  BY <1>1, LoadKeepsNames, NamesKept
<1>2. ASSUME NEW l \in Loads, Stage(l) PROVE NamesInv'
  <2> DEFINE p == ProcessOf[l]
             new == <<LibraryOf[l], pid[p], counter[p]>>
  <2>1. /\ p \in Processes /\ UNCHANGED <<pid, crashes>>
        /\ counter' = [counter EXCEPT ![p] = counter[p] + 1]
        /\ \/ /\ UNCHANGED <<staging, name>>
              /\ pc' = [pc EXCEPT ![l] = "failed"]
           \/ /\ DOMAIN staging' = DOMAIN staging \cup {new}
              /\ name' = [name EXCEPT ![l] = new]
              /\ pc' = [pc EXCEPT ![l] = "write"]
    BY <1>2, StageMakes
  <2>2. /\ counter[p] \in Nat /\ counter'[p] = counter[p] + 1
        /\ \A q \in Processes : counter[q] \in Nat /\ counter'[q] >= counter[q]
        /\ \A q \in Processes \ {p} : counter'[q] = counter[q]
    BY <2>1
  <2>3. new[1] = LibraryOf[l] /\ new[2] = pid[p] /\ new[3] = counter[p]
    OBVIOUS
  <2> HIDE DEF p, new
  <2>4. \A k \in Loads : pc'[k] \in Staging =>
           /\ name'[k][1] = LibraryOf[k] /\ name'[k][2] = pid'[ProcessOf[k]]
           /\ name'[k][3] \in 0..(counter'[ProcessOf[k]] - 1)
    <3> SUFFICES ASSUME NEW k \in Loads, pc'[k] \in Staging
                 PROVE  /\ name'[k][1] = LibraryOf[k] /\ name'[k][2] = pid[ProcessOf[k]]
                        /\ name'[k][3] \in 0..(counter'[ProcessOf[k]] - 1)
      BY <2>1
    <3>1. CASE k = l
      <4>1. name'[k] = new
        BY <2>1, <3>1 DEF Staging
      <4> QED
        BY <2>2, <2>3, <3>1, <4>1 DEF p
    <3>2. CASE k # l
      <4>1. pc[k] \in Staging /\ name'[k] = name[k] /\ ProcessOf[k] \in Processes
        BY <2>1, <3>2
      <4>2. /\ name[k][1] = LibraryOf[k] /\ name[k][2] = pid[ProcessOf[k]]
            /\ name[k][3] \in 0..(counter[ProcessOf[k]] - 1)
        BY <4>1 DEF NamesInv
      <4>3. counter[ProcessOf[k]] \in Nat /\ counter'[ProcessOf[k]] \in Nat
            /\ counter'[ProcessOf[k]] >= counter[ProcessOf[k]]
        BY <2>1, <2>2, <4>1
      <4> QED
        BY <4>1, <4>2, <4>3
    <3> QED
      BY <3>1, <3>2
  <2>5. ASSUME crashes = 0, NEW n \in DOMAIN staging', NEW q \in Processes, n[2] = pid[q]
        PROVE  n[3] \in 0..(counter'[q] - 1)
    <3>1. CASE n = new
      <4>1. q = p
        BY <2>1, <2>3, <2>5, <3>1 DEF NamesInv
      <4> QED
        BY <2>2, <2>3, <3>1, <4>1
    <3>2. CASE n # new
      <4>1. n \in DOMAIN staging
        BY <2>1, <2>5, <3>2
      <4>2. n[3] \in 0..(counter[q] - 1)
        BY <2>5, <4>1 DEF NamesInv
      <4>3. q = p \/ counter'[q] = counter[q]
        BY <2>2
      <4> QED
        BY <2>2, <4>2, <4>3
    <3> QED
      BY <3>1, <3>2
  <2> QED
    BY <2>1, <2>4, <2>5 DEF NamesInv
<1>3. ASSUME NEW b \in Libraries, Replace(b) PROVE NamesInv'
  BY <1>3, NamesKept DEF Replace, memory
<1>4. ASSUME NEW p \in Processes, Crash(p) PROVE NamesInv'
  <2>1. PICK new \in Pids \ {pid[q] : q \in Processes \ {p}} : pid' = [pid EXCEPT ![p] = new]
    BY <1>4 DEF Crash
  <2>2. /\ crashes' = crashes + 1
        /\ counter' = [counter EXCEPT ![p] = 0]
        /\ pc' = [l \in Loads |-> IF ProcessOf[l] = p THEN "idle" ELSE pc[l]]
        /\ name' = [l \in Loads |-> IF ProcessOf[l] = p THEN <<>> ELSE name[l]]
    BY <1>4 DEF Crash
  <2>3. \A q, r \in Processes : pid'[q] = pid'[r] => q = r
    BY <2>1 DEF NamesInv
  <2>4. \A l \in Loads : pc'[l] \in Staging =>
           ProcessOf[l] # p /\ pc[l] = pc'[l] /\ name'[l] = name[l]
    BY <2>2 DEF Staging
  <2> QED
    BY <2>1, <2>2, <2>3, <2>4 DEF NamesInv
<1>5. CASE UNCHANGED vars
  BY <1>5, NamesKept DEF vars, disk, memory
<1> QED
  BY <1>1, <1>2, <1>3, <1>4, <1>5 DEF Next

\* No load stages in the directory n.
Unowned(n) == \A k \in Loads : pc[k] \in Staging => name[k] # n

\* A directory that nobody stages in stays, and nobody begins to stage in it.
LEMMA UnownedStays ==
    ASSUME StageInv, [Next]_vars, NEW n \in DOMAIN staging, Unowned(n)
    PROVE  n \in DOMAIN staging' /\ Unowned(n)'
<1> USE DEF Unowned, StageInv, StageTyped
<1>1. ASSUME NEW l \in Loads, (Prepare(l) /\ ~Stage(l)) \/ Load(l)
      PROVE  n \in DOMAIN staging' /\ Unowned(n)'
  BY <1>1, LoadKeepsNames
<1>2. ASSUME NEW l \in Loads, Stage(l) PROVE n \in DOMAIN staging' /\ Unowned(n)'
  <2> DEFINE new == <<LibraryOf[l], pid[ProcessOf[l]], counter[ProcessOf[l]]>>
  <2>1. \/ /\ UNCHANGED <<staging, name>>
           /\ pc' = [pc EXCEPT ![l] = "failed"]
        \/ /\ new \notin DOMAIN staging
           /\ DOMAIN staging' = DOMAIN staging \cup {new}
           /\ name' = [name EXCEPT ![l] = new]
           /\ pc' = [pc EXCEPT ![l] = "write"]
    BY <1>2, StageMakes
  <2> HIDE DEF new
  <2> QED
    BY <2>1 DEF Staging
<1>3. ASSUME NEW p \in Processes, Crash(p) PROVE n \in DOMAIN staging' /\ Unowned(n)'
  BY <1>3 DEF Crash, disk, Staging
<1>4. CASE UNCHANGED vars \/ \E b \in Libraries : Replace(b)
  BY <1>4 DEF vars, Replace, disk
<1> QED
  BY <1>1, <1>2, <1>3, <1>4 DEF Next

\* The reasons of a failure, as lasting as the failure: a directory that is nobody's
\* any more, and a slot that nobody is about to commit.
LeftBehind(l) ==
    /\ crashes > 0
    /\ \E n \in DOMAIN staging :
          n[1] = LibraryOf[l] /\ n[2] = pid[ProcessOf[l]] /\ Unowned(n)

Taken(l) ==
    /\ slot[ProcessOf[l]] # "none"
    /\ ~Holds(l) \/ ProcessOf[l] \notin committed \cup locked

Reason(l) ==
    \/ l \in refused
    \/ source[LibraryOf[l]] = "bad"
    \/ final[LibraryOf[l]] = "damaged"
    \/ LeftBehind(l)
    \/ Taken(l)

\* What is left behind stays until the process itself ends.
LEMMA LeftStays ==
    ASSUME StageInv, NamesInv, [Next]_vars, NEW l \in Loads, LeftBehind(l),
           pid'[ProcessOf[l]] = pid[ProcessOf[l]]
    PROVE  LeftBehind(l)'
<1>1. PICK n \in DOMAIN staging :
         n[1] = LibraryOf[l] /\ n[2] = pid[ProcessOf[l]] /\ Unowned(n)
  BY DEF LeftBehind
<1>2. n \in DOMAIN staging' /\ Unowned(n)'
  BY <1>1, UnownedStays
<1>3. crashes' = crashes \/ crashes' = crashes + 1
  BY DEF Next, Prepare, Load, Admit, EnsureRoot, CreateRoot, Look, Stage, Write, Mark, Rename,
         Discard, Open, IoError, Enter, InitNative, Initialize, Commit, Warm, Replace, Crash, vars
<1>4. crashes' > 0
  BY <1>3 DEF NamesInv, LeftBehind
<1> QED
  BY <1>1, <1>2, <1>4 DEF LeftBehind

\* A slot that is taken stays taken until the process ends.
LEMMA TakenStays ==
    ASSUME SlotInv, [Next]_vars, NEW l \in Loads, Taken(l), ~Crash(ProcessOf[l])
    PROVE  Taken(l)'
<1> DEFINE p == ProcessOf[l]
<1> USE NativeAssumption DEF SlotInv, SlotTyped, Taken, Holds
<1>1. ASSUME NEW k \in Loads, Prepare(k) \/ Warm(k) PROVE Taken(l)'
  BY <1>1, Outside
<1>2. ASSUME NEW k \in Loads, Enter(k) PROVE Taken(l)'
  BY <1>2 DEF Enter
<1>3. ASSUME NEW k \in Loads, InitNative(k) PROVE Taken(l)'
  BY <1>3 DEF InitNative, Initialize
<1>4. ASSUME NEW k \in Loads, Commit(k) PROVE Taken(l)'
  <2>1. pc[k] \in Inside /\ ProcessOf[k] \in locked
    BY <1>4 DEF Commit, InsideIsAlone, Inside
  <2> QED
    BY <1>4, <2>1 DEF Commit
<1>5. ASSUME NEW q \in Processes, Crash(q) PROVE Taken(l)'
  BY <1>5 DEF Crash
<1>6. CASE UNCHANGED vars \/ \E b \in Libraries : Replace(b)
  BY <1>6 DEF vars, Replace, memory
<1> QED
  BY <1>1, <1>2, <1>3, <1>4, <1>5, <1>6 DEF Next, Load

\* A directory that is published stays as it is, and a file that is not the library
\* does not become one.
LEMMA DiskStays ==
    ASSUME StageInv, [Next]_vars, NEW b \in Libraries
    PROVE  /\ final[b] # "none" => final'[b] = final[b]
           /\ source[b] = "bad" => source'[b] = "bad"
<1> USE NativeAssumption DEF StageInv, StageTyped, disk
<1>1. ASSUME NEW l \in Loads, Rename(l)
      PROVE  (final[b] # "none" => final'[b] = final[b]) /\ source' = source
  BY <1>1 DEF Rename, Published
<1>2. ASSUME NEW l \in Loads, (Prepare(l) /\ ~Rename(l)) \/ Load(l)
      PROVE  UNCHANGED <<final, source>>
  BY <1>2 DEF Prepare, Load, Admit, EnsureRoot, CreateRoot, Look, Stage, Write, Mark, Discard,
              Open, IoError, Enter, InitNative, Initialize, Commit, Warm
<1>3. ASSUME NEW c \in Libraries, Replace(c)
      PROVE  final' = final /\ (source[b] = "bad" => source'[b] = "bad")
  BY <1>3 DEF Replace
<1>4. CASE UNCHANGED vars \/ \E p \in Processes : Crash(p)
  BY <1>4 DEF vars, Crash
<1> QED
  BY <1>1, <1>2, <1>3, <1>4 DEF Next

\* A load opens only what is published, discards its staging directory for a reason
\* or because another load published first, and fails for a reason.
Cause(l) ==
    /\ pc[l] = "open" => Published(l)
    /\ pc[l] = "discard" =>
         l \in refused \/ source[LibraryOf[l]] = "bad" \/ Published(l)
    /\ pc[l] = "failed" => Reason(l)

\* A load that does not move keeps its cause, unless its process ends.
LEMMA CauseStays ==
    ASSUME StageInv, SlotInv, NamesInv, [Next]_vars, NEW l \in Loads, Cause(l),
           pc'[l] = pc[l], l \in refused => l \in refused',
           pid'[ProcessOf[l]] = pid[ProcessOf[l]], ~Crash(ProcessOf[l])
    PROVE  Cause(l)'
<1>1. LibraryOf[l] \in Libraries
  BY NativeAssumption
<1>2. /\ Published(l) => Published(l)'
      /\ source[LibraryOf[l]] = "bad" => source'[LibraryOf[l]] = "bad"
      /\ final[LibraryOf[l]] = "damaged" => final'[LibraryOf[l]] = "damaged"
  BY <1>1, DiskStays DEF Published
<1>3. LeftBehind(l) => LeftBehind(l)'
  BY LeftStays
<1>4. Taken(l) => Taken(l)'
  BY TakenStays
<1> QED
  BY <1>2, <1>3, <1>4 DEF Cause, Reason

\* What the step of a load does for the other loads.
LEMMA OneMoves ==
    ASSUME StageInv, SlotInv, NamesInv, NEW l \in Loads, Prepare(l) \/ Load(l)
    PROVE  /\ \A k \in Loads \ {l} : pc'[k] = pc[k] /\ (k \in refused => k \in refused')
           /\ UNCHANGED pid
           /\ \A p \in Processes : ~Crash(p)
<1>1. UNCHANGED <<pid, crashes>>
  BY DEF Prepare, Load, Admit, EnsureRoot, CreateRoot, Look, Stage, Write, Mark, Rename,
         Discard, Open, IoError, Enter, InitNative, Initialize, Commit, Warm
<1>2. \A p \in Processes : ~Crash(p)
  BY <1>1 DEF Crash, NamesInv
<1>3. \A k \in Loads \ {l} : pc'[k] = pc[k]
  BY DEF Prepare, Load, Admit, EnsureRoot, CreateRoot, Look, Stage, Write, Mark, Rename,
         Discard, Open, IoError, Enter, InitNative, Initialize, Commit, Warm, Step, Refuse,
         StageInv, StageTyped
<1>4. \A k \in Loads \ {l} : k \in refused => k \in refused'
  BY DEF Prepare, Load, Admit, EnsureRoot, CreateRoot, Look, Stage, Write, Mark, Rename,
         Discard, Open, IoError, Enter, InitNative, Initialize, Commit, Warm, Refuse
<1> QED
  BY <1>1, <1>2, <1>3, <1>4

\* The load that moves has a cause where it comes to.
LEMMA MoverHasCause ==
    ASSUME StageInv, SlotInv, NamesInv, NEW l \in Loads, Cause(l), Prepare(l) \/ Load(l)
    PROVE  Cause(l)'
<1> USE NativeAssumption DEF StageInv, StageTyped, disk, memory, Cause
<1>r. ASSUME Refuse(l) PROVE Cause(l)'
  BY <1>r DEF Refuse, Reason
<1>1. CASE Admit(l)
  <2>1. CASE source[LibraryOf[l]] = "bad" /\ pc' = [pc EXCEPT ![l] = "failed"] /\ source' = source
    BY <2>1 DEF Reason
  <2>2. CASE pc' = [pc EXCEPT ![l] = "root"]
    BY <2>2
  <2> QED
    BY <1>1, <1>r, <2>1, <2>2 DEF Admit
<1>2. CASE EnsureRoot(l) \/ CreateRoot(l) \/ Look(l) \/ Mark(l)
  BY <1>2, <1>r DEF EnsureRoot, CreateRoot, Look, Mark, Step, Published
<1>3. CASE Stage(l)
  <2> DEFINE new == <<LibraryOf[l], pid[ProcessOf[l]], counter[ProcessOf[l]]>>
  <2>1. /\ pc[l] = "stage" /\ UNCHANGED <<source, final, pid, crashes>>
        /\ \/ /\ new \in DOMAIN staging
              /\ UNCHANGED <<staging, name>>
              /\ pc' = [pc EXCEPT ![l] = "failed"]
           \/ pc' = [pc EXCEPT ![l] = "write"]
    BY <1>3, StageMakes
  <2>2. new[1] = LibraryOf[l] /\ new[2] = pid[ProcessOf[l]] /\ new[3] = counter[ProcessOf[l]]
    OBVIOUS
  <2>3. counter[ProcessOf[l]] \in Nat /\ ProcessOf[l] \in Processes
    OBVIOUS
  <2> HIDE DEF new
  <2>4. CASE pc' = [pc EXCEPT ![l] = "write"]
    BY <2>4
  <2>5. CASE /\ new \in DOMAIN staging
             /\ UNCHANGED <<staging, name>>
             /\ pc' = [pc EXCEPT ![l] = "failed"]
    <3>1. crashes > 0
      BY <2>2, <2>3, <2>5 DEF NamesInv
    <3>2. \A k \in Loads : pc[k] \in Staging => name[k] # new
      <4> SUFFICES ASSUME NEW k \in Loads, pc[k] \in Staging, name[k] = new
                   PROVE  FALSE
        OBVIOUS
      <4>1. /\ name[k][2] = pid[ProcessOf[k]]
            /\ name[k][3] \in 0..(counter[ProcessOf[k]] - 1)
        BY DEF NamesInv
      <4>2. pid[ProcessOf[k]] = pid[ProcessOf[l]]
        BY <2>2, <4>1
      <4>3. ProcessOf[k] \in Processes /\ ProcessOf[l] \in Processes
        OBVIOUS
      <4>4. ProcessOf[k] = ProcessOf[l]
        BY <4>2, <4>3 DEF NamesInv
      <4>5. counter[ProcessOf[l]] \in 0..(counter[ProcessOf[l]] - 1)
        BY <2>2, <4>1, <4>4
      <4> QED
        BY <2>3, <4>5
    <3>3. PICK n : n = new
      OBVIOUS
    <3>4. Unowned(n)'
      BY <2>5, <3>2, <3>3 DEF Unowned, Staging
    <3>5. n \in DOMAIN staging' /\ n[1] = LibraryOf[l] /\ n[2] = pid'[ProcessOf[l]]
      BY <2>1, <2>2, <2>5, <3>3
    <3>6. LeftBehind(l)'
      BY <2>1, <3>1, <3>4, <3>5 DEF LeftBehind
    <3> QED
      BY <2>5, <3>6 DEF Reason
  <2> QED
    BY <2>1, <2>4, <2>5
<1>4. CASE Write(l)
  BY <1>4 DEF Write, Step
<1>5. CASE Rename(l)
  <2>1. CASE Published(l)
    BY <1>5, <2>1 DEF Rename, Published
  <2>2. CASE ~Published(l)
    <3>1. staging[name[l]] = "complete"
      BY <1>5 DEF Rename, StagesAlone, Staging
    <3> QED
      BY <1>5, <2>2, <3>1 DEF Rename, Published
  <2> QED
    BY <2>1, <2>2
<1>6. CASE Discard(l)
  BY <1>6 DEF Discard, Step, Published, Reason
<1>7. CASE Open(l)
  BY <1>7 DEF Open, Step, Published, Reason
<1>8. CASE IoError(l)
  BY <1>8, <1>r DEF IoError
<1>9. CASE Enter(l)
  <2>1. CASE slot[ProcessOf[l]] = "none"
    BY <1>9, <2>1 DEF Enter
  <2>2. CASE slot[ProcessOf[l]] # "none"
    BY <1>9, <2>2 DEF Enter, Reason, Taken, Holds
  <2> QED
    BY <2>1, <2>2
<1>10. CASE InitNative(l) \/ Commit(l) \/ Warm(l)
  BY <1>10, <1>r DEF InitNative, Initialize, Commit, Warm, Step
<1> QED
  BY <1>1, <1>2, <1>3, <1>4, <1>5, <1>6, <1>7, <1>8, <1>9, <1>10 DEF Prepare, Load

\* Every step keeps the causes.
LEMMA CausesStep ==
    ASSUME StageInv, SlotInv, NamesInv, \A l \in Loads : Cause(l), [Next]_vars
    PROVE  \A l \in Loads : Cause(l)'
<1>1. ASSUME NEW l \in Loads, Prepare(l) \/ Load(l), NEW k \in Loads PROVE Cause(k)'
  <2>1. CASE k = l
    BY <1>1, <2>1, MoverHasCause
  <2>2. CASE k # l
    BY <1>1, <2>2, OneMoves, CauseStays, NativeAssumption
  <2> QED
    BY <2>1, <2>2
<1>2. ASSUME NEW p \in Processes, Crash(p), NEW k \in Loads PROVE Cause(k)'
  <2>1. CASE ProcessOf[k] = p
    BY <1>2, <2>1 DEF Crash, Cause
  <2>2. CASE ProcessOf[k] # p
    <3>1. /\ pc'[k] = pc[k] /\ (k \in refused => k \in refused')
          /\ pid'[ProcessOf[k]] = pid[ProcessOf[k]] /\ slot' = [slot EXCEPT ![p] = "none"]
      BY <1>2, <2>2, NativeAssumption DEF Crash, StageInv, StageTyped
    <3>2. /\ LeftBehind(k) => LeftBehind(k)'
          /\ Published(k) => Published(k)'
          /\ source' = source /\ final' = final
      BY <1>2, <3>1, LeftStays DEF Crash, disk, Published
    <3>3. Taken(k) => Taken(k)'
      BY <1>2, <2>2, NativeAssumption DEF Crash, Taken, Holds, SlotInv, SlotTyped
    <3> QED
      BY <3>1, <3>2, <3>3 DEF Cause, Reason
  <2> QED
    BY <2>1, <2>2
<1>3. ASSUME NEW b \in Libraries, Replace(b), NEW k \in Loads PROVE Cause(k)'
  <2>1. UNCHANGED <<pc, refused, pid, crashes>>
    BY <1>3 DEF Replace
  <2>2. ~Crash(ProcessOf[k])
    BY <2>1 DEF Crash, NamesInv
  <2> QED
    BY <2>1, <2>2, CauseStays
<1>4. ASSUME UNCHANGED vars, NEW k \in Loads PROVE Cause(k)'
  BY <1>4 DEF vars, disk, memory, Cause, Reason, Published, LeftBehind, Unowned, Taken, Holds
<1> QED
  BY <1>1, <1>2, <1>3, <1>4 DEF Next

\* A load fails only for a reason that still holds: losing the race for the directory
\* of the digest, or for the slot against a load of the same library, is none.
THEOREM FailuresHaveReasons == Spec => []FailureIsExplained
<1>1. Init => NamesInv
  BY DEF Init, NamesInv, Staging
<1>2. Init => \A l \in Loads : Cause(l)
  BY DEF Init, Cause
<1>3. Spec => []NamesInv
  BY <1>1, NamesStep, StageStart, StageStep, PTL DEF Spec
<1>4. Spec => []StageInv
  BY StageStart, StageStep, PTL DEF Spec
<1>5. StageInv /\ SlotInv /\ NamesInv /\ (\A l \in Loads : Cause(l)) /\ [Next]_vars =>
         (\A l \in Loads : Cause(l))'
  BY CausesStep
<1>6. (\A l \in Loads : Cause(l)) => FailureIsExplained
  BY DEF Cause, Reason, LeftBehind, Taken, Leftover, FailureIsExplained
<1> QED
  BY <1>2, <1>3, <1>4, <1>5, <1>6, SlotsSafe, PTL DEF Spec
================================================================================
