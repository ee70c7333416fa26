-------------------------- MODULE ModelStoreProofs ---------------------------
(***************************************************************************)
(* The locks and the leases of the model store for any number of calls,    *)
(* leases and crashes.                                                     *)
(***************************************************************************)
EXTENDS ModelStore, FiniteSetTheorems, TLAPS

\* Where an operation may change the directories, or has just done so.
Writing == PCs \ {"idle", "lock", "exclusive", "leases", "unlock", "done"}

\* The leases in the count of the process.
Counted == {l \in Leases : lease[l] \in {"counted", "held", "dropped", "uncounted"}}

\* The operations hold the locks that their places ask for, and no others, and the
\* lease lock is never exclusive and shared at a time.
LocksHeld ==
    /\ \A o \in Ops : pc[o] \in Writing \cup {"exclusive", "leases", "unlock"} => lock = o
    /\ \A o \in Ops : lock = o => pc[o] \in Writing \cup {"exclusive", "leases", "unlock"}
    /\ \A o \in Ops : pc[o] \in Writing <=> exclusive = o
    /\ exclusive # None => Shared = {}

CountsLeases == count = Cardinality(Counted)

\* The inductive invariant.
StoreInv == TypeOK /\ LocksHeld /\ CountsLeases

------------------------------------------------------------------------------
\* A file operation leaves each directory with one of its contents.
LEMMA EffectsTyped ==
  ASSUME dir \in [Dirs -> Contents], NEW op \in FileOps
  PROVE  Effects(op) \subseteq [Dirs -> Contents]
  <1> USE DEF Dirs, Contents, None
  <1>1. CASE \E a, b \in Dirs : op = <<"rename", a, b>>
    BY <1>1 DEF Effects
  <1>2. CASE \E d \in Dirs : op = <<"remove", d, d>>
    BY <1>2 DEF Effects, Removed
  <1>3. CASE op = <<"create", "staging", "staging">>
    BY <1>3 DEF Effects
  <1>4. QED
    BY <1>1, <1>2, <1>3 DEF FileOps, Rename, Remove, Create

\* The parts of TypeOK that a file operation of o touches.
IoTyped ==
    /\ dir' \in [Dirs -> Contents]
    /\ stopped' \subseteq Ops
    /\ late' \subseteq FileOps /\ overtaken' \in BOOLEAN

\* A file operation keeps the types, whether it succeeds or fails.
LEMMA IoTypes ==
  ASSUME TypeOK, NEW o \in Ops, NEW op \in FileOps, IoDone(o, op) \/ IoFailed(o, op)
  PROVE  IoTyped
  <1>1. Effects(op) \subseteq [Dirs -> Contents]
    BY EffectsTyped DEF TypeOK
  <1>2. QED
    BY <1>1 DEF TypeOK, IoDone, IoFailed, IoTyped, abandoned

------------------------------------------------------------------------------
\* What all the steps of an operation between its locks have in common: it goes
\* on with its locks, and leaves the others, and the leases, alone.
WriterMove(o) ==
    /\ pc[o] \in Writing
    /\ \E to \in Writing : pc' = [pc EXCEPT ![o] = to]
    /\ IoTyped
    /\ replacing' \subseteq Ops
    /\ result' \in [Ops -> {None, "ok", "err"}]
    /\ UNCHANGED <<task, locks, leases, crashes>>

\* A step that touches only the operation is one of them.
LEMMA StepMoves ==
  ASSUME TypeOK, NEW o \in Ops, NEW from \in Writing, NEW to \in Writing, Step(o, from, to)
  PROVE  WriterMove(o)
  BY DEF TypeOK, Step, Go, WriterMove, IoTyped, abandoned

\* The end of an operation is one of them.
LEMMA FinishMoves ==
  ASSUME TypeOK, NEW o \in Ops, NEW from \in Writing, NEW how \in {"ok", "err"},
         Finish(o, from, how)
  PROVE  WriterMove(o)
  BY DEF TypeOK, Finish, Go, WriterMove, IoTyped, abandoned, Writing, PCs

\* A file operation is one of them.
LEMMA IoMoves ==
  ASSUME TypeOK, NEW o \in Ops, NEW op \in FileOps,
         NEW from \in Writing, NEW to \in Writing, NEW fail \in Writing,
         Io(o, op, from, to, fail)
  PROVE  WriterMove(o)
  <1>1. IoTyped
    BY IoTypes DEF Io
  <1>2. QED
    BY <1>1 DEF TypeOK, Io, Go, WriterMove

\* So is a removal.
LEMMA RemoveMoves ==
  ASSUME TypeOK, NEW o \in Ops, NEW d \in Dirs,
         NEW from \in Writing, NEW to \in Writing, NEW fail \in Writing,
         RemoveAll(o, d, from, to, fail)
  PROVE  WriterMove(o)
  <1>1. Remove(d) \in FileOps
    BY DEF FileOps
  <1>2. IoTyped
    BY <1>1, IoTypes DEF RemoveAll
  <1>3. QED
    BY <1>2 DEF TypeOK, RemoveAll, Go, WriterMove

\* A rename that is tried keeps the types.
LEMMA TryRenameTypes ==
  ASSUME TypeOK, NEW from \in Dirs, NEW to \in Dirs, TryRename(from, to)
  PROVE  IoTyped
  <1>1. Rename(from, to) \in FileOps
    BY DEF FileOps
  <1>2. Effects(Rename(from, to)) \subseteq [Dirs -> Contents]
    BY <1>1, EffectsTyped DEF TypeOK
  <1>3. QED
    BY <1>2 DEF TypeOK, TryRename, IoTyped, abandoned

\* The renames are file operations.
LEMMA RenameIsOp ==
  ASSUME NEW from \in Dirs, NEW to \in Dirs
  PROVE  Rename(from, to) \in FileOps
  BY DEF FileOps

\* The places of an operation between its locks.
LEMMA WritingPlaces ==
  /\ {"verify", "inspect", "prepare", "clear", "create", "fetch", "mark", "old"} \subseteq Writing
  /\ {"drop", "quarantine", "promote", "restore", "check", "undo"} \subseteq Writing
  /\ {"settle", "cleanup", "find", "delete", "failed", "unlease"} \subseteq Writing
  BY DEF Writing, PCs

\* Every step of install, import and delete between the locks is one of them.
LEMMA WriterMoves ==
  ASSUME TypeOK, NEW o \in Ops, Install(o) \/ Find(o) \/ Delete(o)
  PROVE  WriterMove(o)
  <1> USE WritingPlaces, StepMoves, FinishMoves
  <1>0. "final" \in Dirs /\ "staging" \in Dirs /\ "quarantine" \in Dirs
    BY DEF Dirs
  <1>1. CASE Verify(o) \/ Failed(o)
    BY <1>1 DEF Verify, Failed
  <1>2. CASE Inspect(o)
    BY <1>2 DEF Inspect, WriterMove, Go, TypeOK, IoTyped, abandoned
  <1>3. CASE Prepare(o)
    BY <1>3 DEF Prepare
  <1>4. CASE Clear(o) \/ DropOld(o)
    BY <1>0, <1>4, RemoveMoves DEF Clear, DropOld
  <1>5. CASE CreateStaging(o) \/ Promote(o)
    <2>1. Create("staging") \in FileOps /\ Rename("staging", "final") \in FileOps
      BY <1>0, RenameIsOp DEF FileOps
    <2>2. QED
      BY <1>5, <2>1, IoMoves DEF CreateStaging, Promote
  <1>6. CASE Fetch(o)
    <2>1. [dir EXCEPT !["staging"] = "whole"] \in [Dirs -> Contents]
      BY DEF TypeOK, Contents
    <2>2. QED
      BY <1>6, <2>1 DEF Fetch, WriterMove, Go, TypeOK, IoTyped, abandoned
  <1>7. CASE Mark(o)
    <2>1. [dir EXCEPT !["staging"] = "good"] \in [Dirs -> Contents]
      BY DEF TypeOK, Contents
    <2>2. QED
      BY <1>7, <2>1 DEF Mark, WriterMove, Go, TypeOK, IoTyped, abandoned
  <1>8. CASE Old(o) \/ Check(o)
    BY <1>8 DEF Old, Check
  <1>9. CASE Quarantine(o)
    <2>1. Rename("final", "quarantine") \in FileOps
      BY <1>0, RenameIsOp
    <2>2. QED
      BY <1>9, <2>1, IoMoves DEF Quarantine
  <1>10. CASE Restore(o)
    <2>1. CASE TryRename("quarantine", "final") /\ Go(o, "restore", "cleanup")
      <3>1. IoTyped
        BY <1>0, <2>1, TryRenameTypes
      <3>2. QED
        BY <2>1, <3>1 DEF TryRename, WriterMove, Go, TypeOK
    <2>2. QED
      BY <1>10, <2>1 DEF Restore
  <1>11. CASE Undo(o)
    <2>1. IoTyped
      BY <1>0, <1>11, TryRenameTypes DEF Undo
    <2>2. QED
      BY <1>11, <2>1 DEF Undo, TryRename, WriterMove, Go, TypeOK
  <1>12. CASE Settle(o)
    BY <1>0, <1>12, RemoveMoves DEF Settle
  <1>13. CASE Cleanup(o)
    BY <1>0, <1>13, RemoveMoves DEF Cleanup
  <1>14. CASE Find(o)
    BY <1>14 DEF Find
  <1>15. CASE Delete(o)
    BY <1>0, <1>15, RemoveMoves DEF Delete
  <1>16. QED
    BY <1>1, <1>2, <1>3, <1>4, <1>5, <1>6, <1>7, <1>8, <1>9, <1>10, <1>11, <1>12,
       <1>13, <1>14, <1>15
    DEF Install

------------------------------------------------------------------------------
\* The leases in the count form a finite set, no larger than the leases.
LEMMA CountedFinite ==
  /\ IsFiniteSet(Counted)
  /\ Cardinality(Counted) \in Nat
  /\ Cardinality(Counted) <= Cardinality(Leases)
  BY StoreAssumption, FS_Subset, FS_CardinalityType DEF Counted

\* The same after a step.
LEMMA CountedFiniteNext ==
  /\ Cardinality(Counted') \in Nat
  /\ Cardinality(Counted') <= Cardinality(Leases)
  BY StoreAssumption, FS_Subset, FS_CardinalityType DEF Counted

\* A step of a lease that neither enters nor leaves the count keeps it.
LEMMA CountStays ==
  ASSUME TypeOK, CountsLeases, NEW l \in Leases,
         NEW from, NEW to, MoveLease(l, from, to), UNCHANGED count,
         from \in {"counted", "held", "dropped", "uncounted"} <=>
           to \in {"counted", "held", "dropped", "uncounted"}
  PROVE  CountsLeases'
  <1>1. Counted' = Counted
    BY DEF Counted, MoveLease, TypeOK
  <1>2. QED
    BY <1>1 DEF CountsLeases

\* Every step keeps the count in agreement with the leases: one is counted after
\* it was locked, and uncounted after it was unlocked, each once.
LEMMA CountStep ==
  ASSUME TypeOK, CountsLeases, [Next]_vars
  PROVE  CountsLeases'
  <1>1. ASSUME NEW l \in Leases, LeaseLock(l)
        PROVE  CountsLeases'
    BY <1>1, CountStays DEF LeaseLock
  <1>2. ASSUME NEW l \in Leases, LeaseCount(l)
        PROVE  CountsLeases'
    <2>1. Counted' = Counted \cup {l} /\ l \notin Counted
      BY <1>2 DEF LeaseCount, MoveLease, Counted, TypeOK
    <2>2. QED
      BY <1>2, <2>1, CountedFinite, FS_AddElement DEF LeaseCount, CountsLeases
  <1>3. ASSUME NEW l \in Leases, LeaseVerify(l)
        PROVE  CountsLeases'
    BY <1>3, CountStays DEF LeaseVerify
  <1>4. ASSUME NEW l \in Leases, LeaseDrop(l) \/ LeaseUnlock(l)
        PROVE  CountsLeases'
    BY <1>4, CountStays DEF LeaseDrop, LeaseUnlock
  <1>5. ASSUME NEW l \in Leases, LeaseUncount(l)
        PROVE  CountsLeases'
    <2>1. Counted' = Counted \ {l} /\ l \in Counted
      BY <1>5 DEF LeaseUncount, MoveLease, Counted, TypeOK
    <2>2. Cardinality(Counted') = Cardinality(Counted) - 1
      BY <2>1, CountedFinite, FS_RemoveElement
    <2>3. count > 0
      BY <2>2, CountedFinite, CountedFiniteNext DEF CountsLeases
    <2>4. QED
      BY <1>5, <2>2, <2>3 DEF LeaseUncount, CountsLeases
  <1>6. CASE Crash
    <2>1. Counted' = {}
      BY <1>6 DEF Crash, Counted
    <2>2. QED
      BY <1>6, <2>1, FS_EmptySet DEF Crash, CountsLeases
  <1>7. CASE UNCHANGED leases
    <2>1. Counted' = Counted
      BY <1>7 DEF Counted, leases
    <2>2. QED
      BY <1>7, <2>1 DEF CountsLeases, leases
  <1>8. ASSUME NEW o \in Ops, Install(o) \/ Find(o) \/ Delete(o)
        PROVE  UNCHANGED leases
    BY <1>8, WriterMoves DEF WriterMove
  <1>9. QED
    BY <1>1, <1>2, <1>3, <1>4, <1>5, <1>6, <1>7, <1>8
    DEF Next, vars, Continue, ContinueLease, Begin, Lock, Give, CountLeases, TakeLeaseLock,
        Exclusive, Unlease, Unlock, Step, Finish, Stop, LateEffect

------------------------------------------------------------------------------
\* Every step keeps the types.
LEMMA TypeStep ==
  ASSUME TypeOK, CountsLeases', [Next]_vars
  PROVE  TypeOK'
  <1>0. count' \in 0..Cardinality(Leases)
    BY CountedFiniteNext, StoreAssumption, FS_CardinalityType DEF CountsLeases
  <1> USE DEF TypeOK, Go, ops, leases, locks, abandoned
  <1>1. ASSUME NEW o \in Ops, Install(o) \/ Find(o) \/ Delete(o)
        PROVE  TypeOK'
    BY <1>0, <1>1, WriterMoves DEF WriterMove, IoTyped, Writing
  <1>2. ASSUME NEW o \in Ops, Begin(o) \/ Lock(o) \/ CountLeases(o) \/ Exclusive(o)
        PROVE  TypeOK'
    BY <1>0, <1>2 DEF Begin, Lock, Give, CountLeases, Step, TakeLeaseLock, Exclusive, Entered, PCs
  <1>3. ASSUME NEW o \in Ops, Unlease(o) \/ Unlock(o) \/ Stop(o)
        PROVE  TypeOK'
    BY <1>0, <1>3 DEF Unlease, Unlock, Stop, PCs
  <1>4. ASSUME NEW l \in Leases, LeaseLock(l) \/ LeaseDrop(l) \/ ContinueLease(l)
        PROVE  TypeOK'
    BY <1>0, <1>4 DEF LeaseLock, LeaseDrop, ContinueLease, LeaseCount, LeaseVerify,
                      LeaseUnlock, LeaseUncount, MoveLease
  <1>5. ASSUME NEW op \in late, LateEffect(op)
        PROVE  TypeOK'
    <2>1. Effects(op) \subseteq [Dirs -> Contents]
      BY EffectsTyped
    <2>2. QED
      BY <1>0, <1>5, <2>1 DEF LateEffect
  <1>6. CASE Crash
    BY <1>0, <1>6, StoreAssumption DEF Crash, PCs
  <1>7. CASE UNCHANGED vars
    BY <1>0, <1>7 DEF vars
  <1>8. QED
    BY <1>1, <1>2, <1>3, <1>4, <1>5, <1>6, <1>7 DEF Next, Continue

------------------------------------------------------------------------------
\* Every step keeps the locks: the operation lock goes from one operation to the
\* next, and the lease lock to its holder, when nobody shares it.
LEMMA LocksStep ==
  ASSUME TypeOK, LocksHeld, [Next]_vars
  PROVE  LocksHeld'
  <1> USE StoreAssumption DEF TypeOK, LocksHeld, Writing, PCs, Go, ops, leases, locks, None
  <1>1. ASSUME NEW o \in Ops, Install(o) \/ Find(o) \/ Delete(o)
        PROVE  LocksHeld'
    BY <1>1, WriterMoves DEF WriterMove, Shared
  <1>2. ASSUME NEW o \in Ops, Begin(o) \/ Lock(o)
        PROVE  LocksHeld'
    BY <1>2 DEF Begin, Lock, Give, Shared
  <1>3. ASSUME NEW o \in Ops, CountLeases(o) \/ Exclusive(o)
        PROVE  LocksHeld'
    <2>1. CASE Give(o, "exclusive", "unlock") \/ Give(o, "leases", "unlock")
      BY <2>1 DEF Give, Shared
    <2>2. CASE Step(o, "exclusive", "leases")
      BY <2>2 DEF Step, Shared
    <2>3. CASE Shared = {} /\ TakeLeaseLock(o)
      BY <2>3 DEF TakeLeaseLock, Entered, Shared
    <2>4. QED
      BY <1>3, <2>1, <2>2, <2>3 DEF CountLeases, Exclusive
  <1>4. ASSUME NEW o \in Ops, Unlease(o) \/ Unlock(o) \/ Stop(o)
        PROVE  LocksHeld'
    BY <1>4 DEF Unlease, Unlock, Stop, Shared
  <1>5. ASSUME NEW l \in Leases, LeaseLock(l)
        PROVE  LocksHeld'
    BY <1>5 DEF LeaseLock, MoveLease, Shared
  <1>6. ASSUME NEW l \in Leases, LeaseDrop(l) \/ ContinueLease(l)
        PROVE  LocksHeld'
    <2>1. Shared' \subseteq Shared
      BY <1>6 DEF ContinueLease, LeaseDrop, LeaseCount, LeaseVerify, LeaseUnlock,
                  LeaseUncount, MoveLease, Shared
    <2>2. UNCHANGED <<pc, lock, exclusive>>
      BY <1>6 DEF ContinueLease, LeaseDrop, LeaseCount, LeaseVerify, LeaseUnlock,
                  LeaseUncount, MoveLease
    <2>3. QED
      BY <2>1, <2>2
  <1>7. ASSUME NEW op \in late, LateEffect(op)
        PROVE  LocksHeld'
    BY <1>7 DEF LateEffect, Shared
  <1>8. CASE Crash
    BY <1>8 DEF Crash, Shared
  <1>9. CASE UNCHANGED vars
    BY <1>9 DEF vars, Shared
  <1>10. QED
    BY <1>1, <1>2, <1>3, <1>4, <1>5, <1>6, <1>7, <1>8, <1>9 DEF Next, Continue

\* Initially nothing is locked and nothing is leased.
LEMMA InitInv == Init => StoreInv
  <1> SUFFICES ASSUME Init
               PROVE  StoreInv
    OBVIOUS
  <1>1. Counted = {} /\ Shared = {}
    BY DEF Init, Counted, Shared
  <1>2. count = Cardinality(Counted) /\ count \in 0..Cardinality(Leases)
    BY <1>1, StoreAssumption, FS_EmptySet, FS_CardinalityType DEF Init
  <1>3. TypeOK
    <2>1. overtaken \in BOOLEAN
      BY Zenon DEF Init
    <2>2. QED
      BY <1>2, <2>1, StoreAssumption DEF Init, TypeOK, PCs
  <1>4. LocksHeld
    BY <1>1, StoreAssumption DEF Init, LocksHeld, Writing, PCs
  <1>5. QED
    BY <1>2, <1>3, <1>4 DEF StoreInv, CountsLeases

\* The invariant holds in every reachable state of every instance.
THEOREM StoreSafe == Spec => []StoreInv
  <1>1. StoreInv /\ [Next]_vars => StoreInv'
    <2> SUFFICES ASSUME StoreInv, [Next]_vars
                 PROVE  StoreInv'
      OBVIOUS
    <2>1. CountsLeases'
      BY CountStep DEF StoreInv
    <2>2. TypeOK'
      BY <2>1, TypeStep DEF StoreInv
    <2>3. LocksHeld'
      BY LocksStep DEF StoreInv
    <2>4. QED
      BY <2>1, <2>2, <2>3 DEF StoreInv
  <1>2. QED
    BY InitInv, <1>1, PTL DEF Spec

\* The types hold, the range of the count of leases included.
THEOREM StoreTyped == Spec => []TypeOK
  <1>1. StoreInv => TypeOK
    BY DEF StoreInv
  <1>2. QED
    BY <1>1, StoreSafe, PTL

\* An operation that changes directories excludes the others and the leases,
\* whatever fails, stops, crashes or is abandoned.
THEOREM WriterExcludes == Spec => []OneWriter
  <1>1. StoreInv => OneWriter
    BY StoreAssumption DEF StoreInv, TypeOK, LocksHeld, OneWriter, Writing
  <1>2. QED
    BY <1>1, StoreSafe, PTL

------------------------------------------------------------------------------
\* A granted lease refers to a verified bundle until it is dropped, or until a
\* file operation that was abandoned takes effect.
THEOREM LeaseHolds == Spec => []LeasedIsGood
  <1>1. Init => LeasedIsGood
    BY DEF Init, LeasedIsGood
  <1>2. LeasedIsGood /\ StoreInv /\ [Next]_vars => LeasedIsGood'
    <2> SUFFICES ASSUME LeasedIsGood, StoreInv, [Next]_vars
                 PROVE  LeasedIsGood'
      OBVIOUS
    <2> USE DEF StoreInv, TypeOK, LeasedIsGood, Go, ops, leases, locks, abandoned
    <2>1. ASSUME NEW o \in Ops, Install(o) \/ Find(o) \/ Delete(o)
          PROVE  LeasedIsGood'
      <3>1. pc[o] \in Writing /\ lease' = lease
        BY <2>1, WriterMoves DEF WriterMove
      <3>2. \A l \in Leases : lease'[l] # "held"
        BY <3>1, StoreAssumption DEF LocksHeld, Shared
      <3>3. QED
        BY <3>2
    <2>2. ASSUME NEW o \in Ops,
                 \/ Begin(o) \/ Lock(o) \/ CountLeases(o) \/ Exclusive(o)
               \/ Unlease(o) \/ Unlock(o) \/ Stop(o)
          PROVE  LeasedIsGood'
      BY <2>2 DEF Begin, Lock, Give, CountLeases, Step, TakeLeaseLock, Exclusive, Unlease, Unlock,
                  Stop
    <2>3. ASSUME NEW l \in Leases, LeaseLock(l) \/ LeaseDrop(l) \/ ContinueLease(l)
          PROVE  LeasedIsGood'
      BY <2>3 DEF LeaseLock, LeaseDrop, ContinueLease, LeaseCount, LeaseVerify,
                  LeaseUnlock, LeaseUncount, MoveLease
    <2>4. ASSUME NEW op \in late, LateEffect(op)
          PROVE  LeasedIsGood'
      BY <2>4 DEF LateEffect
    <2>5. CASE Crash
      BY <2>5 DEF Crash
    <2>6. CASE UNCHANGED vars
      BY <2>6 DEF vars
    <2>7. QED
      BY <2>1, <2>2, <2>3, <2>4, <2>5, <2>6 DEF Next, Continue
  <1>3. QED
    BY <1>1, <1>2, StoreSafe, PTL DEF Spec

------------------------------------------------------------------------------
\* What the file operations do, each where it succeeds.
LEMMA RenameEffect ==
  ASSUME dir \in [Dirs -> Contents], NEW a \in Dirs, NEW b \in Dirs,
         NEW e \in Effects(Rename(a, b))
  PROVE  /\ dir[a] # None /\ dir[b] = None /\ a # b
         /\ e = [dir EXCEPT ![a] = None, ![b] = dir[a]]
  BY DEF Effects, Rename

\* A removal leaves a part of the directory, which is never whole and marked, and
\* nobody else's.
LEMMA RemoveEffect ==
  ASSUME dir \in [Dirs -> Contents], NEW d \in Dirs, NEW e \in Effects(Remove(d))
  PROVE  /\ dir[d] # None
         /\ \E c \in Contents \ {"good", "foreign"} : e = [dir EXCEPT ![d] = c]
  BY DEF Effects, Remove, Removed, Contents, None

\* A new staging directory is empty.
LEMMA CreateEffect ==
  ASSUME NEW e \in Effects(Create("staging"))
  PROVE  dir["staging"] = None /\ e = [dir EXCEPT !["staging"] = "junk"]
  BY DEF Effects, Create

------------------------------------------------------------------------------
\* The paths where somebody else's directory is.
ForeignOf(directories) == {d \in Dirs : directories[d] = "foreign"}
Foreign == ForeignOf(dir)

\* From the inspection of what is to be replaced until it is moved away.
Preparing == {"prepare", "clear", "create", "fetch", "mark", "old", "drop", "quarantine"}

\* The paths whose directory o may be about to move or remove.
Touched(o) ==
    {"staging"}
      \cup {d \in {"final"} : \/ pc[o] \in {"check", "undo", "delete"}
                              \/ pc[o] \in Preparing /\ o \in replacing}
      \cup {d \in {"quarantine"} : pc[o] \in {"drop", "quarantine", "promote", "restore",
                                              "check", "undo", "settle"}}

\* None of them is somebody else's, nor is one that an abandoned operation touches.
TouchesOwn ==
    /\ \A o \in Ops : Touched(o) \cap Foreign = {}
    /\ \A op \in late : op[2] \notin Foreign

\* A file operation that does not touch somebody else's directory moves none there
\* and takes none away.
LEMMA EffectsForeign ==
  ASSUME dir \in [Dirs -> Contents], NEW op \in FileOps, op[2] \notin Foreign,
         NEW e \in Effects(op)
  PROVE  ForeignOf(e) = Foreign
  <1> USE DEF Foreign, ForeignOf
  <1>1. ASSUME NEW a \in Dirs, NEW b \in Dirs, op = Rename(a, b)
        PROVE  ForeignOf(e) = Foreign
    <2>1. dir[b] = None /\ a # b /\ e = [dir EXCEPT ![a] = None, ![b] = dir[a]]
      BY <1>1, RenameEffect
    <2>2. dir[a] # "foreign"
      BY <1>1 DEF Rename
    <2>3. QED
      BY <2>1, <2>2 DEF None
  <1>2. ASSUME NEW d \in Dirs, op = Remove(d)
        PROVE  ForeignOf(e) = Foreign
    <2>1. PICK c \in Contents \ {"good", "foreign"} : e = [dir EXCEPT ![d] = c]
      BY <1>2, RemoveEffect
    <2>2. dir[d] # "foreign"
      BY <1>2 DEF Remove
    <2>3. QED
      BY <2>1, <2>2
  <1>3. CASE op = Create("staging")
    BY <1>3, CreateEffect DEF None
  <1>4. QED
    BY <1>1, <1>2, <1>3 DEF FileOps

\* What the steps of an operation do to somebody else's directories: nothing, nor do
\* the file operations that they abandon.
OwnFiles(o) ==
    /\ Foreign' = Foreign
    /\ \A op \in late' : op \in late \/ op[2] \in Touched(o)

\* A file operation on a path of o's own is such a step, whether it succeeds or not.
LEMMA IoOwn ==
  ASSUME TypeOK, TouchesOwn, NEW o \in Ops, NEW op \in FileOps, op[2] \in Touched(o),
         IoDone(o, op) \/ IoFailed(o, op)
  PROVE  OwnFiles(o)
  <1>1. op[2] \notin Foreign
    BY DEF TouchesOwn
  <1>2. \A e \in Effects(op) : ForeignOf(e) = Foreign
    BY <1>1, EffectsForeign DEF TypeOK
  <1>3. Foreign' = ForeignOf(dir')
    BY DEF Foreign, ForeignOf
  <1>4. QED
    BY <1>2, <1>3 DEF IoDone, IoFailed, OwnFiles, abandoned, Foreign

\* So is a rename that is tried.
LEMMA TryRenameOwn ==
  ASSUME TypeOK, TouchesOwn, NEW o \in Ops, NEW a \in Dirs, NEW b \in Dirs,
         a \in Touched(o), TryRename(a, b)
  PROVE  OwnFiles(o)
  <1>1. Rename(a, b) \in FileOps /\ Rename(a, b)[2] = a
    BY RenameIsOp DEF Rename
  <1>2. a \notin Foreign
    BY DEF TouchesOwn
  <1>3. \A e \in Effects(Rename(a, b)) : ForeignOf(e) = Foreign
    BY <1>1, <1>2, EffectsForeign DEF TypeOK
  <1>4. Foreign' = ForeignOf(dir')
    BY DEF Foreign, ForeignOf
  <1>5. QED
    BY <1>3, <1>4 DEF TryRename, OwnFiles, abandoned, Foreign

\* Every step of install, import and delete between the locks is one.
LEMMA WriterOwn ==
  ASSUME TypeOK, TouchesOwn, NEW o \in Ops, Install(o) \/ Find(o) \/ Delete(o)
  PROVE  OwnFiles(o)
  <1>0. "final" \in Dirs /\ "staging" \in Dirs /\ "quarantine" \in Dirs
    BY DEF Dirs
  <1>a. \A d \in Dirs : Remove(d) \in FileOps /\ Remove(d)[2] = d
    BY DEF FileOps, Remove
  <1>b. \A a, b \in Dirs : Rename(a, b) \in FileOps /\ Rename(a, b)[2] = a
    BY DEF FileOps, Rename
  <1>c. Create("staging") \in FileOps /\ Create("staging")[2] = "staging"
    BY DEF FileOps, Create
  <1>s. "staging" \in Touched(o)
    BY DEF Touched
  <1>u. ASSUME UNCHANGED <<dir, late>>
        PROVE  OwnFiles(o)
    BY <1>u DEF OwnFiles, Foreign, ForeignOf
  <1>1. CASE Verify(o) \/ Failed(o) \/ Inspect(o) \/ Prepare(o) \/ Old(o) \/ Check(o) \/ Find(o)
    BY <1>1, <1>u DEF Verify, Failed, Inspect, Prepare, Old, Check, Find, Step, Finish, abandoned
  <1>2. CASE Clear(o) \/ CreateStaging(o) \/ Promote(o)
    BY <1>0, <1>2, <1>a, <1>b, <1>c, <1>s, IoOwn DEF Clear, CreateStaging, Promote, RemoveAll, Io
  <1>3. CASE Fetch(o) \/ Mark(o)
    <2>1. CASE UNCHANGED <<dir, late>>
      BY <2>1, <1>u
    <2>2. CASE \E c \in {"whole", "good"} : dir' = [dir EXCEPT !["staging"] = c] /\ late' = late
      <3>1. dir["staging"] # "foreign"
        BY <1>0, <1>s DEF TouchesOwn, Foreign, ForeignOf
      <3>2. QED
        BY <2>2, <3>1 DEF OwnFiles, Foreign, ForeignOf, TypeOK
    <2>3. QED
      BY <1>3, <2>1, <2>2 DEF Fetch, Mark, Step, abandoned
  <1>4. CASE DropOld(o)
    <2>1. "quarantine" \in Touched(o)
      BY <1>4 DEF DropOld, RemoveAll, Go, Touched
    <2>2. QED
      BY <1>0, <1>4, <1>a, <2>1, IoOwn DEF DropOld, RemoveAll
  <1>5. CASE Quarantine(o)
    <2>1. CASE Step(o, "quarantine", "promote")
      BY <2>1, <1>u DEF Step, abandoned
    <2>2. CASE /\ o \in replacing
               /\ Io(o, Rename("final", "quarantine"), "quarantine", "promote", "cleanup")
      <3>1. "final" \in Touched(o)
        BY <2>2 DEF Io, Go, Touched, Preparing
      <3>2. QED
        BY <1>0, <1>b, <2>2, <3>1, IoOwn DEF Io
    <2>3. QED
      BY <1>5, <2>1, <2>2 DEF Quarantine
  <1>6. CASE Restore(o)
    <2>1. CASE Step(o, "restore", "cleanup")
      BY <2>1, <1>u DEF Step, abandoned
    <2>2. CASE Go(o, "restore", "cleanup") /\ TryRename("quarantine", "final")
      <3>1. "quarantine" \in Touched(o)
        BY <2>2 DEF Go, Touched
      <3>2. QED
        BY <1>0, <2>2, <3>1, TryRenameOwn
    <2>3. QED
      BY <1>6, <2>1, <2>2 DEF Restore
  <1>7. CASE Undo(o)
    <2>1. "final" \in Touched(o)
      BY <1>7 DEF Undo, Go, Touched
    <2>2. QED
      BY <1>0, <1>7, <2>1, TryRenameOwn DEF Undo
  <1>8. CASE Settle(o)
    <2>1. CASE RemoveAll(o, "quarantine", "settle", "settle", "cleanup")
      <3>1. "quarantine" \in Touched(o)
        BY <2>1 DEF RemoveAll, Go, Touched
      <3>2. QED
        BY <1>0, <1>a, <2>1, <3>1, IoOwn DEF RemoveAll
    <2>2. CASE Step(o, "settle", "cleanup") \/ Finish(o, "settle", "ok")
      BY <2>2, <1>u DEF Step, Finish, abandoned
    <2>3. QED
      BY <1>8, <2>1, <2>2 DEF Settle
  <1>9. CASE Cleanup(o)
    BY <1>0, <1>9, <1>a, <1>s, <1>u, IoOwn DEF Cleanup, RemoveAll, Finish, abandoned
  <1>10. CASE Delete(o)
    <2>1. CASE RemoveAll(o, "final", "delete", "delete", "failed")
      <3>1. "final" \in Touched(o)
        BY <2>1 DEF RemoveAll, Go, Touched
      <3>2. QED
        BY <1>0, <1>a, <2>1, <3>1, IoOwn DEF RemoveAll
    <2>2. QED
      BY <1>10, <2>1, <1>u DEF Delete, Finish, abandoned
  <1>11. QED
    BY <1>1, <1>2, <1>3, <1>4, <1>5, <1>6, <1>7, <1>8, <1>9, <1>10 DEF Install

\* Wherever an operation goes, it has seen that what it may move or remove from there
\* on is not somebody else's.
LEMMA WriterTouches ==
  ASSUME TypeOK, TouchesOwn, NEW o \in Ops, Install(o) \/ Find(o) \/ Delete(o)
  PROVE  Touched(o)' \cap Foreign' = {}
  <1>0. Foreign' = Foreign /\ Touched(o) \cap Foreign = {}
    BY WriterOwn DEF OwnFiles, TouchesOwn
  <1>k. ASSUME Touched(o)' \subseteq Touched(o)
        PROVE  Touched(o)' \cap Foreign' = {}
    BY <1>0, <1>k
  <1> USE DEF Touched, Preparing, Go, TypeOK
  <1>1. CASE Verify(o) \/ Failed(o) \/ Prepare(o) \/ Fetch(o) \/ Mark(o)
    BY <1>1, <1>k DEF Verify, Failed, Prepare, Fetch, Mark, Step, Finish
  <1>2. CASE Clear(o) \/ CreateStaging(o) \/ DropOld(o) \/ Quarantine(o)
    BY <1>2, <1>k DEF Clear, CreateStaging, DropOld, Quarantine, RemoveAll, Io, Step
  <1>3. CASE Inspect(o)
    <2>1. CASE Finish(o, "inspect", "err")
      BY <2>1, <1>k DEF Finish
    <2>2. CASE dir["final"] \in Owned /\ replacing' = replacing \cup {o} /\ Go(o, "inspect", "prepare")
      <3>1. "final" \notin Foreign
        BY <2>2 DEF Foreign, ForeignOf, Owned
      <3>2. Touched(o)' \subseteq Touched(o) \cup {"final"}
        BY <2>2
      <3>3. QED
        BY <1>0, <3>1, <3>2
    <2>3. CASE dir["final"] = None /\ replacing' = replacing /\ Go(o, "inspect", "prepare")
      <3>1. "final" \notin Foreign
        BY <2>3 DEF Foreign, ForeignOf, None
      <3>2. Touched(o)' \subseteq Touched(o) \cup {"final"}
        BY <2>3
      <3>3. QED
        BY <1>0, <3>1, <3>2
    <2>4. QED
      BY <1>3, <2>1, <2>2, <2>3 DEF Inspect, None, Owned
  <1>4. CASE Old(o)
    <2>1. CASE Step(o, "old", "cleanup")
      BY <2>1, <1>k DEF Step
    <2>2. CASE /\ dir["quarantine"] \in Owned \cup {None}
               /\ Step(o, "old", IF dir["quarantine"] = None THEN "quarantine" ELSE "drop")
      <3>1. "quarantine" \notin Foreign
        BY <2>2 DEF Foreign, ForeignOf, Owned, None
      <3>2. Touched(o)' \subseteq Touched(o) \cup {"quarantine"}
        BY <2>2 DEF Step
      <3>3. QED
        BY <1>0, <3>1, <3>2
    <2>3. QED
      BY <1>4, <2>1, <2>2 DEF Old
  <1>5. CASE Promote(o)
    <2>1. CASE IoDone(o, Rename("staging", "final")) /\ Go(o, "promote", "check") /\ UNCHANGED replacing
      <3>1. dir["final"] = None
        BY <2>1, RenameEffect DEF IoDone, Dirs
      <3>2. "final" \notin Foreign
        BY <3>1 DEF Foreign, ForeignOf, None
      <3>3. Touched(o)' \subseteq Touched(o) \cup {"final"}
        BY <2>1
      <3>4. QED
        BY <1>0, <3>2, <3>3
    <2>2. CASE Go(o, "promote", "restore") /\ UNCHANGED replacing
      BY <2>2, <1>k
    <2>3. QED
      BY <1>5, <2>1, <2>2 DEF Promote, Io
  <1>6. CASE Restore(o) \/ Check(o) \/ Undo(o)
    BY <1>6, <1>k DEF Restore, Check, Undo, TryRename, Step
  <1>7. CASE Settle(o) \/ Cleanup(o)
    BY <1>7, <1>k DEF Settle, Cleanup, RemoveAll, Step, Finish
  <1>8. CASE Find(o)
    <2>1. CASE Finish(o, "find", "ok") \/ Finish(o, "find", "err")
      BY <2>1, <1>k DEF Finish
    <2>2. CASE dir["final"] \in Owned /\ Step(o, "find", "delete")
      <3>1. "final" \notin Foreign
        BY <2>2 DEF Foreign, ForeignOf, Owned
      <3>2. Touched(o)' \subseteq Touched(o) \cup {"final"}
        BY <2>2 DEF Step
      <3>3. QED
        BY <1>0, <3>1, <3>2
    <2>3. QED
      BY <1>8, <2>1, <2>2 DEF Find
  <1>9. CASE Delete(o)
    BY <1>9, <1>k DEF Delete, RemoveAll, Finish
  <1>10. QED
    BY <1>1, <1>2, <1>3, <1>4, <1>5, <1>6, <1>7, <1>8, <1>9 DEF Install

\* The steps that change no directory, abandon nothing, and leave every operation
\* where it touches no more than before.
LEMMA TouchesKept ==
  ASSUME TouchesOwn, Foreign' = Foreign, late' \subseteq late,
         \A o \in Ops : Touched(o)' \subseteq Touched(o)
  PROVE  TouchesOwn'
  BY DEF TouchesOwn

\* No step moves or removes somebody else's directory, or makes one its own.
LEMMA ForeignStep ==
  ASSUME TypeOK, LocksHeld, TouchesOwn, [Next]_vars
  PROVE  TouchesOwn' /\ Foreign' = Foreign
  <1>k. ASSUME UNCHANGED dir, late' \subseteq late,
               \A o \in Ops : Touched(o)' \subseteq Touched(o)
        PROVE  TouchesOwn' /\ Foreign' = Foreign
    <2>1. Foreign' = Foreign
      BY <1>k DEF Foreign, ForeignOf
    <2>2. QED
      BY <1>k, <2>1, TouchesKept
  <1>1. ASSUME NEW o \in Ops, Install(o) \/ Find(o) \/ Delete(o)
        PROVE  TouchesOwn' /\ Foreign' = Foreign
    <2>1. OwnFiles(o) /\ WriterMove(o) /\ Touched(o)' \cap Foreign' = {}
      BY <1>1, WriterOwn, WriterMoves, WriterTouches
    <2>2. ASSUME NEW p \in Ops, p # o
          PROVE  Touched(p)' = {"staging"}
      <3>1. pc'[p] = pc[p] /\ pc[p] \notin Writing
        BY <2>1, <2>2 DEF WriterMove, TypeOK, LocksHeld
      <3>2. QED
        BY <3>1, WritingPlaces DEF Touched, Preparing
    <2>3. "staging" \notin Foreign
      BY DEF TouchesOwn, Touched
    <2>4. \A op \in late' : op[2] \notin Foreign
      BY <2>1 DEF OwnFiles, TouchesOwn
    <2>5. QED
      BY <2>1, <2>2, <2>3, <2>4 DEF TouchesOwn, OwnFiles
  <1> USE DEF Touched, Preparing, TypeOK, Go, ops, leases, locks, abandoned
  <1>2. ASSUME NEW o \in Ops,
               \/ Begin(o) \/ Lock(o) \/ CountLeases(o) \/ Exclusive(o)
               \/ Unlease(o) \/ Unlock(o) \/ Stop(o)
        PROVE  TouchesOwn' /\ Foreign' = Foreign
    BY <1>2, <1>k DEF Begin, Lock, Give, CountLeases, Step, TakeLeaseLock, Exclusive, Entered,
                      Unlease, Unlock, Stop
  <1>3. ASSUME NEW l \in Leases, LeaseLock(l) \/ LeaseDrop(l) \/ ContinueLease(l)
        PROVE  TouchesOwn' /\ Foreign' = Foreign
    BY <1>3, <1>k DEF LeaseLock, LeaseDrop, ContinueLease, LeaseCount, LeaseVerify,
                      LeaseUnlock, LeaseUncount, MoveLease
  <1>4. ASSUME NEW op \in late, LateEffect(op)
        PROVE  TouchesOwn' /\ Foreign' = Foreign
    <2>1. op \in FileOps /\ op[2] \notin Foreign
      BY DEF TouchesOwn
    <2>2. \A e \in Effects(op) : ForeignOf(e) = Foreign
      BY <2>1, EffectsForeign
    <2>3. Foreign' = Foreign
      BY <1>4, <2>2 DEF LateEffect, Foreign, ForeignOf
    <2>4. late' \subseteq late /\ \A o \in Ops : Touched(o)' = Touched(o)
      BY <1>4 DEF LateEffect
    <2>5. QED
      BY <2>3, <2>4, TouchesKept
  <1>5. CASE Crash
    BY <1>5, <1>k DEF Crash
  <1>6. CASE UNCHANGED vars
    BY <1>6, <1>k DEF vars
  <1>7. QED
    BY <1>1, <1>2, <1>3, <1>4, <1>5, <1>6 DEF Next, Continue

\* No operation is about to touch somebody else's directory, nor is one of its
\* file operations that were abandoned.
LEMMA TouchesOwnAlways == Spec => []TouchesOwn
  <1>1. Init => TouchesOwn
    BY DEF Init, TouchesOwn, Touched, Preparing, Foreign, ForeignOf, None
  <1>2. TouchesOwn /\ StoreInv /\ [Next]_vars => TouchesOwn'
    BY ForeignStep DEF StoreInv
  <1>3. QED
    BY <1>1, <1>2, StoreSafe, PTL DEF Spec

\* "Unrelated data is never claimed or deleted": a directory of somebody else stays
\* where it is, through every failure, crash and abandoned file operation.
THEOREM ForeignKept == Spec => ForeignIsKept
  <1>1. TouchesOwn /\ StoreInv /\ [Next]_vars =>
          [\A d \in {"final", "quarantine"} : dir[d] = "foreign" => dir'[d] = "foreign"]_vars
    <2> SUFFICES ASSUME TouchesOwn, StoreInv, [Next]_vars, NEW d \in {"final", "quarantine"},
                        dir[d] = "foreign"
                 PROVE  dir'[d] = "foreign"
      OBVIOUS
    <2>1. Foreign' = Foreign
      BY ForeignStep DEF StoreInv
    <2>2. QED
      BY <2>1 DEF Foreign, ForeignOf, Dirs
  <1>2. QED
    BY <1>1, TouchesOwnAlways, StoreSafe, PTL DEF Spec, ForeignIsKept

------------------------------------------------------------------------------
\* The places of an installation.
Installing ==
    Preparing \cup {"verify", "inspect", "promote", "restore", "check", "undo",
                    "settle", "cleanup"}

\* Every operation has a task, is where it takes it, and has found nothing to replace
\* before it looked.
Tasks ==
    \A o \in Ops : /\ pc[o] \in {"lock", "exclusive", "leases"} => task[o] \in {"install", "delete"}
                   /\ pc[o] \in Installing => task[o] = "install"
                   /\ pc[o] \in {"find", "delete"} => task[o] = "delete"
                   /\ pc[o] \in {"idle", "lock", "exclusive", "leases", "verify", "inspect"} =>
                        o \notin replacing

\* What o relies on at its place: the staging directory that it made is complete, the
\* bundle that it replaces is still there, then in the quarantine, and what it
\* reports is so.
Expected(o) ==
    /\ pc[o] \in {"old", "drop", "quarantine", "promote"} => dir["staging"] = "good"
    /\ o \in replacing /\ pc[o] \in Preparing => dir["final"] \in Owned
    /\ o \in replacing /\ pc[o] \in {"promote", "restore", "check", "undo"} =>
         dir["quarantine"] \in Owned
    /\ pc[o] = "settle" => dir["final"] = "good"
    /\ pc[o] = "unlease" /\ result[o] = "ok" =>
         dir["final"] = IF task[o] = "install" THEN "good" ELSE None

\* Only a file operation that was abandoned may make it otherwise.
InPlace == overtaken \/ \A o \in Ops : Expected(o)

\* An operation that holds no lock relies on nothing.
LEMMA OthersExpect ==
  ASSUME NEW o \in Ops, pc[o] \notin Writing
  PROVE  Expected(o)
  BY WritingPlaces DEF Expected, Preparing

\* What a file operation on d does to the other paths: nothing.
LEMMA RemoveElsewhere ==
  ASSUME TypeOK, NEW o \in Ops, NEW d \in Dirs, IoDone(o, Remove(d)) \/ IoFailed(o, Remove(d))
  PROVE  /\ \A x \in Dirs \ {d} : dir'[x] = dir[x]
         /\ overtaken' = overtaken
  <1>1. \A e \in Effects(Remove(d)) : \A x \in Dirs \ {d} : e[x] = dir[x]
    BY RemoveEffect DEF TypeOK
  <1>2. QED
    BY <1>1 DEF IoDone, IoFailed, abandoned

\* What a rename does, when it fails the place may change as well.
LEMMA RenameElsewhere ==
  ASSUME TypeOK, NEW o \in Ops, NEW a \in Dirs, NEW b \in Dirs,
         IoDone(o, Rename(a, b)) \/ IoFailed(o, Rename(a, b))
  PROVE  /\ \A x \in Dirs \ {a, b} : dir'[x] = dir[x]
         /\ overtaken' = overtaken
         /\ IoDone(o, Rename(a, b)) => /\ dir[a] # None /\ dir[b] = None
                                       /\ dir'[a] = None /\ dir'[b] = dir[a]
  <1>1. \A e \in Effects(Rename(a, b)) :
           /\ dir[a] # None /\ dir[b] = None
           /\ \A x \in Dirs \ {a, b} : e[x] = dir[x]
           /\ e[a] = None /\ e[b] = dir[a]
    BY RenameEffect DEF TypeOK
  <1>2. QED
    BY <1>1 DEF IoDone, IoFailed, abandoned

\* Every step of an operation between the locks leaves it with what it relies on.
LEMMA WriterExpects ==
  ASSUME TypeOK, NEW o \in Ops, Tasks, Expected(o), Install(o) \/ Find(o) \/ Delete(o)
  PROVE  Expected(o)' /\ overtaken' = overtaken
  <1>0. "final" \in Dirs /\ "staging" \in Dirs /\ "quarantine" \in Dirs
    BY DEF Dirs
  <1> USE DEF Expected, Preparing, Go, TypeOK, abandoned, Owned, None
  <1>1. CASE Verify(o)
    BY <1>1 DEF Verify, Step, Finish, Tasks, Installing
  <1>2. CASE Inspect(o)
    <2>1. CASE Finish(o, "inspect", "err")
      BY <2>1 DEF Finish
    <2>2. CASE /\ dir["final"] \in Owned \cup {None}
               /\ replacing' = IF dir["final"] = None THEN replacing ELSE replacing \cup {o}
               /\ Go(o, "inspect", "prepare")
               /\ UNCHANGED <<dir, abandoned>>
      BY <2>2 DEF Tasks
    <2>3. QED
      BY <1>2, <2>1, <2>2 DEF Inspect
  <1>2a. CASE Prepare(o) \/ Failed(o)
    BY <1>2a DEF Prepare, Failed, Step, Finish
  <1>3. CASE Clear(o)
    BY <1>0, <1>3, RemoveElsewhere DEF Clear, RemoveAll
  <1>4. CASE CreateStaging(o)
    <2>1. \A e \in Effects(Create("staging")) : e["final"] = dir["final"]
      BY <1>0, CreateEffect
    <2>2. QED
      BY <1>4, <2>1 DEF CreateStaging, Io, IoDone, IoFailed
  <1>5. CASE Fetch(o) \/ Mark(o)
    BY <1>0, <1>5 DEF Fetch, Mark, Step
  <1>6. CASE Old(o)
    BY <1>6 DEF Old, Step
  <1>7. CASE DropOld(o)
    BY <1>0, <1>7, RemoveElsewhere DEF DropOld, RemoveAll
  <1>8. CASE Quarantine(o)
    <2>1. CASE Step(o, "quarantine", "promote") /\ o \notin replacing
      BY <2>1 DEF Step
    <2>2. CASE Io(o, Rename("final", "quarantine"), "quarantine", "promote", "cleanup")
      BY <1>0, <2>2, RenameElsewhere DEF Io
    <2>3. QED
      BY <1>8, <2>1, <2>2 DEF Quarantine
  <1>9. CASE Promote(o)
    BY <1>0, <1>9, RenameElsewhere DEF Promote, Io
  <1>10. CASE Restore(o) \/ Check(o)
    BY <1>10 DEF Restore, Check, TryRename, Step
  <1>11. CASE Undo(o)
    <2>1. \A e \in Effects(Rename("final", "staging")) : e["quarantine"] = dir["quarantine"]
      BY <1>0, RenameEffect
    <2>2. QED
      BY <1>11, <2>1 DEF Undo, TryRename
  <1>12. CASE Settle(o)
    <2>1. CASE RemoveAll(o, "quarantine", "settle", "settle", "cleanup")
      BY <1>0, <2>1, RemoveElsewhere DEF RemoveAll
    <2>2. CASE Step(o, "settle", "cleanup") \/ Finish(o, "settle", "ok")
      BY <2>2 DEF Step, Finish, Tasks, Installing
    <2>3. QED
      BY <1>12, <2>1, <2>2 DEF Settle
  <1>13. CASE Cleanup(o)
    <2>1. CASE RemoveAll(o, "staging", "cleanup", "failed", "failed")
      BY <1>0, <2>1, RemoveElsewhere DEF RemoveAll
    <2>2. CASE Finish(o, "cleanup", "err")
      BY <2>2 DEF Finish
    <2>3. QED
      BY <1>13, <2>1, <2>2 DEF Cleanup
  <1>14. CASE Find(o)
    BY <1>14 DEF Find, Step, Finish, Tasks
  <1>15. CASE Delete(o)
    <2>1. CASE RemoveAll(o, "final", "delete", "delete", "failed")
      BY <1>0, <2>1, RemoveElsewhere DEF RemoveAll
    <2>2. CASE dir["final"] = None /\ Finish(o, "delete", "ok")
      BY <2>2 DEF Finish, Tasks
    <2>3. QED
      BY <1>15, <2>1, <2>2 DEF Delete
  <1>16. QED
    BY <1>1, <1>2, <1>2a, <1>3, <1>4, <1>5, <1>6, <1>7, <1>8, <1>9, <1>10, <1>11, <1>12,
       <1>13, <1>14, <1>15 DEF Install

\* Where a step takes an operation follows from its task.
LEMMA TasksStep ==
  ASSUME TypeOK, Tasks, [Next]_vars
  PROVE  Tasks'
  <1> USE DEF Tasks, Installing, Preparing, TypeOK, Go
  <1>1. ASSUME NEW o \in Ops, Install(o)
        PROVE  Tasks'
    BY <1>1 DEF Install, Verify, Inspect, Prepare, Clear, CreateStaging, Failed, Fetch, Mark,
                Old, DropOld, Quarantine, Promote, Restore, Check, Undo, Settle, Cleanup,
                Step, Finish, Io, RemoveAll, TryRename
  <1>2. ASSUME NEW o \in Ops, Find(o) \/ Delete(o)
        PROVE  Tasks'
    BY <1>2 DEF Find, Delete, Step, Finish, RemoveAll
  <1>3. ASSUME NEW o \in Ops,
               \/ Begin(o) \/ Lock(o) \/ CountLeases(o) \/ Exclusive(o)
               \/ Unlease(o) \/ Unlock(o) \/ Stop(o)
        PROVE  Tasks'
    BY <1>3 DEF Begin, Lock, Give, CountLeases, Step, TakeLeaseLock, Exclusive, Entered, Unlease,
                Unlock, Stop, ops, None
  <1>4. ASSUME NEW l \in Leases, LeaseLock(l) \/ LeaseDrop(l) \/ ContinueLease(l)
        PROVE  Tasks'
    BY <1>4 DEF LeaseLock, LeaseDrop, ContinueLease, LeaseCount, LeaseVerify,
                LeaseUnlock, LeaseUncount, MoveLease, ops
  <1>5. CASE Crash \/ UNCHANGED vars \/ \E op \in late : LateEffect(op)
    BY <1>5 DEF Crash, vars, LateEffect, ops
  <1>6. QED
    BY <1>1, <1>2, <1>3, <1>4, <1>5 DEF Next, Continue

\* Every step keeps what the operations rely on in its place, unless an abandoned file
\* operation changes a directory.
LEMMA InPlaceStep ==
  ASSUME TypeOK, LocksHeld, Tasks, InPlace, [Next]_vars
  PROVE  InPlace'
  <1>0. \A o \in Ops : pc'[o] \notin Writing => Expected(o)'
    BY WritingPlaces DEF Expected, Preparing
  <1>1. ASSUME NEW o \in Ops, Install(o) \/ Find(o) \/ Delete(o)
        PROVE  InPlace'
    <2>1. WriterMove(o)
      BY <1>1, WriterMoves
    <2>2. ASSUME NEW p \in Ops, p # o
          PROVE  Expected(p)'
      <3>1. pc'[p] = pc[p] /\ pc[p] \notin Writing
        BY <2>1, <2>2 DEF WriterMove, TypeOK, LocksHeld
      <3>2. QED
        BY <1>0, <3>1
    <2>3. CASE overtaken
      <3>1. overtaken'
        BY <1>1, <2>3 DEF Install, Verify, Inspect, Prepare, Clear, CreateStaging, Failed, Fetch,
             Mark, Old, DropOld, Quarantine, Promote, Restore, Check, Undo, Settle, Cleanup,
             Step, Finish, Io, RemoveAll, TryRename, IoDone, IoFailed, abandoned, Find, Delete
      <3>2. QED
        BY <3>1 DEF InPlace
    <2>4. CASE Expected(o)
      <3>1. Expected(o)'
        BY <1>1, <2>4, WriterExpects
      <3>2. QED
        BY <2>2, <3>1 DEF InPlace
    <2>5. QED
      BY <2>3, <2>4 DEF InPlace
  <1>2. ASSUME NEW o \in Ops, Begin(o) \/ Lock(o) \/ Unlease(o) \/ Unlock(o) \/ Stop(o)
        PROVE  InPlace'
    BY <1>2, <1>0 DEF Begin, Lock, Give, Unlease, Unlock, Stop, Go, TypeOK, InPlace,
         Expected, Preparing, Writing, abandoned, ops
  <1>3. ASSUME NEW o \in Ops, CountLeases(o) \/ Exclusive(o)
        PROVE  InPlace'
    BY <1>3 DEF Give, CountLeases, Step, TakeLeaseLock, Exclusive, Entered, Go, TypeOK, InPlace,
         Expected, Preparing, abandoned
  <1>4. ASSUME NEW l \in Leases, LeaseLock(l) \/ LeaseDrop(l) \/ ContinueLease(l)
        PROVE  InPlace'
    BY <1>4 DEF LeaseLock, LeaseDrop, ContinueLease, LeaseCount, LeaseVerify,
                LeaseUnlock, LeaseUncount, MoveLease, InPlace, Expected, ops, abandoned
  <1>5. ASSUME NEW op \in late, LateEffect(op)
        PROVE  InPlace'
    <2>1. CASE dir' = dir
      BY <1>5, <2>1 DEF LateEffect, InPlace, Expected, ops
    <2>2. CASE dir' # dir
      BY <1>5, <2>2 DEF LateEffect, InPlace
    <2>3. QED
      BY <2>1, <2>2
  <1>6. CASE Crash
    BY <1>6 DEF Crash, InPlace, Expected, Preparing, TypeOK
  <1>7. CASE UNCHANGED vars
    BY <1>7 DEF vars, InPlace, Expected, ops, abandoned
  <1>8. QED
    BY <1>1, <1>2, <1>3, <1>4, <1>5, <1>6, <1>7 DEF Next, Continue

\* In every reachable state the operations find what they rely on.
LEMMA InPlaceAlways == Spec => [](Tasks /\ InPlace)
  <1>1. Init => Tasks /\ InPlace
    BY DEF Init, Tasks, InPlace, Expected, Installing, Preparing
  <1>2. Tasks /\ InPlace /\ StoreInv /\ [Next]_vars => (Tasks /\ InPlace)'
    BY TasksStep, InPlaceStep DEF StoreInv
  <1>3. QED
    BY <1>1, <1>2, StoreSafe, PTL DEF Spec

\* When install or import returns a success, the bundle is installed, and when delete
\* does, it is gone.
THEOREM SuccessesAreReal == Spec => []SuccessIsReal
  <1>1. Tasks /\ InPlace => SuccessIsReal
    BY DEF InPlace, Expected, SuccessIsReal
  <1>2. QED
    BY <1>1, InPlaceAlways, PTL

\* A bundle appears at its path only whole and marked, by the promotion of a staging
\* directory that was verified or the return of the one that was replaced.
THEOREM AppearsWhole == Spec => AppearsComplete
  <1>1. Tasks /\ InPlace /\ StoreInv /\ [Next]_vars =>
          [dir["final"] = None /\ dir'["final"] # None =>
             dir'["final"] \in Owned \/ overtaken']_vars
    <2> SUFFICES ASSUME InPlace, StoreInv, Next, dir["final"] = None, dir'["final"] # None
                 PROVE  dir'["final"] \in Owned \/ overtaken'
      BY DEF vars
    <2>0. "final" \in Dirs /\ "staging" \in Dirs /\ "quarantine" \in Dirs
      BY DEF Dirs
    <2> USE DEF StoreInv, TypeOK
    <2>1. ASSUME NEW o \in Ops, Promote(o)
          PROVE  dir'["final"] \in Owned \/ overtaken'
      <3>1. overtaken' = overtaken
        BY <2>0, <2>1, RenameElsewhere DEF Promote, Io
      <3>2. dir'["final"] = dir["staging"]
        <4>1. \A e \in Effects(Rename("staging", "final")) : e["final"] = dir["staging"]
          BY <2>0, RenameEffect
        <4>2. QED
          BY <2>1, <4>1 DEF Promote, Io, IoDone, IoFailed
      <3>3. overtaken \/ dir["staging"] = "good"
        BY <2>1 DEF InPlace, Expected, Promote, Io, Go
      <3>4. QED
        BY <3>1, <3>2, <3>3 DEF Owned
    <2>2. ASSUME NEW o \in Ops, Restore(o)
          PROVE  dir'["final"] \in Owned \/ overtaken'
      <3>1. o \in replacing /\ pc[o] = "restore" /\ TryRename("quarantine", "final")
        BY <2>2 DEF Restore, Step, Go
      <3>2. overtaken' = overtaken /\ dir'["final"] = dir["quarantine"]
        <4>1. \A e \in Effects(Rename("quarantine", "final")) : e["final"] = dir["quarantine"]
          BY <2>0, RenameEffect
        <4>2. QED
          BY <3>1, <4>1 DEF TryRename, abandoned
      <3>3. QED
        BY <3>1, <3>2 DEF InPlace, Expected
    <2>3. ASSUME NEW o \in Ops, Undo(o)
          PROVE  FALSE
      <3>1. Effects(Rename("final", "staging")) = {}
        BY <2>0, RenameEffect
      <3>2. QED
        BY <2>3, <3>1 DEF Undo, TryRename
    <2>4. ASSUME NEW o \in Ops, Quarantine(o) \/ Delete(o)
          PROVE  FALSE
      <3>1. Effects(Rename("final", "quarantine")) = {} /\ Effects(Remove("final")) = {}
        BY <2>0, RenameEffect, RemoveEffect
      <3>2. QED
        BY <2>4, <3>1 DEF Quarantine, Delete, Io, RemoveAll, IoDone, IoFailed, Step, Finish
    <2>5. ASSUME NEW o \in Ops, Clear(o) \/ DropOld(o) \/ Settle(o) \/ Cleanup(o)
          PROVE  FALSE
      BY <2>0, <2>5, RemoveElsewhere DEF Clear, DropOld, Settle, Cleanup, RemoveAll, Step, Finish
    <2>6. ASSUME NEW o \in Ops, CreateStaging(o) \/ Fetch(o) \/ Mark(o)
          PROVE  FALSE
      <3>1. \A e \in Effects(Create("staging")) : e["final"] = dir["final"]
        BY <2>0, CreateEffect
      <3>2. ~CreateStaging(o)
        BY <3>1 DEF CreateStaging, Io, IoDone, IoFailed
      <3>3. ~(Fetch(o) \/ Mark(o))
        BY <2>0 DEF Fetch, Mark, Step
      <3>4. QED
        BY <2>6, <3>2, <3>3
    <2>7. ASSUME NEW o \in Ops,
                 \/ Verify(o) \/ Inspect(o) \/ Prepare(o) \/ Failed(o) \/ Old(o) \/ Check(o)
                 \/ Find(o) \/ Begin(o) \/ Lock(o) \/ CountLeases(o) \/ Exclusive(o)
                 \/ Unlease(o) \/ Unlock(o) \/ Stop(o)
          PROVE  FALSE
      BY <2>7 DEF Verify, Inspect, Prepare, Failed, Old, Check, Find, Begin, Lock, Give,
           CountLeases, TakeLeaseLock, Exclusive, Unlease, Unlock, Stop, Step, Finish
    <2>8. ASSUME NEW l \in Leases, LeaseLock(l) \/ LeaseDrop(l) \/ ContinueLease(l)
          PROVE  FALSE
      BY <2>8 DEF LeaseLock, LeaseDrop, ContinueLease, LeaseCount, LeaseVerify, LeaseUnlock,
           LeaseUncount, MoveLease
    <2>9. ASSUME NEW op \in late, LateEffect(op)
          PROVE  overtaken'
      BY <2>9 DEF LateEffect
    <2>10. ~Crash
      BY DEF Crash
    <2>11. QED
      BY <2>1, <2>2, <2>3, <2>4, <2>5, <2>6, <2>7, <2>8, <2>9, <2>10
      DEF Next, Continue, Install
  <1>2. QED
    BY <1>1, InPlaceAlways, StoreSafe, PTL DEF Spec, AppearsComplete

==============================================================================
