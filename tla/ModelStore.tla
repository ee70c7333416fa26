----------------------------- MODULE ModelStore ------------------------------
(***************************************************************************)
(* One bundle of the model store of impossible-ocr-onnx: its installation, *)
(* import and repair, its deletion, its leases, and crashes of the process *)
(* that runs them.  import differs from install in where the bytes come    *)
(* from, and is the same action here.                                      *)
(*                                                                         *)
(* A directory is abstracted to what the code can tell of it: whether the  *)
(* artifacts are whole and whether its ownership marker matches.  A file   *)
(* operation runs on a blocking thread: when its caller is cancelled or    *)
(* its deadline passes (io_with_budget), the caller goes on at once, and   *)
(* the operation has taken effect by then or, if LateIo, takes it later.   *)
(***************************************************************************)
EXTENDS Naturals, FiniteSets

CONSTANTS
    Ops,        \* calls of install, import or delete, each at most once
    Leases,     \* calls of lease, each at most once
    LateIo,     \* an abandoned file operation may end after its caller's step
    MaxCrashes  \* bound on the crashes of the process

None == "none"

ASSUME StoreAssumption ==
    /\ None \notin Ops
    /\ IsFiniteSet(Leases)
    /\ LateIo \in BOOLEAN
    /\ MaxCrashes \in Nat

\* "good": whole, with a matching marker.  "corrupt": a matching marker, but
\* artifacts are damaged or missing.  "whole" and "junk": the same without a
\* marker.  "foreign": a directory of somebody else, without a matching marker.
Contents == {None, "good", "corrupt", "whole", "junk", "foreign"}
Owned == {"good", "corrupt"}
Dirs == {"final", "staging", "quarantine"}

VARIABLES
    dir,        \* what is at each of the bundle's three paths
    pc, task,   \* where each operation is, and what it does
    replacing,  \* the operations that found an owned bundle to replace
    stopped,    \* the operations that are cancelled or past their deadline
    result,     \* how each operation ended
    lock,       \* who holds .<id>.lock
    exclusive,  \* who holds .<id>.lease.lock exclusively
    lease,      \* where each lease is
    count,      \* ModelStore.leases
    late,       \* abandoned file operations still to take effect
    overtaken,  \* one of them has changed a directory
    crashes     \* the crashes so far

ops == <<pc, task, replacing, result>>
leases == <<lease, count>>
locks == <<lock, exclusive>>
abandoned == <<late, overtaken>>
vars == <<dir, ops, stopped, locks, leases, abandoned, crashes>>

PCs == {"idle", "lock", "exclusive", "leases", "verify", "inspect", "prepare", "clear",
        "create", "fetch", "mark", "old", "drop", "quarantine", "promote", "restore", "check",
        "undo", "settle", "cleanup", "find", "delete", "failed",
        "unlease", "unlock", "done"}
Shared == {l \in Leases : lease[l] \in {"locked", "counted", "held", "dropped"}}

Rename(from, to) == <<"rename", from, to>>
Remove(d) == <<"remove", d, d>>
Create(d) == <<"create", d, d>>
FileOps == {Rename(a, b) : a, b \in Dirs} \cup {Remove(d) : d \in Dirs} \cup {Create("staging")}

TypeOK ==
    /\ dir \in [Dirs -> Contents]
    /\ pc \in [Ops -> PCs]
    /\ task \in [Ops -> {None, "install", "delete"}]
    /\ replacing \subseteq Ops /\ stopped \subseteq Ops
    /\ result \in [Ops -> {None, "ok", "err"}]
    /\ lock \in Ops \cup {None} /\ exclusive \in Ops \cup {None}
    /\ lease \in [Leases -> {"idle", "locked", "counted", "held", "dropped", "uncounted", "done"}]
    /\ count \in 0..Cardinality(Leases)
    /\ late \subseteq FileOps /\ overtaken \in BOOLEAN
    /\ crashes \in 0..MaxCrashes

\* A store that was installed or not, is damaged or not, that an interrupted
\* installation or another program left things in.
Init ==
    /\ dir \in [Dirs -> Contents]
    /\ dir["final"] \in {None, "good", "corrupt", "foreign"}
    /\ dir["staging"] \in {None, "junk"}
    /\ dir["quarantine"] \in {None, "foreign"}
    /\ pc = [o \in Ops |-> "idle"]
    /\ task = [o \in Ops |-> None]
    /\ replacing = {} /\ stopped = {}
    /\ result = [o \in Ops |-> None]
    /\ lock = None /\ exclusive = None
    /\ lease = [l \in Leases |-> "idle"]
    /\ count = 0
    /\ late = {} /\ overtaken = FALSE
    /\ crashes = 0

(***************************************************************************)
(* File operations.                                                        *)
(***************************************************************************)

\* remove_safe deletes the entries one by one, in the order of the directory,
\* and then the directory.
Removed(content) ==
    CASE content = "good" -> {"corrupt", "whole", "junk"}
      [] content = "corrupt" -> {"corrupt", "junk"}
      [] content \in {"whole", "foreign"} -> {"junk"}
      [] content = "junk" -> {"junk", None}
      [] content = None -> {}

\* What a file operation may leave; nothing if it cannot succeed.
Effects(op) ==
    CASE op[1] = "rename" ->
           IF dir[op[2]] # None /\ dir[op[3]] = None
           THEN {[dir EXCEPT ![op[2]] = None, ![op[3]] = dir[op[2]]]} ELSE {}
      [] op[1] = "remove" -> {[dir EXCEPT ![op[2]] = c] : c \in Removed(dir[op[2]])}
      [] op[1] = "create" ->
           IF dir[op[2]] = None THEN {[dir EXCEPT ![op[2]] = "junk"]} ELSE {}

\* io_with_budget that returns Ok, and that returns Err: the operation failed,
\* the budget was gone, or the stop was seen before the result.
IoDone(o, op) ==
    /\ o \notin stopped
    /\ dir' \in Effects(op)
    /\ UNCHANGED <<stopped, abandoned>>

IoFailed(o, op) ==
    \/ UNCHANGED <<dir, stopped, abandoned>>
    \/ /\ o \notin stopped /\ Effects(op) # {}
       /\ stopped' = stopped \cup {o}
       /\ \/ dir' \in Effects(op) /\ UNCHANGED abandoned
          \/ LateIo /\ late' = late \cup {op} /\ UNCHANGED <<dir, overtaken>>

Go(o, from, to) == pc[o] = from /\ pc' = [pc EXCEPT ![o] = to]

\* A step of the operation that touches only its own state.
Step(o, from, to) ==
    /\ Go(o, from, to)
    /\ UNCHANGED <<dir, task, replacing, result, stopped, locks, leases, abandoned, crashes>>

\* The operation is over, up to the locks; the lease lock goes first.
Finish(o, from, how) ==
    /\ Go(o, from, "unlease")
    /\ result' = [result EXCEPT ![o] = how]
    /\ UNCHANGED <<dir, task, replacing, stopped, locks, leases, abandoned, crashes>>

(***************************************************************************)
(* Entry: the operation lock, then the lease lock.                         *)
(***************************************************************************)
Begin(o) ==
    /\ Go(o, "idle", "lock")
    /\ \E t \in {"install", "delete"} : task' = [task EXCEPT ![o] = t]
    /\ UNCHANGED <<dir, replacing, result, stopped, locks, leases, abandoned, crashes>>

\* An operation that returns before it has the lease lock.
Give(o, from, to) ==
    /\ Go(o, from, to)
    /\ result' = [result EXCEPT ![o] = "err"]
    /\ UNCHANGED <<dir, task, replacing, stopped, locks, leases, abandoned, crashes>>

\* lock(): polled every ten milliseconds within the budget.
Lock(o) ==
    \/ Give(o, "lock", "done")
    \/ /\ o \notin stopped /\ lock = None
       /\ Go(o, "lock", "exclusive")
       /\ lock' = o
       /\ UNCHANGED <<dir, task, replacing, result, stopped, exclusive, leases, abandoned, crashes>>

Entered(o) == IF task[o] = "install" THEN "verify" ELSE "find"

\* exclusive_lease(): the leases that this process counts, InUse if there are any.
CountLeases(o) ==
    \/ count > 0 /\ Give(o, "exclusive", "unlock")
    \/ count = 0 /\ Step(o, "exclusive", "leases")

TakeLeaseLock(o) ==
    /\ Go(o, "leases", Entered(o))
    /\ exclusive' = o
    /\ UNCHANGED <<dir, task, replacing, result, stopped, lock, leases, abandoned, crashes>>

\* Mutant: the count has been looked at, so the file lock is taken for granted.
ExclusiveByCount(o) == TakeLeaseLock(o)

\* Then their lock on the file: by now a lease may have come that the count did not show.
Exclusive(o) ==
    \/ Give(o, "leases", "unlock")
    \/ Shared = {} /\ TakeLeaseLock(o)

(***************************************************************************)
(* install and import, up to the promotion.                                *)
(***************************************************************************)

\* verify_manifest: AlreadyVerified, or any error, of a whole bundle too; then the budget.
Verify(o) ==
    \/ o \in stopped /\ Finish(o, "verify", "err")
    \/ o \notin stopped /\ dir["final"] = "good" /\ Finish(o, "verify", "ok")
    \/ o \notin stopped /\ Step(o, "verify", "inspect")

\* Mutant: what is there is replaced, whoever it belongs to.
InspectAny(o) ==
    /\ o \notin stopped
    /\ replacing' = IF dir["final"] = None THEN replacing ELSE replacing \cup {o}
    /\ Go(o, "inspect", "prepare")
    /\ UNCHANGED <<dir, task, result, stopped, locks, leases, abandoned, crashes>>

\* try_exists and verify_ownership of what is to be replaced, which may fail to read it.
Inspect(o) ==
    \/ /\ o \notin stopped
       /\ dir["final"] \in Owned \cup {None}
       /\ replacing' = IF dir["final"] = None THEN replacing ELSE replacing \cup {o}
       /\ Go(o, "inspect", "prepare")
       /\ UNCHANGED <<dir, task, result, stopped, locks, leases, abandoned, crashes>>
    \/ Finish(o, "inspect", "err")

\* prepare(): clear the old staging directory, create a new one.
Prepare(o) ==
    \/ Finish(o, "prepare", "err")
    \/ /\ o \notin stopped
       /\ Step(o, "prepare", IF dir["staging"] = None THEN "create" ELSE "clear")

\* A file operation of o at "from": on success it goes to "to", else to "fail".
Io(o, op, from, to, fail) ==
    /\ \/ IoDone(o, op) /\ Go(o, from, to)
       \/ IoFailed(o, op) /\ Go(o, from, fail)
    /\ UNCHANGED <<task, replacing, result, locks, leases, crashes>>

\* remove_safe() of d at "from", entry by entry, then on to "to".
RemoveAll(o, d, from, to, fail) ==
    /\ \/ IoDone(o, Remove(d)) /\ Go(o, from, IF dir'[d] = None THEN to ELSE from)
       \/ IoFailed(o, Remove(d)) /\ Go(o, from, fail)
    /\ UNCHANGED <<task, replacing, result, locks, leases, crashes>>

Clear(o) == RemoveAll(o, "staging", "clear", "create", "failed")

CreateStaging(o) == Io(o, Create("staging"), "create", "fetch", "failed")

\* The error returns before there is a staging directory to clean up.
Failed(o) == Finish(o, "failed", "err")

\* Every artifact is downloaded or copied, and verified; or one is not.
Fetch(o) ==
    \/ /\ o \notin stopped /\ dir["staging"] = "junk"
       /\ dir' = [dir EXCEPT !["staging"] = "whole"]
       /\ Go(o, "fetch", "mark")
       /\ UNCHANGED <<task, replacing, result, stopped, locks, leases, abandoned, crashes>>
    \/ Step(o, "fetch", "cleanup")

\* Mutant: the bundle is promoted before its marker is written.
MarkLater(o) == Step(o, "mark", IF o \in stopped THEN "cleanup" ELSE "old")

\* verify_dir of the staging directory, and write_marker.
Mark(o) ==
    \/ /\ o \notin stopped /\ dir["staging"] = "whole"
       /\ dir' = [dir EXCEPT !["staging"] = "good"]
       /\ Go(o, "mark", "old")
       /\ UNCHANGED <<task, replacing, result, stopped, locks, leases, abandoned, crashes>>
    \/ Step(o, "mark", "cleanup")

(***************************************************************************)
(* promote().                                                              *)
(***************************************************************************)

\* A quarantine that an earlier operation left must be owned, and goes first.
Old(o) ==
    \/ /\ o \notin stopped /\ dir["quarantine"] \in Owned \cup {None}
       /\ Step(o, "old", IF dir["quarantine"] = None THEN "quarantine" ELSE "drop")
    \/ Step(o, "old", "cleanup")

DropOld(o) == RemoveAll(o, "quarantine", "drop", "quarantine", "cleanup")

\* The bundle that is replaced moves away; an error returns without a rollback.
Quarantine(o) ==
    \/ o \notin replacing /\ Step(o, "quarantine", "promote")
    \/ /\ o \in replacing
       /\ Io(o, Rename("final", "quarantine"), "quarantine", "promote", "cleanup")

Promote(o) == Io(o, Rename("staging", "final"), "promote", "check", "restore")

\* A rename that is not budgeted and whose error is ignored.
TryRename(from, to) ==
    /\ dir' \in Effects(Rename(from, to)) \cup {dir}
    /\ UNCHANGED <<task, replacing, result, stopped, locks, leases, abandoned, crashes>>

\* The rollback: the old bundle moves back.
Restore(o) ==
    \/ o \notin replacing /\ Step(o, "restore", "cleanup")
    \/ /\ o \in replacing
       /\ Go(o, "restore", "cleanup")
       /\ TryRename("quarantine", "final")

\* verify_dir of the promoted bundle, sync_dir, check_budget.  An error of
\* sync_dir alone returns without a rollback.
Check(o) ==
    \/ o \notin stopped /\ dir["final"] = "good" /\ Step(o, "check", "settle")
    \/ o \notin stopped /\ dir["final"] = "good" /\ Step(o, "check", "cleanup")
    \/ Step(o, "check", "undo")

\* The rollback of a promoted bundle: it moves back first.
Undo(o) ==
    /\ TryRename("final", "staging")
    /\ Go(o, "undo", IF dir' = dir THEN "cleanup" ELSE "restore")

\* The replaced bundle is removed; this error finds the new one installed.
Settle(o) ==
    \/ o \notin replacing /\ Finish(o, "settle", "ok")
    \/ /\ o \in replacing /\ dir["quarantine"] # None
       /\ RemoveAll(o, "quarantine", "settle", "settle", "cleanup")
    \/ /\ o \in replacing /\ dir["quarantine"] = None
       /\ IF o \in stopped THEN Step(o, "settle", "cleanup") ELSE Finish(o, "settle", "ok")

\* remove_safe() of the staging directory after any error, as far as it gets.
Cleanup(o) ==
    \/ /\ dir["staging"] # None
       /\ RemoveAll(o, "staging", "cleanup", "failed", "failed")
    \/ /\ dir["staging"] = None
       /\ Finish(o, "cleanup", "err")

(***************************************************************************)
(* delete().                                                               *)
(***************************************************************************)
Find(o) ==
    \/ o \notin stopped /\ dir["final"] = None /\ Finish(o, "find", "ok")
    \/ o \notin stopped /\ dir["final"] \in Owned /\ Step(o, "find", "delete")
    \/ Finish(o, "find", "err")

\* Mutant: Deleted is returned although not everything could be removed.
DeleteAnyway(o) ==
    \/ dir["final"] # None /\ RemoveAll(o, "final", "delete", "delete", "failed")
    \/ Finish(o, "delete", "ok")

Delete(o) ==
    \/ dir["final"] # None /\ RemoveAll(o, "final", "delete", "delete", "failed")
    \/ dir["final"] = None /\ Finish(o, "delete", "ok")

(***************************************************************************)
(* The locks are released in the reverse order.                            *)
(***************************************************************************)
Unlease(o) ==
    /\ Go(o, "unlease", "unlock")
    /\ exclusive' = None
    /\ UNCHANGED <<dir, task, replacing, result, stopped, lock, leases, abandoned, crashes>>

\* Mutant: the operation lock is kept.
UnlockForgotten(o) == Step(o, "unlock", "done")

Unlock(o) ==
    /\ Go(o, "unlock", "done")
    /\ lock' = None
    /\ UNCHANGED <<dir, task, replacing, result, stopped, exclusive, leases, abandoned, crashes>>

(***************************************************************************)
(* lease() and the drop of a ModelLease.                                   *)
(***************************************************************************)
MoveLease(l, from, to) ==
    /\ lease[l] = from
    /\ lease' = [lease EXCEPT ![l] = to]
    /\ UNCHANGED <<dir, ops, stopped, locks, abandoned, crashes>>

\* try_lock_shared, or InUse and other errors.
LeaseLock(l) ==
    /\ \/ exclusive = None /\ MoveLease(l, "idle", "locked")
       \/ MoveLease(l, "idle", "done")
    /\ UNCHANGED count

LeaseCount(l) == MoveLease(l, "locked", "counted") /\ count' = count + 1

\* verify_manifest; an error drops the lease.
LeaseVerify(l) ==
    /\ \/ MoveLease(l, "counted", IF dir["final"] = "good" THEN "held" ELSE "dropped")
       \/ MoveLease(l, "counted", "dropped")
    /\ UNCHANGED count

LeaseDrop(l) == MoveLease(l, "held", "dropped") /\ UNCHANGED count

LeaseUnlock(l) == MoveLease(l, "dropped", "uncounted") /\ UNCHANGED count

LeaseUncount(l) ==
    /\ MoveLease(l, "uncounted", "done")
    /\ count' = IF count > 0 THEN count - 1 ELSE 0

(***************************************************************************)
(* The environment.                                                        *)
(***************************************************************************)

\* The caller's token is cancelled, or the total deadline passes.
Stop(o) ==
    /\ pc[o] \notin {"idle", "unlease", "unlock", "done"}
    /\ stopped' = stopped \cup {o}
    /\ UNCHANGED <<dir, ops, locks, leases, abandoned, crashes>>

\* An abandoned file operation takes effect, or fails.
LateEffect(op) ==
    /\ op \in late
    /\ late' = late \ {op}
    /\ dir' \in Effects(op) \cup {dir}
    /\ overtaken' = (overtaken \/ dir' # dir)
    /\ UNCHANGED <<ops, stopped, locks, leases, crashes>>

\* The process ends: its locks are released, its memory is gone.
Crash ==
    /\ crashes < MaxCrashes
    /\ crashes' = crashes + 1
    /\ pc' = [o \in Ops |-> IF pc[o] = "idle" THEN "idle" ELSE "done"]
    /\ lease' = [l \in Leases |-> IF lease[l] = "idle" THEN "idle" ELSE "done"]
    /\ lock' = None /\ exclusive' = None /\ count' = 0 /\ late' = {}
    /\ UNCHANGED <<dir, task, replacing, result, stopped, overtaken>>

Install(o) ==
    \/ Verify(o) \/ Inspect(o) \/ Prepare(o) \/ Clear(o) \/ CreateStaging(o) \/ Failed(o)
    \/ Fetch(o) \/ Mark(o) \/ Old(o) \/ DropOld(o) \/ Quarantine(o) \/ Promote(o)
    \/ Restore(o) \/ Check(o) \/ Undo(o) \/ Settle(o) \/ Cleanup(o)

Continue(o) ==
    \/ Lock(o) \/ CountLeases(o) \/ Exclusive(o) \/ Install(o) \/ Find(o) \/ Delete(o)
    \/ Unlease(o) \/ Unlock(o)

ContinueLease(l) == LeaseCount(l) \/ LeaseVerify(l) \/ LeaseUnlock(l) \/ LeaseUncount(l)

Next ==
    \/ \E o \in Ops : Begin(o) \/ Continue(o) \/ Stop(o)
    \/ \E l \in Leases : LeaseLock(l) \/ LeaseDrop(l) \/ ContinueLease(l)
    \/ \E op \in late : LateEffect(op)
    \/ Crash

Spec == Init /\ [][Next]_vars

------------------------------------------------------------------------------
\* A lease that was granted refers to a verified bundle as long as it is held,
\* whatever is installed, repaired, deleted or interrupted meanwhile; only a file
\* operation that went on after its operation returned can take it away.
LeasedIsGood ==
    (\E l \in Leases : lease[l] = "held") => dir["final"] = "good" \/ overtaken

\* "Unrelated data is never claimed or deleted", neither at the bundle's path
\* nor at its quarantine.
ForeignIsKept ==
    [][\A d \in {"final", "quarantine"} : dir[d] = "foreign" => dir'[d] = "foreign"]_vars

\* A bundle appears at its path complete: whole, verified and marked, or as the
\* owned one that was there before, unless an abandoned file operation intervened.
AppearsComplete ==
    [][dir["final"] = None /\ dir'["final"] # None =>
          dir'["final"] \in Owned \/ overtaken']_vars

\* A success is real when it is returned: the bundle is installed, or gone, again
\* but for file operations that were abandoned.
SuccessIsReal ==
    \A o \in Ops : pc[o] = "unlease" /\ result[o] = "ok" =>
        \/ dir["final"] = IF task[o] = "install" THEN "good" ELSE None
        \/ overtaken

\* An operation that changes the directories excludes the others, and the
\* leases, until it returns; and then it leaves no lock behind, whatever ended it.
OneWriter ==
    \A o \in Ops :
        /\ pc[o] \notin {"idle", "lock", "exclusive", "leases", "unlock", "done"} =>
             lock = o /\ exclusive = o /\ Shared = {}
        /\ pc[o] \in {"idle", "lock", "exclusive", "leases", "unlock", "done"} => exclusive # o
        /\ pc[o] \in {"idle", "lock", "done"} => lock # o

\* "The prior owned directory is ... restored if promotion fails".
PriorIsRestored ==
    \A o \in Ops : pc[o] = "unlease" /\ result[o] = "err" /\ o \in replacing =>
        dir["final"] # None
==============================================================================
