----------------------------- MODULE NativeRuntime -----------------------------
(***************************************************************************)
(* Loading the native ONNX runtime: OrtCpuRuntime::load() and what it      *)
(* calls in crates/impossible-ocr-onnx/src/runtime.rs.                     *)
(*                                                                         *)
(* Processes share the directory of the library and, in it, the cache that *)
(* they copy it to: one directory per digest, which appears by a rename of *)
(* a staging directory named after the digest, the process identifier and  *)
(* a counter of the process.  The threads of a process share the slot that *)
(* remembers which library it has loaded, for it can load only one.        *)
(*                                                                         *)
(* A library stands for its digest.  Its file may be replaced at any time, *)
(* and every access of the file system may fail.                           *)
(***************************************************************************)
EXTENDS FiniteSets, Integers

CONSTANTS
    Loads,       \* calls of load(), one per thread
    Processes,
    Libraries,
    ProcessOf,   \* the process of each load
    LibraryOf,   \* the library it is configured for
    Pids,        \* process identifiers
    MaxLoads,    \* bound on the loads that have begun, and
    MaxCrashes   \* on the crashes of processes

ASSUME NativeAssumption ==
    /\ IsFiniteSet(Loads)
    /\ ProcessOf \in [Loads -> Processes]
    /\ LibraryOf \in [Loads -> Libraries]
    /\ "none" \notin Libraries

VARIABLES
    source,    \* the library file: "good" or "bad" for its digest
    root,      \* the cache directory exists
    final,     \* the directory of each digest: "none", "complete" or "damaged"
    staging,   \* the staging directories that exist, with what is in them
    pid,       \* the identifier of each process
    counter,   \* its NATIVE_STAGE_COUNTER
    slot,      \* its ORT_INIT_LOCK: the library or "none"
    committed, \* the processes whose slot is committed, and
    locked,    \* those with a load that holds the mutex of the slot
    inits,     \* the number of its calls of ort::init_from
    pc,        \* what each load does next
    name,      \* the staging directory of each load
    refused,   \* the loads that met an error of their own and did not overcome it
    crashes

disk == <<source, root, final, staging>>
memory == <<counter, slot, committed, locked, inits>>
vars == <<disk, memory, pid, pc, name, refused, crashes>>

Names == Libraries \X Pids \X Nat
Contents == {"partial", "good", "bad", "complete", "damaged"}
Inside == {"init", "commit"}
Staging == {"write", "mark", "rename", "discard"}
Steps == {"idle", "root", "make_root", "look", "stage", "open", "lock", "warm",
          "ready", "failed"} \cup Inside \cup Staging

Init ==
    /\ source \in [Libraries -> {"good", "bad"}]
    /\ root \in BOOLEAN
    /\ final \in [Libraries -> IF root THEN {"none", "complete", "damaged"} ELSE {"none"}]
    /\ staging = [n \in {} |-> "partial"]
    /\ pid \in {f \in [Processes -> Pids] : \A p, q \in Processes : f[p] = f[q] => p = q}
    /\ counter = [p \in Processes |-> 0]
    /\ slot = [p \in Processes |-> "none"]
    /\ committed = {}
    /\ locked = {}
    /\ inits = [p \in Processes |-> 0]
    /\ pc = [l \in Loads |-> "idle"]
    /\ name = [l \in Loads |-> <<>>]
    /\ refused = {}
    /\ crashes = 0

Step(l, from, to) == pc[l] = from /\ pc' = [pc EXCEPT ![l] = to]

\* An operation of the load itself fails, and with it the load.
Refuse(l) ==
    /\ refused' = refused \cup {l}
    /\ pc' = [pc EXCEPT ![l] = "failed"]

(***************************************************************************)
(* prepare_owned_native_runtime().                                         *)
(***************************************************************************)

\* The bundle is verified and leased and its graphs are admitted, and then
\* verify_native_library() looks at the configured file.
Admit(l) ==
    /\ pc[l] = "idle"
    /\ Cardinality({k \in Loads : pc[k] # "idle"}) < MaxLoads
    /\ \/ /\ pc' = [pc EXCEPT ![l] = IF source[LibraryOf[l]] = "good" THEN "root" ELSE "failed"]
          /\ UNCHANGED refused
       \/ Refuse(l)
    /\ UNCHANGED <<disk, memory, pid, name, crashes>>

\* Any step before the lock may meet an error; staging is discarded first.
IoError(l) ==
    /\ \/ pc[l] \in {"root", "look", "stage", "open"} /\ Refuse(l)
       \/ /\ pc[l] \in Staging \ {"discard"}
          /\ pc' = [pc EXCEPT ![l] = "discard"]
          /\ refused' = refused \cup {l}
    /\ UNCHANGED <<disk, memory, pid, name, crashes>>

\* ensure_real_directory() looks and then creates; it fails if another process
\* creates the directory in between.
EnsureRoot(l) ==
    /\ Step(l, "root", IF root THEN "look" ELSE "make_root")
    /\ UNCHANGED <<disk, memory, pid, name, refused, crashes>>

CreateRoot(l) ==
    /\ pc[l] = "make_root"
    /\ \/ ~root /\ root' = TRUE /\ Step(l, "make_root", "look") /\ UNCHANGED refused
       \/ Refuse(l) /\ UNCHANGED root
    /\ UNCHANGED <<source, final, staging, memory, pid, name, crashes>>

Published(l) == final[LibraryOf[l]] # "none"

Look(l) ==
    /\ Step(l, "look", IF Published(l) THEN "open" ELSE "stage")
    /\ UNCHANGED <<disk, memory, pid, name, refused, crashes>>

\* The directory and an empty file in it are created.  The name is new in its
\* process; a directory that an earlier process of the
\* same identifier left behind is in the way.
Stage(l) ==
    LET p == ProcessOf[l]
        new == <<LibraryOf[l], pid[p], counter[p]>>
    IN  /\ pc[l] = "stage"
        /\ counter' = [counter EXCEPT ![p] = @ + 1]
        /\ IF new \in DOMAIN staging
              THEN /\ pc' = [pc EXCEPT ![l] = "failed"]
                   /\ UNCHANGED <<staging, name>>
              ELSE /\ pc' = [pc EXCEPT ![l] = "write"]
                   /\ staging' = [n \in DOMAIN staging \cup {new} |->
                                     IF n = new THEN "partial" ELSE staging[n]]
                   /\ name' = [name EXCEPT ![l] = new]
        /\ UNCHANGED <<source, root, final, slot, committed, locked, inits, pid,
                       refused, crashes>>

Put(l, content) == staging' = [staging EXCEPT ![name[l]] = content]

\* Mutant: the copy of a verified file is not hashed again.
WriteTrusting(l) ==
    /\ Step(l, "write", "mark")
    /\ Put(l, source[LibraryOf[l]])
    /\ UNCHANGED <<source, root, final, memory, pid, name, refused, crashes>>

\* stage_native_file(): what was read must have the length and the digest of the configuration.
Write(l) ==
    /\ Step(l, "write", IF source[LibraryOf[l]] = "good" THEN "mark" ELSE "discard")
    /\ Put(l, source[LibraryOf[l]])
    /\ UNCHANGED <<source, root, final, memory, pid, name, refused, crashes>>

Mark(l) ==
    /\ Step(l, "mark", "rename")
    /\ Put(l, IF staging[name[l]] = "good" THEN "complete" ELSE "damaged")
    /\ UNCHANGED <<source, root, final, memory, pid, name, refused, crashes>>

Without(n) == [m \in DOMAIN staging \ {n} |-> staging[m]]

Forget(l) == name' = [name EXCEPT ![l] = <<>>]

\* A directory that is not empty cannot be replaced by the rename.
Rename(l) ==
    /\ pc[l] = "rename"
    /\ IF Published(l)
          THEN pc' = [pc EXCEPT ![l] = "discard"] /\ UNCHANGED <<final, staging, name>>
          ELSE /\ pc' = [pc EXCEPT ![l] = "open"]
               /\ final' = [final EXCEPT ![LibraryOf[l]] = staging[name[l]]]
               /\ staging' = Without(name[l])
               /\ Forget(l)
    /\ UNCHANGED <<source, root, memory, pid, refused, crashes>>

\* Mutant: who loses the race fails.
DiscardAndFail(l) ==
    /\ Step(l, "discard", "failed")
    /\ staging' = Without(name[l]) \/ UNCHANGED staging
    /\ Forget(l)
    /\ UNCHANGED <<source, root, final, memory, pid, refused, crashes>>

\* Staging did not succeed: it is removed, if it can be, and the directory that
\* another load has published meanwhile is opened.
Discard(l) ==
    /\ Step(l, "discard", IF Published(l) THEN "open" ELSE "failed")
    /\ staging' = Without(name[l]) \/ UNCHANGED staging
    /\ Forget(l)
    /\ refused' = IF Published(l) THEN refused \ {l} ELSE refused
    /\ UNCHANGED <<source, root, final, memory, pid, crashes>>

\* open_owned_native(): exactly the library and its marker, as configured.
Open(l) ==
    /\ Step(l, "open", IF final[LibraryOf[l]] = "complete" THEN "lock" ELSE "failed")
    /\ UNCHANGED <<disk, memory, pid, name, refused, crashes>>

(***************************************************************************)
(* initialize_native_runtime() and the rest of load().                     *)
(***************************************************************************)
Holds(l) == slot[ProcessOf[l]] = LibraryOf[l]

\* Under the mutex an occupied slot decides at once; an empty one is claimed.
Enter(l) ==
    LET p == ProcessOf[l]
    IN  /\ pc[l] = "lock" /\ p \notin locked
        /\ IF slot[p] = "none"
              THEN /\ pc' = [pc EXCEPT ![l] = "init"]
                   /\ slot' = [slot EXCEPT ![p] = LibraryOf[l]]
                   /\ locked' = locked \cup {p}
              ELSE /\ pc' = [pc EXCEPT ![l] =
                                IF Holds(l) /\ p \in committed THEN "warm" ELSE "failed"]
                   /\ UNCHANGED <<slot, locked>>
        /\ UNCHANGED <<disk, counter, committed, inits, pid, name, refused, crashes>>

\* The call of ort::init_from, whose failure is found out under the mutex.
Initialize(l) ==
    /\ pc[l] = "init"
    /\ inits' = [inits EXCEPT ![ProcessOf[l]] = @ + 1]
    /\ \/ Step(l, "init", "commit") /\ UNCHANGED <<refused, locked>>
       \/ Refuse(l) /\ locked' = locked \ {ProcessOf[l]}
    /\ UNCHANGED <<disk, counter, committed, pid, name, crashes>>

\* Mutant: a load that fails gives the slot back.
InitNativeAgain(l) ==
    /\ Initialize(l)
    /\ slot' = IF pc'[l] = "failed" THEN [slot EXCEPT ![ProcessOf[l]] = "none"] ELSE slot

\* ort::init_from() loads the library and commits its environment; an error or
\* a panic leaves the slot claimed.
InitNative(l) == Initialize(l) /\ UNCHANGED slot

\* The open file is verified once more.
Commit(l) ==
    /\ pc[l] = "commit"
    /\ \/ /\ Step(l, "commit", "warm")
          /\ committed' = committed \cup {ProcessOf[l]}
          /\ UNCHANGED refused
       \/ Refuse(l) /\ UNCHANGED committed
    /\ locked' = locked \ {ProcessOf[l]}
    /\ UNCHANGED <<disk, counter, slot, inits, pid, name, crashes>>

\* Sessions are created, checked and warmed, and the library is verified.
Warm(l) ==
    /\ pc[l] = "warm"
    /\ \/ Step(l, "warm", "ready") /\ UNCHANGED refused
       \/ Refuse(l)
    /\ UNCHANGED <<disk, memory, pid, name, crashes>>

(***************************************************************************)
(* The environment.                                                        *)
(***************************************************************************)

\* The file of a library is exchanged for another one.
Replace(b) ==
    /\ source[b] = "good"
    /\ source' = [source EXCEPT ![b] = "bad"]
    /\ UNCHANGED <<root, final, staging, memory, pid, pc, name, refused, crashes>>

\* A process ends and is started again, under an identifier that may be its own.
Crash(p) ==
    LET own == {l \in Loads : ProcessOf[l] = p}
    IN  /\ crashes < MaxCrashes
        /\ crashes' = crashes + 1
        /\ \E new \in Pids \ {pid[q] : q \in Processes \ {p}} : pid' = [pid EXCEPT ![p] = new]
        /\ counter' = [counter EXCEPT ![p] = 0]
        /\ slot' = [slot EXCEPT ![p] = "none"]
        /\ committed' = committed \ {p}
        /\ locked' = locked \ {p}
        /\ inits' = [inits EXCEPT ![p] = 0]
        /\ pc' = [l \in Loads |-> IF l \in own THEN "idle" ELSE pc[l]]
        /\ name' = [l \in Loads |-> IF l \in own THEN <<>> ELSE name[l]]
        /\ refused' = refused \ own
        /\ UNCHANGED disk

Prepare(l) ==
    \/ Admit(l) \/ EnsureRoot(l) \/ CreateRoot(l) \/ Look(l) \/ Stage(l) \/ Write(l)
    \/ Mark(l) \/ Rename(l) \/ Discard(l) \/ Open(l) \/ IoError(l)

Load(l) == Enter(l) \/ InitNative(l) \/ Commit(l) \/ Warm(l)

Next ==
    \/ \E l \in Loads : Prepare(l) \/ Load(l)
    \/ \E b \in Libraries : Replace(b)
    \/ \E p \in Processes : Crash(p)

Spec == Init /\ [][Next]_vars

TypeOK ==
    /\ source \in [Libraries -> {"good", "bad"}]
    /\ root \in BOOLEAN
    /\ final \in [Libraries -> {"none", "complete", "damaged"}]
    /\ DOMAIN staging \subseteq Names
    /\ \A n \in DOMAIN staging : staging[n] \in Contents
    /\ pid \in [Processes -> Pids]
    /\ counter \in [Processes -> Nat]
    /\ slot \in [Processes -> Libraries \cup {"none"}]
    /\ committed \cup locked \subseteq Processes
    /\ inits \in [Processes -> Nat]
    /\ pc \in [Loads -> Steps]
    /\ name \in [Loads -> Names \cup {<<>>}]
    /\ refused \subseteq Loads

(***************************************************************************)
(* Safety.                                                                 *)
(***************************************************************************)

\* What appears under a digest is complete and has that digest, whatever
\* crashes and whatever replaces the file between its verification and its
\* copy; and it never changes: "owned content-addressed storage".
PublishedIsVerified ==
    [][\A b \in Libraries :
          final'[b] # final[b] => final[b] = "none" /\ final'[b] = "complete"]_vars

\* A process initializes the native runtime once, even if that fails, and every
\* load that succeeds runs on the library it was configured for.
OneRuntime ==
    /\ \A p \in Processes : inits[p] <= 1
    /\ \A l \in Loads : pc[l] = "ready" =>
          /\ inits[ProcessOf[l]] = 1
          /\ Holds(l) /\ ProcessOf[l] \in committed

\* The name that the next staging directory would have is taken: by a process
\* of the same identifier that crashed.
Leftover(l) ==
    /\ crashes > 0
    /\ \E n \in DOMAIN staging : n[1] = LibraryOf[l] /\ n[2] = pid[ProcessOf[l]]

\* A load fails for a reason: an error of its own, a file that was not the
\* library, a directory that is damaged or left behind, or a slot that another
\* library or a failed load occupies.  To lose the race for the directory of
\* the digest is no reason.
FailureIsExplained ==
    \A l \in Loads : pc[l] = "failed" =>
        \/ l \in refused
        \/ source[LibraryOf[l]] = "bad"
        \/ final[LibraryOf[l]] = "damaged"
        \/ Leftover(l)
        \/ slot[ProcessOf[l]] # "none" /\ ~(Holds(l) /\ ProcessOf[l] \in committed)
==============================================================================
