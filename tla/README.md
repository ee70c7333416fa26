# A verification project for impossible-ocr

impossible-ocr is a local OCR service in Rust: an HTTP, gRPC and MCP server
around a pipeline that decodes an image, detects lines with one ONNX model,
reads them with another and returns the text in reading order. This directory
holds TLA+ modules that model its concurrent and crash-prone parts, and those
of its sequential parts whose limits and orders are hard to test, TLC
configurations that check them on small instances, and proofs for TLAPS.

Run from this directory:

    tlc -config ShutdownGate.cfg ShutdownGate          # any run of PROJECT.json
    tlapm ShutdownGateProofs.tla                       # and the other *Proofs modules

`PROJECT.json` lists the runs with their properties, the line of code behind
every definition, one mutant of the code for every property, the hazards, the
findings and the theorems.

## 1. Inventory of the system

Paths are relative to the repository; `core` abbreviates
`vendor/impossible-server/crates/impossible-server-core/src`, and the crates
`crates/impossible-ocr-*` are called by their last word.

| Component | State | Operations | Hard behaviours | What makes it correct |
|---|---|---|---|---|
| Cancellation token, `core/cancellation.rs` | a flag and a `Notify` | `cancel`, `cancelled`, `is_cancelled` | a waiter registers while another thread cancels | a latch: one winner, no waiter misses it |
| Shutdown gate, `core/shutdown.rs` | a phase and a counter under a mutex, a stop token | `try_enter`, drop of a `WorkGuard`, `drain`, `stop_now`, drop of the gate | decisions are announced after the mutex is released; `drain` may time out, be dropped, race another | counts right, decides once, never stays half closed, always announces the end |
| Request identity, `core/request.rs` | a counter; a token and a deadline per request | `next`, `stopped`, `remaining` | exhaustion | identifiers never repeat |
| Health registry, `core/health.rs`, `server/src/lib.rs` | process state, one state per component, the warmed flag | `set_process`, `set`, `snapshot`, `refresh_backend_health`, `warm_up` | probes and `warm_up` copy the flag in two steps while the shutdown changes it | readiness is earned, and goes before requests are cancelled |
| Limits and errors, `core/limits.rs`, `core/error.rs` | none | validation, names | - | - |
| Admission and execution, `server/src/lib.rs` | semaphore, queue counter, gauge and counters, the gate | `admit_http`, `acquire`, `run_inputs`, `run_admitted_inputs`, `recognize_*`, `mcp_call` | futures dropped at any await, permits, guards dropped in order, batches that fail half way, blocking workers that outlive their future | permits conserved, admitted once, counted once, all ends |
| Process shutdown, `server/src/{lib,main}.rs` | the warmed flag, the listeners' futures and their timers | `serve`, `serve_grpc`, `serve_mcp_stdio_until`, `begin_shutdown`, `finish_drain`, `run_server` | two listeners shut down the same state in turns, and one failing drops the other | bounded, truthful about success, leaves no drain behind, ends the process |
| Wire protocol, `protocol/src/lib.rs`, `server/src/lib.rs` | a partial line, a running total | `WireLimits`, the extractors, `recognize_batch`, `mcp_call`, `read_bounded_line` | two checks of one limit, in characters and in bytes, with rounding; lines cut into reads | nothing above a limit is admitted, nothing within it refused; lines whole, bounded, in order |
| Model store, `onnx/src/lifecycle.rs` | per bundle: three directories, two lock files, a count of leases | `install`, `import`, `delete`, `lease`, `verify`, `status` | renames and removals interrupted by errors, deadlines, cancellation and crashes; operations that complete after their timeout | leased bundles stay whole, foreign data stays, one writer |
| Runtime lanes, `onnx/src/runtime.rs` | a pool of sessions; a monitor thread per run | `LanePool::acquire`, drop of a `LaneGuard`, `run_session`, `StopMonitor` | lost notifications, runs that hang, termination racing the end of the run | lanes conserved, stops reported as stops, stopped requests answered |
| Native runtime, `onnx/src/runtime.rs` | a cache directory shared by processes, with staging directories; a slot per process behind a mutex | `OrtCpuRuntime::load`, `prepare_owned_native_runtime`, `initialize_native_runtime` | processes stage at once, crash and reuse identifiers; the library is replaced meanwhile | what is published is complete and verified, a process initializes once, a load fails for a reason |
| Graph contracts and qualification, `onnx/src/{graph_contract,qualification}.rs` | a stack of messages, budgets | `inspect_onnx_model`, `scan_message`, `validate_graph`, `summarize_model`, `validate_contract_document`, `admit_onnx_model`, `qualify_bytes` | nested lengths and overlong numbers at every boundary; budgets that run through nested graphs | the scan accepts a language, the budgets a set of graphs, and what is inspected can be admitted |
| OCR engine, `pipeline/src/engine.rs` | none between requests | `recognize`: decode, detect, crop, recognize in batches, assemble | stop checks between stages, a runtime that breaks its contract, chunked results, filtered regions | each text with its region, in order; prompt stop; bounded crops |
| Image algorithms, `pipeline/src/{raster,resize,crop,geometry,db,detector,recognizer,ctc}.rs` | none | decoding, resizing, boxes, CTC | permutations and numeric edges; floods and hulls | order restored, blanks collapsed, one contour and one least rectangle per component |
| Domain contracts, `domain/src/lib.rs` | none | `sort_reading_order`, `OcrResult::validate` | a sort by swaps, whose result depends on what it starts from | validation accepts what the engine produces |
| Tools, `server/src/runtime_qualification.rs`, `server/src/bin/*` | none | reports | - | - |

How they interact. A transport (HTTP, gRPC, MCP over HTTP or stdio) brings a
request to the admission, which takes a guard of the gate, then a permit of the
semaphore, waiting in a bounded queue for it, and runs the engine on a blocking
thread. The engine takes a lane of the runtime for each session run. The
runtime holds a lease on the bundle of the store as long as it lives. A
shutdown clears the warmed flag, sets the process state, cancels the request
token, and drains the gate; every listener does so for itself. Cancellation
tokens run through all of it.

## 2. Modules

| Module | Models | Composes | Proofs |
|---|---|---|---|
| `Latch` | abstract: what a cancellation token promises | | |
| `CancellationToken` | `core/cancellation.rs` with tokio's `Notify` | implements `Latch` | `OcrLanesProofs` |
| `ShutdownGate` | `core/shutdown.rs` | | `ShutdownGateProofs` |
| `PermitQueue` | abstract: what the server promises about its permits | | |
| `OcrAdmission` | a request in `server/src/lib.rs`, its worker in `pipeline/src/engine.rs` | `ShutdownGate`, a guard per request and layer; implements `PermitQueue` | `OcrAdmissionProofs` |
| `ServerShutdown` | the listeners, `run_server`, the health registry, probes and `warm_up` | `ShutdownGate`, a drainer per listener | `ServerShutdownProofs` |
| `ServerProcess` | `main.rs`: the runtime, its blocking calls and its drop | `ServerShutdown` | |
| `ModelStore` | `onnx/src/lifecycle.rs`, one bundle | | `ModelStoreProofs` |
| `OcrLanes` | the lane pool and the stop monitor of `onnx/src/runtime.rs` | | `OcrLanesProofs` |
| `NativeRuntime` | loading the native library in `onnx/src/runtime.rs`, several processes | | `NativeRuntimeProofs` |
| `OcrEngine` | one recognition: `pipeline/src/engine.rs`, the reading order and validation of `domain/src/lib.rs`, batches and CTC | | `OcrEngineProofs` |
| `BatchWire` | limits of bodies with base64 images: `protocol/src/lib.rs`, the extractors and loops of `server/src/lib.rs` | | |
| `LineReader` | `read_bounded_line` and its loop in `server/src/lib.rs` | | |
| `GraphScan` | the preflight of a serialized model, `onnx/src/graph_contract.rs` | | |
| `Inputs` | what comes from outside: requests, the lines that bring them, models | `BatchWire`, `LineReader`, `GraphScan` | `InputProofs` |
| `GraphContract` | validation, summary and contract of a decoded model, `onnx/src/{graph_contract,qualification}.rs` | | |
| `TextRegions` | contours and rectangles, `pipeline/src/{db,geometry}.rs` | | |
| `MCAlgorithms` | one run for the modules from `BatchWire` on: a behaviour runs one of them | `Inputs`, `GraphContract`, `TextRegions` | |
| other `MC*` | symmetry sets, images and loads for TLC | | |

### CancellationToken and Latch
A call of `cancelled()` goes through its actual accesses (creation of the `Notified`,
check, await, and again), a call of `cancel()` through `Swap`
and `NotifyWaiters`. Tokio's rule that a `Notified` is served by a
`notify_waiters` after its creation is external. `Latch` is the promise: it is
set once, by one winner among all who try, and a waiter returns only when it is
set and does so in the end. Its `winners` are the calls of `cancel()` that
returned `true`.
`ImplementsLatch` states the refinement, liveness included.

### ShutdownGate
One action per critical section of the mutex, and one per `cancel()` that
follows it: `TryEnter`, `Release`/`SignalRelease` (drop of a guard),
`BeginDrain`/`SignalDrain`, `Wake`, `ReadOutcome`, `Elapse`, `ForceDrain`,
`SignalForce` (`drain`), `DropDrain` (its future is dropped, and the guard of
`drain` stops the gate), `StopNow`/`SignalStop`, `DropHandle` and
`LastOwnerDrop`. The machine word of the counter is `MaxActive`.

### OcrAdmission
A request goes through `admit_http` (layer `outer`) or directly into
`run_inputs` (layer `inner`); `layer` remembers what the request extension
remembers in the code. Each access to shared state is a step: the gate, the
semaphore's fast path, the queue counter (raised, compared, lowered), the wait,
the gauge, each input, and each guard dropped on the way out in Rust's order.
`Hangup` drops the future at any await. `workers` are the blocking tasks, which
the drop of a future does not stop. The steps of the gate are those of
`ShutdownGate`, and the gauge is compared with the permits that are out
(`GaugeWithinPermits`), since both are given back by guards.
`ImplementsQueue` is the refinement of `PermitQueue`, in which there are no
counters: at most `Permits` clients own a permit, at most `Places` are seated in
the queue, and the line gets what is given back in its order. A client owns its
permit from the moment it is assigned (`Owners`), and is seated until it is told
(`Seated`); the free permits and the queue counter of the code are only right or
wrong with respect to these.

### ServerShutdown
A listener's future is a program counter; `Polled` says that `try_join!` runs
the futures in one task, so that they alternate only where they await, while
requests interleave everywhere. Time is a number of ticks that pass only when
every listener waits. The two calls of `begin_shutdown` on each path of a stop,
network or stdio (when it is seen, and in `finish_drain`), are both there.
`Probe` is a handler of health or models and `WarmUp` a call of `warm_up`, both on other threads:
`refresh_backend_health` reads the flag and the backend (`LoadReady`) and writes
the registry (`StoreReady`) in two steps, between which anything may happen.
`proven` remembers that the flag has been set; nothing reads it but properties.

### ServerProcess
That `run_server` returns does not end the process: `#[tokio::main]` then drops
the runtime (`DropRuntime`), which drops all tasks and waits for the calls that
have started on blocking threads (`EndProcess`). Those are the workers of
requests (`StartWork`, `EndWork`), which the drop of a future does not stop, and
the reads and writes of standard input and output (`StartCall`, `EndCall`),
which the select of the stdio listener leaves behind. While such a call of stdio
is under way, the listener neither reads a request nor sees an end of input.
One worker of each connection is followed at a time.

### ModelStore
A directory is `good`, `corrupt` (marker, damaged), `whole` or `junk` (the same
without marker), `foreign` or absent. `install`/`import` go through every early
return: the operation lock, the count of leases and then their file lock
(`CountLeases`, `Exclusive`: a lease may come between the two), verification,
whose every error, of a good bundle too, leads to a replacement, ownership,
staging, download, marker, the five stages of `promote` with their rollbacks, and the removal of the staging
directory; `delete` and `lease` through theirs. `remove_safe` removes entry by
entry in no order. A file operation may fail for any reason, or its caller may
stop and go on while the operation has taken effect or, with `LateIo`, takes
effect later on its blocking thread, after the locks are released (`LateEffect`).
`overtaken` records that such an operation changed a directory; the properties
that it breaks name it. `Crash` ends the process anywhere.
`status` and `verify` change nothing and are left out. The staging directory is
removed without a look at its marker (`lifecycle.rs:779`), as in the code, so
`ForeignIsKept` speaks of the bundle's path and the quarantine only.

### OcrLanes
A worker (`Begin` ... `Release`) and its monitor (`CheckDone`, `Look`,
`Terminate`, `Unpark`) are two threads. The critical section of the pool is one
step; `Wait` releases it, `Wake` is the timeout or a spurious wake-up, and
`Release` notifies one waiter. `CheckRun` is the check of the request with which
`run_session` begins. `RunEnds` is external: the native run returns
when it likes, with an output or an error.

### NativeRuntime
A load goes through `Admit` (configuration, models, verification of the
library), `EnsureRoot`/`CreateRoot` (the cache directory), `Look` (is the
digest published?), `Stage`, `Write`, `Mark`, `Rename` and `Discard` (the
staging directory, named by process identifier and counter), `Open`, then
`Enter`, `InitNative` and `Commit` under the mutex of its process, and `Warm`.
Directories are shared, slots and counters belong to a process; `Crash` ends a
process at any step and starts it again, perhaps with an identifier used
before. `Replace` changes the library's file at any moment. Digests are
equality of contents.

### OcrEngine
Every stage of `recognize_blocking` is an action preceded by `Check`
(`check_context`): `Decode`, `Preprocess`, `Detect`/`DetectorReturns`,
`Postprocess`, `CropRegion`, `Recognize`/`RecognizerReturns`, `Read`,
`Assemble`. `Cancel` and `Expire` come at any time. The runtime returns a
tensor that keeps its contract, one that breaks it, or an error. An image is
its sequence of regions, in the order the contours are found: a region has a
place, a size, the classes that the recognizer sees in it, and whether they are
above the threshold. `ReadingOrder` is the sort by key followed by the pass of
swaps within lines, and `FinishResult` sorts again and compares, as
`OcrResult::validate` does. A stable sort is `Positions`: the member of rank k is
the one with k - 1 members before it. The pass of swaps (`SwapAll`) and the runs
of the reference for CTC (`Runs`) are recursive functions of a number, so that
they can be reasoned about.

### BatchWire
`WireLimits` derives the limit of a body from the limit of an image: base64 makes
four characters of three bytes and pads, an item has a shell and a batch commas.
`Compose` is a client that adds images; `Receive` is the extractor that refuses a
longer body and the check of the number of items; `DecodeItem` a turn of the loop
that decodes and sums. A request is its sizes, not its characters. What a client
writes around its images, in items (`Shells`) and around them (`Wrappers`), is
any number of characters; `Compact` says that it is no more than
`WireLimits::new` measured.

### LineReader
`ReadToLineFeed`, `ReadOn` and `ReadEof` are the three ways a turn of
`read_bounded_line` ends. What `fill_buf` returns is external: any part of what
is left. `LinesOf` says what the lines of a stream are when it is known as a
whole: line k ends at the line feed that has k - 1 line feeds before it.

### GraphScan
A step is a turn of the loop of `scan_message`; its recursive calls are a stack
of slices of the same bytes. `FieldRows` is the table of `field_payload`, by
message. `Messages` is the reference: the language of the messages, as the
numbers of fields that the bytes of each span may have as a message of each
schema (none if they are no such message), without the order in which a scanner
reads. It is a recursive function over spans of bytes.

### GraphContract
`ValidateGraph` and the functions under it are recursive functions over a
decoded model that carry the shared budget and stop at the first error, in the
order of the code. `SummarizeModel`, `InvalidContract` and `AdmitModel` follow;
`Qualify` is `qualify_bytes`, which makes a contract of the summary and admits
the model under it. The protobuf decoder is external. `WellFormed`,
`WithinLimits` and `Nested` are the reference: each graph alone, and sums over
all of them.

### TextRegions
`Discover` and `Flood` are the loops of `extract_contours`, with the stack in the
order of the code; `Enclose` is `minimum_area_rect`: hull, supports that advance
around it, candidates, the smallest, its corners in order. Pixels are whole and
products exact, so that no direction is normalized; rectangles of one area are a
choice, since rounding decides between them. `Component`, `Encloses` and `Least`
are the reference.

## 3. Runs

| Run | Bounds | Shows |
|---|---|---|
| `token` | 2 cancellers, 3 waiters | `ImplementsLatch`: one winner, no waiter missed |
| `gate` | 3 guards, counter up to 2, 3 drains (one untimed), 1 `stop_now` | `GracefulMeansIdle`, `DrainIsOwned`, `SuccessIsTrue`, `OneWay`, `StopIsAnnounced`, `DrainReturns` |
| `admission` | 3 requests, 1 permit, 1 queue place, 1 drain | `ImplementsQueue` (conservation of permits and the bound of the queue are parts of it), `AdmittedOnce`, `GracefulMeansReleased`, `GaugeWithinPermits` |
| `admission_live` | 2 requests with up to 2 inputs, 1 untimed drain | `CountedOnce`, `LateRequestsEnd`, `DrainSucceeds` |
| `shutdown` | 2 network listeners or stdio, 1 request each, 1 probe, 1 `warm_up`, 1 tick | `OutcomeIsFinal`, `ReadyMeansServing`, `ShutdownIsBounded`, `StopEnds` |
| `store` | 2 operations, 2 leases, 1 crash, late file operations | `LeasedIsGood`, `SuccessIsReal`, `OneWriter`, `ForeignIsKept`, `AppearsComplete` |
| `lanes` | 2 workers, 1 lane | `LanesConserved`, `MonitorInsideRun`, `TerminatedIsReported`, `OutputIsWanted`, `StoppedRunReturns` |
| `engine` | up to 3 regions anywhere on a small grid, rows of 4 and columns with a non-ASCII symbol, batches of 3, 12 pixels of crops | `TextsOfTheirRegions`, `WholeResultsAreValid`, `StopIsPrompt` |
| `native` | 4 loads of which 2 begin, 2 processes, 2 libraries, 2 identifiers, 1 crash | `OneRuntime`, `FailureIsExplained`, `PublishedIsVerified` |
| `algorithms` | wire: image limits 1..9, items of 4 sizes, up to 9, with shells and wrappers shorter than, as long as and longer than those measured; lines: all streams of 6 bytes, limit 2; scan: all models of 4 bytes and those near three longer ones; contracts: a few thousand graphs, up to 3 nodes, nested; maps of 5 by 3 pixels, 2 contours | `LimitsAreExact`, `LinesAreExact`, `ScanIsExact`, `AdmissionIsLocal`, `QualifiedIsAdmitted`, `RegionsAreExact` |
| `store_restore`, `engine_survivors` | those of `store` and `engine`, with one operation and no lease, crash or late operation in the first | the findings below |

The type invariants of the gate, the shutdown, the lanes and the store are proved
(section 4); the other modules state theirs as the description of their state.
`ActiveCountsGuards`, `StopIsDecided` and `SignalAfterDecision` of the gate are
parts of the invariant of its proof.

Why the bounds are enough. A permit and a queue place are contended by three
requests: one runs, one waits, one finds the queue full, and the counter
overshoots. The gate's counter overflows with one guard more than it holds; two
timed drains and an untimed one race each other, the stop and the last guard.
Two listeners are what the process has. Two operations on the store follow each
other over what the first left behind, a crash included, or wait for each
other. One probe and one `warm_up` overlap each other and the shutdown of either
listener at every step. One tick is the whole budget of a shutdown: the transport
takes none of it, all of it, or more than there is, and the drain what is left;
budgets of any length are proved (`BudgetHolds`). Four regions are a row whose swaps reach further than its neighbours, in
more than one batch; two processes with two identifiers are enough for one to
crash and for another to come back under its name. One lane and two workers make
one run and one wait. Eight items with every remainder of a division by three
and one item too many are in `algorithms`, as are limits that are met and
exceeded by one, nested graphs that spend what is left of a shared budget, lines
that are cut at every byte, and maps with components that touch at corners, have
holes or lie on a line. What the bounds leave out, larger numbers of the same
actors, is what the proofs are for.
Deadlock is not checked: every actor may finish, and then the system stops.

### Fairness
Tasks and threads that can go on are run (tokio polls woken tasks, the kernel
runs threads), and timers fire. Nothing obliges a client to send, a guard's
holder to finish, a worker to return, a native run to end before it is
terminated, or anybody to start a shutdown. Two assumptions are stated at their
place: a gRPC or stdio request outside the middleware ends its body by the
lifetime of its connection (`OcrAdmission`), and a native run that was
terminated returns (`OcrLanes`). `ServerShutdown` is run inside
`ServerProcess`, whose fairness is: the main future is polled, the timers fire, a
request of the stdio listener is dropped once the stop came, since
`serve_mcp_stdio_until` selects on it, tasks are dropped with the runtime, and its
drop ends when it can. No network request, worker, or call of standard input or
output has to end, so that `StopEnds` must allow for those that do not. Probes and
`warm_up` calls owe nothing: a shutdown does not wait for them.

### Findings
Each has a run that TLC must find violated; `PROJECT.json` quotes the text.

* `store_restore`: when the cancellation is seen before the result of the
  rename of the old bundle, the old bundle stays in the quarantine and nothing
  is at the bundle's path. A later repair installs a new one.
* `engine_survivors`: the sort of the reading order swaps neighbours of one
  line, so removing a blank region from a sorted sequence may leave one that the
  sort would change. The validation of the result sorts again, finds a
  difference, and the whole request fails as `internal`, where the product
  contract promises the survivors in their order.

Observations without a run of their own:

* `run_server` returns within its budget, but the process does not end while a
  worker hangs, or while the read of standard input that an MCP stdio server
  left behind waits for a line: Ctrl-C is not enough, although
  `docs/product-contract.md:12` calls the lifetime of the shutdown bounded.
  `StopEnds` has this exception, and shows that there is no other; without it
  TLC finds such a process.
* A future that is dropped returns its permit and its guard while its blocking
  task runs on until the next stop check, so for that time more requests execute
  than `main.rs:45` ("Maximum concurrently executing OCR requests.") says. The
  model shows it: `workers` of `OcrAdmission` outlive their requests.
* The two limits of a request agree for what `WireLimits` measures. The overhead
  of an item is measured with `minimum_confidence` at `0.0` and without
  whitespace, and that of MCP with an `id` of four characters, so an image at the
  limit is refused (413) with a longer number, whitespace or a longer `id` around
  it, which `main.rs:35` ("Maximum encoded PNG/JPEG bytes in one image after
  base64/protobuf decoding.") does not say. `LimitsAreExact` therefore promises
  admission to compact requests only; that nothing above the limits on images
  is admitted holds however a request is written.
* The listener that drains first sets the process state, which both listeners
  share, to `Stopped` while the other still serves its connections and then sets
  it back to `Draining`; `core/health.rs:15` calls it "Process shutdown is
  complete."
* At the end of standard input the stdio listener returns without the "bounded
  drain" of its comment (`server/src/lib.rs:641`). It handles one request at a
  time, so that nothing of its own is left to drain.
* `validate_text` refuses what is not ASCII, while the curated dictionary has
  other symbols and `OcrWord` documents UTF-8: reading such a symbol ends the
  request as `internal`. Likewise a region whose corners are collinear after
  they were clamped to the image ends it as `invalid_image`.
* Two processes that load for the first time race to create the cache
  directory, and the loser fails. A staging directory left by a crash makes
  loads of a process with the same identifier fail, as its counter starts at
  zero again, until another process publishes the digest. An initialization
  that fails occupies the slot for the rest of the process.
  `FailureIsExplained` lists these causes, and shows that there are no others.
* A removal that is interrupted after it removed the marker leaves a directory
  that install, import and delete refuse from then on (`verify_ownership` finds
  no marker): a `whole` or `junk` directory at `final` or `quarantine` stays.
* A file operation whose caller timed out takes effect after the locks were
  released, under a lease granted meanwhile: `LeasedIsGood` without its
  `overtaken` is violated.
* A probe that read the flag before a second `warm_up` cleared it stores `TRUE`
  for a backend that is being warmed again, and one that read it before it was
  set hides a ready backend until the next probe. After a shutdown cleared the
  flag a `warm_up` may set it again, and the handler of models, which answers by
  `backend_ready()` (the flag and the backend) and not by the process state, says
  that they are ready. `ReadyMeansServing` holds all the same,
  since the process state is not running any more. A request in flight then may
  end as `model_unavailable` instead of cancelled.
* The size that `WireLimits` expects of a batch has no room for its commas. The
  padding of base64, which is counted for each of the eight items at its worst,
  leaves one byte more than they need; with two, three or six items at most the
  two checks would disagree on compact requests. The `include_words` of gRPC takes two bytes that its limit does not count.
* One image above the limit is an invalid request (400), several that are above it
  together are too large (413). An MCP body above its limit is a parse error over
  HTTP and `request too large` on stdio.
* The bounded line reader counts the carriage return, which it then removes,
  and leaves it on a last line that has no line feed.
* `validate_graph` counts as produced what initializers and nodes make, so that a
  node may name its output as an input of the graph. The domains `""` and
  `"ai.onnx"` are the same to ONNX but are counted apart. Its own check of the
  depth is never reached, as the scanner allows no model that deep.
  `QualifiedIsAdmitted` names the models that inspection accepts and no contract
  can describe: those without nodes, with too many inputs or outputs, or whose
  document would be too long.
* `begin_shutdown` does not close the gate, so requests are admitted (and
  cancelled at once) until the drain begins.
* The monitor's own reason is subsumed by the fresh `stop_reason` in
  `run_session`, since neither a cancellation nor a deadline is ever undone.

## 4. Proofs

All theorems hold for every value of the constants that satisfies the named
assumption of the module (`GateAssumption`, `AdmissionAssumption`,
`ShutdownAssumption`, `StoreAssumption`, `LanesAssumption`, `EngineAssumption`,
`NativeAssumption`, `WireAssumption`, `ReaderAssumption`, `ScanAssumption`): finiteness where something is counted, that
`"none"` is not the name of an actor, limits that are positive where the code
checks that they are, and the eight items of `MAX_BATCH_ITEMS`. What clients
write around their images is not bounded by any of them.

* `ShutdownGateProofs`: `TypeCorrect`, `GateSafe`, `GracefulIsIdle`,
  `NoOrphanedDrain`, `SuccessHolds`, `GateIsOneWay`. The invariant `GateInv`
  joins all the safety properties: that a graceful gate is idle follows from
  the counter's agreement with the guards, which needs the counter's range
  (`TypeOK`), which needs the agreement again when a guard is dropped; that a
  drain is owned needs that the token is cancelled only after a decision.
  The cardinality facts come first (`HeldGrows`, `HeldShrinks`), then one lemma
  per part of the invariant with one step per action.
* `OcrAdmissionProofs`: `AdmissionSafe` with `AdmissionInv`, and from it
  `PermitsHold`, `OneAdmission`, `OneCount`, `GaugeHolds`,
  `GracefulReleases` and `PermitsAreQueued`. Counters are compared with sets of
  requests, so the invariant says where each request is: `Placed` (what its place says of its layer,
  its inputs and its answer), `Lined` (the semaphore's line holds waiting requests,
  each once, and only while no permit is free), `Guarded` and `Permitted` (who holds
  a guard and a permit at which place), `Counted`, `Conserved` and `Bounded`.
  A permit that is given back moves two requests at once; that the second one is
  another one, and was waiting, is what `Lined` is for. Each counter then follows
  from a step that adds one request to a set or takes one from it (`Joins`,
  `Parts`, `Stays`). `GaugeHolds`: the requests that
  the gauge counts hold a permit, also on their way out. Every step
  of the server is a step of the gate (`GateStepOrStutter`), so that what is
  proved of the gate may be cited. `GracefulReleases` adds that the gate counts
  the guards held (`Emptied`), so that a gate with none has nobody inside.
  `PermitsAreQueued` is the refinement of `PermitQueue`: a permit is free if and only
  if there are fewer owners than permits (`OwnersCounted`, from a bijection of the
  permits and those who hold them), a request that passed the raised counter finds a
  place (`QueueSits`), and each other step is one of the queue or none. That a
  newcomer overtakes nobody is `Lined` again: while a permit is free, nobody waits.
* `ServerShutdownProofs`: `ReadinessSafe` with `ReadyInv`: no copy of the flag on
  its way to the registry is ahead of the backend (`Earned`), and a listener that
  is about to cancel the requests has already left the running state, whatever
  the other listener did in between (`DrainingFirst`). From it `ReadyIsTrue`.
  Every step of the server is a step of the gate or none (`GateStepOrStutter`), so
  the invariant of `ShutdownGateProofs`, instantiated, holds of it (`GateHolds`).
  `DrainsAreWatched` (`DrainPlaces`: where each drain is while its listener is
  at each place) joins the two, and from both follows `OutcomeHolds`: success was
  earned, and nothing drains on after the last listener returned. `BudgetHolds`
  needs an invariant of its own (`InBudget`): all timers of a listener have one
  deadline. `ServerTyped` is the type invariant.
* `InputProofs`, requests: `RequestSafe` with totals (`Sums`), the groups of base64
  (`Sizes`: a group for three bytes and less than one more for each item) and the
  progress of the loop (`Decoding`); from it `LimitsAgree`, which is where the
  byte to spare of section 3 is counted, for every limit, every split and whatever
  is written around the images.
* `InputProofs`, lines: `ReaderSafe` with `ReaderInv`: the lines so far are the first
  n lines of the stream, and the output is what was read of the next, or dropped
  as too large. From it `LinesHold`, for any streams and limit (`ReaderAssumption`:
  the streams are sequences and the limit a number). Counting line feeds takes the
  place of induction over the stream (`EndIs`, `NextEnd`).
* `InputProofs`, models: `ScanInvariant` with `ScanInv`, and from it `ScanSafe`: the
  preflight accepts a language, for any bytes and limits (`ScanAssumption`: a model
  is a sequence of bytes, limits are numbers, tags of the schema are below their
  limit, and so is the size of a model below the largest position). The language is
  recursive, so that its own equation comes first: `MessagesSolve`, by induction on
  the extent of a span, since the fields of a message lie within it. Then reading is
  deterministic: the varint, the scalar and the length that the scanner finds are
  the only ones there (`VarintIs`, `ScalarIs`, `DelimitedIs`), and a field has one
  payload (`RowsUnique`). The invariant says that slices are nested (`Nested`), and
  that the whole model has as many fields as were counted, and as the rest of each
  open slice has (`Counted`, `Total`): a nested message splits one rest in two
  (`EnterHolds`), an ended one adds nothing (`LeaveHolds`), and an error means that
  some rest is no message, or that the budget is exceeded by what was counted.
* `OcrLanesProofs`, lanes: `LanesSafe` with `LanesInv`, which adds
  `MonitorFollowsRun` to the properties: a monitor exists only from the start
  of its run, a termination ends it, and it published a reason before. Without
  it a monitor could be spawned over an old one, or a termination be reported
  without a reason. From it `LanesTyped`, `NoLaneIsShared`,
  `NoMonitorOutlivesItsRun`, `TerminationIsReported`, `NoUnwantedOutput`.
* `OcrLanesProofs`, the token that stops a run: `TokenSafe` with `TokenInv`, and
  from it `WakeupsArrive` (nobody is parked with a notification that came after its
  look, once the cancelling call is through) and `TokenIsLatch`: `CancellationToken`
  implements the safety of `Latch` step by step. The liveness of `ImplementsLatch`
  stays with TLC.
* `ModelStoreProofs`: `StoreSafe` with `StoreInv`: who holds which lock
  (`LocksHeld`) and that the process counts its leases (`CountsLeases`). All
  steps between the locks are first shown to have one shape (`WriterMoves`), so
  that the later lemmas treat them as one. From it `StoreTyped`,
  `WriterExcludes`, and `LeaseHolds`: a leased bundle stays verified unless a late
  file operation changes it (section 3).
  `ForeignKept` needs `TouchesOwn`: the paths that an operation may still touch
  at its place, late file operations included, hold nothing foreign.
  `SuccessesAreReal` and `AppearsWhole` need `InPlace`: what each operation relies
  on at its place (`Expected`: a complete staging directory, the old bundle in the
  quarantine) is so, unless an abandoned file operation changed it (`overtaken`).
* `OcrEngineProofs`, stops: `ChecksHold` with `PromptInv`, which ties the one late
  call to a stop that is still there and to a check that is still to come: no call
  begins without a check, and that check sees the stop. From it `PromptStop`.
* `OcrEngineProofs`, data. Induction over the numbers is proved once, as the least
  counterexample (`Induction`), and used for the recursive functions. On it rest:
  the sort by rank (`PositionsSort`, `PositionsUnique`: it lists a finite set in
  any strict order, and only one sequence does); the swaps (`SwapsArrange`: the
  outcome is a permutation without reversed neighbours, and it depends on the
  corners alone; `ReadingOrderStays`: sorting it again changes nothing, for any
  tolerance, although nearness of rows is not transitive); the permutation of a
  batch (`AspectOrderPermutes`, `RestoreInverts`); and CTC (`DecodingReads`: the loop
  over time steps and the collapse of runs read the same). `DataHolds` then has
  `DataInv`: at each stage (`ProgressAt`) the regions are the image in reading
  order, the crops those of the first c regions, the texts those of the first
  d crops, and the blocks those of the regions seen (`Assembled`). From it
  `TextsHold` and `WholeResultsHold`, for any image, tolerance and batch size.
* `NativeRuntimeProofs`: `SlotsSafe` with `SlotInv` (one load inside the mutex,
  whose slot is its own and which initialized as often as its step says), and
  from it `RuntimeIsOne`; `StageInv` (the directory of a load that stages exists
  and is as complete as its step says, and no other load stages under its name),
  which makes a rename publish something complete, and from it
  `PublishedHolds`. Loads of crashed processes may have left directories, which
  is why the invariant speaks of the loads that stage and not of all names.
  `FailuresHaveReasons` adds who a name belongs to (`NamesInv`: a name is taken
  only by a process of the same identifier that crashed) and, for each load, why
  it is about to discard or to fail (`Cause`): the reason still holds when the
  failure is reported, whatever the other loads did since.

Only model-checked:

* Liveness (`ImplementsLatch` beyond its safety, `StopIsAnnounced`, `DrainReturns`,
  `LateRequestsEnd`, `DrainSucceeds`, `StopEnds`, `StoppedRunReturns`), which is
  out of TLAPS' reach as it rests on ENABLED.
* `AdmissionIsLocal` and `QualifiedIsAdmitted`: the budget of the contract runs through
  graphs nested in graphs by recursive operators, and contracts are sorted by one of
  the library, which the provers cannot unfold.
* `RegionsAreExact`: floods and hulls are folds over sequences of pixels, by library
  operators that the provers cannot unfold.

## 5. Not modelled

Parsers, URLs, hashes and YAML of the store, and its checks for links, which
end in one of the errors the model chooses; the writes of an artifact that come
late into the staging directory; two bundles of one store, which share only the
map of counts; poisoned mutexes, since no critical section panics; allocations
that fail; the identifiers of requests, which end with an error when the counter
is exhausted; the limits of protobuf messages and the advertised capabilities,
which restate those of JSON; the protobuf decoder and generated code, which are
external; scores, the expansion of rectangles, resizing, interpolation and
codecs, which are floating-point or bytes of images. `core/limits.rs`,
`core/error.rs`, the command-line tools, scripts and schemas change no state.
`runtime_qualification.rs` runs the engine on fixtures in a loop and reports.

## 6. Plan

Done: the token, the gate, the admission, the shutdown with probes and
`warm_up`, the end of the process, the store, the lanes, the native runtime, the engine, the wire limits,
the line reader, the graph reader and contracts, the regions; the queue for permits
as an abstract specification; the language of the graph reader, proved. Next, in this order:

1. Proofs about `GraphContract`: that its budget is a sum over the nested graphs, from
   which `AdmissionIsLocal`; its recursive operators then become functions.
2. The engine composed with `OcrLanes`: two recognitions that share a lane.
3. The identifiers of requests up to their exhaustion, and the map of lease
   counts for two bundles.
