---------------------------- MODULE ServerProcess -----------------------------
(***************************************************************************)
(* The end of an impossible-ocr-server process: the listeners of module    *)
(* ServerShutdown as the main future of a Tokio runtime, whose drop ends   *)
(* the process.  #[tokio::main] drops the runtime when main has returned:  *)
(* the drop cancels every task, and then waits for each call that has      *)
(* started on a blocking thread.  There are two kinds of them: an OCR      *)
(* worker of spawn_blocking, which a request leaves behind when its future *)
(* is dropped, and a read or write of standard input and output.  Nothing  *)
(* in the server ends either.                                              *)
(***************************************************************************)
EXTENDS ServerShutdown

VARIABLES
    working, \* the connections whose last worker is on a blocking thread
    calling, \* a read or write of standard input or output is on one
    runtime  \* "up"; "down" from the start of its drop, "gone" with the process

host == <<working, calling, runtime>>
processVars == <<vars, host>>

ProcessInit ==
    /\ Init
    /\ working = {}
    /\ calling = FALSE
    /\ runtime = "up"

(***************************************************************************)
(* The main future, its requests and their blocking calls.                 *)
(***************************************************************************)
Serve(l) ==
    /\ runtime = "up"
    /\ Continue(l)
    /\ UNCHANGED host

\* The server fails; that of stdio only between two reads or writes.
Fail(l) ==
    /\ runtime = "up"
    /\ ServerError(l) \/ (Eof(l) /\ ~calling)
    /\ UNCHANGED host

\* Requests run until the runtime drops their tasks, and their guards with them.  A
\* stdio request is the line that was read, and waits for no other.
HostRequest(c) ==
    /\ runtime \in {"up", "down"}
    /\ c[1] \in Stdio /\ guard[c] = "free" => ~calling
    /\ Request(c)
    /\ UNCHANGED host

\* stdin's read, and stdout's write and flush, before and after a request; the select
\* drops the future that awaits it at a stop, and not the call.
StartCall(l) ==
    /\ runtime = "up"
    /\ l \in Stdio /\ pc[l] = "serving" /\ Quiet(l)
    /\ ~calling
    /\ calling' = TRUE
    /\ UNCHANGED <<vars, working, runtime>>

EndCall ==
    /\ calling
    /\ calling' = FALSE
    /\ UNCHANGED <<vars, working, runtime>>

\* spawn_blocking of the request's OCR; one worker of a connection is followed.
StartWork(c) ==
    /\ runtime = "up"
    /\ guard[c] = "held" /\ c \notin working
    /\ working' = working \cup {c}
    /\ UNCHANGED <<vars, calling, runtime>>

EndWork(c) ==
    /\ c \in working
    /\ working' = working \ {c}
    /\ UNCHANGED <<vars, calling, runtime>>

(***************************************************************************)
(* The end of main.                                                        *)
(***************************************************************************)

\* main has returned, or failed, and its runtime is dropped.
DropRuntime ==
    /\ runtime = "up"
    /\ AllReturned
    /\ runtime' = "down"
    /\ UNCHANGED <<vars, working, calling>>

\* Its tasks are gone, and the blocking calls that had started are over.
EndProcess ==
    /\ runtime = "down"
    /\ \A c \in Connections : guard[c] = "free"
    /\ working = {} /\ ~calling
    /\ runtime' = "gone"
    /\ UNCHANGED <<vars, working, calling>>

HostSignal == runtime = "up" /\ Signal /\ UNCHANGED host

HostTick == runtime = "up" /\ Tick /\ UNCHANGED host

\* Probes and warm_up() are tasks too.
HostProbe ==
    /\ runtime = "up"
    /\ \/ \E p \in Probes : Probe(p)
       \/ \E w \in Warmers : WarmUp(w)
    /\ UNCHANGED host

ProcessNext ==
    \/ \E l \in Listeners : Serve(l) \/ Fail(l) \/ StartCall(l)
    \/ \E c \in Connections : HostRequest(c) \/ StartWork(c) \/ EndWork(c)
    \/ EndCall
    \/ DropRuntime
    \/ EndProcess
    \/ HostProbe
    \/ HostSignal
    \/ HostTick

\* The request's task is dropped: with the runtime, or, of a stopped stdio listener,
\* with the main future's other branch.
Dropped(c) == runtime = "down" \/ (stop /\ c[1] \in Stdio)

\* The main future is polled when it can go on and timers fire; a request that is
\* dropped gives its guard back; the drop of the runtime begins with the end of main,
\* and ends when it can.  Any other request, a worker and a call owe nothing: clients,
\* models and pipes take as long as they like.
Fairness ==
    /\ \A l \in Listeners : WF_processVars(Serve(l))
    /\ \A c \in Connections : WF_processVars(Dropped(c) /\ HostRequest(c))
    /\ WF_processVars(HostTick)
    /\ WF_processVars(DropRuntime \/ EndProcess)

ProcessSpec == ProcessInit /\ [][ProcessNext]_processVars /\ Fairness

------------------------------------------------------------------------------
\* Ctrl-C ends the process although no request ever leaves, no connection ever
\* closes, and one listener fails while the other drains: run_server returns, and
\* nothing but a blocking call that never ends keeps the process afterwards.
StopEnds ==
    \/ stop ~> runtime = "gone"
    \/ <>[](runtime = "down" /\ (working # {} \/ calling))
==============================================================================
