-------------------------- MODULE CancellationToken --------------------------
(***************************************************************************)
(* The one-way cancellation token of impossible-server-core, one atomic    *)
(* operation of its two fields per step.  Tokio's Notify is external: a    *)
(* Notified future remembers how many notify_waiters calls preceded its    *)
(* creation, and completes once a later one has happened.                  *)
(***************************************************************************)
EXTENDS Naturals

CONSTANTS Cancellers,  \* callers of cancel()
          Waiters      \* callers of cancelled()

VARIABLES
    cancelled,      \* State.cancelled
    notifications,  \* State.notify: notify_waiters calls so far
    canceller,      \* progress of each cancel(): "idle", "notify", "true", "false"
    waiter,         \* progress of each cancelled(), see below
    seen            \* the notifications that preceded a waiter's Notified

vars == <<cancelled, notifications, canceller, waiter, seen>>

TypeOK ==
    /\ cancelled \in BOOLEAN
    /\ notifications \in 0..1
    /\ canceller \in [Cancellers -> {"idle", "notify", "true", "false"}]
    /\ waiter \in [Waiters -> {"idle", "loop", "created", "checked", "parked", "returned"}]
    /\ seen \in [Waiters -> 0..1]

Init ==
    /\ cancelled = FALSE
    /\ notifications = 0
    /\ canceller = [c \in Cancellers |-> "idle"]
    /\ waiter = [w \in Waiters |-> "idle"]
    /\ seen = [w \in Waiters |-> 0]

(***************************************************************************)
(* cancel(): swap the flag; only the call that changed it notifies.        *)
(***************************************************************************)
Swap(c) ==
    /\ canceller[c] = "idle"
    /\ cancelled' = TRUE
    /\ canceller' = [canceller EXCEPT ![c] = IF cancelled THEN "false" ELSE "notify"]
    /\ UNCHANGED <<notifications, waiter, seen>>

NotifyWaiters(c) ==
    /\ canceller[c] = "notify"
    /\ notifications' = notifications + 1
    /\ canceller' = [canceller EXCEPT ![c] = "true"]
    /\ UNCHANGED <<cancelled, waiter, seen>>

(***************************************************************************)
(* cancelled(): create a Notified, look at the flag, await the Notified,   *)
(* and start over.  The order of the first two is what loses no wakeup.    *)
(***************************************************************************)
Move(w, from, to) ==
    /\ waiter[w] = from
    /\ waiter' = [waiter EXCEPT ![w] = to]
    /\ UNCHANGED <<cancelled, notifications, canceller>>

Enter(w) == Move(w, "idle", "loop") /\ UNCHANGED seen

CreateNotified(w) ==
    /\ Move(w, "loop", "created")
    /\ seen' = [seen EXCEPT ![w] = notifications]

Check(w) ==
    /\ Move(w, "created", IF cancelled THEN "returned" ELSE "checked")
    /\ UNCHANGED seen

\* Mutant: the Notified exists only from its first poll, after the flag check.
AwaitNotifiedLate(w) ==
    /\ Move(w, "checked", "parked")
    /\ seen' = [seen EXCEPT ![w] = notifications]

AwaitNotified(w) == Move(w, "checked", "parked") /\ UNCHANGED seen

Wake(w) ==
    /\ notifications > seen[w]
    /\ Move(w, "parked", "loop")
    /\ UNCHANGED seen

Continue(w) == CreateNotified(w) \/ Check(w) \/ AwaitNotified(w) \/ Wake(w)

Next ==
    \/ \E c \in Cancellers : Swap(c) \/ NotifyWaiters(c)
    \/ \E w \in Waiters : Enter(w) \/ Continue(w)

\* A thread inside cancel() and a task that can make progress are run.
Fairness ==
    /\ \A c \in Cancellers : WF_vars(NotifyWaiters(c))
    /\ \A w \in Waiters : WF_vars(Continue(w))

Spec == Init /\ [][Next]_vars /\ Fairness

------------------------------------------------------------------------------
\* No missed wakeup, as the token's comment says: the token implements the
\* latch, so every cancelled() call returns, only after the cancellation, and
\* whether it started before, during or after it; and of the cancel() calls that
\* race, one reports that it changed the state, and wakes the waiters.
AbstractLatch == INSTANCE Latch WITH
    Setters <- Cancellers,
    set <- cancelled,
    winners <- {c \in Cancellers : canceller[c] \in {"notify", "true"}},
    waiting <- {w \in Waiters : waiter[w] \notin {"idle", "returned"}},
    released <- {w \in Waiters : waiter[w] = "returned"}

ImplementsLatch == AbstractLatch!Spec

==============================================================================
