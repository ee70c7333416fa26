-------------------------------- MODULE Latch --------------------------------
(***************************************************************************)
(* What a CancellationToken promises its users: a flag that is set once,   *)
(* by one winner among all who try, is never cleared, and releases         *)
(* everyone who waits for it, those who were already waiting and those who *)
(* come later.  Nothing is said of how a waiter is woken.                  *)
(***************************************************************************)
CONSTANTS Setters, Waiters

VARIABLES set,      \* the flag
          winners,  \* those who were told that they set it
          waiting,  \* the observers inside a wait
          released  \* the observers whose wait has returned

vars == <<set, winners, waiting, released>>

Init == set = FALSE /\ winners = {} /\ waiting = {} /\ released = {}

Set(s) ==
    /\ ~set
    /\ set' = TRUE
    /\ winners' = {s}
    /\ UNCHANGED <<waiting, released>>

Wait(w) ==
    /\ w \notin waiting \cup released
    /\ waiting' = waiting \cup {w}
    /\ UNCHANGED <<set, winners, released>>

Release(w) ==
    /\ set
    /\ w \in waiting
    /\ waiting' = waiting \ {w}
    /\ released' = released \cup {w}
    /\ UNCHANGED <<set, winners>>

Next ==
    \/ \E s \in Setters : Set(s)
    \/ \E w \in Waiters : Wait(w) \/ Release(w)

Spec == Init /\ [][Next]_vars /\ \A w \in Waiters : WF_vars(Release(w))
==============================================================================
