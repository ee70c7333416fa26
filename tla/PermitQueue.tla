----------------------------- MODULE PermitQueue ------------------------------
(***************************************************************************)
(* What the server promises about its permits: at most so many clients own *)
(* one, no more than so many wait for one, and they get theirs in the      *)
(* order in which they came, before anyone who comes later.  Nothing is    *)
(* said here of a counter that free permits are taken from, or of one that *)
(* bounds the queue.                                                       *)
(***************************************************************************)
EXTENDS Naturals, Sequences, FiniteSets

CONSTANTS
    Clients,  \* who may ask for a permit
    Permits,  \* how many there are
    Places    \* how many may wait

VARIABLES
    owners,  \* the clients that own a permit, or were given one and do not know it yet
    seated,  \* the clients in the queue, until they are told
    line     \* those of them that wait for a permit, first come first

vars == <<owners, seated, line>>

Init == owners = {} /\ seated = {} /\ line = <<>>

Free == Cardinality(owners) < Permits

\* A client takes a free permit, at once or from its place in the queue; nobody
\* waits for it.
Take(c) ==
    /\ c \notin owners
    /\ Free /\ line = <<>>
    /\ owners' = owners \cup {c}
    /\ seated' = seated \ {c}
    /\ UNCHANGED line

\* A client that owns nothing gets a place.
Sit(c) ==
    /\ c \notin owners \cup seated
    /\ Cardinality(seated) < Places
    /\ seated' = seated \cup {c}
    /\ UNCHANGED <<owners, line>>

\* It waits, since no permit is free.
Join(c) ==
    /\ c \in seated \ owners
    /\ \A i \in 1..Len(line) : line[i] # c
    /\ ~Free
    /\ line' = Append(line, c)
    /\ UNCHANGED <<owners, seated>>

\* It learns that it was given a permit.
Rise(c) ==
    /\ c \in seated \cap owners
    /\ seated' = seated \ {c}
    /\ UNCHANGED <<owners, line>>

\* It goes away without one, wherever it stood.
GiveUp(c) ==
    /\ c \in seated \ owners
    /\ seated' = seated \ {c}
    /\ \/ (\A i \in 1..Len(line) : line[i] # c) /\ UNCHANGED line
       \/ \E i \in 1..Len(line) :
             line[i] = c /\ line' = SubSeq(line, 1, i - 1) \o SubSeq(line, i + 1, Len(line))
    /\ UNCHANGED owners

\* A permit comes back, and the first of the line gets it.
Return(c) ==
    /\ c \in owners
    /\ seated' = seated \ {c}
    /\ IF line = <<>>
       THEN owners' = owners \ {c} /\ UNCHANGED line
       ELSE owners' = (owners \ {c}) \cup {Head(line)} /\ line' = Tail(line)

Next ==
    \E c \in Clients : Take(c) \/ Sit(c) \/ Join(c) \/ Rise(c) \/ GiveUp(c) \/ Return(c)

Spec == Init /\ [][Next]_vars
==============================================================================
