----------------------------- MODULE MCEndpoint -----------------------------
(***************************************************************************)
(* The goroutines of an endpoint, checked for two things: that what they   *)
(* do to the connections is right in any order (Multiplexer), and that     *)
(* they do not block each other doing it (LockOrder).  Multiplexer takes   *)
(* every critical section as a step, LockOrder none of the data, so        *)
(* nothing passes between them and each is explored by itself: a behaviour *)
(* chooses one of them and leaves the variables of the other alone.        *)
(***************************************************************************)
EXTENDS Multiplexer

CONSTANTS Goroutines, Nobody

VARIABLES todo, holder, part

Locks == INSTANCE LockOrder

lockVars == <<todo, holder>>
allVars == <<vars, lockVars, part>>

MCInit == Init /\ Locks!Init /\ part \in {"routing", "locks"}

OfRouting(A) == part = "routing" /\ A /\ UNCHANGED <<lockVars, part>>

MCNext ==
    \/ OfRouting(Next)
    \/ part = "locks" /\ Locks!Next /\ UNCHANGED <<vars, part>>

\* Goroutines that can go on do; the watchdog of a connection to which nothing
\* comes any more expires; whether anyone dials, accepts, sends or closes is
\* open.
MCFairness ==
    /\ WF_allVars(OfRouting(Reading))
    /\ WF_allVars(OfRouting(\E p \in Packet : Lookup(p)))
    /\ WF_allVars(OfRouting(Tidying))
    /\ WF_allVars(OfRouting(closing # "open" /\ idleTimeoutLoop))
    /\ \A c \in 1..MaxConns : WF_allVars(OfRouting(ConnectionStep(c)))

MCSpec == MCInit /\ [][MCNext]_allVars /\ MCFairness

-----------------------------------------------------------------------------
\* No goroutines of a connection wait for each other's mutexes in a circle,
\* whatever they are doing and however they overlap (LockOrder).
NoWaitCycle == Locks!NoWaitCycle

=============================================================================
