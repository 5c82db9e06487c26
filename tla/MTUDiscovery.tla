---------------------------- MODULE MTUDiscovery ----------------------------
(***************************************************************************)
(* Path-MTU discovery (pmtud.go).  An MTUDiscovery object is a record, its *)
(* methods operators on it; each runs under the object's own lock.         *)
(***************************************************************************)
EXTENDS Integers

CONSTANTS
    SafeDatagramSize, MaxDatagramSize,
    MTUSearchStep,      \* the search ends when the bounds are this close
    MTUProbeTries,      \* losses that rule a size out
    BlackholePackets    \* full-size losses in a row that are a black hole

ASSUME SearchAssumption ==
    /\ SafeDatagramSize \in Nat /\ MaxDatagramSize \in Nat
    /\ SafeDatagramSize < MaxDatagramSize
    /\ MTUSearchStep \in Nat \ {0}
    /\ MTUProbeTries \in Nat \ {0}
    /\ BlackholePackets \in Nat \ {0}

\* retryAt: there was no black hole, its wait has not passed, or it has.
RetryAt == {"none", "waiting", "due"}

Discovery ==
    [current   : Int,      \* validated: what streams send
     probe     : Int,      \* the size under test, 0 when the search is over
     lowFailed : Int,      \* the smallest size ruled out
     tries     : Int,      \* losses of probe so far
     inFlight  : BOOLEAN,
     done      : BOOLEAN,
     retryAt   : RetryAt,
     largeLost : Int]      \* consecutive losses of full-size data

restartLocked(m) ==
    [m EXCEPT !.probe = MaxDatagramSize, !.lowFailed = MaxDatagramSize + 1,
              !.tries = 0, !.inFlight = FALSE, !.done = FALSE,
              !.retryAt = "none", !.largeLost = 0]

NewMTUDiscovery ==
    restartLocked([current |-> SafeDatagramSize, probe |-> 0, lowFailed |-> 0,
                   tries |-> 0, inFlight |-> FALSE, done |-> FALSE,
                   retryAt |-> "none", largeLost |-> 0])

\* NextProbe has something to send, and what the discovery is then.
Restarted(m) == IF m.retryAt = "due" THEN restartLocked(m) ELSE m

WantsProbe(m) ==
    m.retryAt # "waiting" /\ ~Restarted(m).done /\ ~Restarted(m).inFlight

NextProbe(m) == [Restarted(m) EXCEPT !.inFlight = TRUE]

\* Mutant: the next size is halfway to the largest datagram, ruled out or not.
nextLocked_Forgets(m) ==
    IF m.lowFailed - m.current <= MTUSearchStep
    THEN [m EXCEPT !.done = TRUE, !.probe = 0]
    ELSE [m EXCEPT !.probe = (m.current + (MaxDatagramSize + 1)) \div 2]

\* Mutant: the search ends one size early.
nextLocked_Early(m) ==
    IF m.lowFailed - m.current <= MTUSearchStep + 1
    THEN [m EXCEPT !.done = TRUE, !.probe = 0]
    ELSE [m EXCEPT !.probe = (m.current + m.lowFailed) \div 2]

nextLocked(m) ==
    IF m.lowFailed - m.current <= MTUSearchStep
    THEN [m EXCEPT !.done = TRUE, !.probe = 0]
    ELSE [m EXCEPT !.probe = (m.current + m.lowFailed) \div 2]

OnProbeAcked(m, size) ==
    IF m.retryAt # "none" THEN [m EXCEPT !.inFlight = FALSE]
    ELSE nextLocked([m EXCEPT !.inFlight = FALSE, !.tries = 0,
                              !.current = IF size > @ THEN size ELSE @])

\* Mutant: a lost probe stays in flight.
OnProbeLost_InFlight(m, size) ==
    IF m.retryAt # "none" THEN m
    ELSE IF m.tries + 1 < MTUProbeTries THEN [m EXCEPT !.tries = @ + 1]
    ELSE nextLocked([m EXCEPT !.tries = 0,
                              !.lowFailed = IF size < @ THEN size ELSE @])

OnProbeLost(m, size) ==
    IF m.retryAt # "none" THEN [m EXCEPT !.inFlight = FALSE]
    ELSE IF m.tries + 1 < MTUProbeTries THEN [m EXCEPT !.inFlight = FALSE, !.tries = @ + 1]
    ELSE nextLocked([m EXCEPT !.inFlight = FALSE, !.tries = 0,
                              !.lowFailed = IF size < @ THEN size ELSE @])

OnDataAcked(m, size) ==
    IF size > SafeDatagramSize THEN [m EXCEPT !.largeLost = 0] ELSE m

Blackhole(m) ==
    IF m.current <= SafeDatagramSize THEN m
    ELSE [m EXCEPT !.current = SafeDatagramSize, !.probe = 0, !.done = TRUE,
                   !.inFlight = FALSE, !.largeLost = 0, !.retryAt = "waiting"]

\* Mutant: lost data never counts as a black hole.
OnDataLost_Congestion(m, size) == m

OnDataLost(m, size) ==
    IF m.current <= SafeDatagramSize \/ size <= SafeDatagramSize THEN m
    ELSE IF m.largeLost + 1 >= BlackholePackets
    THEN Blackhole([m EXCEPT !.largeLost = @ + 1])
    ELSE [m EXCEPT !.largeLost = @ + 1]

=============================================================================
