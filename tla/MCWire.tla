------------------------------- MODULE MCWire -------------------------------
(***************************************************************************)
(* Two conversions and their inverses: what has arrived into an ACK frame  *)
(* and back (AckBuilder), and packets into datagrams and back              *)
(* (WireFormat).  Neither reads the other's state: a behaviour chooses one *)
(* of them.                                                                *)
(***************************************************************************)
EXTENDS AckBuilder, WireFormat

VARIABLE part

allVars == <<ackVars, wireVars, part>>

OfAcks(A) == part = "acks" /\ A /\ UNCHANGED <<wireVars, part>>
OfWire(A) == part = "wire" /\ A /\ UNCHANGED <<ackVars, part>>

MCInit == AckInit /\ WireInit /\ part \in {"acks", "wire"}

MCNext == OfAcks(AckNext) \/ OfWire(WireNext)

\* The runtime fires an armed timer and runs its callback.
MCSpec ==
    /\ MCInit /\ [][MCNext]_allVars
    /\ \A t \in Timers : WF_allVars(OfAcks(TimerExpires(t))) /\ WF_allVars(OfAcks(ackTimerFired(t)))

=============================================================================
