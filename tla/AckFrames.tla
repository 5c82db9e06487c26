----------------------------- MODULE AckFrames -----------------------------
(***************************************************************************)
(* What an ACK frame says about the set of packets received: the contract  *)
(* of recvTracker (ack_tracker.go) that the rest of the connection uses.   *)
(***************************************************************************)
EXTENDS Integers, FiniteSets

CONSTANTS
    ackHistory,    \* sequences below the largest that are remembered
    maxAckRanges,  \* ranges a frame carries after the first
    maxGap         \* longest gap a range can describe (a uint8)

Largest(S) == CHOOSE s \in S : \A t \in S : t <= s

\* Whether seq arrives out of order after the packets in S.
OutOfOrder(S, seq) ==
    /\ S # {}
    /\ \/ seq > Largest(S) + 1
       \/ seq < Largest(S) /\ (Largest(S) - seq >= ackHistory \/ seq \notin S)

\* The sequences reported: of those remembered, the runs from the largest
\* down, until a gap too long or one range too many.
Reported(S) ==
    LET remembered == {s \in S : Largest(S) - s < ackHistory}
        bottoms(s) == {t \in remembered : t > s /\ t - 1 \notin remembered}
    IN  {s \in remembered :
            /\ Cardinality(bottoms(s)) <= maxAckRanges
            /\ \A t \in bottoms(s) : \E u \in remembered : u < t /\ t - u <= maxGap + 1}

=============================================================================
