----------------------------- MODULE MCTransfer -----------------------------
(***************************************************************************)
(* Transfer on small instances.                                            *)
(***************************************************************************)
EXTENDS Transfer

\* States that differ only in acknowledgements of packets that are no longer
\* tracked have the same future: HandleAckFrame finds nothing in them, and a
\* sequence number is never reused.
View ==
    LET tracked == DOMAIN sentPackets
        news(a) == <<a \cap tracked,
                     IF Largest(a) > largestAcked THEN Largest(a) ELSE largestAcked>>
    IN  <<sendVars, net, {news(a) : a \in {b \in acks : b \cap tracked # {}}}, recvVars>>

=============================================================================
