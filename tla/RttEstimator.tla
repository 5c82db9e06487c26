---------------------------- MODULE RttEstimator ----------------------------
(***************************************************************************)
(* The round-trip estimates (updateRtt in congestion.go) and the probe     *)
(* timeout computed from them (pto).                                       *)
(***************************************************************************)
EXTENDS Integers

CONSTANTS
    Samples,        \* what now minus the send time may be; below 0 it is no sample
    AckDelays,      \* what a peer may report
    MaxAckDelay, Granularity, InitialRTT, InitialRTTVar

ASSUME RttAssumption ==
    /\ Samples \subseteq Nat /\ AckDelays \subseteq Nat
    /\ MaxAckDelay \in Nat /\ Granularity \in Nat
    /\ InitialRTT \in Nat /\ InitialRTTVar \in Nat

VARIABLES
    smoothedRtt, rttVar, minRtt, latestRtt, firstRttSample,
    slowest       \* the largest sample so far

rttVars == <<smoothedRtt, rttVar, minRtt, latestRtt, firstRttSample, slowest>>

RttInit ==
    /\ smoothedRtt = InitialRTT /\ rttVar = InitialRTTVar
    /\ minRtt = 0 /\ latestRtt = 0 /\ firstRttSample = TRUE
    /\ slowest = 0

Least(a, b) == IF a < b THEN a ELSE b
Most(a, b) == IF a < b THEN b ELSE a
Abs(n) == IF n < 0 THEN -n ELSE n

\* Mutant: the reported delay may take the sample down to zero.
Adjusted_ToZero(latest, min, delay) == IF latest >= delay THEN latest - delay ELSE latest

\* A delay that would take the sample below the minimum is not credible.
Adjusted(latest, min, delay) == IF latest >= min + delay THEN latest - delay ELSE latest

updateRtt(latest, ackDelay) ==
    /\ firstRttSample' = FALSE
    /\ slowest' = Most(slowest, latest)
    /\ IF firstRttSample
       THEN /\ latestRtt' = latest /\ minRtt' = latest
            /\ smoothedRtt' = latest /\ rttVar' = latest \div 2
       ELSE /\ minRtt' = Least(minRtt, latest)
            /\ latestRtt' = Adjusted(latest, minRtt', Least(ackDelay, MaxAckDelay))
            /\ rttVar' = (3 * rttVar + Abs(smoothedRtt - latestRtt')) \div 4
            /\ smoothedRtt' = (7 * smoothedRtt + latestRtt') \div 8

pto == smoothedRtt + Most(4 * rttVar, Granularity) + MaxAckDelay

RttNext ==
    \E latest \in Samples, ackDelay \in AckDelays : updateRtt(latest, ackDelay)

RttSpec == RttInit /\ [][RttNext]_rttVars

-----------------------------------------------------------------------------
RttTypeOK ==
    /\ smoothedRtt \in Nat /\ rttVar \in Nat /\ minRtt \in Nat /\ latestRtt \in Nat
    /\ firstRttSample \in BOOLEAN /\ slowest \in Nat

\* The estimates stay within the samples (updateRtt), whatever delays the peer
\* reports: never below the smallest, which would fire timers before an answer
\* can come, nor above the largest.
RttWithinSamples ==
    ~firstRttSample =>
        /\ minRtt <= latestRtt /\ latestRtt <= slowest
        /\ minRtt <= smoothedRtt /\ smoothedRtt <= slowest
        /\ rttVar <= slowest

\* A probe timeout leaves time for an answer at the speed of the fastest seen,
\* delayed as long as a peer may (pto).
PtoCoversAck == ~firstRttSample => pto >= minRtt + MaxAckDelay + Granularity

=============================================================================
