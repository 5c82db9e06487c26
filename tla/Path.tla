-------------------------------- MODULE Path --------------------------------
(***************************************************************************)
(* The datagram size of a connection on a path that changes: path-MTU      *)
(* discovery (MTUDiscovery) driven by acknowledgements, loss detection and *)
(* probe timeouts (handleAckFrame, onPacketsLost, onPTO, probeMTU).        *)
(*                                                                         *)
(* What is in flight is abstracted to what discovery sees of it: the       *)
(* probes, and the sizes above the base at which data is outstanding.      *)
(***************************************************************************)
EXTENDS MTUDiscovery, FiniteSets, Sequences

CONSTANTS
    Capacities,       \* datagram sizes a path may carry
    BlackholePTOs,    \* probe timeouts in a row that are a black hole
    MaxProbes,        \* bound: probes outstanding at once
    MaxChanges        \* bound: times the path changes

VARIABLES
    capacity,     \* what the path carries; 0 while the peer is not where we send
    changes,      \* how often it has changed
    mtu,          \* the connection's MTUDiscovery
    probes,       \* outstanding probe packets: [size, crossed]
    large,        \* sizes above the base at which data is outstanding
    ackedLarge,   \* the last ACK acknowledged data above the base
    ptoCount,     \* probe timeouts since the last ACK, up to BlackholePTOs
    handling,     \* handleAckFrame has yet to call probeMTU
    late,         \* the search restarted with a probe of the last one outstanding
    steady        \* since it started the path is the same and no probe that
                  \* the path carries was lost

pathVars == <<capacity, changes>>
vars == <<pathVars, mtu, probes, large, ackedLarge, ptoCount, handling, late, steady>>

Init ==
    /\ capacity \in Capacities /\ changes = 0
    /\ mtu = NewMTUDiscovery
    /\ probes = <<>> /\ large = {} /\ ackedLarge = FALSE /\ ptoCount = 0
    /\ handling = FALSE /\ late = FALSE /\ steady = TRUE

Crosses(size) == size <= capacity

\* The packet manager's list without its i-th packet.
DropAt(s, i) == SubSeq(s, 1, i - 1) \o SubSeq(s, i + 1, Len(s))

\* A stream sends a full datagram (Write, of MaxDatagram bytes).
SendData ==
    /\ mtu.current > SafeDatagramSize
    /\ large' = large \cup {mtu.current}
    /\ UNCHANGED <<pathVars, mtu, probes, ackedLarge, ptoCount, handling, late,
                   steady>>

\* handleAckFrame as far as it concerns the size: a frame that acknowledges at
\* most one probe (P, its index) and data of at most one size above the base
\* (D), or only small packets.  probeMTU is the handler's last call.
AckFrame(P, D) ==
    /\ ~handling
    /\ \A i \in P : probes[i].crossed
    /\ \A size \in D : Crosses(size)
    /\ LET m == IF P = {} THEN mtu
                ELSE OnProbeAcked(mtu, probes[CHOOSE i \in P : TRUE].size)
       IN mtu' = IF D = {} THEN m ELSE OnDataAcked(m, CHOOSE size \in D : TRUE)
    /\ probes' = IF P = {} THEN probes ELSE DropAt(probes, CHOOSE i \in P : TRUE)
    /\ large' = large \ D
    /\ ackedLarge' = (D # {})
    /\ ptoCount' = 0
    /\ handling' = TRUE
    /\ UNCHANGED <<pathVars, late, steady>>

\* NextProbe, and the packet that carries the probe.
probeMTU ==
    /\ handling
    /\ handling' = FALSE
    /\ IF WantsProbe(mtu) /\ Len(probes) < MaxProbes
       THEN /\ mtu' = NextProbe(mtu)
            /\ probes' = Append(probes, [size |-> mtu'.probe, crossed |-> Crosses(mtu'.probe)])
            /\ late' = IF mtu.retryAt = "due" THEN probes # <<>> ELSE late
            /\ steady' = IF mtu.retryAt = "due" THEN probes = <<>> /\ capacity # 0 ELSE steady
       ELSE UNCHANGED <<mtu, probes, late, steady>>
    /\ UNCHANGED <<pathVars, large, ackedLarge, ptoCount>>

\* onPacketsLost for a probe.
ProbeLost(i) ==
    /\ mtu' = OnProbeLost(mtu, probes[i].size)
    /\ probes' = DropAt(probes, i)
    /\ steady' = (steady /\ ~probes[i].crossed)
    /\ UNCHANGED <<pathVars, large, ackedLarge, ptoCount, handling, late>>

\* Outstanding data above the size m sends: still tracked at that size, or
\* re-chunked (fitToPath).
Refitted(m) == {large, {size \in large : size <= m.current}}

\* onPacketsLost for a data packet above the base.
DataLost(size) ==
    /\ mtu' = IF ackedLarge THEN mtu ELSE OnDataLost(mtu, size)
    /\ large' \in Refitted(mtu')
    /\ UNCHANGED <<pathVars, probes, ackedLarge, ptoCount, handling, late, steady>>

\* A probe timeout: onPtoTimeout counts it, onPTO looks at the count.
onPTO ==
    /\ ptoCount' = IF ptoCount < BlackholePTOs THEN ptoCount + 1 ELSE ptoCount
    /\ mtu' = IF ptoCount' >= BlackholePTOs THEN Blackhole(mtu) ELSE mtu
    /\ large' \in Refitted(mtu')
    /\ UNCHANGED <<pathVars, probes, ackedLarge, handling, late, steady>>

\* BlackholeRetry passes.
RetryElapses ==
    /\ mtu.retryAt = "waiting"
    /\ mtu' = [mtu EXCEPT !.retryAt = "due"]
    /\ UNCHANGED <<pathVars, probes, large, ackedLarge, ptoCount, handling, late,
                   steady>>

\* The path changes under the connection (a tunnel, a handover), or the peer
\* has left for an address that the connection has yet to learn of.
PathChanges(size) ==
    /\ changes < MaxChanges /\ size # capacity
    /\ size = 0 => changes + 1 < MaxChanges
    /\ capacity' = size
    /\ changes' = changes + 1
    /\ steady' = FALSE
    /\ UNCHANGED <<mtu, probes, large, ackedLarge, ptoCount, handling, late>>

Next ==
    \/ SendData
    \/ \E P \in SUBSET DOMAIN probes, D \in SUBSET large :
            Cardinality(P) <= 1 /\ Cardinality(D) <= 1 /\ AckFrame(P, D)
    \/ probeMTU
    \/ \E i \in DOMAIN probes : ProbeLost(i)
    \/ \E size \in large : DataLost(size)
    \/ onPTO
    \/ RetryElapses
    \/ \E size \in Capacities \cup {0} : PathChanges(size)

Spec == Init /\ [][Next]_vars

-----------------------------------------------------------------------------
(***************************************************************************)
(* Steps that are fair, in MCPath.                                         *)
(***************************************************************************)

\* The connection finds a peer that moved (PathMigration).
PeerFound == capacity = 0 /\ \E size \in Capacities : PathChanges(size)

\* ACKs keep coming: the code acknowledges whatever arrives.
SomeAck ==
    \E P \in SUBSET DOMAIN probes, D \in SUBSET large :
        Cardinality(P) <= 1 /\ Cardinality(D) <= 1 /\ AckFrame(P, D)

\* The oldest probe is acknowledged or declared lost.
ProbeAnswered ==
    probes # <<>> /\ (ProbeLost(1) \/ (probes[1].crossed /\ AckFrame({1}, {})))

\* Data the path does not carry, sent again and again, is declared lost after
\* an ACK that acknowledged none above the base.
OversizeLost == ~ackedLarge /\ \E size \in large : ~Crosses(size) /\ DataLost(size)

-----------------------------------------------------------------------------
TypeOK ==
    /\ capacity \in Capacities \cup {0} /\ changes \in 0..MaxChanges
    /\ mtu \in [current : SafeDatagramSize..MaxDatagramSize, probe : 0..MaxDatagramSize,
                lowFailed : SafeDatagramSize..MaxDatagramSize + 1, tries : 0..MTUProbeTries - 1,
                inFlight : BOOLEAN, done : BOOLEAN, retryAt : RetryAt,
                largeLost : 0..BlackholePackets - 1]
    /\ probes \in Seq([size : SafeDatagramSize..MaxDatagramSize, crossed : BOOLEAN])
    /\ Len(probes) <= MaxProbes
    /\ large \subseteq SafeDatagramSize + 1..MaxDatagramSize
    /\ ackedLarge \in BOOLEAN /\ handling \in BOOLEAN
    /\ late \in BOOLEAN /\ steady \in BOOLEAN
    /\ ptoCount \in 0..BlackholePTOs

\* A search that no probe of an earlier search can disturb (probeMTU,
\* OnProbeAcked and OnProbeLost since the last restart) closes in: the size in
\* use is below the smallest size ruled out, the size under test is between
\* them, and the one outstanding probe has that size.
SearchNarrows ==
    ~late /\ ~mtu.done =>
        /\ mtu.current < mtu.probe /\ mtu.probe < mtu.lowFailed
        /\ Len(probes) <= 1
        /\ mtu.inFlight => Len(probes) = 1
        /\ \A i \in DOMAIN probes : probes[i].size = mtu.probe

\* The search never waits for a probe that nothing tracks: while one is in
\* flight, a probe is outstanding whose ACK or loss goes on with it.
InFlightTracked == mtu.inFlight => probes # <<>>

\* What the search finds, on a path that stays as it is and loses no probe it
\* could carry: a size it carries, with none larger by MTUSearchStep.
SearchFinds ==
    steady /\ mtu.done /\ mtu.retryAt = "none" =>
        /\ Crosses(mtu.current)
        /\ capacity - mtu.current < MTUSearchStep

=============================================================================
