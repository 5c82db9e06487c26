------------------------------- MODULE MCPath -------------------------------
(***************************************************************************)
(* The two things a connection has to learn of its path, checked side by   *)
(* side: the datagram size it carries (Path) and the peer's address        *)
(* (PathMigration).  In the code they share no state.  The size sees the   *)
(* address only as datagrams that do not arrive, capacity 0 in Path, so    *)
(* each is explored by itself: a behaviour chooses one of them and leaves  *)
(* the variables of the other alone.                                       *)
(***************************************************************************)
EXTENDS Path, PathMigration

VARIABLE part

allVars == <<vars, migrationVars, part>>

MCInit ==
    /\ part \in {"size", "address"}
    /\ Init /\ MigrationInit
    /\ part = "address" => capacity = SafeDatagramSize

OfSize(A) == part = "size" /\ A /\ UNCHANGED <<migrationVars, part>>
OfAddress(A) == part = "address" /\ A /\ UNCHANGED <<vars, part>>

MCNext == OfSize(Next) \/ OfAddress(MigrationNext)

\* Goroutines and timers run; the network loses packets but not all of them.
\* Strong fairness is for what takes a datagram that gets through.
MCFairness ==
    /\ WF_allVars(OfSize(PeerFound))
    /\ WF_allVars(OfSize(SendData))
    /\ WF_allVars(OfSize(SomeAck))
    /\ WF_allVars(OfSize(probeMTU))
    /\ WF_allVars(OfSize(ProbeAnswered))
    /\ SF_allVars(OfSize(OversizeLost))
    /\ WF_allVars(OfAddress(PeerSends))
    /\ WF_allVars(OfAddress(MigrationTimeout))
    /\ WF_allVars(OfAddress(LoseOld))
    /\ SF_allVars(OfAddress(PeerObserved))
    /\ SF_allVars(OfAddress(PendingReached))
    /\ SF_allVars(OfAddress(PendingAnswered))

MCSpec == MCInit /\ [][MCNext]_allVars /\ MCFairness

-----------------------------------------------------------------------------
\* A search always ends (probeMTU, OnProbeAcked, OnProbeLost), whatever is
\* lost and however the path changes.
SearchEnds == []<>(part = "size" => mtu.done)

\* When the path stops changing, the connection stops sending datagrams it
\* does not carry: a size validated on an earlier path is given up (OnDataLost,
\* onPTO), whatever was in flight when the path changed.
SizeFollowsPath == <>[](mtu.current <= capacity)

\* A peer that stops moving is found: the connection comes to send to the
\* address the peer has (observeAddr, completeMigration), whatever arrives late
\* from the ones it had.
FindsPeer == <>[](remoteAddr = at)

=============================================================================
