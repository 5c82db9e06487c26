---------------------------- MODULE LossRecovery ----------------------------
(***************************************************************************)
(* Loss recovery of one connection at the grain of its locks: writers, the *)
(* inbound goroutine that handles ACKs, the loss timer, the pacer's timer  *)
(* and PTO callbacks work on the same packets (packet_manager.go,          *)
(* congestion.go, and handleAckFrame .. flushLost in connection.go).       *)
(*                                                                         *)
(* A step is one critical section of pm.mu, cc.mu or lostMu, so a          *)
(* goroutine may be overtaken wherever the code holds no lock.  flushLost  *)
(* is the exception that holds lostMu across steps.  A packet object keeps *)
(* its identity while its sequence number changes.  The size of the        *)
(* congestion window, the pacer's rate and the age of packets are left     *)
(* open: each may be what it likes whenever it is consulted.               *)
(***************************************************************************)
EXTENDS Integers, Sequences, FiniteSets, FiniteSetsExt, Functions, Ordering

CONSTANTS
    Writers,               \* goroutines sending data
    Ptos,                  \* goroutines running onPtoTimeout
    Inbound, Loss, Pacer,  \* inboundLoop, onLossTimer, lostTimer's flushLost
    Nobody,                \* nobody: lostMu is free
    LossReorderThreshold, ptoProbes,
    HeaderSize,            \* bytes of a packet besides its data
    BlackholePTOs,         \* PTOs in a row read as a black hole
    Overlaps,              \* whether a goroutine may start while another is busy
    MaxSeq, MaxChunks,     \* bounds: sequence numbers, chunks of data
    MaxSeqOverlapping      \* bound: sequence numbers when goroutines overlap

\* A packet has a header; writers run neither the timers' callbacks nor the
\* inbound loop.
ASSUME HeaderAssumption == HeaderSize \in Nat \ {0}
ASSUME RolesAssumption == {Inbound, Loss, Pacer} \cap Writers = {}

Procs == Writers \cup Ptos \cup {Inbound, Loss, Pacer}

VARIABLES
    pkts,          \* every SentPacket made: its sequence, size, chunks, IsAcked
    sentPackets,   \* sequence |-> index in pkts of the packet tracked under it
    nextSeq, largestAcked,
    lossTimer,     \* the loss timer is armed
    inflight,
    ptoTimer,      \* "nil", "armed", or "fired" and waiting for cc.mu
    ptoCount,      \* PTOs since the last ACK, counted up to BlackholePTOs
    strayTimers,   \* armed PTO timers that ptoTimer no longer names
    small,         \* the path's datagram size, found larger, has fallen back to the base
    lostQueue, lostTimer, lostMu,
    wire,          \* sequence |-> chunks, for every sequence ever on the wire
    acked,         \* chunks the peer has acknowledged
    chunks,        \* chunks written so far
    pc, hand, num, \* per goroutine: where it is, its packets, its sequence
    overlaps,      \* goroutines overlap in this behaviour
    unbooked       \* in one without: a probe was split, adding nothing to inflight

pmVars == <<pkts, sentPackets, nextSeq, largestAcked, lossTimer>>
ccVars == <<inflight, ptoTimer, ptoCount, strayTimers>>
lostVars == <<lostQueue, lostTimer, lostMu>>
netVars == <<wire, acked, chunks>>
scenario == <<overlaps, unbooked>>
vars == <<pmVars, ccVars, lostVars, netVars, small, pc, hand, num, scenario>>

Without(f, S) == [x \in DOMAIN f \ S |-> f[x]]
With(f, x, y) == [z \in DOMAIN f \cup {x} |-> IF z = x THEN y ELSE f[z]]

Idle == \A p \in Procs : pc[p] = "idle"
MayStart(p) == pc[p] = "idle" /\ (overlaps \/ Idle)
MayNumber == nextSeq < IF overlaps THEN MaxSeqOverlapping ELSE MaxSeq

Bytes(ids) == SumFunction([k \in DOMAIN ids |-> pkts[ids[k]].size])
Full(i) == Cardinality(pkts[i].carries) > 1

NonNegative(n) == IF n < 0 THEN 0 ELSE n

\* The packets tracked under the sequences of the list q.
InOrder(q) == [i \in DOMAIN q |-> sentPackets[q[i]]]

-----------------------------------------------------------------------------
Init ==
    /\ pkts = <<>> /\ sentPackets = <<>>
    /\ nextSeq = 0 /\ largestAcked = -1
    /\ lossTimer = FALSE
    /\ inflight = 0 /\ ptoTimer = "nil" /\ ptoCount = 0 /\ strayTimers = 0
    /\ overlaps \in Overlaps /\ unbooked = FALSE
    /\ small = FALSE
    /\ lostQueue = <<>> /\ lostTimer = FALSE /\ lostMu = Nobody
    /\ wire = <<>> /\ acked = {} /\ chunks = 0
    /\ pc = [p \in Procs |-> "idle"]
    /\ hand = [p \in Procs |-> <<>>]
    /\ num = [p \in Procs |-> 0]

Goto(p, label) == pc' = [pc EXCEPT ![p] = label]

(***************************************************************************)
(* Sending.                                                                *)
(***************************************************************************)

\* NextSequence.  A packet has room for two chunks, or for one once the path
\* has shrunk; a FIN's packet carries the end of the stream and no bytes (bound:
\* only when goroutines do not overlap).
PrepareDataPacket(p) ==
    /\ p \in Writers /\ MayStart(p)
    /\ MayNumber
    /\ \E n \in {1, 2}, isFin \in {FALSE, ~overlaps} :
        /\ isFin => n = 1
        /\ small => n = 1
        /\ chunks + n <= MaxChunks
        /\ pkts' = Append(pkts, [seq |-> nextSeq, isAcked |-> FALSE,
                                 size |-> HeaderSize + (IF isFin THEN 0 ELSE n),
                                 carries |-> (chunks + 1)..(chunks + n)])
        /\ chunks' = chunks + n
    /\ nextSeq' = nextSeq + 1
    /\ hand' = [hand EXCEPT ![p] = <<Len(pkts')>>]
    /\ num' = [num EXCEPT ![p] = nextSeq]
    /\ Goto(p, "register")
    /\ UNCHANGED <<sentPackets, largestAcked, lossTimer, ccVars, lostVars, wire, acked, small, scenario>>

SendPacket(p) ==
    /\ pc[p] = "register"
    /\ sentPackets' = With(sentPackets, num[p], hand[p][1])
    /\ Goto(p, "book")
    /\ UNCHANGED <<pkts, nextSeq, largestAcked, lossTimer, ccVars, lostVars, netVars, small, hand, num, scenario>>

\* OnPacketSent.  Stop does nothing to a timer that has fired.
OnPacketSent(p) ==
    /\ pc[p] = "book"
    /\ inflight' = inflight + Bytes(hand[p])
    /\ ptoTimer' = "armed"
    /\ Goto(p, "transmit")
    /\ UNCHANGED <<pmVars, ptoCount, strayTimers, lostVars, netVars, small, hand, num, scenario>>

\* sendFunc, for a writer and for flushLost, under the sequence assigned.
Transmit(p) ==
    /\ pc[p] = "transmit"
    /\ wire' = With(wire, num[p], pkts[hand[p][1]].carries)
    /\ num' = [num EXCEPT ![p] = 0]
    /\ hand' = [hand EXCEPT ![p] = <<>>]
    /\ Goto(p, IF p \in Writers THEN "idle" ELSE "flush")
    /\ UNCHANGED <<pmVars, ccVars, lostVars, acked, chunks, small, scenario>>

\* Mutant: the packet also stays tracked under its old sequence.
Rekey_Keeps(i) ==
    /\ MayNumber
    /\ sentPackets' = With(sentPackets, nextSeq, i)
    /\ pkts' = [pkts EXCEPT ![i].seq = nextSeq]
    /\ nextSeq' = nextSeq + 1

\* Resend of packet i, tracked or not, when it has not been acknowledged.
Rekey(i) ==
    LET tracked == {s \in DOMAIN sentPackets : s = pkts[i].seq /\ sentPackets[s] = i}
    IN  /\ MayNumber
        /\ sentPackets' = With(Without(sentPackets, tracked), nextSeq, i)
        /\ pkts' = [pkts EXCEPT ![i].seq = nextSeq]
        /\ nextSeq' = nextSeq + 1

(***************************************************************************)
(* Acknowledgement and loss.                                               *)
(***************************************************************************)

\* HandleAckFrame: the peer has received the sequences in got, and perhaps
\* others that are no longer tracked, the largest of them among these.
HandleAckFrame ==
    /\ MayStart(Inbound)
    /\ \E got \in SUBSET (DOMAIN sentPackets \cap DOMAIN wire) \ {{}} :
       \E largest \in {s \in DOMAIN wire : s >= Max(got)}, q \in Sorted(got) :
        /\ pkts' = [i \in DOMAIN pkts |->
                      [pkts[i] EXCEPT !.isAcked = @ \/ \E s \in got : sentPackets[s] = i]]
        /\ sentPackets' = Without(sentPackets, got)
        /\ acked' = acked \cup UNION {pkts[sentPackets[s]].carries : s \in got}
        /\ largestAcked' = Max({largest, largestAcked})
        /\ hand' = [hand EXCEPT ![Inbound] = InOrder(q)]
    /\ Goto(Inbound, "acked")
    /\ UNCHANGED <<nextSeq, lossTimer, ccVars, lostVars, wire, chunks, small, num, scenario>>

OnPacketAcked ==
    /\ pc[Inbound] = "acked"
    /\ inflight' = NonNegative(inflight - Bytes(hand[Inbound]))
    /\ ptoTimer' = IF inflight' > 0 THEN "armed" ELSE "nil"
    /\ ptoCount' = 0
    /\ hand' = [hand EXCEPT ![Inbound] = <<>>]
    /\ Goto(Inbound, "detect")
    /\ UNCHANGED <<pmVars, strayTimers, lostVars, netVars, small, num, scenario>>

LossTimerFires ==
    /\ lossTimer /\ MayStart(Loss)
    /\ lossTimer' = FALSE
    /\ Goto(Loss, "detect")
    /\ UNCHANGED <<pkts, sentPackets, nextSeq, largestAcked, ccVars, lostVars, netVars, small, hand, num, scenario>>

\* DetectLostPackets: everything far enough behind the largest acknowledged,
\* and whatever of the rest behind it is old enough.  The loss timer
\* runs for what is left behind.
DetectLostPackets(p) ==
    /\ pc[p] = "detect"
    /\ LET behind == {s \in DOMAIN sentPackets : s <= largestAcked}
           far == {s \in behind : largestAcked - s >= LossReorderThreshold}
       IN  \E old \in SUBSET (behind \ far) : \E q \in Sorted(far \cup old) :
            /\ hand' = [hand EXCEPT ![p] = InOrder(q)]
            /\ sentPackets' = Without(sentPackets, far \cup old)
            /\ lossTimer' = (behind # far \cup old)
            /\ Goto(p, IF far \cup old # {} THEN "lost"
                       ELSE IF p = Inbound THEN "enter" ELSE "idle")
    /\ UNCHANGED <<pkts, nextSeq, largestAcked, ccVars, lostVars, netVars, small, num, scenario>>

\* Mutant: lost bytes stay in flight.
OnPacketLost_StillInFlight(p) ==
    /\ pc[p] = "lost"
    /\ Goto(p, "queue")
    /\ UNCHANGED <<pmVars, ccVars, lostVars, netVars, small, hand, num, scenario>>

\* onPacketsLost.  Enough full-size packets lost in a row are read as a black
\* hole too (OnDataLost).
OnPacketLost(p) ==
    /\ pc[p] = "lost"
    /\ inflight' = NonNegative(inflight - Bytes(hand[p]))
    /\ small' \in {small, small \/ \E i \in Range(hand[p]) : Full(i)}
    /\ Goto(p, "queue")
    /\ UNCHANGED <<pmVars, ptoTimer, ptoCount, strayTimers, lostVars, netVars, hand, num, scenario>>

\* The end of onPacketsLost, before its call of flushLost.
QueueLost(p) ==
    /\ pc[p] = "queue" /\ lostMu = Nobody
    /\ lostQueue' = lostQueue \o hand[p]
    /\ hand' = [hand EXCEPT ![p] = <<>>]
    /\ Goto(p, "enter")
    /\ UNCHANGED <<pmVars, ccVars, lostTimer, lostMu, netVars, small, num, scenario>>

(***************************************************************************)
(* Re-sending.  handleAckFrame's own call of flushLost, after the one in   *)
(* onPacketsLost, adds nothing to a flush that may stop at any packet and  *)
(* be resumed by the pacer's timer.                                        *)
(***************************************************************************)
PacerFires ==
    /\ lostTimer /\ MayStart(Pacer)
    /\ lostTimer' = FALSE
    /\ Goto(Pacer, "enter")
    /\ UNCHANGED <<pmVars, ccVars, lostQueue, lostMu, netVars, small, hand, num, scenario>>

EnterFlush(p) ==
    /\ pc[p] = "enter" /\ lostMu = Nobody
    /\ lostMu' = p
    /\ lostTimer' = FALSE
    /\ Goto(p, "flush")
    /\ UNCHANGED <<pmVars, ccVars, lostQueue, netVars, small, hand, num, scenario>>

Splits(i) == small /\ Full(i)

\* Mutant: the first piece is all that is kept.
PiecesOf_First(q) ==
    <<[seq |-> 0, isAcked |-> FALSE, size |-> HeaderSize + 1, carries |-> {q[1]}]>>

\* fitToPath: one packet for each chunk of the list q, not yet numbered.
PiecesOf(q) ==
    [k \in DOMAIN q |->
        [seq |-> 0, isAcked |-> FALSE, size |-> HeaderSize + 1, carries |-> {q[k]}]]

\* Mutant: the packet is trimmed where it is tracked.
FitToPath_InPlace(i, q) ==
    /\ pkts' = [pkts EXCEPT ![i].carries = {Min(@)}] \o PiecesOf(q)
    /\ UNCHANGED sentPackets

\* Drop packet i, which carries the chunks q; its pieces (Pieces) take its
\* place with the caller.
FitToPath(i, q) ==
    /\ pkts' = pkts \o PiecesOf(q)
    /\ sentPackets' = Without(sentPackets,
                        {s \in DOMAIN sentPackets : s = pkts[i].seq /\ sentPackets[s] = i})

Pieces(q) == [k \in DOMAIN PiecesOf(q) |-> Len(pkts) + k]

\* One packet of flushLost's loop.
FlushSkip(p) ==
    /\ pc[p] = "flush" /\ lostQueue # <<>>
    /\ pkts[Head(lostQueue)].isAcked
    /\ lostQueue' = Tail(lostQueue)
    /\ UNCHANGED <<pmVars, ccVars, lostTimer, lostMu, netVars, small, pc, hand, num, scenario>>

FlushSplit(p) ==
    /\ pc[p] = "flush" /\ lostQueue # <<>>
    /\ LET i == Head(lostQueue)
       IN  /\ ~pkts[i].isAcked /\ Splits(i)
           /\ \E q \in Sorted(pkts[i].carries) :
                /\ FitToPath(i, q)
                /\ lostQueue' = Pieces(q) \o Tail(lostQueue)
    /\ UNCHANGED <<nextSeq, largestAcked, lossTimer, ccVars, lostTimer, lostMu, netVars, small, pc, hand, num, scenario>>

FlushResend(p) ==
    /\ pc[p] = "flush" /\ lostQueue # <<>>
    /\ LET i == Head(lostQueue)
       IN  /\ ~pkts[i].isAcked /\ ~Splits(i)
           /\ Rekey(i)
           /\ hand' = [hand EXCEPT ![p] = <<i>>]
    /\ lostQueue' = Tail(lostQueue)
    /\ num' = [num EXCEPT ![p] = nextSeq]
    /\ Goto(p, "book")
    /\ UNCHANGED <<largestAcked, lossTimer, ccVars, lostTimer, lostMu, netVars, small, scenario>>

\* The queue is empty; or the pacer says wait and sets its timer; or the
\* window is full, which it cannot be with nothing in flight.
FlushStop(p) ==
    /\ pc[p] = "flush"
    /\ \/ lostQueue = <<>> /\ UNCHANGED lostTimer
       \/ lostQueue # <<>> /\ inflight > 0 /\ UNCHANGED lostTimer
       \/ lostQueue # <<>> /\ lostTimer' = TRUE
    /\ lostMu' = Nobody
    /\ Goto(p, "idle")
    /\ UNCHANGED <<pmVars, ccVars, lostQueue, netVars, small, hand, num, scenario>>

(***************************************************************************)
(* The probe timeout.                                                      *)
(***************************************************************************)
PtoFires(p) ==
    /\ p \in Ptos /\ MayStart(p)
    /\ \/ ptoTimer = "armed" /\ ptoTimer' = "fired" /\ UNCHANGED strayTimers
       \/ strayTimers > 0 /\ strayTimers' = strayTimers - 1 /\ UNCHANGED ptoTimer
    /\ Goto(p, "expired")
    /\ UNCHANGED <<pmVars, inflight, ptoCount, lostVars, netVars, small, hand, num, scenario>>

\* onPtoTimeout's first critical section: a timer armed since then is
\* forgotten, though it still runs.
PtoExpired(p) ==
    /\ pc[p] = "expired"
    /\ strayTimers' = strayTimers + (IF ptoTimer = "armed" THEN 1 ELSE 0)
    /\ ptoTimer' = "nil"
    /\ ptoCount' = Min({ptoCount + 1, BlackholePTOs})
    /\ Goto(p, "pick")
    /\ UNCHANGED <<pmVars, inflight, lostVars, netVars, small, hand, num, scenario>>

\* onPTO: enough PTOs in a row are read as a black hole; the oldest
\* outstanding packets are the probes.
PickProbes(p) ==
    /\ pc[p] = "pick"
    /\ small' = (small \/ ptoCount >= BlackholePTOs)
    /\ LET oldest == {s \in DOMAIN sentPackets :
                        Cardinality({t \in DOMAIN sentPackets : t < s}) < ptoProbes}
       IN  \E q \in Sorted(oldest) : hand' = [hand EXCEPT ![p] = InOrder(q)]
    /\ Goto(p, "probe")
    /\ UNCHANGED <<pmVars, ccVars, lostVars, netVars, num, scenario>>

ProbeSplit(p) ==
    /\ pc[p] = "probe" /\ hand[p] # <<>>
    /\ LET i == Head(hand[p])
       IN  /\ Splits(i)
           /\ \E q \in Sorted(pkts[i].carries) :
                /\ FitToPath(i, q)
                /\ hand' = [hand EXCEPT ![p] = Pieces(q) \o Tail(@)]
    /\ unbooked' = ~overlaps
    /\ UNCHANGED <<nextSeq, largestAcked, lossTimer, ccVars, lostVars, netVars, small, pc, num, overlaps>>

\* Resend and retransmitPacket: the bytes are taken to be in flight already.
ProbeResend(p) ==
    /\ pc[p] = "probe" /\ hand[p] # <<>>
    /\ LET i == Head(hand[p])
       IN  /\ ~Splits(i)
           /\ \/ pkts[i].isAcked /\ UNCHANGED <<pkts, sentPackets, nextSeq, wire>>
              \/ /\ ~pkts[i].isAcked /\ Rekey(i)
                 /\ wire' = With(wire, nextSeq, pkts[i].carries)
    /\ hand' = [hand EXCEPT ![p] = Tail(@)]
    /\ UNCHANGED <<largestAcked, lossTimer, ccVars, lostVars, acked, chunks, small, pc, num, scenario>>

\* Mutant: the timer is left to the next send.
RearmPto_Never(p) ==
    /\ pc[p] = "probe" /\ hand[p] = <<>>
    /\ Goto(p, "idle")
    /\ UNCHANGED <<pmVars, ccVars, lostVars, netVars, small, hand, num, scenario>>

\* onPtoTimeout's last critical section.
RearmPto(p) ==
    /\ pc[p] = "probe" /\ hand[p] = <<>>
    /\ ptoTimer' = IF inflight > 0 /\ ptoTimer = "nil" THEN "armed" ELSE ptoTimer
    /\ Goto(p, "idle")
    /\ UNCHANGED <<pmVars, inflight, ptoCount, strayTimers, lostVars, netVars, small, hand, num, scenario>>

-----------------------------------------------------------------------------
Next ==
    \/ HandleAckFrame \/ OnPacketAcked \/ LossTimerFires \/ PacerFires
    \/ \E p \in Procs :
        \/ PrepareDataPacket(p) \/ SendPacket(p) \/ OnPacketSent(p) \/ Transmit(p)
        \/ DetectLostPackets(p) \/ OnPacketLost(p) \/ QueueLost(p)
        \/ EnterFlush(p) \/ FlushSkip(p) \/ FlushSplit(p) \/ FlushResend(p) \/ FlushStop(p)
        \/ PtoFires(p) \/ PtoExpired(p) \/ PickProbes(p)
        \/ ProbeSplit(p) \/ ProbeResend(p) \/ RearmPto(p)

Spec == Init /\ [][Next]_vars

-----------------------------------------------------------------------------
(***************************************************************************)
(* Properties.                                                             *)
(***************************************************************************)
TypeOK ==
    /\ \A i \in DOMAIN pkts :
        /\ pkts[i].seq \in 0..MaxSeq /\ pkts[i].size \in Nat
        /\ pkts[i].isAcked \in BOOLEAN /\ pkts[i].carries \subseteq 1..chunks
    /\ DOMAIN sentPackets \subseteq 0..(nextSeq - 1)
    /\ \A s \in DOMAIN sentPackets : sentPackets[s] \in DOMAIN pkts
    /\ largestAcked \in -1..(nextSeq - 1)
    /\ inflight \in Nat /\ ptoCount \in 0..BlackholePTOs /\ strayTimers \in Nat
    /\ lossTimer \in BOOLEAN /\ lostTimer \in BOOLEAN /\ small \in BOOLEAN
    /\ ptoTimer \in {"nil", "armed", "fired"}
    /\ lostMu \in Procs \cup {Nobody}
    /\ DOMAIN wire \subseteq 0..(nextSeq - 1)

\* Every packet tracked is tracked once, under the sequence it was last sent
\* under, and is not yet acknowledged, though the ACK path, loss detection, a
\* flush and a PTO may all hold it when it is re-keyed.
TrackedOnce ==
    /\ \A s \in DOMAIN sentPackets :
        pkts[sentPackets[s]].seq = s /\ ~pkts[sentPackets[s]].isAcked
    /\ \A s, t \in DOMAIN sentPackets : sentPackets[s] = sentPackets[t] => s = t

\* An ACK frees what went out under the sequence it names.
AckFreesWhatItNames ==
    \A s \in DOMAIN sentPackets \cap DOMAIN wire : wire[s] = pkts[sentPackets[s]].carries

\* Data that is not acknowledged is in a packet somebody will act on: tracked,
\* queued for re-sending, or in a goroutine's hands.
Live == {sentPackets[s] : s \in DOMAIN sentPackets} \cup Range(lostQueue)
           \cup UNION {Range(hand[p]) : p \in Procs}

DataHeld ==
    \A c \in (1..chunks) \ acked : \E i \in Live : c \in pkts[i].carries /\ ~pkts[i].isAcked

\* With no goroutine at work, inflight is the size of what is outstanding, what
\* Resend's comment promises of probes and of lost packets, as long as none was
\* overtaken and no probe was split.
InflightExact ==
    Idle /\ ~overlaps /\ ~unbooked =>
        inflight = SumFunction([s \in DOMAIN sentPackets |-> pkts[sentPackets[s]].size])

\* With no goroutine at work and data unacknowledged, some timer will fire:
\* a path that never answers is not ended "by the probing stopping".
ProbingGoesOn ==
    Idle /\ (sentPackets # <<>> \/ lostQueue # <<>>) =>
        ptoTimer = "armed" \/ strayTimers > 0 \/ lossTimer \/ lostTimer

\* Probing goes on (OnPacketAcked, RearmPto) wherever the count is exact.
ProbingFollowsCount == ~overlaps /\ ~unbooked => ProbingGoesOn

=============================================================================
