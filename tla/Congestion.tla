----------------------------- MODULE Congestion -----------------------------
(***************************************************************************)
(* The congestion window (congestion.go) and those who live by it: the     *)
(* writers that ask it for credit (awaitSendCreditUpTo, sendStreamFrames), *)
(* the resender (flushLost), the inbound goroutine that grows it on every  *)
(* ACK and contracts it on loss, and the loss timer.                       *)
(*                                                                         *)
(* A packet is tracked and booked in one step; LossRecovery has the        *)
(* interleavings of the two.                                               *)
(*                                                                         *)
(* Every packet is one full datagram, MSS bytes.  The pacer may hold a     *)
(* send back at any time; it is modelled in Pacing.  What the float-valued *)
(* CUBIC curve asks for is any of CubicTargets.                            *)
(***************************************************************************)
EXTENDS Integers, FiniteSets, FiniteSetsExt, Functions

CONSTANTS
    Writers, Resender,    \* goroutines in Write; the holder of lostMu in flushLost
    MSS,                  \* MaxDatagramSize
    InitialCwnd, MinCwnd,
    Unlimited,            \* ssthresh before the first loss
    SendBatchMax,
    LossReorderThreshold,
    CubicTargets,         \* windows CUBIC may ask for
    MaxSeq,               \* bound: packets sent
    MaxCwnd               \* bound: window explored

ASSUME WindowAssumption ==
    /\ MSS \in Nat \ {0} /\ MinCwnd \in Nat /\ InitialCwnd \in Nat /\ Unlimited \in Nat
    /\ MSS <= MinCwnd /\ MinCwnd <= InitialCwnd /\ InitialCwnd <= Unlimited
    /\ CubicTargets \subseteq Int
    /\ IsFiniteSet(Writers) /\ Resender \notin Writers /\ SendBatchMax \in Nat \ {0}

Senders == Writers \cup {Resender}
Detectors == {"inbound", "timer"}

VARIABLES
    cwnd, ssthresh, inRecovery, recoveryEndSeq, inflight,   \* CongestionController
    nextSeq, lastSentSeq, largestAcked,                     \* PacketManager
    sent,          \* tracked sequences
    lostQueue,     \* how many lost packets wait to be re-sent
    left,          \* bytes each sender has been admitted for and not booked
    seq,           \* the sequence each has taken and not booked, or NoSeq
    acking,        \* handleAckFrame has yet to detect losses
    lost,          \* what each detector has found and not yet reacted to
    \* what the properties speak of
    cut,           \* nextSeq when the window was last contracted, 0 if never
    answered,      \* a packet numbered since then was acknowledged
    misread,       \* that contraction took a smaller sequence for the last sent
    peak           \* the largest window so far

ccVars == <<cwnd, ssthresh, inRecovery, recoveryEndSeq>>
cutVars == <<cut, answered, misread, peak>>
vars == <<ccVars, inflight, nextSeq, lastSentSeq, largestAcked, sent, lostQueue, left, seq,
          acking, lost, cutVars>>

NoSeq == -1

Init ==
    /\ cwnd = InitialCwnd /\ ssthresh = Unlimited
    /\ inRecovery = FALSE /\ recoveryEndSeq = -1 /\ inflight = 0
    /\ nextSeq = 0 /\ lastSentSeq = -1 /\ largestAcked = -1
    /\ sent = {} /\ lostQueue = 0
    /\ left = [w \in Senders |-> 0] /\ seq = [w \in Senders |-> NoSeq]
    /\ acking = FALSE /\ lost = [d \in Detectors |-> {}]
    /\ cut = 0 /\ answered = TRUE /\ misread = FALSE /\ peak = InitialCwnd

NonNegative(n) == IF n < 0 THEN 0 ELSE n

(***************************************************************************)
(* Senders.                                                                *)
(***************************************************************************)

\* Mutant: what is in flight is left out.
CanSend_Ungated(bytes) == bytes <= cwnd

CanSend(bytes) == inflight + bytes <= cwnd

Available == NonNegative(cwnd - inflight)

\* awaitSendCredit returns true: room for one packet.
awaitSendCredit(w) ==
    /\ w \in Writers /\ left[w] = 0 /\ seq[w] = NoSeq
    /\ CanSend(MSS)
    /\ left' = [left EXCEPT ![w] = MSS]
    /\ UNCHANGED <<ccVars, inflight, nextSeq, lastSentSeq, largestAcked, sent, lostQueue, seq,
                   acking, lost, cutVars>>

\* awaitSendCreditUpTo then takes what the window admits now, in whole chunks,
\* up to the batch that the stream has data for.
awaitSendCreditUpTo(w, chunks) ==
    /\ w \in Writers /\ left[w] = MSS /\ seq[w] = NoSeq
    /\ chunks \in 2..SendBatchMax
    /\ chunks * MSS <= Available
    /\ left' = [left EXCEPT ![w] = chunks * MSS]
    /\ UNCHANGED <<ccVars, inflight, nextSeq, lastSentSeq, largestAcked, sent, lostQueue, seq,
                   acking, lost, cutVars>>

\* prepareDataPacket: NextSequence ...
NextSequence(w) ==
    /\ w \in Writers /\ left[w] > 0 /\ seq[w] = NoSeq /\ nextSeq < MaxSeq
    /\ seq' = [seq EXCEPT ![w] = nextSeq]
    /\ nextSeq' = nextSeq + 1
    /\ UNCHANGED <<ccVars, inflight, lastSentSeq, largestAcked, sent, lostQueue, left, acking,
                   lost, cutVars>>

\* ... SendPacket, OnPacketSent.
prepareDataPacket(w) ==
    /\ w \in Writers /\ seq[w] # NoSeq
    /\ sent' = sent \cup {seq[w]}
    /\ lastSentSeq' = seq[w]
    /\ inflight' = inflight + MSS
    /\ left' = [left EXCEPT ![w] = @ - MSS]
    /\ seq' = [seq EXCEPT ![w] = NoSeq]
    /\ UNCHANGED <<ccVars, nextSeq, largestAcked, lostQueue, acking, lost, cutVars>>

\* flushLost finds the window open for the packet at the head of its queue ...
flushLost ==
    /\ lostQueue > 0 /\ left[Resender] = 0
    /\ CanSend(MSS)
    /\ left' = [left EXCEPT ![Resender] = MSS]
    /\ UNCHANGED <<ccVars, inflight, nextSeq, lastSentSeq, largestAcked, sent, lostQueue, seq,
                   acking, lost, cutVars>>

\* ... and re-sends it under a fresh sequence (Resend, OnPacketSent).
Resend ==
    /\ left[Resender] > 0 /\ nextSeq < MaxSeq
    /\ lostQueue' = lostQueue - 1
    /\ left' = [left EXCEPT ![Resender] = 0]
    /\ sent' = sent \cup {nextSeq}
    /\ lastSentSeq' = nextSeq
    /\ nextSeq' = nextSeq + 1
    /\ inflight' = inflight + MSS
    /\ UNCHANGED <<ccVars, largestAcked, seq, acking, lost, cutVars>>

\* onPTO: the oldest packet goes out again under a fresh sequence, in flight
\* as it was.
onPTO ==
    /\ sent # {} /\ nextSeq < MaxSeq
    /\ sent' = (sent \ {Min(sent)}) \cup {nextSeq}
    /\ lastSentSeq' = nextSeq
    /\ nextSeq' = nextSeq + 1
    /\ UNCHANGED <<ccVars, inflight, largestAcked, lostQueue, left, seq, acking, lost, cutVars>>

(***************************************************************************)
(* The controller.                                                         *)
(***************************************************************************)

cubicUpdate(bytes, target) ==
    LET wTcp == cwnd + (MSS * bytes) \div cwnd
    IN IF target < wTcp THEN wTcp
       ELSE IF cwnd < target THEN cwnd + ((target - cwnd) * MSS) \div cwnd
       ELSE wTcp

\* Mutant: recovery ends with the last packet sent before it.
recovered_AtEnd(largest) == largest >= recoveryEndSeq

recovered(largest) == largest > recoveryEndSeq

\* OnPacketAcked, for a frame whose largest sequence is new.
Grown(bytes, largest, target) ==
    IF inRecovery /\ ~recovered(largest) THEN cwnd
    ELSE IF cwnd < ssthresh THEN cwnd + bytes
    ELSE cubicUpdate(bytes, target)

\* handleAckFrame up to DetectLostPackets: a frame that newly acknowledges S,
\* and whose largest may be a sequence acknowledged before.
OnPacketAcked(S, largest, target) ==
    /\ ~acking /\ S # {}
    /\ largest \in {Max(S), largestAcked} /\ largest >= Max(S)
    /\ acking' = TRUE
    /\ sent' = sent \ S
    /\ largestAcked' = Max({largest, largestAcked})
    /\ LET bytes == MSS * Cardinality(S)
       IN /\ inflight' = NonNegative(inflight - bytes)
          /\ cwnd' = IF largest \in S THEN Grown(bytes, largest, target) ELSE cwnd
    /\ cwnd' <= MaxCwnd
    /\ inRecovery' = (inRecovery /\ ~(largest \in S /\ recovered(largest)))
    /\ answered' = (answered \/ \E s \in S : s >= cut)
    /\ peak' = Max({peak, cwnd'})
    /\ UNCHANGED <<ssthresh, recoveryEndSeq, nextSeq, lastSentSeq, lostQueue, left, seq, lost,
                   cut, misread>>

\* detectLostLocked: by sequence, or by age (L may hold any others).
DetectLostPackets(d, L) ==
    /\ d = "inbound" => acking
    /\ lost[d] = {}
    /\ \A s \in sent : largestAcked - s >= LossReorderThreshold => s \in L
    /\ \A s \in L : s <= largestAcked
    /\ acking' = IF d = "inbound" THEN FALSE ELSE acking
    /\ sent' = sent \ L
    /\ lost' = [lost EXCEPT ![d] = L]
    /\ UNCHANGED <<ccVars, inflight, nextSeq, lastSentSeq, largestAcked, lostQueue, left, seq,
                   cutVars>>

\* int(float64(wMax) * 0.7): a product that is a whole number may come out just
\* below it.
BetaCubic(w) == {(7 * w) \div 10} \cup (IF (7 * w) % 10 = 0 THEN {(7 * w) \div 10 - 1} ELSE {})

\* Mutant: the window falls below the least one.
Contracted_NoFloor(w) == BetaCubic(w)

Contracted(w) == {IF b < MinCwnd THEN MinCwnd ELSE b : b \in BetaCubic(w)}

\* onPacketsLost: OnPacketLost, OnCongestionEvent, perhaps
\* OnPersistentCongestion, and the queue.
OnPacketsLost(d, persistent) ==
    /\ lost[d] # {}
    /\ persistent => Cardinality(lost[d]) > 1
    /\ inflight' = NonNegative(inflight - MSS * Cardinality(lost[d]))
    /\ lostQueue' = lostQueue + Cardinality(lost[d])
    /\ lost' = [lost EXCEPT ![d] = {}]
    /\ \E w \in Contracted(cwnd) :
        /\ ssthresh' = IF inRecovery THEN ssthresh ELSE w
        /\ cwnd' = IF persistent THEN MinCwnd ELSE IF inRecovery THEN cwnd ELSE w
    /\ inRecovery' = ~persistent
    /\ recoveryEndSeq' = IF persistent THEN -1
                         ELSE IF inRecovery THEN recoveryEndSeq ELSE lastSentSeq
    /\ IF persistent \/ ~inRecovery
       THEN /\ cut' = nextSeq
            /\ answered' = persistent
            /\ misread' = (lastSentSeq # nextSeq - 1)
       ELSE UNCHANGED <<cut, answered, misread>>
    /\ UNCHANGED <<nextSeq, lastSentSeq, largestAcked, sent, left, seq, acking, peak>>

Next ==
    \/ \E w \in Writers :
        \/ awaitSendCredit(w) \/ NextSequence(w) \/ prepareDataPacket(w)
        \/ \E chunks \in 2..SendBatchMax : awaitSendCreditUpTo(w, chunks)
    \/ flushLost \/ Resend
    \/ onPTO
    \/ \E S \in SUBSET sent, largest \in sent \cup {largestAcked}, target \in CubicTargets :
        OnPacketAcked(S, largest, target)
    \/ \E d \in Detectors :
        \/ \E L \in SUBSET sent : DetectLostPackets(d, L)
        \/ \E persistent \in BOOLEAN : OnPacketsLost(d, persistent)

Spec == Init /\ [][Next]_vars

-----------------------------------------------------------------------------
TypeOK ==
    /\ cwnd \in 1..MaxCwnd /\ ssthresh \in 0..Unlimited /\ inRecovery \in BOOLEAN
    /\ recoveryEndSeq \in -1..MaxSeq - 1 /\ inflight \in Nat
    /\ nextSeq \in 0..MaxSeq /\ lastSentSeq \in -1..MaxSeq - 1 /\ largestAcked \in -1..MaxSeq - 1
    /\ sent \subseteq 0..nextSeq - 1 /\ lostQueue \in 0..MaxSeq
    /\ left \in [Senders -> 0..SendBatchMax * MSS] /\ seq \in [Senders -> NoSeq..MaxSeq - 1]
    /\ acking \in BOOLEAN /\ lost \in [Detectors -> SUBSET (0..MaxSeq - 1)]
    /\ cut \in 0..MaxSeq /\ answered \in BOOLEAN /\ misread \in BOOLEAN /\ peak \in Nat

\* Whatever is lost, the window and the threshold keep their least value
\* (OnCongestionEvent, OnPersistentCongestion, cubicUpdate), so that a full
\* datagram is admitted when nothing is in flight.
WindowFloor == cwnd >= MinCwnd /\ ssthresh >= MinCwnd

\* Senders that look at the window before others have booked what it admitted
\* to them (awaitSendCreditUpTo, flushLost) overshoot it together, by no more
\* than a batch for every writer: while they hold theirs the resender fills the
\* window.
OvershootBounded ==
    inflight + SumFunction(left) <= peak + Cardinality(Writers) * SendBatchMax * MSS

\* The window is contracted once a round trip (OnCongestionEvent): again only
\* when a packet numbered since the last time has been acknowledged, unless
\* another writer's older number was taken for the last one sent, or the losses
\* are persistent congestion.  An ACK never contracts it.
OncePerRoundTrip ==
    [][cwnd' < cwnd => /\ \E d \in Detectors : lost[d] # lost'[d]
                       /\ answered \/ misread \/ recoveryEndSeq' = -1]_vars

=============================================================================
