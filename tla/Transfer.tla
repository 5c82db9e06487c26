------------------------------ MODULE Transfer ------------------------------
(***************************************************************************)
(* One direction of one stream from Stream.Write to Stream.Read over a     *)
(* network that loses, duplicates and reorders: fragmentation, packet      *)
(* tracking, acknowledgement, loss detection, probe timeouts, re-sending   *)
(* under fresh sequence numbers, re-chunking when the path's datagram size *)
(* shrinks, and reassembly on byte offsets.                                *)
(*                                                                         *)
(* Congestion control and pacing decide when the sender may send; here it  *)
(* may at any moment.  A timer may likewise fire at any moment, and MTU    *)
(* discovery may change the datagram size between any two steps, so each   *)
(* step that asks for it finds any of the sizes.  The credit of flow       *)
(* control is the initial window, spent once.                              *)
(*                                                                         *)
(* A byte is named by its position in what the application wrote.          *)
(***************************************************************************)
EXTENDS Integers, Sequences, FiniteSets, AckFrames, Ordering

CONSTANTS
    Window,                \* InitialMaxStreamData: bytes that may be written
    Datagrams,             \* the sizes MTU discovery may validate
    streamChunkOverhead,   \* what Write allows for headers
    HeaderSize,            \* what the headers of a data packet come to
    LossReorderThreshold,
    ptoProbes,
    maxStreamRecvOOO,
    AckElicitingThreshold,
    BufferSizes,           \* the sizes of buffer the application reads into
    MaxSeq                 \* bound: sequence numbers the sender may use

ASSUME SizeAssumption ==
    /\ Window \in Nat
    /\ Datagrams \subseteq Nat
    /\ HeaderSize \in Nat /\ streamChunkOverhead \in Nat
    /\ HeaderSize <= streamChunkOverhead
    /\ \A d \in Datagrams : streamChunkOverhead < d
    /\ MaxSeq \in Nat
    /\ LossReorderThreshold \in Nat \ {0}
    /\ ptoProbes \in Nat \ {0}
    /\ AckElicitingThreshold \in Nat
    /\ maxStreamRecvOOO \in Nat
    /\ BufferSizes \subseteq Nat \ {0}

VARIABLES
    \* The sending stream and its connection.
    BytesWritten,          \* stream offset Write has reached
    closed,                \* Close has sent the FIN
    nextSeq,               \* next sequence number
    sentPackets,           \* tracked frames by current sequence number
    largestAcked,          \* largest sequence acknowledged, -1 if none
    lostQueue,             \* frames declared lost, waiting to be re-sent
    \* The network: everything sent.  A packet may arrive any number of times.
    net,                   \* data packets: [seq, f]
    acks,                  \* ACK frames: the sequences each one reports
    \* The receiving connection and its stream.
    opened,                \* whether the stream exists
    recvBuf,               \* the contiguous bytes, those already read included
    BytesRead,             \* how many of them Read has handed out
    recvOffset,            \* total bytes moved into recvBuf
    recvOOO,               \* bytes that arrived early, by offset
    oooBytes,              \* how many
    dataRecvd,             \* the flow controller's count of bytes received
    finSeen, finReceived, finalSize,
    flowControlViolation,
    eof,                   \* Read has returned io.EOF
    recvd,                 \* data packets received
    ackPending             \* how many of them await the ACK timer

sendVars == <<BytesWritten, closed, nextSeq, sentPackets, largestAcked, lostQueue>>
streamVars == <<opened, recvBuf, BytesRead, recvOffset, recvOOO, oooBytes, dataRecvd,
                finSeen, finReceived, finalSize, flowControlViolation, eof>>
recvVars == <<streamVars, recvd, ackPending>>
vars == <<sendVars, net, acks, recvVars>>

-----------------------------------------------------------------------------
Lesser(a, b) == IF a <= b THEN a ELSE b

chunkSize(d) == d - streamChunkOverhead

pieceSize(d) == d - HeaderSize

\* Consecutive STREAM frames of at most k bytes that carry what f carries.
Pieces(f, k) ==
    LET n == (Len(f.data) + (k - 1)) \div k
    IN  [i \in 1..n |->
            [off  |-> f.off + (i - 1) * k,
             data |-> SubSeq(f.data, (i - 1) * k + 1, Lesser(i * k, Len(f.data))),
             syn  |-> f.syn /\ i = 1,
             fin  |-> f.fin /\ i = n]]

\* Mutant: only the head of a re-chunked packet is re-sent.
fitToPath_HeadOnly(f, d) ==
    IF Len(f.data) <= pieceSize(d) THEN <<f>> ELSE <<Pieces(f, pieceSize(d))[1]>>

\* What is re-sent in place of f when the path carries datagrams of size d:
\* f, or its pieces when the path has shrunk.
fitToPath(f, d) ==
    IF Len(f.data) <= pieceSize(d) THEN <<f>> ELSE Pieces(f, pieceSize(d))

-----------------------------------------------------------------------------
Init ==
    /\ BytesWritten = 0 /\ closed = FALSE
    /\ nextSeq = 0
    /\ sentPackets = <<>>
    /\ largestAcked = -1
    /\ lostQueue = <<>>
    /\ net = {} /\ acks = {}
    /\ opened = FALSE
    /\ recvBuf = <<>> /\ BytesRead = 0 /\ recvOffset = 0
    /\ recvOOO = <<>> /\ oooBytes = 0
    /\ dataRecvd = 0
    /\ finSeen = FALSE /\ finReceived = FALSE /\ finalSize = 0
    /\ flowControlViolation = FALSE
    /\ eof = FALSE
    /\ recvd = {} /\ ackPending = 0

(***************************************************************************)
(* The sender.                                                             *)
(***************************************************************************)

NextSequence(n) == nextSeq + n

\* Number, track and transmit frames, with the packets of outstanding still
\* tracked.
Transmit(frames, outstanding) ==
    LET fresh == nextSeq..(nextSeq + (Len(frames) - 1))
        at(s) == frames[s - nextSeq + 1]
    IN  /\ nextSeq + Len(frames) <= MaxSeq + 1
        /\ nextSeq' = NextSequence(Len(frames))
        /\ sentPackets' = [s \in outstanding \cup fresh |->
                            IF s \in fresh THEN at(s) ELSE sentPackets[s]]
        /\ net' = net \cup {[seq |-> s, f |-> at(s)] : s \in fresh}

\* A batch of n bytes leaves Write in chunks.
Write ==
    /\ ~closed
    /\ \E n \in 1..(Window - BytesWritten), d \in Datagrams :
        /\ Transmit(Pieces([off |-> BytesWritten,
                            data |-> [i \in 1..n |-> BytesWritten + (i - 1)],
                            syn |-> BytesWritten = 0,
                            fin |-> FALSE], chunkSize(d)),
                    DOMAIN sentPackets)
        /\ BytesWritten' = BytesWritten + n
    /\ UNCHANGED <<closed, largestAcked, lostQueue, acks, recvVars>>

Close ==
    /\ ~closed
    /\ closed' = TRUE
    /\ Transmit(<<[off |-> BytesWritten, data |-> <<>>, syn |-> FALSE, fin |-> TRUE]>>,
                DOMAIN sentPackets)
    /\ UNCHANGED <<BytesWritten, largestAcked, lostQueue, acks, recvVars>>

\* The frames tracked under the sequences of the list q.
InOrder(q) == [i \in DOMAIN q |-> sentPackets[q[i]]]

\* detectLostLocked and onPacketsLost, with the packets of outstanding
\* tracked: those too far behind the largest acknowledged are lost, and any of
\* the others behind it may have become old enough.
DetectLost(outstanding, largest) ==
    LET behind == {s \in outstanding : s <= largest}
    IN  \E lost \in SUBSET behind :
        /\ {s \in behind : largest - s >= LossReorderThreshold} \subseteq lost
        /\ sentPackets' = [s \in outstanding \ lost |-> sentPackets[s]]
        /\ \E q \in Sorted(lost) : lostQueue' = lostQueue \o InOrder(q)

HandleAck(a) ==
    /\ a \in acks
    /\ a \cap DOMAIN sentPackets # {}
    /\ largestAcked' = IF Largest(a) > largestAcked THEN Largest(a) ELSE largestAcked
    /\ DetectLost(DOMAIN sentPackets \ a, largestAcked')
    /\ UNCHANGED <<BytesWritten, closed, nextSeq, net, acks, recvVars>>

LossTimer ==
    /\ DetectLost(DOMAIN sentPackets, largestAcked)
    /\ sentPackets' # sentPackets
    /\ UNCHANGED <<BytesWritten, closed, nextSeq, largestAcked, net, acks, recvVars>>

\* One turn of flushLost's loop, when window and pacer admit the packet: the
\* oldest lost frame is re-sent, or gives way to pieces that fit the path.
FlushLost ==
    /\ lostQueue # <<>>
    /\ \E d \in Datagrams :
        LET frames == fitToPath(Head(lostQueue), d)
        IN  \/ /\ Len(frames) = 1
               /\ Transmit(frames, DOMAIN sentPackets)
               /\ lostQueue' = Tail(lostQueue)
            \/ /\ Len(frames) > 1
               /\ lostQueue' = frames \o Tail(lostQueue)
               /\ UNCHANGED <<nextSeq, sentPackets, net>>
    /\ UNCHANGED <<BytesWritten, closed, largestAcked, acks, recvVars>>

OldestUnacked ==
    {s \in DOMAIN sentPackets :
        Cardinality({t \in DOMAIN sentPackets : t < s}) < ptoProbes}

\* One turn of onPTO's loop: a probe takes fresh sequence numbers and the old
\* one is forgotten.
OnPTO ==
    /\ \E s \in OldestUnacked, d \in Datagrams :
        Transmit(fitToPath(sentPackets[s], d), DOMAIN sentPackets \ {s})
    /\ UNCHANGED <<BytesWritten, closed, largestAcked, lostQueue, acks, recvVars>>

(***************************************************************************)
(* The receiver.                                                           *)
(***************************************************************************)

\* Starting at offset o, the offsets at which the release loop finds an early
\* chunk are T, and the first at which it finds none is e.
Released(o, T, e) ==
    LET next(t) == t + Len(recvOOO[t])
    IN  /\ e \notin DOMAIN recvOOO
        /\ o \in T \cup {e}
        /\ \A t \in T : o <= t /\ t < e /\ next(t) \in T \cup {e}
        /\ \A p \in o..(e - 1) : \E t \in T : t <= p /\ p < next(t)
        /\ \A t, u \in T : t < u => next(t) <= u

\* Mutant: a frame whose head was already delivered is appended whole.
appended_Untrimmed(f, T, e) ==
    recvBuf \o f.data \o
        [i \in 1..(e - (f.off + Len(f.data))) |->
            LET p == f.off + Len(f.data) + i
                t == CHOOSE t \in T : t < p /\ p <= t + Len(recvOOO[t])
            IN  recvOOO[t][p - t]]

\* recvBuf with the new tail of f and the early chunks at T appended.
appended(f, T, e) ==
    [i \in 1..e |->
        IF i <= recvOffset THEN recvBuf[i]
        ELSE IF i <= f.off + Len(f.data) THEN f.data[i - f.off]
        ELSE LET t == CHOOSE t \in T : t < i /\ i <= t + Len(recvOOO[t])
             IN  recvOOO[t][i - t]]

\* Mutant: the backstop sits at the window, as it once did.
Overruns_AtWindow(n) == oooBytes + n > maxStreamRecvOOO \div 2

\* More early bytes than any window permits.
Overruns(n) == oooBytes + n > maxStreamRecvOOO

\* placeLocked: where the bytes of f go and how many are newly accepted.  A
\* frame without data has nothing to place, like one already delivered.
placeLocked(f, accepted) ==
    LET end  == f.off + Len(f.data)
        skip == IF f.off < recvOffset THEN recvOffset - f.off ELSE 0
    IN  \/ \* already delivered, or already waiting
           /\ f.data = <<>> \/ end <= recvOffset \/ (f.off > recvOffset /\ f.off \in DOMAIN recvOOO)
           /\ accepted = 0
           /\ UNCHANGED <<recvBuf, recvOffset, recvOOO, oooBytes, flowControlViolation>>
        \/ \* ahead of the gap
           /\ f.data # <<>> /\ f.off > recvOffset /\ f.off \notin DOMAIN recvOOO
           /\ \/ /\ Overruns(Len(f.data))
                 /\ accepted = 0
                 /\ flowControlViolation' = TRUE
                 /\ UNCHANGED <<recvOOO, oooBytes>>
              \/ /\ ~Overruns(Len(f.data))
                 /\ accepted = Len(f.data)
                 /\ recvOOO' = [o \in DOMAIN recvOOO \cup {f.off} |->
                                 IF o = f.off THEN f.data ELSE recvOOO[o]]
                 /\ oooBytes' = oooBytes + Len(f.data)
                 /\ UNCHANGED flowControlViolation
           /\ UNCHANGED <<recvBuf, recvOffset>>
        \/ \* in order: append the new tail, then whatever was waiting for it
           /\ f.off <= recvOffset /\ recvOffset < end
           /\ accepted = Len(f.data) - skip
           /\ \E T \in SUBSET DOMAIN recvOOO :
              \E e \in {end} \cup {t + Len(recvOOO[t]) : t \in T} :
                /\ Released(end, T, e)
                /\ recvOffset' = e
                /\ recvBuf' = appended(f, T, e)
                /\ recvOOO' = [o \in DOMAIN recvOOO \ T |-> recvOOO[o]]
                /\ oooBytes' = oooBytes - (e - end)
           /\ UNCHANGED flowControlViolation

\* Mutant: the FIN ends the stream on sight.
finishes_OnSight(seen, size, offset) == seen

\* finishLocked: the stream is finished when every byte up to its final size
\* has been delivered.
finishes(seen, size, offset) == seen /\ offset >= size

\* DeliverData and DeliverFin.  A stream that has just been failed for
\* overrunning the backstop accounts nothing more.
Deliver(f) ==
    \E accepted \in 0..Len(f.data) :
        /\ placeLocked(f, accepted)
        /\ dataRecvd' = IF flowControlViolation' THEN dataRecvd ELSE dataRecvd + accepted
        /\ finSeen' = (finSeen \/ f.fin)
        /\ finalSize' = IF f.fin THEN f.off + Len(f.data) ELSE finalSize
        /\ finReceived' =
            \/ finReceived
            \/ /\ f.fin \/ (accepted > 0 /\ ~flowControlViolation')
               /\ finishes(finSeen', finalSize', recvOffset')

opens(f) == f.syn \/ f.data # <<>>

\* handleStreamFrame: data or a SYN opens the stream, a bare FIN does not and
\* is dropped when there is no stream to end.
HandleStreamFrame(f) ==
    /\ opened' = (opened \/ opens(f))
    /\ UNCHANGED <<BytesRead, eof>>
    /\ IF opened'
       THEN Deliver(f)
       ELSE UNCHANGED <<recvBuf, recvOffset, recvOOO, oooBytes, dataRecvd, finSeen,
                        finReceived, finalSize, flowControlViolation>>

\* noteReceived: the packet is recorded, and acknowledged now or by the timer.
NoteReceived(p) ==
    LET now == \/ OutOfOrder(recvd, p.seq)
               \/ p.f.syn \/ p.f.fin
               \/ ackPending + 1 >= AckElicitingThreshold
    IN  /\ recvd' = recvd \cup {p.seq}
        /\ ackPending' = IF now THEN 0 ELSE ackPending + 1
        /\ acks' = IF now THEN acks \cup {Reported(recvd')} ELSE acks

HandlePacket(p) ==
    /\ p \in net
    /\ HandleStreamFrame(p.f)
    /\ NoteReceived(p)
    /\ UNCHANGED <<sendVars, net>>

AckTimer ==
    /\ ackPending > 0
    /\ ackPending' = 0
    /\ acks' = acks \cup {Reported(recvd)}
    /\ UNCHANGED <<sendVars, net, streamVars, recvd>>

Read ==
    /\ recvOffset > BytesRead
    /\ \E p \in BufferSizes : BytesRead' = BytesRead + Lesser(p, recvOffset - BytesRead)
    /\ UNCHANGED <<sendVars, net, acks, opened, recvBuf, recvOffset, recvOOO, oooBytes,
                   dataRecvd, finSeen, finReceived, finalSize, flowControlViolation, eof,
                   recvd, ackPending>>

\* Read finds the buffer empty and the stream finished.
ReadEOF ==
    /\ BytesRead = recvOffset
    /\ finReceived
    /\ eof' = TRUE
    /\ UNCHANGED <<sendVars, net, acks, opened, recvBuf, BytesRead, recvOffset, recvOOO,
                   oooBytes, dataRecvd, finSeen, finReceived, finalSize,
                   flowControlViolation, recvd, ackPending>>

-----------------------------------------------------------------------------
Next ==
    \/ Write \/ Close
    \/ \E a \in acks : HandleAck(a)
    \/ LossTimer \/ FlushLost \/ OnPTO
    \/ \E p \in net : HandlePacket(p)
    \/ AckTimer
    \/ Read \/ ReadEOF

Spec == Init /\ [][Next]_vars

-----------------------------------------------------------------------------
(***************************************************************************)
(* Properties.                                                             *)
(***************************************************************************)
Byte == 0..Window

FrameType == [off : Nat, data : Seq(Byte), syn : BOOLEAN, fin : BOOLEAN]

TypeOK ==
    /\ BytesWritten \in 0..Window /\ closed \in BOOLEAN
    /\ nextSeq \in Nat
    /\ DOMAIN sentPackets \subseteq 0..(nextSeq - 1)
    /\ \A s \in DOMAIN sentPackets : sentPackets[s] \in FrameType
    /\ largestAcked \in -1..(nextSeq - 1)
    /\ lostQueue \in Seq(FrameType)
    /\ net \subseteq [seq : 0..(nextSeq - 1), f : FrameType]
    /\ acks \subseteq SUBSET recvd
    /\ opened \in BOOLEAN
    /\ recvBuf \in Seq(Byte)
    /\ recvOffset \in Nat /\ BytesRead \in 0..recvOffset
    /\ DOMAIN recvOOO \subseteq Nat
    /\ \A o \in DOMAIN recvOOO : recvOOO[o] \in Seq(Byte)
    /\ oooBytes \in Nat /\ dataRecvd \in Nat
    /\ finSeen \in BOOLEAN /\ finReceived \in BOOLEAN /\ finalSize \in Nat
    /\ flowControlViolation \in BOOLEAN /\ eof \in BOOLEAN
    /\ recvd \subseteq 0..(nextSeq - 1)
    /\ ackPending \in Nat

\* The receive buffer holds the bytes written, each once and in its place,
\* whatever was lost, duplicated, reordered, re-sent or re-chunked: the stream
\* the Noise layer reads is never corrupted (HandlePacket's guarantee).
InOrderDelivery ==
    /\ Len(recvBuf) = recvOffset
    /\ recvOffset <= BytesWritten
    /\ \A i \in 1..recvOffset : recvBuf[i] = i - 1

Carries(f, b) == f.off <= b /\ b < f.off + Len(f.data)

Outstanding(b) ==
    \/ \E s \in DOMAIN sentPackets : Carries(sentPackets[s], b)
    \/ \E i \in 1..Len(lostQueue) : Carries(lostQueue[i], b)

Held(b) ==
    \/ b < recvOffset
    \/ \E o \in DOMAIN recvOOO : recvOffset < o /\ o <= b /\ b < o + Len(recvOOO[o])

\* A byte the sender no longer tracks is held by the receiver, where the
\* release loop will find it: no acknowledgement, probe, loss or re-chunking
\* lets go of data that has not arrived, unless the backstop failed the stream.
\* In particular the next byte the reader needs is always outstanding, so once
\* nothing is, the whole stream has been delivered.
NoByteAbandoned ==
    ~flowControlViolation =>
        \A b \in 0..(BytesWritten - 1) : Held(b) \/ Outstanding(b)

\* The backstop on the early buffer is not reached by a peer that honours
\* its window: placeLocked's "hitting the backstop now means the peer is
\* misbehaving".
BackstopSparesHonestPeer == ~flowControlViolation

\* A FIN that was acknowledged has been recorded: once nothing is
\* outstanding, a closed stream that carried data has seen its end.
FinNotForgotten ==
    (closed /\ BytesWritten > 0 /\ DOMAIN sentPackets = {} /\ lostQueue = <<>>)
        => finSeen

\* BufferedBytes() <= RecvWindow() for a sender that honours the window.
BufferedWithinRecvWindow == dataRecvd - BytesRead <= Window

Pipe == INSTANCE ByteStream WITH
            pipe <- [i \in 1..BytesWritten |-> i - 1],
            got <- SubSeq(recvBuf, 1, BytesRead)

\* A stream over this machinery is the byte stream its applications expect.
ImplementsByteStream == Pipe!PipeSpec

=============================================================================
