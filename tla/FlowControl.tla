----------------------------- MODULE FlowControl -----------------------------
(***************************************************************************)
(* Stream flow control with absolute offsets (flow_control.go), together   *)
(* with the code that drives it: the credit loop of Stream.Write, the      *)
(* window trigger of Stream.Read, and the WINDOW_UPDATE and                *)
(* STREAM_DATA_BLOCKED handlers of Connection.handleFrame.                 *)
(*                                                                         *)
(* One direction of one stream.  Writers are goroutines inside Write on    *)
(* the sending stream, Readers goroutines inside Read on the receiving     *)
(* one; a step is what one of them does between taking and releasing s.mu. *)
(* Control frames ride unnumbered packets that are never re-sent: they can *)
(* be lost, duplicated and reordered.  Data is carried by the loss         *)
(* recovery of module Transfer, so here it only arrives late and in any    *)
(* order.                                                                  *)
(***************************************************************************)
EXTENDS Integers, FiniteSets

CONSTANTS
    Writers,               \* goroutines calling Write on the sending stream
    Readers,               \* goroutines calling Read on the receiving stream
    Deadlined,             \* the writers that have set a write deadline
    InitialMaxStreamData,  \* both ends start from this limit and window
    MaxStreamRecvWindow,   \* cap of the auto-tuned receive window
    windowOffsetModulus,   \* 2^32 in the code: the width of the wire field
    ChunkSize,             \* stream bytes one packet carries
    sendBatchMax,          \* chunks one batch carries
    MaxLag,                \* how far behind the limit a delayed update may be
    MaxBytes               \* bound: bytes the application ever writes

ASSUME WindowAssumption ==
    /\ InitialMaxStreamData \in Nat \ {0}
    /\ MaxStreamRecvWindow \in Nat
    /\ InitialMaxStreamData <= MaxStreamRecvWindow
    /\ ChunkSize \in Nat \ {0}
    /\ sendBatchMax \in Nat \ {0}
    /\ MaxBytes \in Nat

\* The margin reconstructWindowOffset relies on: neither a window nor the
\* delay of a control packet spans half the modulus.
ASSUME ModulusAssumption ==
    /\ windowOffsetModulus \in Nat
    /\ MaxLag \in Nat
    /\ 2 * MaxStreamRecvWindow < windowOffsetModulus
    /\ 2 * MaxLag < windowOffsetModulus

ASSUME GoroutineAssumption == Deadlined \subseteq Writers

VARIABLES
    maxStreamData,   \* sender: absolute limit granted by the peer
    dataSent,        \* sender: cumulative bytes sent
    dataRecvd,       \* receiver: cumulative bytes received
    readable,        \* receiver: length of recvBuf, the contiguous unread bytes
    dataConsumed,    \* receiver: cumulative bytes handed out by Read
    recvWindow,      \* receiver: current window
    lastAdvertised,  \* receiver: absolute offset last advertised
    toWrite,         \* bytes the application has yet to pass to Write
    wpc,             \* where each writer is in Write
    left,            \* each writer's len(data)
    want,            \* each writer's batch, clamped before the unlock
    rpc,             \* where each reader is in Read
    updates,         \* WINDOW_UPDATE frames that may still be delivered
    dataBlocked      \* a STREAM_DATA_BLOCKED frame may still be delivered

sendVars == <<maxStreamData, dataSent>>
recvVars == <<dataRecvd, readable, dataConsumed, recvWindow, lastAdvertised>>
writerVars == <<toWrite, wpc, left, want>>
netVars == <<updates, dataBlocked>>
flowVars == <<sendVars, recvVars, writerVars, rpc, netVars>>

-----------------------------------------------------------------------------
Lesser(a, b) == IF a <= b THEN a ELSE b

absInt64(v) == IF v < 0 THEN -v ELSE v

\* Mutant: an offset that has crossed the modulus is not considered.
reconstructWindowOffset_NoWrap(wire, reference) ==
    (reference - (reference % windowOffsetModulus)) + wire

\* The offset nearest the reference among the three that the wire value can
\* stand for; the two outer candidates are tried in this order.
reconstructWindowOffset(wire, reference) ==
    LET base == reference - (reference % windowOffsetModulus)
        mid  == base + wire
        low  == mid - windowOffsetModulus
        high == mid + windowOffsetModulus
        best == IF absInt64(low - reference) < absInt64(mid - reference)
                THEN low ELSE mid
    IN  IF absInt64(high - reference) < absInt64(best - reference)
        THEN high ELSE best

\* A WINDOW_UPDATE on the wire.  Only wire travels; at is the offset it was
\* made from, kept to state the properties.
WindowUpdate(limit) == [at |-> limit, wire |-> limit % windowOffsetModulus]

CanSend == dataSent + 1 <= maxStreamData

SendWindowAvailable ==
    IF maxStreamData - dataSent < 0 THEN 0 ELSE maxStreamData - dataSent

\* Mutant: the limit is anchored to what was received, not to what was read.
AdvertisedFor_OnReceipt(window) ==
    IF dataRecvd + window > lastAdvertised THEN dataRecvd + window ELSE lastAdvertised

\* advertiseLocked, for a window that may just have grown.
AdvertisedFor(window) ==
    IF dataConsumed + window > lastAdvertised
    THEN dataConsumed + window ELSE lastAdvertised

GrownWindow ==
    IF recvWindow < MaxStreamRecvWindow
    THEN Lesser(2 * recvWindow, MaxStreamRecvWindow) ELSE recvWindow

-----------------------------------------------------------------------------
FlowInit ==
    /\ maxStreamData = InitialMaxStreamData
    /\ dataSent = 0
    /\ dataRecvd = 0
    /\ readable = 0
    /\ dataConsumed = 0
    /\ recvWindow = InitialMaxStreamData
    /\ lastAdvertised = InitialMaxStreamData
    /\ toWrite = MaxBytes
    /\ wpc = [w \in Writers |-> "idle"]
    /\ left = [w \in Writers |-> 0]
    /\ want = [w \in Writers |-> 0]
    /\ rpc = [r \in Readers |-> "idle"]
    /\ updates = {}
    /\ dataBlocked = FALSE

(***************************************************************************)
(* Stream.Write.                                                           *)
(***************************************************************************)
WriteCall(w) ==
    /\ wpc[w] = "idle"
    /\ \E n \in 1..toWrite :
        /\ toWrite' = toWrite - n
        /\ left' = [left EXCEPT ![w] = n]
    /\ wpc' = [wpc EXCEPT ![w] = "loop"]
    /\ UNCHANGED <<sendVars, recvVars, want, rpc, netVars>>

\* The batch is cut to sendBatchMax chunks and to the credit, then s.mu is
\* released for awaitSendCreditUpTo.  Reached from the head of the loop, and
\* from the break that follows the STREAM_DATA_BLOCKED.
ClampBatch(w) ==
    /\ wpc[w] \in {"loop", "relock"}
    /\ CanSend
    /\ want' = [want EXCEPT ![w] =
            Lesser(Lesser(left[w], sendBatchMax * ChunkSize), SendWindowAvailable)]
    /\ wpc' = [wpc EXCEPT ![w] = "credit"]
    /\ UNCHANGED <<sendVars, recvVars, toWrite, left, rpc, netVars>>

\* Out of credit: s.mu is released to tell the peer.
SendDataBlocked(w) ==
    /\ wpc[w] = "loop"
    /\ ~CanSend
    /\ dataBlocked' = TRUE
    /\ wpc' = [wpc EXCEPT ![w] = "relock"]
    /\ UNCHANGED <<sendVars, recvVars, toWrite, left, want, rpc, updates>>

\* Still no credit with s.mu held again: wait on sendCond.
WaitForCredit(w) ==
    /\ wpc[w] = "relock"
    /\ ~CanSend
    /\ wpc' = [wpc EXCEPT ![w] = "wait"]
    /\ UNCHANGED <<sendVars, recvVars, toWrite, left, want, rpc, netVars>>

\* Mutant: a blocked writer waits for an update without repeating its call.
BlockedRetry_Never(w) == FALSE

\* StreamBlockedRetryInterval elapses.
BlockedRetry(w) ==
    /\ wpc[w] = "wait"
    /\ wpc' = [wpc EXCEPT ![w] = "loop"]
    /\ UNCHANGED <<sendVars, recvVars, toWrite, left, want, rpc, netVars>>

\* The write deadline passes while the writer has no flow-control credit or
\* no congestion credit; Write returns and the rest of its data is not sent.
WriteDeadline(w) ==
    /\ w \in Deadlined
    /\ (wpc[w] = "loop" /\ ~CanSend) \/ wpc[w] = "credit"
    /\ wpc' = [wpc EXCEPT ![w] = "idle"]
    /\ left' = [left EXCEPT ![w] = 0]
    /\ UNCHANGED <<sendVars, recvVars, toWrite, want, rpc, netVars>>

\* Mutant: the send window is not asked again after the wait.
BatchOf_NoRecheck(w, granted) ==
    IF granted < left[w] /\ granted > ChunkSize
    THEN granted - (granted % ChunkSize) ELSE granted

\* Of what awaitSendCreditUpTo granted, what the send window still admits,
\* in whole chunks unless it is the end of the data.
BatchOf(w, granted) ==
    LET n == Lesser(granted, SendWindowAvailable)
    IN  IF n < left[w] /\ n > ChunkSize THEN n - (n % ChunkSize) ELSE n

\* awaitSendCreditUpTo returned: at least one chunk, at most the batch.
SendBatch(w) ==
    /\ wpc[w] = "credit"
    /\ \E granted \in Lesser(ChunkSize, want[w])..want[w] :
        LET n == BatchOf(w, granted)
        IN  /\ dataSent' = dataSent + n
            /\ left' = [left EXCEPT ![w] = @ - n]
            /\ wpc' = [wpc EXCEPT ![w] = IF left[w] = n THEN "idle" ELSE "loop"]
    /\ UNCHANGED <<maxStreamData, recvVars, toWrite, want, rpc, netVars>>

(***************************************************************************)
(* The receiving stream.                                                   *)
(***************************************************************************)

\* DeliverData accepts n new bytes.  What is contiguous with the bytes read
\* so far becomes readable, the rest waits in recvOOO.
DeliverData ==
    \E n \in 1..(dataSent - dataRecvd) :
    \E contiguous \in readable..((dataRecvd + n) - dataConsumed) :
        /\ dataRecvd' = dataRecvd + n
        /\ readable' = contiguous
        /\ dataRecvd' = dataSent => readable' = dataRecvd' - dataConsumed
        /\ UNCHANGED <<sendVars, dataConsumed, recvWindow, lastAdvertised,
                       writerVars, rpc, netVars>>

\* Read hands out n bytes, and OnDataConsumed decides, still under s.mu,
\* whether the window update that follows the unlock is due.
Read(r) ==
    /\ rpc[r] = "idle"
    /\ \E n \in 1..readable :
        /\ readable' = readable - n
        /\ dataConsumed' = dataConsumed + n
        /\ rpc' = [rpc EXCEPT ![r] =
                IF lastAdvertised - dataConsumed' < recvWindow \div 2
                THEN "advertise" ELSE "idle"]
    /\ UNCHANGED <<sendVars, dataRecvd, recvWindow, lastAdvertised, writerVars, netVars>>

\* AdvertiseLimit and sendWindowUpdate, after Read released s.mu.
AdvertiseLimit(r) ==
    /\ rpc[r] = "advertise"
    /\ recvWindow' = GrownWindow
    /\ lastAdvertised' = AdvertisedFor(GrownWindow)
    /\ updates' = updates \cup {WindowUpdate(lastAdvertised')}
    /\ rpc' = [rpc EXCEPT ![r] = "idle"]
    /\ UNCHANGED <<sendVars, dataRecvd, readable, dataConsumed, writerVars, dataBlocked>>

\* A STREAM_DATA_BLOCKED arrives.  The stream exists once data has opened it;
\* RefreshLimit advertises without growing the window.
RefreshLimit ==
    /\ dataBlocked
    /\ dataRecvd > 0
    /\ lastAdvertised' = AdvertisedFor(recvWindow)
    /\ updates' = updates \cup {WindowUpdate(lastAdvertised')}
    /\ UNCHANGED <<sendVars, dataRecvd, readable, dataConsumed, recvWindow,
                   writerVars, rpc, dataBlocked>>

(***************************************************************************)
(* The sending stream's OnWindowUpdate, and the network.                   *)
(***************************************************************************)

\* UpdateMaxStreamData never lowers the limit; the broadcast wakes waiting
\* writers whether or not the limit advanced.
OnWindowUpdate(u) ==
    /\ u \in updates
    /\ maxStreamData - u.at <= MaxLag
    /\ LET max == reconstructWindowOffset(u.wire, maxStreamData)
       IN  maxStreamData' = IF max <= maxStreamData THEN maxStreamData ELSE max
    /\ wpc' = [w \in Writers |-> IF wpc[w] = "wait" THEN "loop" ELSE wpc[w]]
    /\ UNCHANGED <<dataSent, recvVars, toWrite, left, want, rpc, netVars>>

LoseUpdate(u) ==
    /\ u \in updates
    /\ updates' = updates \ {u}
    /\ UNCHANGED <<sendVars, recvVars, writerVars, rpc, dataBlocked>>

LoseDataBlocked ==
    /\ dataBlocked
    /\ dataBlocked' = FALSE
    /\ UNCHANGED <<sendVars, recvVars, writerVars, rpc, updates>>

-----------------------------------------------------------------------------
WriteStep(w) ==
    \/ WriteCall(w)
    \/ ClampBatch(w)
    \/ SendDataBlocked(w)
    \/ WaitForCredit(w)
    \/ BlockedRetry(w)
    \/ WriteDeadline(w)
    \/ SendBatch(w)

FlowNext ==
    \/ \E w \in Writers : WriteStep(w)
    \/ DeliverData
    \/ \E r \in Readers : Read(r) \/ AdvertiseLimit(r)
    \/ RefreshLimit
    \/ \E u \in updates : OnWindowUpdate(u) \/ LoseUpdate(u)
    \/ LoseDataBlocked

FlowSpec == FlowInit /\ [][FlowNext]_flowVars

\* What the code's scheduling gives: a goroutine that can run does, the
\* application keeps writing and reading, the retry timer fires, loss recovery
\* delivers data, and a control packet sent again and again gets through: the
\* blocked frames, and the updates that would advance the limit.
Fairness ==
    /\ \A w \in Writers :
        /\ WF_flowVars(WriteCall(w))
        /\ WF_flowVars(ClampBatch(w))
        /\ WF_flowVars(SendDataBlocked(w))
        /\ WF_flowVars(WaitForCredit(w))
        /\ WF_flowVars(BlockedRetry(w))
        /\ WF_flowVars(SendBatch(w))
    /\ WF_flowVars(DeliverData)
    /\ \A r \in Readers : WF_flowVars(Read(r)) /\ WF_flowVars(AdvertiseLimit(r))
    /\ SF_flowVars(RefreshLimit)
    /\ SF_flowVars(\E u \in updates : u.at > maxStreamData /\ OnWindowUpdate(u))

FairSpec == FlowSpec /\ Fairness

-----------------------------------------------------------------------------
(***************************************************************************)
(* Properties.                                                             *)
(***************************************************************************)

FlowTypeOK ==
    /\ maxStreamData \in Nat /\ dataSent \in Nat
    /\ dataRecvd \in Nat /\ readable \in Nat /\ dataConsumed \in Nat
    /\ recvWindow \in Nat /\ lastAdvertised \in Nat
    /\ toWrite \in Nat
    /\ wpc \in [Writers -> {"idle", "loop", "relock", "wait", "credit"}]
    /\ left \in [Writers -> Nat]
    /\ want \in [Writers -> Nat]
    /\ rpc \in [Readers -> {"idle", "advertise"}]
    /\ updates \subseteq [at : Nat, wire : Nat]
    /\ dataBlocked \in BOOLEAN

\* The sender never sends past the offset the receiver has advertised, though
\* Write releases s.mu between clamping its batch and booking it and another
\* writer can spend the same credit meanwhile (stream.go:312).
SentWithinAdvertised ==
    /\ dataSent <= maxStreamData
    /\ maxStreamData <= lastAdvertised

\* A reader that stops draining bounds the receive buffer: what is held and
\* unread never exceeds the current window (Stream.RecvWindow's comment),
\* through window growth, re-advertisement and stale updates.  Each byte is
\* counted once: packets that overlap are in Transfer, where the code's counter
\* counts them twice.
BufferedWithinWindow == dataRecvd - dataConsumed <= recvWindow

\* A WINDOW_UPDATE that can still be delivered stands, for the sender that
\* reconstructs it from 32 bits, for exactly the offset that was advertised.
UpdatesReconstruct ==
    \A u \in updates :
        maxStreamData - u.at <= MaxLag =>
            reconstructWindowOffset(u.wire, maxStreamData) = u.at

\* The claim of OnDataConsumed and of the blocked-writer retry: no loss of
\* control frames wedges a stream whose application keeps reading.  Every write
\* returns, and what was not given up at a deadline is read.
AllBytesConsumed ==
    <>[](/\ toWrite = 0 /\ \A w \in Writers : wpc[w] = "idle"
         /\ dataConsumed = dataSent)

=============================================================================
