----------------------------- MODULE AckBuilder -----------------------------
(***************************************************************************)
(* recvTracker.frame's downward scan and PacketManager.HandleAckFrame's    *)
(* reading of its result, checked in every state of the tracker against    *)
(* AckFrames, the contract the Transfer specification relies on.           *)
(***************************************************************************)
EXTENDS AckTracker, Sequences, SequencesExt

\* A scan position: the cursor, and the steps left in the history.  Running
\* into sequence 0 uses up the steps.
Down(at) ==
    IF at.cursor = 0 THEN [at EXCEPT !.steps = ackHistory]
    ELSE [cursor |-> at.cursor - 1, steps |-> at.steps + 1]

RECURSIVE Scan(_, _, _, _)
\* Walk down while has(cursor) equals present, at most limit times.  Returns
\* the number walked and where the scan stands.
Scan(at, present, limit, n) ==
    IF at.steps < ackHistory /\ n < limit /\ has(at.cursor) = present
    THEN Scan(Down(at), present, limit, n + 1)
    ELSE [n |-> n, at |-> at]

run(at) == Scan(at, TRUE, ackHistory, 0)
gap(at) == Scan(at, FALSE, maxGap, 0)

RECURSIVE Ranges(_, _)
Ranges(at, ranges) ==
    LET g == gap(at)
        r == run(g.at)
    IN  IF Len(ranges) >= maxAckRanges \/ at.steps >= ackHistory \/ g.n = 0 \/ r.n = 0
        THEN ranges
        ELSE Ranges(r.at, Append(ranges, [gap |-> g.n, len |-> r.n]))

frame ==
    LET first == run([cursor |-> largest, steps |-> 0])
    IN  [largestAcked |-> largest, first |-> first.n, ranges |-> Ranges(first.at, <<>>)]

\* Mutant: ranges are read as if a gap included the sequence after it.
Acknowledged_OffByOne(f) ==
    LET take(acc, r) == [next |-> acc.next - r.gap - r.len - 1,
                         seqs |-> acc.seqs \cup {acc.next - r.gap - 1 - i : i \in 0..(r.len - 1)}]
    IN  FoldLeft(take, [next |-> f.largestAcked - f.first,
                        seqs |-> {f.largestAcked - i : i \in 0..(f.first - 1)}], f.ranges).seqs

\* The sequences HandleAckFrame takes from a frame.
Acknowledged(f) ==
    LET take(acc, r) == [next |-> acc.next - r.gap - r.len,
                         seqs |-> acc.seqs \cup {acc.next - r.gap - i : i \in 0..(r.len - 1)}]
    IN  FoldLeft(take, [next |-> f.largestAcked - f.first,
                        seqs |-> {f.largestAcked - i : i \in 0..(f.first - 1)}], f.ranges).seqs

-----------------------------------------------------------------------------
\* What the sender reads out of an ACK is what the receiver put in, and that
\* is what AckFrames promises: nothing that did not arrive, and everything
\* that did within the history, the range count and the gap length.
FrameReportsArrivals == any => Acknowledged(frame) = Reported(arrived)

=============================================================================
