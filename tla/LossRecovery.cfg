\* Every interleaving of one writer, the ACK path, both timers and a PTO over a
\* full-size packet and one after it: the first can be declared lost, by the
\* loss timer or the ACK path, and split by a flush or by a probe.  And longer
\* exchanges with one goroutine at a time.
CONSTANTS
    Writers = {w1}
    Ptos = {p1}
    Inbound = Inbound
    Loss = Loss
    Pacer = Pacer
    Nobody = Nobody
    LossReorderThreshold = 2
    ptoProbes = 2
    HeaderSize = 1
    BlackholePTOs = 1
    Overlaps = {TRUE, FALSE}
    MaxSeq = 7
    MaxSeqOverlapping = 4
    MaxChunks = 3
SPECIFICATION Spec
CHECK_DEADLOCK FALSE
INVARIANTS
    TrackedOnce
    AckFreesWhatItNames
    DataHeld
    InflightExact
    ProbingFollowsCount
