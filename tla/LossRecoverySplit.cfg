\* One goroutine at a time, on a path that shrinks to the base size.
CONSTANTS
    Writers = {w1}
    Ptos = {p1}
    Inbound = Inbound
    Loss = Loss
    Pacer = Pacer
    Nobody = Nobody
    LossReorderThreshold = 2
    ptoProbes = 2
    HeaderSize = 1
    BlackholePTOs = 1
    Overlaps = {FALSE}
    MaxSeq = 5
    MaxSeqOverlapping = 0
    MaxChunks = 3
SPECIFICATION Spec
CHECK_DEADLOCK FALSE
INVARIANT ProbingGoesOn
