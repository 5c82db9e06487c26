\* One data packet and the FIN that overtakes it.
SPECIFICATION Spec
CONSTANTS
    Window = 2
    Datagrams = {4}
    streamChunkOverhead = 2
    HeaderSize = 1
    LossReorderThreshold = 3
    ptoProbes = 2
    maxStreamRecvOOO = 4
    AckElicitingThreshold = 2
    BufferSizes = {2}
    ackHistory = 16
    maxAckRanges = 5
    maxGap = 255
    MaxSeq = 3
INVARIANT FinNotForgotten
CHECK_DEADLOCK FALSE
