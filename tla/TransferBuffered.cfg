\* A full window whose re-chunked pieces arrive beside the original.
SPECIFICATION Spec
CONSTANTS
    Window = 4
    Datagrams = {4, 6}
    streamChunkOverhead = 2
    HeaderSize = 1
    LossReorderThreshold = 3
    ptoProbes = 2
    maxStreamRecvOOO = 8
    AckElicitingThreshold = 2
    BufferSizes = {4}
    ackHistory = 16
    maxAckRanges = 5
    maxGap = 255
    MaxSeq = 3
INVARIANT BufferedWithinRecvWindow
CHECK_DEADLOCK FALSE
