\* A window of 5 bytes and 4 packets, ACKs delayed to every second packet, reads
\* into small and large buffers.  A base datagram carries 1 stream byte when
\* written and 2 when re-chunked, a large one 4 and 5.
SPECIFICATION Spec
VIEW View
CONSTANTS
    Window = 5
    Datagrams = {3, 6}
    streamChunkOverhead = 2
    HeaderSize = 1
    LossReorderThreshold = 2
    ptoProbes = 2
    maxStreamRecvOOO = 10
    AckElicitingThreshold = 2
    ackHistory = 16
    maxAckRanges = 5
    maxGap = 255
    BufferSizes = {2, 5}
    MaxSeq = 3
INVARIANTS
    InOrderDelivery
    NoByteAbandoned
    BackstopSparesHonestPeer
PROPERTY ImplementsByteStream
CHECK_DEADLOCK FALSE
