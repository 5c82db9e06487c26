\* Two writers race for the credit, one of which may give up, and two readers
\* for the window; an update can be lost, repeated or late, and the advertised
\* offset reaches the modulus (5 + 4 = 9).
CONSTANTS
    w1 = w1
    w2 = w2
    r1 = r1
    r2 = r2
    Writers = {w1, w2}
    Readers = {r1,r2}
    Deadlined = {w2}
    InitialMaxStreamData = 2
    MaxStreamRecvWindow = 4
    windowOffsetModulus = 9
    ChunkSize = 2
    sendBatchMax = 2
    MaxLag = 4
    MaxBytes = 5
SPECIFICATION FairSpec
INVARIANTS
    SentWithinAdvertised
    BufferedWithinWindow
    UpdatesReconstruct
PROPERTY AllBytesConsumed
CHECK_DEADLOCK FALSE
