\* A ring of 5 over 9 sequence numbers: every slot is reused, gaps longer than
\* maxGap and more runs than maxAckRanges occur.  Three timers are enough for
\* callbacks that fired too late to be stopped beside the one that replaced them.
CONSTANTS
    ackHistory = 5
    maxAckRanges = 1
    maxGap = 2
    AckElicitingThreshold = 2
    Timers = {t1, t2, t3}
    None = None
    MaxSeq = 8
    \* Bytes of 18 values, the least that tells the frame types apart, and
    \* narrower integers; lists up to the longest a count of one byte allows.
    ByteValues = 18
    U16 = 1
    U32 = 2
    U64 = 3
    MaxCIDLength = 3
    TokenLength = 2
    SentTypes = {0, 1, 2, 3, 4, 5, 6, 7, 8, 9, 10, 11, 13, 14, 15, 16, 17}
    ListLengths = {0, 17}
    MaxFrames = 2
SPECIFICATION MCSpec
\* Decoding ends.
CHECK_DEADLOCK FALSE
INVARIANTS
    RingExact
    PendingIsTimed
    FrameReportsArrivals
    DecodesWhatWasSent
PROPERTY
    AckFollows
