\* A window of 2 to 7 packets, two writers and the resender; the pacer in whole
\* bytes a tick, with rates that leave remainders; round trips and reported
\* delays below, at and above MaxAckDelay.
CONSTANTS
    Writers = {w1, w2}
    Resender = resender
    MSS = 10
    InitialCwnd = 30
    MinCwnd = 20
    Unlimited = 1000
    SendBatchMax = 2
    LossReorderThreshold = 2
    CubicTargets = {0, 100}
    MaxSeq = 5
    MaxCwnd = 70
    PacedWriters = {w1, w2}
    DatagramSize = 10
    BurstPackets = 2
    MinPacingDelay = 1
    BatchMax = 2
    Rates = {3, 7}
    MaxPTOs = 1
    Samples = {0, 3, 8}
    AckDelays = {0, 2, 5}
    MaxAckDelay = 3
    Granularity = 1
    InitialRTT = 6
    InitialRTTVar = 3
SPECIFICATION MCSpec
CHECK_DEADLOCK FALSE
SYMMETRY Symmetry
INVARIANTS WindowFloor OvershootBounded WaitSuffices DebtBounded RttWithinSamples
PROPERTIES OncePerRoundTrip
