\* Two streams, from either end, two bytes, and six calls of the applications at
\* both ends; frames are never taken from the network, so they repeat and
\* overtake each other.
CONSTANTS
    AcceptQueue = 1
    MaxStreams = 2
    MaxWritten = 2
    MaxAppCalls = 6
SPECIFICATION LifeSpec
CHECK_DEADLOCK FALSE
INVARIANTS NoCrossTalk EndIsComplete ClosedReleases
