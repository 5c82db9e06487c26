\* Two connections, of one dialled CID and one of a peer's that its SYN may
\* bring back; queues of one, so that each is full at times.  The locks are
\* those of the goroutines that wait for a mutex while holding another, but for
\* the loss timer's, and the read loop, which never does, nor does a PTO.
SPECIFICATION MCSpec
CONSTANTS
    PeerCids = {"p"}
    OwnCids = {"o"}
    EarlyCids = 1
    EarlyPerCid = 1
    InboundQueue = 1
    AcceptQueue = 1
    ReadBatch = 1
    MaxConns = 2
    Goroutines = {"inbound", "pacer", "writer", "idle", "readLoop"}
    Nobody = "nobody"
INVARIANTS
    TypeOK
    OpenIsRouted
    EarlyIsUnrouted
    SynFirst
    CloseIsThorough
    NoWaitCycle
PROPERTY AllEnd
CHECK_DEADLOCK FALSE
