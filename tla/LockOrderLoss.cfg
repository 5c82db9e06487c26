\* The ACK path, the loss timer and the read loop.
CONSTANTS
    Goroutines = {"inbound", "loss", "readLoop"}
    Nobody = "nobody"
SPECIFICATION FairSpec
CHECK_DEADLOCK FALSE
PROPERTY ReadLoopServes
