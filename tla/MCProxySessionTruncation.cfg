CONSTANTS
    MaxBuffer = 1
    SndBuf = 1
    MaxSend = 3
SPECIFICATION Spec
INVARIANT CompleteMeansDelivered
CHECK_DEADLOCK FALSE
