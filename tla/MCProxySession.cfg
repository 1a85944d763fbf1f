CONSTANTS
    MaxBuffer = 2
    SndBuf = 1
    MaxSend = 2
SPECIFICATION LiveSpec
INVARIANT RelayIsExact
INVARIANT WatchIsFresh
INVARIANT NoSelfInflictedError
PROPERTY EofPropagates
PROPERTY SessionEnds
PROPERTY BytesDelivered
CHECK_DEADLOCK FALSE
