CONSTANTS
    MaxSignals = 1
    MaxSessions = 1
SPECIFICATION LoopSpec
PROPERTY AnnouncedStopTerminates
CHECK_DEADLOCK FALSE
