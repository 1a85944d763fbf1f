CONSTANTS
    MaxSignals = 3
    MaxSessions = 2
SPECIFICATION LoopSpec
INVARIANT WakeupFdValid
INVARIANT StopIsPrompt
INVARIANT CleanExit
PROPERTY StopIsFinal
PROPERTY StopTerminates
CHECK_DEADLOCK FALSE
