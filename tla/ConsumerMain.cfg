SPECIFICATION FairMainSpec
CONSTANTS
    N = 3
    MaxAttempts = 3
INVARIANT MainTypeOK
INVARIANT NoThreadOutlivesMain
INVARIANT FullRunLosesNoStop
PROPERTY ShutdownCompletes
PROPERTY ShutdownUnlessStopLost
CHECK_DEADLOCK FALSE
