SPECIFICATION ConsumerSpec
CONSTANTS
    Messages <- OneMessage
    MaxRetries = 1
    MaxTopic = 1
    MaxFaults = 0
INVARIANT DeadLetteredBeforeCommit
CHECK_DEADLOCK FALSE
