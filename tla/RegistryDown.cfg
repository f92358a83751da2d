SPECIFICATION ConsumerSpec
CONSTANTS
    Messages <- AvroMessages
    MaxRetries = 1
    MaxTopic = 1
    MaxFaults = 0
INVARIANT ReadableRecordsAreNotSkipped
CHECK_DEADLOCK FALSE
