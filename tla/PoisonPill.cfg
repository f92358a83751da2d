SPECIFICATION FairConsumerSpec
CONSTANTS
    Messages <- FewMessages
    MaxRetries = 1
    MaxTopic = 1
    MaxFaults = 0
PROPERTY PoisonPillsDoNotBlock
CHECK_DEADLOCK FALSE
