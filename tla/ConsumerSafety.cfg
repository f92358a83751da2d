SPECIFICATION FairConsumerSpec
CONSTANTS
    Messages <- AllMessages
    MaxRetries = 2
    MaxTopic = 2
    MaxFaults = 3
INVARIANT TypeOK
INVARIANT CommittedIsSettled
INVARIANT HandledInOrder
INVARIANT NoRedeliveryWithoutFaults
PROPERTY RewindNeedsTwoFaults
PROPERTY DeliverySpec
PROPERTY EveryRecordIsSettled
CHECK_DEADLOCK FALSE
