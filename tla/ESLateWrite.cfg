SPECIFICATION FairESSpec
CONSTANTS
    o1 = o1
    NoRow = NoRow
    Orders <- OneOrder
    Statuses <- MCStatuses
    Created = "CREATED"
    Messages <- MCMessages
    MaxWal = 2
    MaxTopic = 2
    MaxRetries = 2
    MaxFaults = 0
    MaxRestarts = 0
    MaxPending = 1
CHECK_DEADLOCK FALSE
PROPERTY DocsConverge
