SPECIFICATION ESSpec
CONSTANTS
    o1 = o1
    NoRow = NoRow
    Orders <- OneOrder
    Statuses <- MCStatuses
    Created = "CREATED"
    Messages <- MCMessages
    MaxWal = 2
    MaxTopic = 3
    MaxRetries = 1
    MaxFaults = 2
    MaxRestarts = 1
    MaxPending = 1
CHECK_DEADLOCK FALSE
INVARIANT ESTypeOK
INVARIANT RegressionIsRepaired
INVARIANT IndexShowsTable
