SPECIFICATION NotifierSpec
CONSTANTS
    o1 = o1
    NoRow = NoRow
    Orders <- OneOrder
    Statuses <- MCStatuses
    Notified <- MCNotified
    Created = "CREATED"
    Messages <- MCMessages
    MaxWal = 2
    MaxTopic = 3
    MaxRetries = 2
    MaxFaults = 1
    MaxRestarts = 1
    MaxPending = 1
INVARIANT NotifierTypeOK
INVARIANT MailedAtMostOnce
INVARIANT ProcessedIsMailed
INVARIANT NoNoticeIsForgotten
CHECK_DEADLOCK FALSE
