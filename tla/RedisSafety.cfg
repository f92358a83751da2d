SPECIFICATION FairRedisSpec
CONSTANTS
    o1 = o1
    NoRow = NoRow
    Orders <- OneOrder
    Statuses <- MCStatuses
    Created = "CREATED"
    Messages <- MCMessages
    MaxWal = 2
    MaxTopic = 3
    MaxRetries = 1
    MaxFaults = 1
    MaxRestarts = 1
    MaxPending = 1
INVARIANT RedisTypeOK
INVARIANT CacheMatchesWatermark
INVARIANT ProcessedIsCached
INVARIANT CacheShowsTable
PROPERTY NoStaleOverwrite
PROPERTY CacheContract
PROPERTY ChangesReachCache
CHECK_DEADLOCK FALSE
