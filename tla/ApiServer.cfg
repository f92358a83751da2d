SPECIFICATION FairApiSpec
CONSTANTS
    o1 = o1
    r1 = r1
    r2 = r2
    NoRequest = NoRequest
    Orders <- OneOrder
    Requests <- TwoThreads
    MaxAttempts = 2
    NumWorkers = 1
    MaxKnown = 1
    MaxVersion = 2
INVARIANT ApiTypeOK
INVARIANT OneWriteInDoubtPerLoss
INVARIANT WorkersPatchExistingOrders
PROPERTY RedisOutageIsInvisible
PROPERTY StoreSpec
PROPERTY EveryRequestIsAnswered
PROPERTY SignalEndsProcess
CHECK_DEADLOCK FALSE
