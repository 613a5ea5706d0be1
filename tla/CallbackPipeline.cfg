SPECIFICATION FairSpec
CONSTANTS
    Dispatchers = {d1, d2}
    Closers = {c1, c2}
    BufferSize = 1
    MaxJobs = 2
    BatchSizes = {2}
PROPERTIES
    ImplementsLog
    CloseReturns
    DispatchReturns
    AcceptedDelivered
INVARIANTS
    TypeOK
    NoSendAfterClose
    CalledInOrder
    DrainedOnReturn
    RefusedNeverCalled
    ContextLive
CHECK_DEADLOCK FALSE
