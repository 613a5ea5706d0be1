SPECIFICATION UntilCancelledSpec
CONSTANTS
    Dispatchers = {d1}
    Closers = {c1}
    BufferSize = 1
    MaxJobs = 1
    BatchSizes = {1}
PROPERTY CloseCancelsContext
CHECK_DEADLOCK FALSE
