SPECIFICATION ClaimSpec
CONSTANTS
    SerialNumbers = {sn1}
    Threads = {t1, t2}
    MaxDevices = 1
    MaxCommandsPerDevice = 2
    MaxCmdID = 2
    MaxResults = 1
INVARIANT EvictedQueueIsEmpty
CHECK_DEADLOCK FALSE
