SPECIFICATION FairSpec
CONSTANTS
    SerialNumbers = {sn1}
    Threads = {t1, t2}
    MaxDevices = 1
    MaxCommandsPerDevice = 2
    MaxCmdID = 2
    MaxResults = 0

    
PROPERTIES
    StaleDeviceLeaves
    PolledQueueDrains
CHECK_DEADLOCK FALSE
