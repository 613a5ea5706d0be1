SPECIFICATION Spec
CONSTANTS
    SerialNumbers = {sn1, sn2}
    Threads = {t1, t2}
    MaxDevices = 1
    MaxCommandsPerDevice = 1
    MaxCmdID = 2
    MaxResults = 1
SYMMETRY Symmetry
VIEW Anonymous
CONSTRAINT FirstIDConfirmed
PROPERTIES
    ImplementsMailbox
INVARIANTS
    TypeOK
    DeviceLimit
    CommandLimit
    OnePlace
    SentOnce
    RightDevice
    Accounted
    ReportedBeforeForgotten
    UncorrelatedExplained
CHECK_DEADLOCK FALSE
