SPECIFICATION Spec
CONSTANTS
    sn1 = sn1
    u1 = u1
    SerialNumbers = {sn1}
    Configured = {sn1}
    Threads = {t1, t2}
    Uploads = {u1}
    Sender <- MCSender
    Times <- MCTimes
    MaxBatches = 1
    Midnights <- MCMidnights
    Hours24 = 4
PROPERTIES
    FailsOnlyByEviction
    AckedGetsSaved
    ProgramExits
INVARIANTS
    TypeOK
    AckedIsSaved
    OwnZone
    OptionsKept
    SummariesPartition
CHECK_DEADLOCK FALSE
