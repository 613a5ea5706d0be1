SPECIFICATION Spec
CONSTANTS
    sn1 = sn1
    u1 = u1
    SerialNumbers = {sn1}
    Configured = {sn1}
    Threads = {t1}
    Uploads = {u1}
    Sender <- MCSender
    Times <- MCTimes
    MaxBatches = 1
    Midnights <- MCMidnights
    Hours24 = 4
INVARIANT InFlightFinish
CHECK_DEADLOCK FALSE
