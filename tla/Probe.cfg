SPECIFICATION Spec
CONSTANTS
    Candidates = 4
    Unsafe = {2}
    MaxCommands = 2
    StaleIDs = {1}
    MaxConfirms = 2
PROPERTIES
    ProbeEnds
INVARIANTS
    TypeOK
    OrderlyAttribution
    SummaryAccurate
    SummariesGrow
CHECK_DEADLOCK FALSE
