SPECIFICATION Spec
CONSTANTS
    u1 = u1
    u2 = u2
    t1 = t1
    Texts = {u1, u2}
    LocalTimes = {t1}
    Numbers = {0, 1, 2, 3}
    Huge = Huge
    Blank = Blank
    MaxInt = 9
    CmdBodies <- MCCmdBodies
    AttBodies <- MCAttBodies
    UserBodies <- MCUserBodies
    PairBodies <- MCPairBodies
INVARIANTS
    TypeOK
    ResultsOfBody
    OnlyFirstLineShifts
    PairsOfBody
CHECK_DEADLOCK FALSE
