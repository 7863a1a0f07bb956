SPECIFICATION FairSpec
CONSTANTS
    Base = 6
    PerTurn = 1
    Turns = 100
    ToolCall = 10
    PendingReap = 40
    RunningReap = 210
    MaxAge = 240
INVARIANTS
    TypeOK
    SweptLiveHadWaited
PROPERTIES
    AbandonedEnds
CHECK_DEADLOCK FALSE
