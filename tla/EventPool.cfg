SPECIFICATION FairSpec
CONSTANTS
    execution = execution
    phaseStage = phaseStage
    c1 = c1
    c2 = c2
    c3 = c3
    c4 = c4
    c5 = c5
    c6 = c6
    c7 = c7
    None = None
    System <- TwoSystems
    Session <- SevenSessions
    Retries <- NoEmitters
    MaxFault = 2
INVARIANTS
    TypeOK
    FlagsFollowPool
    HeardOrHealing
PROPERTIES
    ConsumersRecover
CHECK_DEADLOCK FALSE
