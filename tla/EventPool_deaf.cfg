SPECIFICATION Spec
CONSTANTS
    execution = execution
    phaseStage = phaseStage
    c1 = c1
    c2 = c2
    c3 = c3
    c4 = c4
    c5 = c5
    c6 = c6
    c7 = c7
    None = None
    System <- OneSystem
    Session <- SevenSessions
    Retries <- BaseEmitters
    MaxFault = 1
INVARIANT
    ConnectedConsumerHears
CHECK_DEADLOCK FALSE
