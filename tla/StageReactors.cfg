SPECIFICATION FairSpec
CONSTANTS
    leg = leg
    gate = gate
    leaf = leaf
    sink = sink
    s1 = s1
    s2 = s2
    Task <- Chain
    Kind <- ChainKind
    Dep <- ChainDep
    Slot <- TwoSlots
    MaxDepth = 20
    MaxHuman = 1
    Env <- Trouble
INVARIANTS
    TypeOK
    NothingForgotten
    ConeNeverHeld
PROPERTIES
    ImplementsStageOrder
    NeverRequeued
    WaitingStarts
CHECK_DEADLOCK FALSE
