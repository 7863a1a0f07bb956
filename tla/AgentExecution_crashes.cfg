SPECIFICATION Spec
CONSTANTS
    t1 = t1
    e1 = e1
    e2 = e2
    e3 = e3
    p1 = p1
    p2 = p2
    c1 = c1
    c2 = c2
    Null = Null
    Task <- OneTask
    Owned <- OneTask
    Exec <- TwoRows
    Proc <- TwoProcs
    Client <- OneClient
    Entry <- EngineAndStream
    MaxRestart = 1
SYMMETRY Symmetric
INVARIANTS
    TypeOK
    SingleRunner
PROPERTIES
    TerminalFreesTask
    StartupSparesStamped
    ImplementsTaskLease
CHECK_DEADLOCK FALSE
