SPECIFICATION FairSpec
CONSTANTS
    t1 = t1
    e1 = e1
    e2 = e2
    e3 = e3
    p1 = p1
    p2 = p2
    c1 = c1
    c2 = c2
    Null = Null
    Task <- OneTask
    Owned <- OneTask
    Exec <- TwoRows
    Proc <- OneProc
    Client <- OneClient
    Entry <- AllButExecute
    MaxRestart = 1
PROPERTIES
    ActiveEnds
CHECK_DEADLOCK FALSE
