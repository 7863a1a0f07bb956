SPECIFICATION Spec
CONSTANTS
    t1 = t1
    e1 = e1
    e2 = e2
    e3 = e3
    p1 = p1
    p2 = p2
    c1 = c1
    c2 = c2
    Null = Null
    Task <- OneTask
    Owned <- OneTask
    Exec <- OneRow
    Proc <- OneProc
    Client <- OneClient
    Entry <- RestOnly
    MaxRestart = 0
PROPERTIES
    ClaimLostOnlyToExecution
CHECK_DEADLOCK FALSE
