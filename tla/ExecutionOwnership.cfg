SPECIFICATION Spec
CONSTANTS
    h1 = h1
    h2 = h2
    e1 = e1
    None = None
    Host <- Hosts
    Pid <- Pids
    Exec <- Rows
    HasBootId = TRUE
    MaxTime = 3
    MaxBoot = 1
    MaxSerial = 3
SYMMETRY Symmetric
INVARIANTS
    TypeOK
    OrphanedMeansDead
    DeadOwnerIsFound
CHECK_DEADLOCK FALSE
