SPECIFICATION Spec
CONSTANTS
    author = author
    reviewer = reviewer
    k1 = k1
    k2 = k2
    p1 = p1
    p2 = p2
    None = None
    Task <- Pair
    Pred <- PairPred
    Reviewer <- Reviewers
    MaxExec = 4
    Fact <- FullOrCut
    KeepInTx = 2
    KeepDaily = 1
    Call <- TwoCalls
    Sweeper <- OneSweeper
    Env <- Calm
INVARIANTS
    TypeOK
    UsageCountedOnce
    StaleVerdictIsSilent
PROPERTIES
    AuthorityAdvances
    ReexecutionCapped
    NoVerdictRepeated
SYMMETRY Symmetric
CHECK_DEADLOCK FALSE
