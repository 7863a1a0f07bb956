SPECIFICATION FairSpec
CONSTANTS
    c1 = c1
    c2 = c2
    s1 = s1
    s2 = s2
    s3 = s3
    Child <- OneChild
    Slot <- TwoSlots
    Owned = TRUE
    Budget = 1
    MaxHuman = 1
    Env <- CrashesAndPeople
INVARIANTS
    TypeOK
    
    SynthesisOverSettled
PROPERTIES
    NoFailedOnCompleted
    ExhaustionSparesRuns
    
CHECK_DEADLOCK FALSE
