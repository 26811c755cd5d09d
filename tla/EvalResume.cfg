SPECIFICATION Spec
CONSTANTS
    NumKeys = 2
    NumTurns = 1
    s1 = s1
    s2 = s2
    Systems <- MCSystems
    Separators = FALSE
    MaxStarts = 3
INVARIANT
    SyncedSurvives
CHECK_DEADLOCK FALSE
