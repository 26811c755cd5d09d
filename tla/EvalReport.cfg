SPECIFICATION Spec
CONSTANTS
    NumKeys = 2
    NumTurns = 2
    s1 = s1
    s2 = s2
    Systems <- MCSystems
    Separators = FALSE
    MaxStarts = 3
INVARIANTS
    RecordedOnce
    OneAttemptPerRecord
    FinishedMeansRecorded
PROPERTIES
    ParsedLinesStay
CHECK_DEADLOCK FALSE
