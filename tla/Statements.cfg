SPECIFICATION Spec
CONSTANTS
    None = None
    Dictionary <- MCDictionary
    JoinPaths <- MCJoinPaths
    Database <- MCDatabase
    MoneyColumns = {"total", "amount"}
    Spelled <- MCSpelled
    Nouns <- MCNouns
    Known <- MCKnown
    Unit = 100
    RowTolerance = 10
    BoundTolerance = 10
    WarnFactor = 1
    FailFactor = 3
    MinBasis = 2
    SampleRows = 5
    Grace = 1
    MaxRows = 5
    Drafts <- MCDrafts
INVARIANTS
    FannedIsChallenged
    HonestKeepsTheBadge
    IntervalsKeepTheirScale
    ImpossibleFilterIsTold
