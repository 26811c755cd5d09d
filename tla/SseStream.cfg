SPECIFICATION FairSpec
CONSTANTS
    s1 = s1
    s2 = s2
    Streams <- MCStreams
    MaxStatus = 3
INVARIANTS
    OneTerminalFrame
    TrailsOwn
    ResultMeansDone
PROPERTIES
    TurnLandsUnread
    StreamEnds
