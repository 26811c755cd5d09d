SPECIFICATION FairSpec
CONSTANTS
    t1 = t1
    t2 = t2
    r1 = r1
    Threads <- MCThreads
    Refs <- MCRefs
    MaxConversations = 2
    MaxWorkspaces = 2
    MaxTurns = 2
    MaxFailures = 1
INVARIANTS
    OneTurnAtATime
    LogSurvives
    HistoryIsOwn
    NothingLeftBehind
PROPERTIES
    ThreadsKeepTheirTurns
    ServiceRecovers
