SPECIFICATION FairSpec
CONSTANTS
    MaxRegenerateRetries = 1
    UnmatchedFinal = "unverified"
    MaxRouterIterations = 2
    MaxDraftRetries = 1
    PackContext <- MCPack
    Contexts <- MCOnePack
    MaxJudgeCalls = 1
    MaxTurns = 2
    MaxCalls = 2
    ProviderIds <- MCIdsRepeat
    MaxClaims = 1
INVARIANTS
    AnswerIsVerified
    VerdictAgreesWithOutcome
    AttemptsAreALadder
    TurnBudget
    TranscriptAnswered
    EvidenceNumbering
PROPERTIES
    EveryTurnEnds
    ImplementsConversation
