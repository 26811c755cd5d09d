SPECIFICATION Spec
CONSTANTS
    MaxRegenerateRetries = 1
    UnmatchedFinal = "unverified"
    MaxRouterIterations = 1
    MaxDraftRetries = 0
    PackContext <- MCPack
    Contexts <- MCOnePack
    MaxJudgeCalls = 0
    MaxTurns = 2
    MaxCalls = 1
    ProviderIds <- MCNoIds
    MaxClaims = 1
INVARIANTS
    ContradictionHasVerdict
