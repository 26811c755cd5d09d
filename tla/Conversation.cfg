SPECIFICATION Spec
CONSTANTS
    PackContext <- MCPack
    Contexts <- MCContexts
    MaxTurns = 7
INVARIANTS
    EveryTurnOnce
    WindowNeverShorter
