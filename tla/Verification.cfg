SPECIFICATION Spec
CONSTANTS
    None = None
    MaxDerivationPairs = 8
    MaxRegenerateRetries = 1
    UnmatchedFinal = "unverified"
    Drafts <- MCDrafts
    Evidences <- MCEvidences
    JudgeEnabled = TRUE
    MaxJudgeCalls = 1
    InlineValueMaxChars = 12
INVARIANTS
    FiguresAnswered
    MatchedIsWarranted
    InjectedNeverTyped
    JudgeHasTheResidue
