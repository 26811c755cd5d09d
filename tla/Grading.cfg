SPECIFICATION GradingSpec
CONSTANTS
    None = None
    Banks <- MCBanks
    Reports <- MCReports
INVARIANTS
    AlarmAlwaysRings
    CleanIsEarned
