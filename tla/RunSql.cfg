SPECIFICATION Spec
CONSTANTS
    MaxRepairAttempts = 2
    EnabledLints <- MCLints
    PlaceholderLint = TRUE
INVARIANTS
    ChallengedOnce
    InventedNeverRuns
    OverrideCostsBadge
