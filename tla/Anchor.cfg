SPECIFICATION Spec
CONSTANTS
    None = None
    Dictionary <- MCDictionary
    Declared <- MCDeclared
    Evidences <- MCEvidences
    Abouts <- MCAbouts
    Texts <- MCTexts
    MaxTurns = 3
INVARIANTS
    HeldToNewestGiven
    PronounFollowsWarning
