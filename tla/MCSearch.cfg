SPECIFICATION Spec
CONSTANTS
    Memories <- ThreeMemories
    Texts <- FourTexts
    MaxSearches = 3
INVARIANTS
    ResultsRight
    ResultsLive
PROPERTIES
    FirstResultShown
CHECK_DEADLOCK FALSE
