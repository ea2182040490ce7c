SPECIFICATION Spec
CONSTANTS
    MaxText = 2
    LastAddr = 5
    Target <- Targets
    Keys <- SomeKeys
    Clipboard <- Texts
    MaxEvents = 4
INVARIANTS
    HistoryInRange
PROPERTIES
    PlaceKept
CHECK_DEADLOCK FALSE
