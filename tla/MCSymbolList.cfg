SPECIFICATION Spec
CONSTANTS
    Addrs = {1, 2}
    Alphabet <- ThreeNames
    MaxCalls = 3
INVARIANTS
    ListShowsTable
PROPERTIES
    ImplementsTable
CHECK_DEADLOCK FALSE
