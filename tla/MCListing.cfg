SPECIFICATION ListSpec
CONSTANTS
    SegLen = 20
    Named = {8, 12}
    NoAddr = NoAddr
    Heap = {0, 7}
    Cases <- AllCases
INVARIANTS
    DecodersAgree
    PcWritersStop
CHECK_DEADLOCK FALSE
