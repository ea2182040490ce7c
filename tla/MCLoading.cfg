SPECIFICATION Spec
CONSTANTS
    MatchChars = 20
    Near = 3
    AddrMod = 16777217
    Base = 16
    Imm12 = 64
    Hosts = {0, 160}
    Bases = {0, 64}
    Files <- AllFiles
INVARIANTS
    TypeOK
    BestLoaderReads
    RefusedLeavesNothing
    TextImageKept
    ElfImageKept
    IndexShowsSegments
CHECK_DEADLOCK FALSE
