SPECIFICATION FairSpec
CONSTANTS
  NoAddr = NoAddr
  End = End
  Dangling = Dangling
  NoBlock = NoBlock
  NoCache = NoCache
  SegLen <- MCSegLen
  Lengths = {2}
  BlockSize = 2
  MaxChanges = 3
INVARIANTS
  TypeOK
  BlocksCover
  LinesInverse
  ChangesAnnounced
PROPERTIES
  ChangesShown
CHECK_DEADLOCK FALSE
