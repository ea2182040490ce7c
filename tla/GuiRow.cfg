SPECIFICATION Spec
CONSTANTS
  NoAddr = NoAddr
  End = End
  Dangling = Dangling
  NoBlock = NoBlock
  NoCache = NoCache
  SegLen <- MCOneSegment
  Lengths = {2}
  BlockSize = 2
  MaxChanges = 2
INVARIANTS
  LineExists
CHECK_DEADLOCK FALSE
