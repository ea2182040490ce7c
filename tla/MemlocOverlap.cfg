SPECIFICATION Spec
CONSTANTS
  NoMemloc = NoMemloc
  Threads = {gui}
  Segs <- MCSegs
  Base <- MCBase
  SegLen <- MCSegLen
  Objs <- MCBeyond
  Seg <- MCSeg
  Off <- MCOff
  Len <- MCLen
INVARIANT OverlapIsRejected
CHECK_DEADLOCK FALSE
