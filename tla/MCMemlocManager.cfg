SPECIFICATION Spec
CONSTANTS
  NoMemloc = NoMemloc
  Threads = {worker, gui}
  Segs <- MCSegs
  Base <- MCBase
  SegLen <- MCSegLen
  Objs <- MCObjs
  Seg <- MCSeg
  Off <- MCOff
  Len <- MCLen
SYMMETRY MCSymmetry
INVARIANTS
  TypeOK
  TablesAgree
  NoOverlap
  FindsCover
  LinksSound
CHECK_DEADLOCK FALSE
