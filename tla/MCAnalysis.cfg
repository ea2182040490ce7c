SPECIFICATION FairSpec
CONSTANTS
  NoInsn = NoInsn
  NoAddr = NoAddr
  InsnLen = 2
  MaxCommands = 3
  Starts = {0, 4, 5, 8, 20}
  Mem <- MCMem
  Decode <- MCDecode
INVARIANTS
  TypeOK
  FlowClosed
  BranchesHaveXrefs
  SymbolsCurrent
  UserSymbolsKept
PROPERTIES
  UndefineSparesExplicit
  AnalysisTerminates
CHECK_DEADLOCK FALSE
