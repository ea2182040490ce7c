SPECIFICATION Spec
CONSTANTS
  NoInsn = NoInsn
  NoAddr = NoAddr
  InsnLen = 2
  MaxCommands = 1
  Starts = {0, 4, 5, 20}
  Mem <- MCMem
  Decode <- MCDecode
INVARIANT CalleesAreEntries
CHECK_DEADLOCK FALSE
