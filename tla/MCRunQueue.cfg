SPECIFICATION MonitoredSpec
CONSTANTS
  flow = flow
  target = target
  symbols = symbols
  search = search
  NoJob = NoJob
  Worker = Worker
  Destructor = Destructor
  Free = Free
  Jobs = {flow, target, symbols, search}
  Clients = {gui}
  Priority <- MCPriority
  Parent <- MCParent
INVARIANTS
  TypeOK
  NoLostWakeup
  ExecutedOnce
  DrainedBeforeBegin
  RunningTaskIsCurrent
PROPERTIES
  ImplementsExecutor
  QueuedJobRuns
  WorkerExits
CHECK_DEADLOCK FALSE
