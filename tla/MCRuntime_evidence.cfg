CONSTANTS
  t1 = t1  t2 = t2  t3 = t3  o1 = o1  o2 = o2  x1 = x1  u1 = u1  n1 = n1  n2 = n2
  k0 = k0  k1 = k1  k2 = k2  c1 = c1  c2 = c2  c3 = c3
  OpenCalls = {o1, o2}
  OpenKey <- SameKey
  CloseCalls = {x1}
  UseCalls = {u1}
  ConnOf <- Conns
  SessionIds = {1, 2}
  MaxSessionFaults = 1
  MaxSessionCrashes = 1
  Commits = {k0, k1, k2}
  Parent <- Chain
  NoCommit = NoCommit
  Depth <- DepthInChain
  RunOpens = {o1, o2}
  RunCommands = {c1, c2, c3}
  Expected <- ExpectedCommit
  Candidate <- CandidateCommit
  TransitionOf <- OneTransition
  NoTransition = "no"
  MaxForeignMoves = 1
  MaxRunFaults = 1
  MaxRunCrashes = 1
  Tasks = {t1, t2, t3}
  LimitedTasks = {t1}
  OpTasks = {t2}
  TableLimit = 1
  TablePruned = 0
  LogCap = 1
  ReadLimit = 2
  InlineCap = 1
  MaxOutput <- Output
  MaxTaskFaults = 1
  MaxTaskCrashes = 1
  QueueCap = 1
  BufferCap = 1
  HistoryCap = 2
  PageCap = 2
  MaxEvents = 4
  MaxCuts = 1
  TaskRows = {1, 2}
  EditRows = {11}
  OperationRows = {21}
  SnapshotRows = {31}
  PlanTasks = {"p"}
  StuckLogs = {1}
  Batch = 2
  MaxRetentionFaults = 1
SPECIFICATION RuntimeSpec
CHECK_DEADLOCK FALSE
INVARIANT EvidenceKept
