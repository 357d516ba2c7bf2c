CONSTANTS
  p1 = p1  r1 = r1  r2 = r2  r3 = r3  f1 = f1  f2 = f2  t1 = t1
  None = None
  Procs = {p1}
  Reqs = {r1, r2, r3}
  Fingerprints = {f1, f2}
  Home <- OneProc
  Fingerprint <- OneDiffers
  Preflight = TRUE
  SlowClaims = FALSE
  MaxLapses = 1
  MaxExpiries = 0
  MaxCrashes = 0
  MaxFaults = 2
  Tasks = {t1}
  LimitedTasks = {t1}
  OpTasks = {}
  TableLimit = 1
  TablePruned = 0
  LogCap = 5
  ReadLimit = 1
  InlineCap = 1
  MaxOutput <- Output
  MaxTaskFaults = 0
  MaxTaskCrashes = 1
  QueueCap = 1
  BufferCap = 1
  HistoryCap = 2
  PageCap = 2
  MaxEvents = 3
  MaxCuts = 1
  TaskRows = {1, 2, 3}
  EditRows = {11}
  OperationRows = {}
  SnapshotRows = {}
  PlanTasks = {"p"}
  StuckLogs = {1}
  Batch = 2
  MaxRetentionFaults = 0
SPECIFICATION ServingFairSpec
CHECK_DEADLOCK FALSE
PROPERTIES EveryCallAnswered StoppedTaskEnds CatchesUp AgedIsCollected
