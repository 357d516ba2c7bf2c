CONSTANTS
  p1 = p1  r1 = r1  r2 = r2  r3 = r3  f1 = f1  f2 = f2
  None = None
  Procs = {p1}
  Reqs = {r1, r2, r3}
  Fingerprints = {f1, f2}
  Home <- OneProc
  Fingerprint <- OneDiffers
  Preflight = FALSE
  SlowClaims = FALSE
  MaxLapses = 2
  MaxExpiries = 0
  MaxCrashes = 0
  MaxFaults = 2
  Updaters = {1, 2}
  Releases <- Versions
  TextBegins <- BeginsWith
  MaxReuploads = 1
  MaxUpdateFaults = 1
  BrowserCalls = {"ask", "confirm", "visit"}
  BrowserSession <- SessionOf
  BrowserCommand <- CommandOf
  Acknowledged = {"confirm"}
  Navigating = {"confirm", "visit"}
  Prompted = {"ask", "confirm"}
  Instances = {"i1"}
  Nobody = "nobody"
  MaxBrowserFaults = 1
  MaxBrowserMoves = 1
  Scripts <- EventScripts
  MaxBody = 4
  MaxGaps = 1
  Servers = {"first", "second"}
  LastMigration = 2
  OnceOnly = {2}
  NoServer = "none"
  MaxStarts = 3
  MaxStartFaults = 1
  SourcePaths = {"a", "b", "denied"}
  DeniedPaths = {"denied"}
  SourceFiles <- ReadFiles
  FirstReads <- ReadRequests
  PageBytes = 6
  FullBytes = 5
  MaxFileEdits = 1
  NoSource = NoSource
  ChunkSources <- ToolChunks
  PieceLimits = {0, 1, 3}
  PreviewBytes = 7
  MarkerBytes = 2
  DefaultBytes = 4
  LargestBytes = 5
  ResourceBytes = 9
  MaxReplaced = 2
  ToolCalls = {"c1", "c2"}
  CallPlans <- ToolPlans
  LastRequest = 2
  LastMs = 2
  MaxBeats = 1
  PolledOps = {"o1", "o2", "foreign"}
  OwnOps = {"o1", "o2"}
  OperationAsks <- OpAsks
  BatchItems <- Batches
  StepTimings <- Timings
  MaxHandles = 2
  ExtCalls = {"look", "first", "second"}
  ExtSessions = {"s1"}
  ExtPlans <- ExtensionPlans
  SkillDirs <- ScanOrder
  LastVersion = 2
  MaxExtChanges = 1
  MaxExtRestarts = 1
  MaxDeadlines = 1
  TrackerCalls = {"a", "b"}
  TrackerPlans <- TrackerAsks
  Dialects <- TrackerDialects
  MaxMoves = 1
SPECIFICATION ToolsSpec
CHECK_DEADLOCK FALSE
PROPERTIES ToolsHold KeyedAnswersHold
