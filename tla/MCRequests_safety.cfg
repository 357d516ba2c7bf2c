CONSTANTS
  p1 = p1  p2 = p2  c1 = c1  c2 = c2  f1 = f1
  r1 = r1  r2 = r2  r3 = r3  r4 = r4  r5 = r5  q1 = q1  q2 = q2
  e1 = e1  e2 = e2  e3 = e3
  None = None
  Procs = {p1, p2}
  Reqs = {r1, r2, r3, r4, r5, q1, q2}
  Home <- TwoProcs
  Commands = {c1, c2}
  Command <- OneDiffers
  Confirmed = {r3, r4, r5, q1, q2}
  Keyed = {r1, q1, q2}
  Fingerprints = {f1}
  Fingerprint <- SameParams
  MaxOld = 1
  MaxLapses = 1
  MaxExpiries = 1
  MaxCrashes = 1
  MaxFaults = 1
  EditCalls = {e1, e2, e3}
  EditProcesses = {p1, p2}
  EditHome <- EditHomes
  EditOps <- UpdateThenRename
  MaxForeign = 1
  MaxEditFaults = 1
  MaxEditCrashes = 1
  MaxEditLapses = 1
  PrepareCalls = {"prepare1", "prepare2"}
  SubmitCalls = {"submit1", "submit2"}
  MoveKinds <- FileAndDirectory
  MoveWays <- LinuxWays
  MaxTouches = 1
  MaxMoveFaults = 1
  MaxMoveCrashes = 1
  w1 = w1  w2 = w2
  Editors = {1, 2, 3}
  Workspaces = {w1, w2}
  MaxVolumeMoves = 2
  MaxHomeFaults = 1
SPECIFICATION RequestsSpec
CHECK_DEADLOCK FALSE
INVARIANTS RequestsTypeOK ApprovalsHold AnsweredByRecord ConfigurationKept
PROPERTIES ShownCanBeConfirmed EditsHold MovesHold
