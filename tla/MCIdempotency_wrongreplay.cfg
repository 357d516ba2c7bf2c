CONSTANTS
  p1 = p1  r1 = r1  r2 = r2  r3 = r3  f1 = f1  f2 = f2
  None = None
  Procs = {p1}
  Reqs = {r1, r2, r3}
  Fingerprints = {f1, f2}
  Home <- OneProc
  Fingerprint <- OneDiffers
  Preflight = TRUE
  SlowClaims = FALSE
  MaxLapses = 0
  MaxExpiries = 0
  MaxCrashes = 0
  MaxFaults = 0
SPECIFICATION Spec
CHECK_DEADLOCK FALSE
INVARIANT ReplayMatchesRequest
