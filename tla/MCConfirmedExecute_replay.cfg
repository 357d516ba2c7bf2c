CONSTANTS
  p1 = p1  r1 = r1  r2 = r2  r3 = r3  r4 = r4  c1 = c1  f1 = f1
  None = None
  Procs = {p1}
  Reqs = {r1, r2, r3, r4}
  Home <- OneProc
  Commands = {c1}
  Command <- SameCommand
  Confirmed = {r2, r3, r4}
  Keyed = {r1, r2, r3}
  Fingerprints = {f1}
  Fingerprint <- SameParams
  MaxOld = 0
  MaxLapses = 1
  MaxExpiries = 0
  MaxCrashes = 1
  MaxFaults = 0
SPECIFICATION CSpec
CHECK_DEADLOCK FALSE
INVARIANT ConfirmationNotReplayed
