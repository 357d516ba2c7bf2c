CONSTANTS
  p1 = p1  p2 = p2  r1 = r1  r2 = r2  r3 = r3  f1 = f1
  s1 = s1  s2 = s2  c1 = c1  c2 = c2  c3 = c3  u1 = u1  u2 = u2
  None = None
  Procs = {p1, p2}
  Reqs = {r1, r2, r3}
  Fingerprints = {f1}
  Home <- TwoProcs
  Fingerprint <- SameParams
  Preflight = TRUE
  SlowClaims = TRUE
  MaxLapses = 1
  MaxExpiries = 1
  MaxCrashes = 1
  MaxFaults = 1
  Starts = {s1, s2}
  Preregistered = "p"
  Dynamic = {"d1"}
  MaxClients = 2
  MaxPendingCodes = 1
  MaxRefreshTokens = 2
  MaxKeys = 2
  MaxCodes = 3
  MaxTokens = 3
  MaxOAuthFaults = 1
  MaxOAuthStops = 1
  Commands = {c1, c2, c3}
  KindOf <- KindOfCommand
  Pids = {1, 2, 3, 4}
  NoPid = 0
  MaxDeaths = 1
  MaxStrangers = 1
  MaxDaemonFaults = 1
  Clicks = {u1, u2}
  Actions = {"start tunnel", "stop"}
  Modes = {"quick"}
  NamedOrigin = 99
  MaxTunnels = 2
  MaxDesktopFaults = 1
  MaxDesktopDeaths = 1
SPECIFICATION ProcessesSpec
CHECK_DEADLOCK FALSE
INVARIANTS ProcessesTypeOK EffectsBounded OneOwnerOneAnswer CredentialsHold DaemonHolds TunnelHolds
PROPERTIES PromiseKept
SYMMETRY Symmetry
