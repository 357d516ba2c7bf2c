SPECIFICATION FairSpec
CONSTANTS
  Ops = {o1}
  Steps = {1, 2, 3}
  SubmitSpecs <- Fans
  Tokens = {tk}
  Workers = {w1}
  Clients = {c1}
  None = None
  MaxSteps = 3
  MaxGrants = 1
  MaxCrashes = 0
  MaxFaults = 0
PROPERTIES Settles CancelEnds
CHECK_DEADLOCK FALSE
