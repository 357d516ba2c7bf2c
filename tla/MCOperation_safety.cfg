SPECIFICATION Spec
CONSTANTS
  Ops = {o1, o2}
  Steps = {1, 2}
  SubmitSpecs <- Mixed
  Tokens = {tk}
  Workers = {w1, w2}
  Clients = {c1, c2}
  None = None
  MaxSteps = 2
  MaxGrants = 1
  MaxCrashes = 1
  MaxFaults = 1
SYMMETRY Symmetry
ACTION_CONSTRAINT OneOfTwo
INVARIANTS TerminalMeansQuiet AtMostOncePerGrant StepsRunInTurn OutcomeIsTrue
PROPERTIES NeverRevived
CHECK_DEADLOCK FALSE
