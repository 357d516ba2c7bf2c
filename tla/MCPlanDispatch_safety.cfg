CONSTANTS
  t1 = t1  t2 = t2  m1 = m1  m2 = m2  k1 = k1  k2 = k2  a1 = a1  e1 = e1
  None = None
  Tasks = {t1, t2}
  Refs = {e1}
  MaxReplans = 1
  Calls = {m1, m2}
  Keys = {k1, k2}
  Target <- OneTarget
  Routes = {a1}
  Route <- OneRoute
  MaxGrants = 2
  MaxAttempts = 1
  MaxDeaths = 1
SPECIFICATION Spec
INVARIANTS DeliveredIsDone NeverStuck OneIssue DispatchAuthorized
PROPERTIES CompletedIsFinal StartsAfterDependencies
SYMMETRY Symmetry
CONSTRAINT TwoTroubles
