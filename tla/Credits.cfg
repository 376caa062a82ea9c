SPECIFICATION FairSpec

CONSTANTS
  u1 = u1
  h1 = h1
  h2 = h2
  Users = {u1}
  Holds = {h1, h2}
  Actor <- MCActor
  Limit <- MCLimit
  Amounts = {1, 2}
  Costs = {2}
  LastMonth = 2
  MaxDirect = 1
  MaxCrashes = 1
  Reconciling = TRUE

INVARIANTS
  HoldsCovered
  HoldsOfRows
  SpendWithinLimit
  UsedCoveredByLedger

PROPERTIES
  ImplementsLifecycle
  HoldsComeBack

CHECK_DEADLOCK FALSE
