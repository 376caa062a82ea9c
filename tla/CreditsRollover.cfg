SPECIFICATION Spec

CONSTANTS
  u1 = u1
  h1 = h1
  h2 = h2
  Users = {u1}
  Holds = {h1, h2}
  Actor <- MCActor
  Limit <- MCLimit
  Amounts = {1}
  Costs = {1}
  LastMonth = 1
  MaxDirect = 0
  MaxCrashes = 0
  Reconciling = FALSE

SYMMETRY Symmetry

PROPERTIES
  RolloverLosesNothing

CHECK_DEADLOCK FALSE
