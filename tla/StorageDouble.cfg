SPECIFICATION MCSpec

CONSTANTS
  u1 = u1
  u2 = u2
  w1 = w1
  w2 = w2
  r1 = r1
  r2 = r2
  r3 = r3
  r4 = r4
  Users = {u1}
  Workspaces = {w1}
  Sources = {r1, r2, r3, r4}
  Assets = {}
  Notes = {}
  Home <- MCHome
  FirstOwner <- MCFirstOwner
  Limit <- MCLimit
  MaxFiles = 9
  Sizes = {1}
  MaxTransfers = 0
  MaxEdits = 0
  Reconciling = TRUE
  Spare = {{}}

INVARIANTS
  NoDoubleSpend

CHECK_DEADLOCK FALSE
