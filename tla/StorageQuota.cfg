SPECIFICATION MCSpec

CONSTANTS
  u1 = u1
  u2 = u2
  w1 = w1
  w2 = w2
  r1 = r1
  r2 = r2
  r3 = r3
  r4 = r4
  Users = {u1, u2}
  Workspaces = {w1, w2}
  Sources = {r1, r2}
  Assets = {r4}
  Notes = {r3}
  Home <- MCHome
  FirstOwner <- MCFirstOwner
  Limit <- MCLimit
  MaxFiles = 1
  Sizes = {1, 2}
  MaxTransfers = 1
  MaxEdits = 1
  Reconciling = TRUE
  Spare = {{r2}, {r4}}

INVARIANTS
  BytesCovered
  BytesOfRows
  ReservationsCovered
  ReservationsExact
  QuotaHolds
  FilesBounded

PROPERTIES
  CountersConverge

CHECK_DEADLOCK FALSE
