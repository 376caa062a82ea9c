CONSTANTS
  c1 = c1
  c2 = c2
  typed = typed
  large = large
  command = command
  Instances = {i1, i2}
  Nowhere = nowhere
  Clients = {c1, c2}
  Service = service
  Edits = {typed, large, command}
  Author <- MCAuthor
  Big = {large}
  PendCap = 1
  MaxEpoch = 2
  MaxAsks = 1
  Budgets <- MCBudgets
SPECIFICATION FairSpec
INVARIANTS
  NothingTwice
PROPERTIES
  ImplementsNote
  ReachesDisk
  ReadersCatchUp
CHECK_DEADLOCK FALSE
