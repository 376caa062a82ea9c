SPECIFICATION Spec

CONSTANTS
  s1 = s1
  s2 = s2
  a1 = a1
  k1 = k1
  k2 = k2
  c1 = c1
  c2 = c2
  c3 = c3
  c4 = c4
  r1 = r1
  Sources = {s1}
  Assets = {}
  Clones = {k1}
  Origin <- MCOrigin
  Calls = {c1}
  Target <- MCTarget
  Reapers = {r1}
  MaxAttempts = 2
  MaxFaults = 1

PROPERTIES
  ReaperSparesReferenced

CHECK_DEADLOCK FALSE
