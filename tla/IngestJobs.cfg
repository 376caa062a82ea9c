SPECIFICATION FairSpec
CONSTANTS
  j1 = j1
  j2 = j2
  w1 = w1
  w2 = w2
  h1 = h1
  h2 = h2
  Nobody = Nobody
  NoHash = NoHash
  Jobs <- MCJobs
  Deletable <- OneFile
  Workers <- MCWorkers
  Hashes <- OneHash
  Digests <- SameDigest
  Slots = 1
  MaxAttempts = 2
  MaxFaults = 1
INVARIANTS
  OneClaim
  SingleWriter
  ReadyHasChunks
  Searchable
PROPERTIES
  LiveOwnerKeepsRow
  OutcomeFinal
  EveryJobEnds
CHECK_DEADLOCK FALSE
