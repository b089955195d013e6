SPECIFICATION Spec
CONSTANTS
  d1 = d1
  h1 = h1
  w1 = w1
  w2 = w2
  Downloads <- OneItem
  Heads <- OneHead
  Workers <- TwoWorkers
  LeaseSeconds = 2
  RetryDelay = 1
  MaxStages = 1
  MaxLeases = 2
  MaxFaults = 1
  MaxRepairs = 1
INVARIANTS
  ArtifactKept
  ClaimsWhole
SYMMETRY WorkerSymmetry
