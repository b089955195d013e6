SPECIFICATION FairSpec
CONSTANTS
  d1 = d1
  h1 = h1
  w1 = w1
  w2 = w2
  Downloads <- OneItem
  Heads = {}
  Workers <- TwoWorkers
  LeaseSeconds = 2
  RetryDelay = 1
  MaxStages = 2
  MaxLeases = 2
  MaxFaults = 1
  MaxRepairs = 1
INVARIANTS
  TypeOK
  LocalWorkUntouched
PROPERTIES
  ProcessedStays
  LeaseEnds
