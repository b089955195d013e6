CONSTANTS
  d1 = d1
  h1 = h1
  w1 = w1
  w2 = w2
  Downloads <- OneItem
  Heads = {}
  Workers <- OneWorker
  LeaseSeconds = 2
  RetryDelay = 1
  MaxStages = 2
  MaxLeases = 2
  MaxFaults = 0
  MaxRepairs = 0
SPECIFICATION Spec
PROPERTY LeaseProtected
