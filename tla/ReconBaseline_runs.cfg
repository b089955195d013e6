SPECIFICATION Spec
CONSTANTS
  a = a
  b = b
  x = x
  d1 = d1
  NoVersion = NoVersion
  NoSet = NoSet
  Versions <- ThreeVersions
  Restricted = {x}
  Urgent = {b}
  DerivedSets = {d1}
  Threshold = 2
  Attempts = 2
  MaxRuns = 2
  MaxCalls = 3
  MaxFaults = 1
INVARIANTS
  TypeOK
  OneStory
  CompleteReference
  TrustedRows
  TrustedSets
  SetsFollowCommit
PROPERTIES
  ChangesReported
  ConfirmedWhenStable
  ConfirmationTold
CHECK_DEADLOCK FALSE
