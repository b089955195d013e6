SPECIFICATION Spec
CONSTANTS
  s1 = s1
  s2 = s2
  Supervisors <- Two
  OwnerGiven <- FreshIds2
  PollChoices <- Poll1
  LeaseChoices <- Lease2Or1
  Outcomes = {"success", "failed"}
  MaxCalls = 1
  MaxCycles = 2
  MaxConfigs = 1
  MaxFaults = 1
  MaxStalls = 0
INVARIANTS
  TypeOK
  OneOwnerInTime
  RunsAccounted
CHECK_DEADLOCK FALSE
SYMMETRY SymmetryOfTwo
