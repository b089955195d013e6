CONSTANTS
  s1 = s1
  s2 = s2
  Supervisors <- Two
  OwnerGiven <- StableS1
  PollChoices <- Poll1
  LeaseChoices <- Lease2
  MaxCalls = 1
  MaxCycles = 2
  MaxConfigs = 0
  MaxFaults = 1
  MaxStalls = 1
SPECIFICATION FairSpec
CONSTANT Outcomes = {"success"}
PROPERTY LeaseRecovers
CHECK_DEADLOCK FALSE
