CONSTANTS
  s1 = s1
  s2 = s2
  Supervisors <- Two
  OwnerGiven <- FreshIds2
  PollChoices <- Poll3
  LeaseChoices <- Lease2
  MaxCalls = 1
  MaxCycles = 2
  MaxConfigs = 0
  MaxFaults = 0
  MaxStalls = 0
SPECIFICATION Spec
CONSTANT Outcomes = {"success"}
INVARIANT OneSupervisor
CHECK_DEADLOCK FALSE
