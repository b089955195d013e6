SPECIFICATION FairSpec
CONSTANTS
  p1 = p1
  p2 = p2
  p3 = p3
  p4 = p4
  NoFile = NoFile
  Empty = Empty
  Processes <- FourProcesses
  Mortal <- TwoMortals
INVARIANTS
  TypeOK
  OneRun
  LockShows
PROPERTY RunsGoOn
