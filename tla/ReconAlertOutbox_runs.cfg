SPECIFICATION FairSpec
CONSTANTS
  a1 = a1
  w1 = w1
  w2 = w2
  o1 = o1
  Alerts <- OneAlert
  Workers <- TwoWorkers
  Operators = {o1}
  MaxAttempts = 2
  BackoffMinutes <- Backoff2
  LeaseMinutes = 1
  Cooldown = 1
  Limit = 2
  MessageRows = 2
  ClockModes = {FALSE}
  MaxRuns = 2
  MaxStalls = 1
  MaxRequeues = 1
INVARIANTS
  TypeOK
  OneUnresolved
  NotifiedWhenDelivered
  CopiesOnRecord
  FailedWhenSpent
PROPERTIES
  EventSettles
  DeliverySpec
