SPECIFICATION Spec
CONSTANTS
  e1 = e1
  e2 = e2
  w1 = w1
  w2 = w2
  telegram = telegram
  notify = notify
  Events <- MCEvents
  Workers <- MCWorkers
  Operators = {o1, o2}
  Channels = {telegram}
  GroupOf <- OneGroup
  PartsOf <- AllFit
  MaxAttempts = 1
  LeaseMinutes = 1
  BackoffMinutes <- OneBackoff
  Limit = 2
  ClockModes = {FALSE}
  MaxStalls = 1
  MaxRequeues = 2
SYMMETRY WorkerSymmetry
INVARIANTS
  DeliveredTogether
