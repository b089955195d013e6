SPECIFICATION Spec
CONSTANTS
  e1 = e1
  e2 = e2
  w1 = w1
  w2 = w2
  telegram = telegram
  notify = notify
  Events <- MCEvents
  Workers <- MCWorkers
  Operators = {}
  Channels <- MCChannels
  GroupOf <- OneGroup
  PartsOf <- OversizedE2
  MaxAttempts = 2
  LeaseMinutes = 1
  BackoffMinutes <- MCBackoff
  Limit = 2
  ClockModes = {FALSE, TRUE}
  MaxStalls = 1
  MaxRequeues = 0
SYMMETRY SafetySymmetry
INVARIANTS
  DeliveredMeansTaken
  OneDeliveredReceipt
  FailedOnlyAfterReceipts
  DeliveredTogether
  CopiesOnRecord
PROPERTIES
  LeaseRespected
