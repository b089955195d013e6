SPECIFICATION FairSpec
CONSTANTS
  e1 = e1
  e2 = e2
  w1 = w1
  w2 = w2
  telegram = telegram
  notify = notify
  Events <- OneEvent
  Workers <- MCWorkers
  Operators = {o1, o2}
  Channels = {telegram}
  GroupOf <- OneEventGroup
  PartsOf <- OneOversized
  MaxAttempts = 2
  LeaseMinutes = 1
  BackoffMinutes <- MCBackoff
  Limit = 1
  ClockModes = {FALSE}
  MaxStalls = 1
  MaxRequeues = 2
INVARIANTS
  IndInv
  RowNeverContradictsEvent
PROPERTIES
  EventSettles
  DeliverySpec
