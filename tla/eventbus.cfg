CONSTANTS
  Messages = {m1, m2}
  Events = {e1}
  MaxAttempts = 2
  MaxLosses = 2
  MaxBrokerRestarts = 1
  MaxStarts = 2
SPECIFICATION EventBusSpec
INVARIANTS
  NothingDropped
PROPERTIES
  DeliverySpec
  HeardIsSettled
CHECK_DEADLOCK FALSE
