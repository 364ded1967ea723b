CONSTANTS
  Bookings = {b1}
  Slots <- MCOneSlot
  Requests = {q1}
  Deliveries = {p1}
  Sweeps = {s1}
  Faults = {}
  MaxCrashes = 0
  PayFaults = {}
  MaxPayCrashes = 0
  NoOne = NoOne
SPECIFICATION SagaSpec
INVARIANTS
  CancelledIsRefunded
CHECK_DEADLOCK FALSE
