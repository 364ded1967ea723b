CONSTANTS
  Bookings = {b1}
  Slots <- MCOneSlot
  Requests = {q1, q2}
  Deliveries = {p1}
  Sweeps = {s1}
  Faults = {"crash", "bus"}
  MaxCrashes = 1
  PayFaults = {"crash", "bus", "db"}
  MaxPayCrashes = 1
  NoOne = NoOne
SPECIFICATION SagaSpec
INVARIANTS
  RefundsRequested
  CompletedIsCharged
PROPERTIES
  BookingSpec
SYMMETRY MCSymmetry
CHECK_DEADLOCK FALSE
