CONSTANTS
  Bookings = {b1}
  Slots <- MCOneSlot
  Requests = {q1}
  Deliveries = {p1, p2}
  Sweeps = {}
  Faults = {}
  MaxCrashes = 0
  PayFaults = {}
  MaxPayCrashes = 0
  NoOne = NoOne
SPECIFICATION SagaFairSpec
INVARIANTS
  ConfirmedKeepsPayment
PROPERTIES
  PaymentOffered
  RefundHonoured
CHECK_DEADLOCK FALSE
