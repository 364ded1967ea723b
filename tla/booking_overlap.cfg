CONSTANTS
  Bookings = {b1, b2}
  Slots <- MCSlots
  Requests = {q1}
  Deliveries = {m1}
  Sweeps = {s1}
  Faults = {}
  MaxCrashes = 0
  NoOne = NoOne
SPECIFICATION Spec
INVARIANTS
  NoDoubleBooking
