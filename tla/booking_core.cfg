CONSTANTS
  Bookings = {b1, b2}
  Slots <- MCSlots
  Requests = {q1}
  Deliveries = {m1}
  Sweeps = {s1}
  Faults = {"crash", "bus", "db", "redis"}
  MaxCrashes = 1
  NoOne = NoOne
SPECIFICATION Spec
INVARIANTS
  TypeOK
  CreatesExclusive
  OnePendingPerSlot
  ServedOnlyIfPaid
  RefundOnlyIfPaid
  FreedMeansUnlocked
PROPERTIES
  HoldSpec
SYMMETRY MCSymmetry
