CONSTANTS
  Bookings = {b1, b2}
  Slots <- MCOneSlot
  Requests = {q1}
  Deliveries = {m1}
  Sweeps = {s1}
  Faults = {"crash", "slow"}
  MaxCrashes = 1
  NoOne = NoOne
SPECIFICATION FairSpec
INVARIANTS
  StatusAnnounced
PROPERTIES
  PendingResolved
  OutcomeAcknowledged
