CONSTANTS
  b1 = b1
  c1 = c1
  o1 = o1
  k2 = k2
  k3 = k3
  Bookings = {b1, b2}
  Customers = {c1}
  Owners = {o1}
  CustomerOf <- MCCustomerOf
  OwnerOf <- MCOwnerOf
  Amount <- MCAmount
  Handlers = {h1, h2}
  Disputes = {d1}
  DisputeOf <- MCDisputeOf
  Verdicts = {"resolved"}
  Resolutions = {r1, r2}
  Askers = {r1}
  RateCalls = {k1, k2, k3}
  Sent <- MCSent
  DefaultRate = DefaultRate
  NoAccount = NoAccount
  Watched = {"loyalty", "notification", "reporting", "admin"}
  LoyaltyFaults = {"crash", "db"}
  NotificationFaults = {"crash", "db"}
  ReportingFaults = {"crash", "db"}
  AdminFaults = {"crash", "bus", "db"}
  MaxLoyaltyCrashes = 1
  MaxNotificationCrashes = 1
  MaxReportingCrashes = 1
  MaxAdminCrashes = 1
SPECIFICATION AftercareSpec
INVARIANTS
  NeverOverCredited
  ToldOnce
  DashboardHonest
  IssuedIsAsked
PROPERTIES
  PointsRecorded
  CustomersTold
  EventsRecorded
  RateApplied
CHECK_DEADLOCK FALSE
