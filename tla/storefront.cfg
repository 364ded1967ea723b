CONSTANTS
  v1 = v1
  s1 = s1
  Salons = {s1}
  OwnerCalls = {o1, o2}
  Visits = {v1}
  SalonOf <- MCSalonOf
  Stars <- MCStars
  Reviewers = {w1, w2}
  AdminCalls = {a1}
  Decisions = {"suspended"}
  ReviewFaults = {"crash", "bus", "db"}
  CatalogueFaults = {"crash", "bus", "db"}
  SearchFaults = {"crash"}
  MaxReviewCrashes = 1
  MaxCatalogueCrashes = 1
  MaxSearchCrashes = 1
SPECIFICATION StorefrontSpec
INVARIANTS
  StorefrontTypeOK
  OneReviewPerVisit
  ServicesKept
PROPERTIES
  StatusIsDecided
SYMMETRY MCSymmetry
CHECK_DEADLOCK FALSE
