CONSTANTS
  v1 = v1
  s1 = s1
  Salons = {s1}
  OwnerCalls = {o1}
  Visits = {v1}
  SalonOf <- MCSalonOf
  Stars <- MCStars
  Reviewers = {w1}
  AdminCalls = {a1}
  Decisions = {"suspended"}
  ReviewFaults = {}
  CatalogueFaults = {}
  SearchFaults = {}
  MaxReviewCrashes = 1
  MaxCatalogueCrashes = 1
  MaxSearchCrashes = 1
SPECIFICATION StorefrontSpec
INVARIANTS
  IndexInSync
CHECK_DEADLOCK FALSE
