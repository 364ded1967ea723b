CONSTANTS
  v1 = v1
  s1 = s1
  Salons = {s1}
  OwnerCalls = {o1}
  Visits = {v1, v2}
  SalonOf <- MCSalonOf
  Stars <- MCStars
  Reviewers = {w1, w2}
  AdminCalls = {}
  Decisions = {"suspended"}
  ReviewFaults = {"db"}
  CatalogueFaults = {"crash", "db"}
  SearchFaults = {"crash", "db"}
  MaxReviewCrashes = 1
  MaxCatalogueCrashes = 1
  MaxSearchCrashes = 1
SPECIFICATION StorefrontSpec
INVARIANTS
  RatingsAreOfReviews
  CountsAreBacked
PROPERTIES
  VisitsReviewable
  RatingsShown
CHECK_DEADLOCK FALSE
