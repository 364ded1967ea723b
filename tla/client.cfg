CONSTANTS
  r1 = r1
  r2 = r2
  t1 = t1
  s1 = s1
  s2 = s2
  Registrations = {r1, r2}
  Admin = Admin
  Email <- MCEmail
  Lower <- MCLower
  Tabs = {t1, t2}
  Calls = {k1, k2}
  TabOf <- MCTabOf
  MaxTokens = 3
  Nobody = Nobody
  NoSession = NoSession
  Services = {s1, s2}
  Duration <- MCDuration
  Buffer <- MCBuffer
  Dates = {0, 1}
  Day = 8
  Step = 2
  Hours <- MCHours
  Closed = Closed
  OtherRows <- MCOtherRows
  Clicks = {x1}
  Unset = Unset
  Watched = {"session", "page"}
SYMMETRY MCSymmetry
SPECIFICATION ClientSpec
INVARIANTS
  OneAccountPerEmail
  StoredTogether
  CarriedOutOnce
  BookedWithinHours
  ConflictOnlyIfTakenSince
CHECK_DEADLOCK FALSE
