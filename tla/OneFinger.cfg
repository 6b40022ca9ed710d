CONSTANTS
  p1 = p1
  p2 = p2
  p3 = p3
  c1 = c1
  c2 = c2
  Points = {p1, p2}
  Clears = {c1}
  Elsewhere = {}
  Statuses = {"ok", "denied"}
  MaxLosses = 1
  MaxDeaths = 1
  Fingers = 1
  SqlMayFail = FALSE
SPECIFICATION FairAppSpec
\* the user may stop, and the bounds end every behaviour
CHECK_DEADLOCK FALSE
INVARIANTS
  HudSerialises
  RowsFollowClears
  StoresAgree
PROPERTIES
  PendingIsAnswered
  HudEnds
  StoredIsCharted
