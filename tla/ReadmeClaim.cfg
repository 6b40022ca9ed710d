CONSTANTS
  p1 = p1
  p2 = p2
  p3 = p3
  c1 = c1
  c2 = c2
  Points = {p1}
  Clears = {}
  Elsewhere = {}
  Statuses = {"ok", "denied"}
  MaxLosses = 0
  MaxDeaths = 0
  Fingers = 1
  SqlMayFail = FALSE
SPECIFICATION AppSpec
\* the user may stop, and the bounds end every behaviour
CHECK_DEADLOCK FALSE
INVARIANTS
  ChartedPointIsSaved
