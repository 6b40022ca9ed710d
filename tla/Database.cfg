CONSTANTS
  p1 = p1
  p2 = p2
  p3 = p3
  c1 = c1
  c2 = c2
  Points = {p1, p2, p3}
  Clears = {c1, c2}
  Elsewhere = {p3, c2}
  Statuses = {"ok", "denied"}
  MaxLosses = 1
  MaxDeaths = 1
SPECIFICATION Spec
\* the user may stop, and the bounds end every behaviour
CHECK_DEADLOCK FALSE
INVARIANTS
  TypeOK
  CacheTracksServer
  NothingForgotten
  HeardOnce
  NoDeferredAnswer
  ConfirmedClearIsFinal
  ConfirmedSaveIsStored
  SettledViewIsServer
PROPERTIES
  AnsweredOnce
SYMMETRY LocalSymmetry
CONSTRAINTS
  OneFault
