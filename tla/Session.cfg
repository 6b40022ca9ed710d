CONSTANTS
  Users = {u1, u2}
  u1 = u1
  u2 = u2
  NoUser = NoUser
  Fingers = 2
  MaxTaps = 4
  MaxLaunches = 1
SPECIFICATION Spec
\* the bounds end every behaviour
CHECK_DEADLOCK FALSE
INVARIANTS
  EmptyIdExplained
  ChartShowsAccount
  PresentedOnce
PROPERTIES
  ProgressEnds
