CONSTANTS
  k1 = k1
  k2 = k2
  w1 = w1
  w2 = w2
  r1 = r1
  None = None
  Keys = {k1}
  Writers = {w1, w2}
  Readers = {}
  MemLimit = 1
  MaxGroup = 2
  L0Trigger = 1
  L0Stop = 2
  MaxWrites = 3
  MaxFaults = 1
  MaxCrashes = 1
  MaxPowerLosses = 1
SPECIFICATION Spec
\* the clients may stop, and the bounds end every behaviour
CHECK_DEADLOCK FALSE
INVARIANTS
  DiskIsSound
  NeededTablesExist
  SyncedWritesAreDurable
PROPERTIES
  WritesAreAnswered
