CONSTANTS
  k1 = k1
  k2 = k2
  w1 = w1
  w2 = w2
  r1 = r1
  None = None
  Keys = {k1}
  Writers = {w1, w2}
  Readers = {r1}
  MemLimit = 0
  MaxGroup = 2
  L0Trigger = 1
  L0Stop = 2
  MaxWrites = 3
  MaxFaults = 0
  MaxCrashes = 1
  MaxPowerLosses = 0
SPECIFICATION Spec
\* the clients may stop, and the bounds end every behaviour
CHECK_DEADLOCK FALSE
PROPERTIES
  ImplementsKVStore
SYMMETRY ThreadSymmetry
