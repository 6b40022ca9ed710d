CONSTANTS
  Keys = {k1, k2, k3}
  Clients = {c1, c2, c3}
  Handles = {h1, h2, h3, h4}
  Charges = {1, 2}
  Capacities = {0, 3}
  None = None
  k1 = k1
  k2 = k2
  k3 = k3
  c1 = c1
  c2 = c2
  c3 = c3
  h1 = h1
  h2 = h2
  h3 = h3
  h4 = h4
  h5 = h5
SPECIFICATION Spec
SYMMETRY Interchange

INVARIANTS
  CacheIsConsistent
  DeletedWhenUnused
PROPERTIES
  EvictsTheOldest
