CONSTANTS
  N = 2
  Users = {1, 2}
  MaxSeq = 4
  Snapshot = 3
  None = None
SPECIFICATION Spec
CHECK_DEADLOCK TRUE

PROPERTIES
  MergerIsACursor
  ImplementsCursor
