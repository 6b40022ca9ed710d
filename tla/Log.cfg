CONSTANTS
  BlockSize = 6
  HeaderSize = 2
  Sizes = {0, 1, 4, 9}
  MaxRecords = 3
  MaxFailures = 1
SPECIFICATION Spec

\* nothing is left to do once the log is read
CHECK_DEADLOCK FALSE
INVARIANTS
  OnlyRecords
  RecordsSurvive
  CutOffIsNoCorruption
