CONSTANTS
  None = None
  MaxKey = 3
  NumLevels = 4
  MaxMemCompactLevel = 2
  L0Trigger = 1
  MaxFileSize = 2
  LevelBytes = 3
  MaxOverlap = 4
  ExpandedLimit = 4
  ManualRanges <- WholeRange
  Scripts <- LevelsScripts
  MaxEvents = 2
SPECIFICATION Spec
\* the bounds end every behaviour
CHECK_DEADLOCK FALSE
INVARIANTS
  VersionIsSound
  NewerFirst
  GetIsCorrect
