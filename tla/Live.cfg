\* Progress, one operation at a time.
CONSTANTS
  Contents = {c1, c2, c3}
  NoContent = NoContent
  ReadOnly = FALSE
  MaxVersions = 2
  Habits = {}
  MaxSaves = 2
  MaxOps = 2
SPECIFICATION FairSpec
PROPERTIES
  SavesSettle
  QuitEnds
CHECK_DEADLOCK FALSE
