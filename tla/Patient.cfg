\* One operation at a time, every save a new content.
CONSTANTS
  Contents = {c1, c2, c3}
  NoContent = NoContent
  ReadOnly = FALSE
  MaxVersions = 3
  Habits = {}
  MaxSaves = 2
  MaxOps = 3
SPECIFICATION Spec
SYMMETRY Symmetry
INVARIANTS
  TypeOK
  UnsyncedIsComplete
  SkippedIsQuiet
  QueuedIsServed
  SyncedOnlyWhenLoopDone
PROPERTIES
  RemovalIsSafe
CHECK_DEADLOCK FALSE
