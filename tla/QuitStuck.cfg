\* QuitEnds does not hold.
CONSTANTS
  Contents = {c1, c2}
  NoContent = NoContent
  ReadOnly = FALSE
  MaxVersions = 1
  Habits = {"interrupts"}
  MaxSaves = 1
  MaxOps = 4
SPECIFICATION FairSpec
PROPERTIES
  QuitEnds
CHECK_DEADLOCK FALSE
