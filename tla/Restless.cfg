\* Every habit of the user.
CONSTANTS
  Contents = {c1, c2, c3}
  NoContent = NoContent
  ReadOnly = FALSE
  MaxVersions = 3
  Habits = {"interrupts", "overlaps", "reverts", "exits"}
  MaxSaves = 1
  MaxOps = 2
SPECIFICATION Spec
SYMMETRY Symmetry
INVARIANTS
  WriteGuard
PROPERTIES
  NoSilentOverwrite
CHECK_DEADLOCK FALSE
