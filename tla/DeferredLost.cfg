CONSTANTS
  Texts = {"plain", "edited"}
  Garbled = "garbled"
  MaxCheckpoints = 1
  Paths = {"a"}
  Contents <- MCContents
  Absent = Absent
  MaxForeign = 1
  Pristine = "plain"
  Start = "a"
  Large = TRUE
  MaxEdits = 1
  MaxOps = 2
  Habits = {"overlaps"}
SPECIFICATION Spec
PROPERTIES ChangeIsAnnounced
CHECK_DEADLOCK FALSE
