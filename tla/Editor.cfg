CONSTANTS
  Texts = {"plain", "edited"}
  Garbled = "garbled"
  MaxCheckpoints = 1
  Paths = {"a", "b"}
  Contents <- MCContents
  Absent = Absent
  MaxForeign = 1
  Pristine = "plain"
  Start = "a"
  Large = TRUE
  MaxEdits = 2
  MaxOps = 1
  Habits = {}
SPECIFICATION Spec
INVARIANTS TypeOK SaveIsAtomic UnmodifiedIsOnDisk UndoIsExact UnmodifiedIsSaved
PROPERTIES ImplementsHistory StaleIsReal NothingOverwrittenUnseen EditsAreNotDropped SaveEnds ChangeIsAnnounced
CHECK_DEADLOCK FALSE
