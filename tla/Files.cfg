\* Copy, move and erase of a small tree; every call may fail.
CONSTANTS
  b = b
  c = c
  d = d
  e = e
  NoTask = NoTask
  Tasks <- MCTasks
  Titles = {"Overwrite", "Delete non-empty directory"}
  Dirs <- MCDirs
  Parent <- MCParent
  OntoItself = FALSE
  Filters = { {}, {c} }
  MaxForeign = 1
SPECIFICATION FairSpec
INVARIANTS
  TypeOK
  CompletedMeansDone
  NothingLost
PROPERTIES
  ImplementsQuestions
  OnlyWithConsent
  JobIsFiled
CHECK_DEADLOCK FALSE
