\* NothingLost does not hold when the destination is where the files are.
CONSTANTS
  b = b
  c = c
  d = d
  e = e
  NoTask = NoTask
  Tasks <- Two
  Titles = {"Overwrite", "Delete non-empty directory"}
  Dirs = {}
  Parent <- Flat
  OntoItself = TRUE
  Filters = { {} }
  MaxForeign = 0
SPECIFICATION Spec
INVARIANTS
  NothingLost
CHECK_DEADLOCK FALSE
