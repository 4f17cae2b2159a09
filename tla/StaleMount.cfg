\* The mount shows an older archive than the one that is there.
CONSTANTS
  Members = {m1, m2}
  Mount = Mount
  MaxFaults = 0
  MaxEvents = 3
SPECIFICATION Spec
SYMMETRY Symmetry
PROPERTIES
  ChangedMembersAreAsked
CHECK_DEADLOCK FALSE
