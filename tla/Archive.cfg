\* Two members of one archive, two calls that fail.
CONSTANTS
  Members = {m1, m2}
  Mount = Mount
  MaxFaults = 2
  MaxEvents = 3
SPECIFICATION Spec
SYMMETRY Symmetry
INVARIANTS
  TypeOK
  UnmodifiedIsKept
PROPERTIES
  NoMemberGoesBack
  MembersAreAsked
CHECK_DEADLOCK FALSE
