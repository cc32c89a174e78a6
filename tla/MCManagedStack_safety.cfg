SPECIFICATION Spec
CONSTANTS
  Process = {p1, p2}
SYMMETRY ProcessSymmetry
INVARIANTS
  NothingLeft
PROPERTIES
  DataKept
CHECK_DEADLOCK FALSE
