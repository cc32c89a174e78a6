SPECIFICATION Spec
CONSTANTS
  MaxRevision = 1
  None = none
INVARIANTS
  TypeOK
  OkRunsWanted
  OkIsCurrent
CHECK_DEADLOCK FALSE
