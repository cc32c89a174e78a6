SPECIFICATION Spec
CONSTANTS
  User = {u1, u2}
  SafeTool = {t1}
  IdLimit = 5
INVARIANTS
  OpenSessionsReported
  VerdictExact
  TokensRemoved
PROPERTIES
  StoppedRunReturns
CHECK_DEADLOCK FALSE
