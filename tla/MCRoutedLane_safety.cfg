SPECIFICATION LaneSpec
CONSTANT Connection = {c1, c2, c3}
INVARIANTS
  QuietAfterReturn
  OkIsWhole
PROPERTY CancelledReturns
CHECK_DEADLOCK FALSE
