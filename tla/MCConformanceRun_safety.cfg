SPECIFICATION FairSpec
CONSTANTS
  ApiResource = {gateway, server}
INVARIANTS
  NotPolledAfterCompletion
  OkLeavesNothing
  OkCoversLanes
  RunnerEnvironment
  ReportSound
PROPERTIES
  CompletedLaneKept
  InterruptOnlyUnwinds
  InterruptEnds
CHECK_DEADLOCK FALSE
