SPECIFICATION ClientsSpec
CONSTANTS
  Session = {s1, s2}
  None = none
  ConfigTimeout = 5
  RequestTimeout = 3
  RetryInterval = 2
  Oversleep = 1
  Stop = 7
SYMMETRY Symmetry
INVARIANT WaitsForConfiguration
CHECK_DEADLOCK FALSE
