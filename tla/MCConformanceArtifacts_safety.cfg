\* Two runs and one `conformance report`: a baseline next to a routed lane, or a
\* routed lane alone, over the directories of the run before.
SPECIFICATION Spec
CONSTANTS
  Config = {c1, c2}
  Scenario = {s1, s2}
  Selections = {{"fixture", "dataplane"}, {"dataplane"}}
  MaxRuns = 2
  MaxReports = 1
SYMMETRY DataSymmetry
INVARIANTS
  ReportsOneRun
  MarkedIsFinished
PROPERTY
  PublishesAtomically
CHECK_DEADLOCK FALSE
