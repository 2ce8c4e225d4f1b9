SPECIFICATION Spec
CONSTANTS
  W = 3
  N = 2
  MaxRuns = 2
  Options <- MCOptions
INVARIANTS TypeOK LoadedOnce NoLoadDuringRun AggregatesOwnResults
PROPERTIES Terminates
CHECK_DEADLOCK FALSE
