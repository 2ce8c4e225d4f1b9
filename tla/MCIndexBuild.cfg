SPECIFICATION Spec
CONSTANTS
  Indices <- MCIndices
  Earlier = {"e1", "e2"}
  MaxTries = 3
INVARIANTS TypeOK ReadyMeansBuilt
PROPERTIES Ends
CHECK_DEADLOCK FALSE
