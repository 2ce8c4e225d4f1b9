SPECIFICATION Spec
CONSTANTS
  Indices <- MCIndices
  Earlier = {"e1", "e2"}
  MaxTries = 3
INVARIANTS ReadyMeansAllBuilt
CHECK_DEADLOCK FALSE
