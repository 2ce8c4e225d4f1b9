SPECIFICATION Spec
CONSTANTS
  w1 = w1
  w2 = w2
  Workers <- MCWorkers
  Callbacks = 1
  MaxCalls = 2
  MaxPings = 2
  Drops = TRUE
INVARIANTS TypeOK OneHolder AcceptorsKept
PROPERTIES PingAnswered ClosedFreed
CHECK_DEADLOCK FALSE
