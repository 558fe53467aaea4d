SPECIFICATION Spec
CONSTANTS
  Files = {f1, f2}
  Workers = {w1, w2}
  QueueCap = 2
  MaxRetries = 1
  Remote = TRUE
  Stalls = FALSE
  MaxFaults = 4
SYMMETRY Symmetry
CHECK_DEADLOCK FALSE
INVARIANTS TypeOK AcceptedNotAbandoned OneHandler DeadLettersFinished
PROPERTIES ResultsFinal WorkedOff
