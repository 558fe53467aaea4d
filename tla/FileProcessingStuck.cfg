SPECIFICATION Spec
CONSTANTS
  Files = {f1}
  Workers = {w1, w2}
  QueueCap = 1
  MaxRetries = 1
  Remote = TRUE
  Stalls = TRUE
  MaxFaults = 2
CHECK_DEADLOCK FALSE
INVARIANTS AcceptedInHand
