SPECIFICATION Spec
CONSTANTS
  Files = {f1, f2}
  Workers = {w1, w2}
  QueueCap = 2
  MaxRetries = 1
  Remote = TRUE
  Stalls = TRUE
  MaxFaults = 3
SYMMETRY Symmetry
CHECK_DEADLOCK FALSE
INVARIANTS OneMessage QueuedHasMessage
