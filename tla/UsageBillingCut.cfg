SPECIFICATION Spec
CONSTANTS
  Refs = {r1}
  Requests = {q1}
  MaxActive = 5
  LeaseTTL = 6
  PeriodLimit = 3
  InitBalance = 4
  MaxAdminSets = 0
  Charges = {1}
  Asks = {2}
  AdminBalances = {}
  MaxTries = 3
CHECK_DEADLOCK FALSE
INVARIANTS FailedSettlementBlocks
