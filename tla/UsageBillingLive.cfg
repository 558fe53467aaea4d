SPECIFICATION FairSpec
CONSTANTS
  Refs = {r1, r2}
  Requests = {q1, q2}
  MaxActive = 1
  LeaseTTL = 3
  PeriodLimit = 3
  InitBalance = 4
  MaxAdminSets = 0
  Charges = {4}
  Asks = {0}
  AdminBalances = {}
  MaxTries = 2
CHECK_DEADLOCK FALSE
PROPERTIES SlotsFreed
