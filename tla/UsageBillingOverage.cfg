SPECIFICATION Spec
CONSTANTS
  Refs = {r1, r2}
  Requests = {q1, q2}
  MaxActive = 5
  LeaseTTL = 6
  PeriodLimit = 3
  InitBalance = 4
  MaxAdminSets = 0
  Charges = {2}
  Asks = {2}
  AdminBalances = {}
  MaxTries = 3
CHECK_DEADLOCK FALSE
INVARIANTS ReservationsKeepCharges
