SPECIFICATION Spec
CONSTANTS
  Refs = {r1, r2}
  Requests = {q1, q2}
  MaxActive = 2
  LeaseTTL = 2
  PeriodLimit = 3
  InitBalance = 4
  MaxAdminSets = 1
  Charges = {2}
  Asks = {0, 3}
  AdminBalances = {1}
  MaxTries = 2
CHECK_DEADLOCK FALSE
INVARIANTS TypeOK ChargedOnce BalanceExplained BudgetCovered CreditBounded BillIsAuthoritative
PROPERTIES ReservationsFinal KeepsPromise
SYMMETRY Symmetry
