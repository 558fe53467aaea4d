SPECIFICATION Spec
CONSTANTS
  Users = {u1, u2}
  Orders = {o1}
  Codes = {c1}
  Calls = {k1, k2}
  Plans = {1, 2}
  Durations = {2}
  Limits = {0, 1}
  MaxClock = 2
  MaxChanges = 1
CHECK_DEADLOCK FALSE
INVARIANTS TypeOK NothingForNothing EntitlementsKept HighestFirst BalanceIsCredited LimitsKept
PROPERTIES RedeemedInForce GrantsHonoured
SYMMETRY Symmetry
