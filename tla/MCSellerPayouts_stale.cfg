SPECIFICATION PayoutSpec
CONSTANTS
  PayoutCalls = {c1, c2}
  PayoutAdmins = {d1}
  Credits = {1, 2}
  MinPayout = 2
  MaxCredit = 2
  NoCall = NoCall
INVARIANT
  BalanceNeverNegative
SYMMETRY
  CallSymmetry
CHECK_DEADLOCK FALSE
