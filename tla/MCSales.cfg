SPECIFICATION SalesSpec
CONSTANTS
  Requests = {r1, r2}
  Users = {u1}
  Products = {p1, s1}
  SubscriptionProducts = {s1}
  Keys = {k1}
  NoKey = NoKey
  NoOrder = NoOrder
  Outcomes = {"succeeded"}
  MayCrash = TRUE
  Refunds = {f1, f2}
  Admins = {a1}
  NoRefund = NoRefund
INVARIANTS
  RetryAnswersSameOrder
  LicenceTracesToSale
  RefundInv
  RefundIsFinal
SYMMETRY
  RefundSymmetry
CONSTRAINT
  SubscriptionsStayListed
