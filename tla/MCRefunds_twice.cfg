SPECIFICATION RefundSpec
CONSTANTS
  Requests = {r1}
  Users = {u1}
  Products = {p1}
  SubscriptionProducts = {}
  Keys = {}
  NoKey = NoKey
  NoOrder = NoOrder
  Outcomes = {}
  MayCrash = FALSE
  Refunds = {f1}
  Admins = {a1, a2}
  NoRefund = NoRefund
INVARIANT
  RefundedAtMostOnce
