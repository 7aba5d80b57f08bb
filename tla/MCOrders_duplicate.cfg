SPECIFICATION Spec
CONSTANTS
  Requests = {r1}
  Users = {u1}
  Products = {p1}
  SubscriptionProducts = {}
  Keys = {k1}
  NoKey = NoKey
  NoOrder = NoOrder
  Outcomes = {"succeeded", "failed", "refunded"}
  MayCrash = TRUE
INVARIANT
  DuplicateWasProcessed
