SPECIFICATION FairSpec
CONSTANTS
  Requests = {r1}
  Users = {u1}
  Products = {p1, s1}
  SubscriptionProducts = {s1}
  Keys = {}
  NoKey = NoKey
  NoOrder = NoOrder
  Outcomes = {"succeeded", "failed", "refunded"}
  MayCrash = TRUE
INVARIANTS
  TypeOK
  FailureWasReported
  OwnFailureHitsPending
PROPERTIES
  KeepsPromise
  CapturedIsSettled
