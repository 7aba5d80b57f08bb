SPECIFICATION PartnersSpec
CONSTANTS
  Orders = {x1, x2}
  Payouts = {q1, q2}
  NoPayout = NoPayout
  Members = {x1, x2}
  Staff = {q1, q2}
  Nobody = Nobody
  Profiles = {me, p1, p2}
  Self = me
  NoProfile = NoProfile
  AttributionDays = 1
  OwnerDays = 1
  LastDay = 2
  Partners = {me, p1, p2}
  Buyer = me
  NoPartner = NoPartner
  Creations = {n1, n2}
  Basis = 30
  Rates <- Settings
INVARIANTS
  CommissionInv
  ApplicationInv
  AttributionInv
  EarningsInv
PROPERTIES
  PaidIsFinal
  ConfirmedIsKept
SYMMETRY
  PartnersSymmetry
CONSTRAINTS
  OneOrderOrNoDispute
  OneDisturbed
  OneRecruited
CHECK_DEADLOCK FALSE
