SPECIFICATION MembersSpec
CONSTANTS
  PayoutCalls = {c1, c2}
  PayoutAdmins = {d1, d2}
  Credits = {1, 2}
  MinPayout = 2
  MaxCredit = 4
  NoCall = NoCall
  Calls = {c1, c2}
  Admins = {a1, a2}
  Machines = {m1, m2, m3}
  MaxActivations = 1
  SubscribeCalls = {b1, b2, b3}
  Providers = {"paid", "free"}
  Free = {"free"}
  Accounts = {root, u1}
  Root = root
  Scopes = {g1, g2}
  MaxGrantCalls = 2
  Views = {v1, v2}
  Requests = {q1, q2}
  Own = Own
  Attempts = {r1, r2, r3, r4}
  Limit = 2
  Author = "au"
  Sessions <- TwoTabs
  StaffMembers = {"m1"}
  Moderators = {o1}
  Comments = {k1, k2}
  NoComment = NoComment
  Marked = {"like"}
  MaxDepth = 0
  MaxDrift = 1
INVARIANTS
  PayoutInv
  OvershootBounded
  SubscriptionInv
  ImpersonationInv
  RateLimitInv
  CommunityInv
PROPERTIES
  ChargedTwiceNeedsOverlap
  StaffKept
  DriftNeedsStaleRead
CONSTRAINT
  RootIsNoSeller
CHECK_DEADLOCK FALSE
