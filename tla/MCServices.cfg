SPECIFICATION ServicesSpec
CONSTANTS
  Subs = {s1}
  Runs = {w1, w2}
  Period = 1
  MaxTime = 1
  Replies = {"succeeded", "failed", "pending"}
  Throwing = {"lapsing", "next", "create", "charge", "recordpaid",
              "recordunpaid", "paid", "unpaid", "pastdue"}
  MaxThrows = 1
  NoKey = NoKey
  Browsers = {b1, b2}
  Symbols = {y1, y2}
  Intervals = {i1, i2}
  Sockets = {x1, x2, x3}
  None = None
INVARIANTS
  RenewalInv
  StreamInv
PROPERTIES
  CapturedIsRenewed
  NoneOverdueForever
  StrayNeedsLateClose
  WatchedIsCarried
