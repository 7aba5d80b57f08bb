SPECIFICATION FairSpec
CONSTANTS
  Subs = {s1}
  Runs = {w1}
  Period = 1
  MaxTime = 1
  Replies = {"succeeded"}
  Throwing = {"charge"}
  MaxThrows = 1
  NoKey = NoKey
PROPERTY
  SkippedWasHandled
