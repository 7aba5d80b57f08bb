SPECIFICATION NewsSpec
CONSTANTS
  Timeline <- Published
  Slug <- Titles
  Topic <- Topics
  Currency <- Currencies
  Blank = Blank
  AlertRows <- Subscriptions
  NewsWorkers = {j1, j2}
  FeedLength = 2
INVARIANT
  ToldAsAsked
CHECK_DEADLOCK FALSE
