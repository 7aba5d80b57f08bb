SPECIFICATION CatalogueSpec
CONSTANTS
  Edits = {e1, e2}
  Restorers = {x1, x2}
  UploadPages = {g1, g2}
  Items = {i1, i2}
  CoverCalls = {k1, k2}
  MaxEdits <- EditBounds
  MaxCovers = 2
  MaxQueue = 2
  MaxFaults = 1
  Pages = {p1}
  Writers = {w1, w2}
  Early = {w2}
  Ttl = 1
  MaxLoad = 1
  MaxTime = 5
  Nothing = Nothing
  Sources = {s1}
  Events = {v1, v2}
  SourceOf <- Home
  Passes = {t1, t2}
  Workers = {t2}
  MaxFigure = 1
  MaxChanges = 2
  MaxAlerts = 2
  Unlisted = Unlisted
  SubscribePages = {b1, b2}
  AlertIds = {l1, l2}
  NoAlert = NoAlert
  LastHour = 2
  EventTimes = {2, 3}
  MaxRepeats = 1
  Timeline <- Published
  Slug <- Titles
  Topic <- Topics
  Currency <- Currencies
  Blank = Blank
  AlertRows = {}
  NewsWorkers = {j1, j2}
  FeedLength = 2
INVARIANTS
  ListingInv
  AssetsInv
  WizardInv
  StaleAtMost
  CalendarInv
  ReminderInv
  NewsInv
PROPERTIES
  DecisionsHold
  SubmittedSavedOrWarned
  AlertedTwiceNeedsOverlap
CONSTRAINTS
  FilesOrCovers
  OneExcused
  OneDisturbance
CHECK_DEADLOCK FALSE
