SPECIFICATION WizardSpec
CONSTANTS
  MaxEdits <- EditBounds
  MaxCovers = 1
  MaxQueue = 2
  MaxFaults = 0
INVARIANT
  SubmittedAsShown
CHECK_DEADLOCK FALSE
