SPECIFICATION FairSupSpec
CONSTANTS
  Capacity = 2
  Duration = 4
  Wiggle = 1
  ConnectTimeout = 2
  Attempts = 2
INVARIANTS
  ResetNeedsOutage
PROPERTIES
  SessionsLast
  Recovers
  SelectEnds
