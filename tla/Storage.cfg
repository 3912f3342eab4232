SPECIFICATION FairSpec
CONSTANTS
  NumPages = 3
  Keys = {"ConfigSettings", "RecordData"}
  MaxVersion = 2
  MaxFaults = 3
INVARIANTS MarkerMeansFormatted
PROPERTIES NothingLost BootsUnlessUnreadable
CHECK_DEADLOCK FALSE
