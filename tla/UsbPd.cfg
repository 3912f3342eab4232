SPECIFICATION FairSpec
CONSTANTS
  NumSectors = 3
  MaxFaults = 2
INVARIANTS WritesBlank ProgrammedWhenRunning
PROPERTIES NeverUnprogrammed BootsInTheEnd
CHECK_DEADLOCK FALSE
