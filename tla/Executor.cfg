SPECIFICATION FairSpec
CONSTANTS
  Low = {app, stats}
  High = {monitor}
  Horizon = 2
INVARIANTS NothingSleptOver IdleAtMostAll
PROPERTIES InterruptsReachTasks
