SPECIFICATION FairEventsSpec
CONSTANTS
  Subs = {"push", "publish"}
  MaxVersion = 2
  MaxRestarts = 0
PROPERTIES
  UpdateReturns
\* The tasks really stop in the counterexample.
CHECK_DEADLOCK FALSE
