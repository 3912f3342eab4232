SPECIFICATION FairEventsSpec
CONSTANTS
  Subs = {"push", "power", "publish"}
  MaxVersion = 3
  MaxRestarts = 1
PROPERTIES
  UpdateReturnsOrCycle
  CyclePermanent
\* The tasks really stop in the cycles the property names.
CHECK_DEADLOCK FALSE
