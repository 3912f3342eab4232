SPECIFICATION Spec
CONSTANTS
  MaxSetting = 65535
  Edges = {0, 797, 798, 3199, 3200, 21312, 21313, 65535}
INVARIANTS
  VoltageHeld
  LimitHeld
\* The sweep ends where no message arrives.
CHECK_DEADLOCK FALSE
