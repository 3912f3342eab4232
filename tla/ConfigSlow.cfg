SPECIFICATION FairSpec
CONSTANTS
  Subs = {"push", "power", "publish"}
  MaxVersion = 4
  MaxRestarts = 1
PROPERTIES
  SettingsGetThrough
\* The tasks really stop when push_task waits for the lock of an update that
\* waits for it (NeverStuck of the run ConfigPower).
CHECK_DEADLOCK FALSE
