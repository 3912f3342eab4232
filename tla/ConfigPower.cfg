SPECIFICATION FairSpec
CONSTANTS
  Subs = {"push", "power"}
  MaxVersion = 4
  MaxRestarts = 2
INVARIANTS
  DurableBeforeVisible
  NeverStuck
PROPERTIES
  FollowsFlash
  UpdateReturns
  LastSettingsApplied
