SPECIFICATION FairSpec
CONSTANTS
  SyncPeriod = 2
  PushPeriod = 2
  MaxCount = 3
  MaxRestarts = 1
  None = None
INVARIANTS
  DeadlineKnown
  NothingForgotten
PROPERTIES
  WearLimited
  FollowsRecord
  RecordReachesFlash
  RecordOffered
