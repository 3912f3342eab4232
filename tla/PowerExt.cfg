SPECIFICATION FairSpec
CONSTANTS
  Settings = {0, 3}
  Stabilization = 1
  MaxWait = 2
  MaxResets = 1
  Horizon = 6
  None = None
INVARIANTS
  StateMatchesOutput
PROPERTIES
  EpisodeRecorded
  BackoffRespected
  CoherentOnEnable
  EnabledIsStable
  FaultTurnsOff
  Recovers
