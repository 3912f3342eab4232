SPECIFICATION FairSpec
CONSTANTS
  Capacity = 3
  Duration = 4
  Wiggle = 1
INVARIANTS
  NoSpuriousReset
  HangDetected
PROPERTIES
  HangEndsInReset
