\* A disconnect accepted while idle that runs once a cycle has its radio.
CONSTANTS
  Settings = {0, 1}
  Changes <- MCChanges
  Shipped <- MCShipped
  SaveMayFail = TRUE
  MaxCalls = 3
SPECIFICATION Spec
INVARIANTS RadioKeptDuringTune
