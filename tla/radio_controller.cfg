\* Three calls under way at most: enough for a cycle, a change and a connect
\* or disconnect to meet at the lock.
CONSTANTS
  Settings = {0, 1}
  Changes <- MCChanges
  Shipped <- MCShipped
  SaveMayFail = TRUE
  MaxCalls = 3
SPECIFICATION FairSpec
INVARIANTS TypeOK ConnMatchesConfig KindIsSaved
PROPERTIES ConfigKeptDuringTune CyclesEnd ShutdownEnds
