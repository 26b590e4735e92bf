\* Three commands: one that times out, one after it, one during the close.
\* A closed connection is not used again: the behaviour may stop there.
CONSTANTS
  Freqs = {14, 21}
  MaxSends = 3
  MaxInbound = 1
SPECIFICATION FairSpec
INVARIANTS OwnReply PendingAreWaiting CacheIsRecent
PROPERTIES ImplementsCalls CloseWakesAll
CHECK_DEADLOCK FALSE
