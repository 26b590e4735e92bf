\* The radio's second TRX: the one a connection does not start out with.
CONSTANTS
  Channel = 1
  MaxUnderWay = 1
SPECIFICATION FairSpec
INVARIANTS RigPutBack NothingLeaks
PROPERTIES HangUpNoticed
