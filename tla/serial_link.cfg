\* An adapter that is unplugged and plugged back at any time, and whose dead
\* handle raises a read error; three presses, enough for one before, one
\* during and one after a reconnect.
CONSTANTS
  HangupReads = {"error"}
  MaxPresses = 3
SPECIFICATION FairSpec
INVARIANT PressDiesWithPort
PROPERTIES PressesInOrder SilentAfterStop LinkComesBack
