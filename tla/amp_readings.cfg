\* Five power levels, a hold of one step and a decay of one per step: the peak
\* takes several frames to fall.  Silence is counted up to
\* Threshold + Interval + MaxPower + Hold.
CONSTANTS
  MaxPower = 4
  Hold = 1
  Decay = 1
  Threshold = 2
  Interval = 1
SPECIFICATION ReadingsSpec
INVARIANTS MeterIsTrue AverageIsTrue PresenceIsTrue
