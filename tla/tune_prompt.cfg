\* An amplifier that obeys or loses a keycode, and reports, within every
\* timeout, and that nobody else touches.  A session may start with a keycode
\* of the last one in flight, and before a first status frame.
CONSTANTS
  N = 2
  RadioOutcomes = {"ok", "refused"}
  Prompt = TRUE
  Strangers = FALSE
  MaxBacklog = 1
SPECIFICATION FairSpec
INVARIANTS AmpAsFound KeyedInStby
PROPERTIES SessionEnds
