\* Any radio outcome, an amplifier that may answer late or never, a front
\* panel and other clients pressing keys at any time; a two-centre sweep.
CONSTANTS
  N = 2
  RadioOutcomes = {"ok", "refused", "late"}
  Prompt = FALSE
  Strangers = TRUE
  MaxBacklog = 0
SPECIFICATION Spec
INVARIANTS CarrierAccounted RigAsFound OperateNotKept
PROPERTIES StopNeverKeys SweepDoneIsComplete RestoredIsTrue ImplementsSession
