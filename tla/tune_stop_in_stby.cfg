\* A radio and an amplifier that do everything they are asked, in time.
CONSTANTS
  N = 1
  RadioOutcomes = {"ok"}
  Prompt = TRUE
  Strangers = FALSE
  MaxBacklog = 0
SPECIFICATION Spec
INVARIANTS OperateHandedBack
