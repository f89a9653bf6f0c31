SPECIFICATION Spec
CONSTANTS
  k1 = k1
  k2 = k2
  Key <- Keys
  NoValue = NoValue
  NotANumber = NotANumber
  SetValues <- TwoValues
  Commands = {"SET", "DEL"}
  Outages = {}
  Checkpointing = TRUE
  Replicated = FALSE
  MaxLog = 4
  MaxOutages = 0
SYMMETRY KeySymmetry
INVARIANTS
  IndexFollowsLog
CHECK_DEADLOCK FALSE
