SPECIFICATION Spec
CONSTANTS
  k1 = k1
  k2 = k2
  Key <- Keys
  NoValue = NoValue
  NotANumber = NotANumber
  SetValues <- OneValue
  Commands = {"SET", "INCR"}
  Outages = {}
  Checkpointing = FALSE
  Replicated = FALSE
  MaxLog = 2
  MaxOutages = 0
SYMMETRY KeySymmetry
INVARIANTS
  IndexFollowsLog
CHECK_DEADLOCK FALSE
