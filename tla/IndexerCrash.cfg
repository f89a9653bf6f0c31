SPECIFICATION Spec
CONSTANTS
  k1 = k1
  k2 = k2
  Key <- Keys
  NoValue = NoValue
  NotANumber = NotANumber
  SetValues <- TwoValues
  Commands = {"SET", "DEL"}
  Outages = {"kill", "power", "ioerror"}
  Checkpointing = FALSE
  Replicated = TRUE
  MaxLog = 3
  MaxOutages = 2
SYMMETRY KeySymmetry
INVARIANTS
  RecoveredIsLogged
  IndexFollowsLog
  DurableUpToSeek
CHECK_DEADLOCK FALSE
