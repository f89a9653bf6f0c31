SPECIFICATION Spec
CONSTANTS
  k1 = k1
  k2 = k2
  Key <- Keys
  NoValue = NoValue
  NotANumber = NotANumber
  SetValues <- TwoValues
  Commands = {"SET", "DEL"}
  Outages = {"shutdown"}
  Checkpointing = FALSE
  Replicated = FALSE
  MaxLog = 2
  MaxOutages = 1
SYMMETRY KeySymmetry
INVARIANTS
  RecoveredIsLogged
CHECK_DEADLOCK FALSE
