SPECIFICATION Spec
CONSTANTS
  k1 = k1
  k2 = k2
  Key <- Keys
  NoValue = NoValue
  NotANumber = NotANumber
  SetValues <- TwoValues
  Commands = {"SET", "DEL"}
  Outages = {"shutdown", "kill", "power", "powerInitial", "corruption", "ioerror"}
  Checkpointing = TRUE
  Replicated = TRUE
  MaxLog = 3
  MaxOutages = 2
SYMMETRY KeySymmetry
INVARIANTS
  NoFabricatedValues
  PositionsInLog
CHECK_DEADLOCK FALSE
