SPECIFICATION Spec
CONSTANTS
  k1 = k1
  k2 = k2
  Key <- Keys
  NoValue = NoValue
  NotANumber = NotANumber
  SetValues <- OneValue
  Commands = {"SET", "INCR", "DEL"}
  Outages = {"kill", "power", "ioerror"}
  Checkpointing = FALSE
  Replicated = FALSE
  MaxLog = 3
  MaxOutages = 2
SYMMETRY KeySymmetry
INVARIANTS
  TypeOK
  PresenceRecovered
CHECK_DEADLOCK FALSE
