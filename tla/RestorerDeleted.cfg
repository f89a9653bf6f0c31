SPECIFICATION Spec
CONSTANTS
  Key <- TwoKeys
  NoValue = NoValue
  NotANumber = NotANumber
  RestoredValues = {5}
  SetValues = {7}
  Commands = {"GET", "DEL"}
  Modes = {"A"}
  OpenFails = FALSE
  LoaderFirst = TRUE
  Stops = {}
  MaxCommands = 2
INVARIANTS
  DeletedStaysDeleted
CHECK_DEADLOCK FALSE
