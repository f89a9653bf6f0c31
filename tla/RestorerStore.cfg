SPECIFICATION Spec
CONSTANTS
  Key <- TwoKeys
  NoValue = NoValue
  NotANumber = NotANumber
  RestoredValues = {5, NotANumber}
  SetValues = {7}
  Commands = {"SET", "GET", "INCR"}
  Modes = {"A", "B"}
  OpenFails = FALSE
  LoaderFirst = TRUE
  Stops = {"main"}
  MaxCommands = 3
INVARIANTS
  TypeOK
PROPERTIES
  ActsAsStore
CHECK_DEADLOCK FALSE
