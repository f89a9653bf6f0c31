SPECIFICATION FairSpec
CONSTANTS
  Key <- TwoKeys
  NoValue = NoValue
  NotANumber = NotANumber
  RestoredValues = {5}
  SetValues = {7}
  Commands = {"GET"}
  Modes = {"A"}
  OpenFails = FALSE
  LoaderFirst = TRUE
  Stops = {"main"}
  MaxCommands = 1
PROPERTIES
  LoaderStops
CHECK_DEADLOCK FALSE
