SPECIFICATION FairSpec
CONSTANTS
  Key <- TwoKeys
  NoValue = NoValue
  NotANumber = NotANumber
  RestoredValues = {5}
  SetValues = {7}
  Commands = {"SET", "GET", "DEL"}
  Modes = {"A"}
  OpenFails = TRUE
  LoaderFirst = FALSE
  Stops = {"thread"}
  MaxCommands = 2
PROPERTIES
  RecoveryEnds
CHECK_DEADLOCK FALSE
