SPECIFICATION ReplaySpec
CONSTANTS
  k1 = k1
  k2 = k2
  Key <- Keys
  NoValue = NoValue
  NotANumber = NotANumber
  SetValues <- EdgeValues
  IntMax = 9
  MaxLog = 4
INVARIANTS
  ReplayIsLogValue
  RestoreIsTupleValue
  InstantIsSequential
CHECK_DEADLOCK FALSE
