SPECIFICATION FairSpec
CONSTANTS
  k1 = k1
  k2 = k2
  Key <- Keys
  NoValue = NoValue
  NotANumber = NotANumber
  SetValues <- OneValue
  Commands = {"SET"}
  Outages = {"shutdown"}
  Checkpointing = FALSE
  Replicated = FALSE
  MaxLog = 3
  MaxOutages = 1
PROPERTIES
  RecordsIndexed
  SignalledIndexerStops
CHECK_DEADLOCK FALSE
