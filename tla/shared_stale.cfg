SPECIFICATION PersistentSpec
CONSTANTS
  Fields = {"f"}
  Values = {"v"}
  MaxRevision = 3
  MaxEpochs = 1
  MaxResilvers = 5
PROPERTIES
  EventuallyConsistent
CHECK_DEADLOCK FALSE
