SPECIFICATION StructuresSpec
CONSTANTS
  HashFields = {"a", "b"}
  FieldValues = {1}
  MaxValue = 2
  MaxFlight = 2
INVARIANT NullIsReported
CHECK_DEADLOCK FALSE
