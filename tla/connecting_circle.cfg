SPECIFICATION ConnectingSpec
CONSTANTS
  Members = 2
  Redirect = 9
  AddressCounts = {0, 2}
  Intercepts = {}
INVARIANT CircleTriesAll
CHECK_DEADLOCK FALSE
