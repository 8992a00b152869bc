SPECIFICATION Spec
CONSTANTS
  Workers = {w1}
  Admins = {}
  Calls = {}
  Operations = {}
  Amounts = {}
  Prices = {1}
  Budget = 1
  MaxGeneration = 3
PROPERTIES StopEndsTheLeases
CHECK_DEADLOCK FALSE
