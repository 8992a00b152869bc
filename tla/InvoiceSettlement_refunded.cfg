SPECIFICATION Spec
CONSTANTS
  b1 = b1
  s1 = s1
  Buyers = {b1}
  Sweepers = {s1}
  Objects = {1}
  MaxKeys = 2
  MaxFaults = 1
  Faults = {"restart"}
  EpochsEnd = {TRUE}
  Rulings = {"VALID", "INVALID"}
  BuyerPays = {TRUE}
  NoTransfer = {FALSE}
PROPERTIES RefundedIsTerminal
CHECK_DEADLOCK FALSE
