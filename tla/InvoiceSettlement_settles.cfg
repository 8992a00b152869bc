SPECIFICATION FairSpec
CONSTANTS
  b1 = b1
  s1 = s1
  Buyers = {b1}
  Sweepers = {s1}
  Objects = {1}
  MaxKeys = 2
  MaxFaults = 1
  Faults = {"restart"}
  EpochsEnd = {FALSE}
  Rulings = {"VALID", "INVALID"}
  BuyerPays = {TRUE}
  NoTransfer = {TRUE, FALSE}
PROPERTIES RefundedIsTerminal EventuallySettled
CHECK_DEADLOCK FALSE
