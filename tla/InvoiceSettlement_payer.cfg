SPECIFICATION FairSpec
CONSTANTS
  b1 = b1
  s1 = s1
  Buyers = {b1}
  Sweepers = {s1}
  Objects = {1}
  MaxKeys = 2
  MaxFaults = 0
  Faults = {"restart"}
  EpochsEnd = {FALSE}
  Rulings = {"VALID", "INVALID"}
  BuyerPays = {FALSE}
  NoTransfer = {FALSE}
PROPERTIES EventuallySettled
CHECK_DEADLOCK FALSE
