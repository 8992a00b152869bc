SPECIFICATION Spec
CONSTANTS
  b1 = b1
  s1 = s1
  Buyers = {b1}
  Sweepers = {s1}
  Objects = {1, 2}
  MaxKeys = 2
  MaxFaults = 1
  Faults = {"restart", "save"}
  EpochsEnd = {TRUE, FALSE}
  Rulings = {"VALID", "INVALID"}
  BuyerPays = {TRUE, FALSE}
  NoTransfer = {FALSE}
CONSTRAINT RebuiltOrCopied
ACTION_CONSTRAINT OneKeyIfCopied
INVARIANTS OnePersistedKey ReportOrRefund ConfirmedIsComplete
CHECK_DEADLOCK FALSE
