SPECIFICATION Spec
CONSTANTS
  r1 = r1
  r2 = r2
  r3 = r3
  r4 = r4
  Res <- MCRes
  Amount <- MCAmount
  MaxAmount = 3
  MaxSingleTx = 2
  Cap = 2
  TTL = 2
  Window = 3
  Cooldown = 2
  FailWindow = 1
  MaxFailures = 2
  PinWithin = 2
  Losable = {"SPEND", "RELEASE", "TRIP", "RESET"}
  MaxTime = 7
  BreakerEvents = TRUE
CONSTRAINT OneQuestion
INVARIANTS  SpendCountsForADay
PROPERTIES  BreakerHolds
CHECK_DEADLOCK FALSE
