SPECIFICATION MCSpec
CONSTANTS
  Claims = {1, 2, 3}
  ReadLimit = 3
  ClaimNonces = {"n1", "n2"}
  Providers = {1, 2}
  Sales = {"s1", "s2", "s3"}
  SaleOf <- MCSaleOf
  Automatic = {"s3"}
  SeenLimit = 1
  LedgerReadFails = FALSE
  Legs = {"creator", "platform"}
  Requests = {"r1", "r2", "r3"}
  MaxLosses = 1
  Invoices = {1}
  ReportRequests = {q1, q2}
  Polls = {o1}
  Visits = {v1}
  SweepLimit = 1
  InvoiceOf <- MCInvoiceOf
  Bills = {"a", "b"}
  Settlements = {"s1", "s2"}
  Verifiers = {"v1", "v2"}
  Covers <- MCCovers
  Sold = {b1}
  LedgerStores = {"json", "sql"}
  MaxLedgerFaults = 1
  Offers <- MCOffers
  Asks <- MCAsks
  MaxBudget = 2
  SessionIds = {w1, w2}
  AgentWallets = {a1, a2}
  Creators = {c1, c2}
  Deleters = {d1, d2}
  MaxBindFaults = 1
  FaultPlaces = {"list", "row", "upsert", "insert", "registry", "others", "delete"}
  Approvals = {p1, p2}
  Purchases = {m1, m2}
  Prices = {0, 1}
  MaxPrice = 2
  Budget = 3
  Payments = {y1, y2}
  Amounts = {1}
  LimitSets <- MCLimits
  Days = {1, 2, 3}
  WeekDays = 2
  MonthDays = 3
  AdviceRows = 2
INVARIANTS PaidWithinEarnings ChargedOnce OneInvoicePerSettlement TractionIsTrue
  PurchaseIsWithinPolicy RevocationHolds CapsHoldWhenCounted
  AdviceIsSound
PROPERTIES PaidLegKeepsSettlement FailureClosesAccess FundsStayBound
SYMMETRY Symmetry
CHECK_DEADLOCK FALSE
