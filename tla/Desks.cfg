SPECIFICATION MCSpec
CONSTANTS
  Purchases = {i1, i2}
  MaxWindow = 2
  MaxRotations = 1
  MaxEpochs = 1
  MaxRestarts = 1
  MaxResubmits = 1
  Deposits = {d1}
  Settlers = {t1, t2}
  Rates = {1, 2}
  BaseRate = 1
  QuoteTicks = 1
  CacheTicks = 1
  MaxTicks = 1
  MaxCrashes = 1
  Runs = {c1}
  Admins = {a1, a2}
  Rails = {"USYC", "EARN"}
  Reserve = 1
  MaxMove = 2
  MinSweep = 1
  Ratio = 1
  Funds = 3
  Elsewhere = {2}
  OpenClaims = {2}
  OpsBills = 1
  MaxSpent = 1
  EarnStores = {"postgres", "json"}
  EarnCalls = {e1, e2, e3}
  EarnReaders = {r1}
  EarnAmounts = {1, 2}
  MaxEarnFaults = 1
  Holders = {s1, s2}
  VirtualShares = 2
  VaultSums = {1, 2, 3}
  MaxAssets = 6
  Caps = {0, 3}
  Writers = {w1, w2}
  Places = {"storage", "file", "nowhere"}
  MaxRecords = 4
  ReadsFail = TRUE
  Requests = {h1, h2, u1, k1}
  Halting = {h1, h2}
  Acknowledging = {k1}
  MaxFaults = 1
  Venues <- MCVenues
  Executable = {"uniswap_v2", "usyc_nav"}
  Anchored = {"EURC-USDC"}
  AmountIn = 3
  MaxOut = 2
  Slippage = 1
  Tolerance = 0
  QuoteTtl = 1
  MaxTime = 1
  MaxQuotes = 1
  Allowances = {0, 3}
  RecordBackends = {"json", "postgres", "supabase"}
  RecordTables = {"payment_events", "paid_reports", "invoices", "creator_applications",
                  "provider_controls", "withdrawals", "incidents", "vault_positions",
                  "audit_trail", "spend_events", "agent_sessions"}
  Savers = {v1, v2, v3, v4}
  RowKeys = {k2, k3}
  ReadAtMost = 1
  MaxStoreFaults = 1
  Addresses = {1, 2}
  Paths = {"/healthz", "/payment/verify", "/swap/quote", "/creators"}
  ScopeOf <- MCScopeOf
  PerWindow <- MCPerWindow
  LimitWindow = 1
  StaleAbove = 1
  BucketsMax = 2
  Withdrawals = {1, 2, 3}
  RelaysPerDay = 1
  Day = 1
  MaxLimitTime = 2
  MaxLimitRestarts = 1
  MaxRequests = 5
INVARIANTS OnePayoutPerDeposit NoDepositIsLost ForkNeedsAFailedRead
  HaltHolds DepositIsCovered SavedRowsStay LimitsHold
PROPERTIES EpochsAreSound SweepsKeepReserve SharePriceNeverFalls
SYMMETRY Symmetry
CONSTRAINT InTurn
CHECK_DEADLOCK FALSE
