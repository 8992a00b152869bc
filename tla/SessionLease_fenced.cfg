SPECIFICATION Spec
CONSTANTS
  Workers = {w1, w2}
  Admins = {a1}
  Calls = {c1, c2}
  Operations = {o1}
  Amounts = {small, large}
  Prices = {1}
  Budget = 1
  MaxGeneration = 3
INVARIANTS NotQueuedWhileWithdrawing OneTransferPerOperation BudgetCeiling
PROPERTIES NewestTickWins KilledStaysKilled
SYMMETRY Symmetry
CONSTRAINT KeptApart
VIEW WithoutStopped
CHECK_DEADLOCK FALSE
