SPECIFICATION Spec
CONSTANTS
  x1 = x1
  Attempts = {a1, a2}
  Quotes = {q1, q2}
  Reconcilers = {x1, x2}
  MaxNonce = 2
  Modes = {TRUE, FALSE}
  Settings = {TRUE, FALSE}
CONSTRAINT SmallUnlessQuiet
INVARIANTS OneTransactionPerQuote RecordMatchesChain MovedIsCounted
PROPERTIES GuardIsCalledLegally SettledStaysSettled
SYMMETRY Symmetry
CHECK_DEADLOCK FALSE
