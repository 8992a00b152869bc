SPECIFICATION Spec
CONSTANTS
  x1 = x1
  Attempts = {a1, a2}
  Quotes = {q1, q2}
  Reconcilers = {x1}
  MaxNonce = 2
  Modes = {TRUE, FALSE}
  Settings = {FALSE}
INVARIANTS CollisionMeansReplaced
CHECK_DEADLOCK FALSE
