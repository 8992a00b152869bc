-------------------------- MODULE MCSwapExecution --------------------------
(* Small instances of SwapExecution for TLC. *)
EXTENDS SwapExecution, TLC

CONSTANT x1

\* Attempts and quotes are interchangeable.
Symmetry == Permutations(Attempts) \cup Permutations(Quotes)

\* A second reconciler, and two calls for one quote, only where the chain is
\* quiet; a second one for another quote where it is not.
SmallUnlessQuiet ==
  \/ quiet
  \/ /\ \A x \in Reconcilers \ {x1} : rc[x].pc = "idle"
     /\ \A a, b \in Attempts : a = b \/ quoteOf[a] = Nobody \/ quoteOf[a] # quoteOf[b]
============================================================================
