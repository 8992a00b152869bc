--------------------------- MODULE MCSessionLease ---------------------------
(* SessionLease with interchangeable workers, calls and amounts.            *)
EXTENDS SessionLease, TLC

Symmetry == Permutations(Workers) \cup Permutations(Calls) \cup Permutations(Amounts)

\* For runs whose properties do not look at what the owner was told, which no
\* action depends on.
WithoutStopped == <<runtime, transfer, orderly>>

\* Withdrawals touch the row's status only: once one is kept in memory, by an
\* answer or because the database failed, the session is followed through its
\* first tick, without a purchase.
NoPurchase == row.gen <= 2 /\ \A g \in Generations : invoice[g] = NoInvoice
KeptApart ==
  lapsed # {} \/ (\E o \in Operations : kept[o] # NoOperation) => NoPurchase
=============================================================================
