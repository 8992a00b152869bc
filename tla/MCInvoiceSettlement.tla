----------------------- MODULE MCInvoiceSettlement -----------------------
(* Small instances of InvoiceSettlement for TLC. *)
EXTENDS InvoiceSettlement

\* The thread of a buyer's requests, and the thread of the sweep.
CONSTANTS b1, s1

(***************************************************************************)
(* Two families of invoices in one state space.  Rebuilt: the epoch ends,  *)
(* the two reports are ruled on differently, the process may restart, and  *)
(* up to two keys are drawn for one copy.  Copied: the epoch stays, one    *)
(* failed save or restart, two copies, senders of all kinds, and one key,  *)
(* since a failed save may cost a second one.                              *)
(***************************************************************************)
Rebuilt ==
  /\ given.ends /\ given.fault = "restart" /\ given.sent
  /\ given.ruling[1] # given.ruling[2]
  /\ heap[2] = Blank /\ cur # 2 /\ \A t \in Threads : ref[t] # 2
RebuiltOrCopied == Rebuilt \/ ~given.ends
OneKeyIfCopied == ~given.ends => keys' <= 1
============================================================================
