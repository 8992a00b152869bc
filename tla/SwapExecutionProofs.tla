------------------------ MODULE SwapExecutionProofs ------------------------
(***************************************************************************)
(* Theorems about swap execution: whatever calls race for a quote, saves   *)
(* fail, nodes forget transactions and the process crashes, one attempt    *)
(* signs for a quote, and the records never contradict the chain.          *)
(***************************************************************************)
EXTENDS SwapExecution, FiniteSetTheorems, TLAPS

Places == {"idle", "checked", "reserved", "consumed", "signed", "pinned", "submitted",
           "waiting", "toolow", "closing", "done"}

(* What the variables are, as far as records and the chain go.               *)
ReconcilerState ==
  [pc : {"idle", "receipt", "mempool", "nonce", "resend", "closing"},
   quote : Quotes \cup {Nobody}, status : Statuses, seen : BOOLEAN,
   latest : Nat, next : Statuses]

ExecutorTypes ==
  /\ pc \in [Attempts -> Places] /\ quoteOf \in [Attempts -> Quotes \cup {Nobody}]
  /\ next \in [Attempts -> Statuses] /\ store \in [Quotes -> {"new", "live", "gone"}]
  /\ status \in [Quotes -> Statuses] /\ owner \in [Quotes -> Attempts \cup {Nobody}]
  /\ mempool \subseteq Attempts /\ mined \in [Attempts -> {"no", "ok", "reverted"}]
  /\ latest \in Nat /\ nonce \in [Attempts -> Nat]

ReconcilerTypes == rc \in [Reconcilers -> ReconcilerState]

SwapTypes == ExecutorTypes /\ ReconcilerTypes

Early == {"idle", "checked", "reserved"}
Afoot == {"signed", "pinned", "submitted", "waiting", "toolow"}

(* Nothing of the attempt was ever signed.                                   *)
Never(a) == nonce[a] = 0 /\ a \notin mempool /\ mined[a] = "no"
Saved(q) == status[q] \notin {"NONE", "PENDING"}

(* The owner of a record consumed its quote, which is gone for all others.   *)
OwnersConsumed ==
  \A q \in Quotes : owner[q] # Nobody =>
    quoteOf[owner[q]] = q /\ store[q] = "gone" /\ pc[owner[q]] \notin Early

(* What an attempt has at each place: the record of its quote from the       *)
(* consumption on, a saved transaction from the signature on, and an outcome *)
(* the chain bears out when it closes.                                       *)
PlacesAreRight ==
  \A a \in Attempts :
    /\ pc[a] \in Early \cup {"consumed"} => Never(a)
    /\ pc[a] \in {"checked", "reserved"} => quoteOf[a] \in Quotes
    /\ pc[a] \in Afoot \cup {"consumed", "closing"} =>
         quoteOf[a] \in Quotes /\ owner[quoteOf[a]] = a
    /\ pc[a] \in Afoot => Saved(quoteOf[a])
    /\ pc[a] = "closing" =>
         /\ next[a] \in {"FAILED", "CONFIRMED", "REVERTED", "UNCERTAIN", "FAILED_NONCE_COLLISION"}
         /\ next[a] \in {"FAILED", "CONFIRMED"} => mined[a] = "ok" \/ Never(a)
         /\ next[a] = "REVERTED" => mined[a] = "reverted"

(* What was signed, or is on the chain, has the saved record of its quote.   *)
SignedIsSaved ==
  \A a \in Attempts : ~Never(a) =>
    quoteOf[a] \in Quotes /\ owner[quoteOf[a]] = a /\ Saved(quoteOf[a])

(* A mined transaction has used up its nonce: no node takes it again.        *)
MinedIsOver ==
  \A a \in Attempts : mined[a] # "no" =>
    nonce[a] < latest /\ a \notin mempool

(* A record that says how it ended is borne out by the chain, or its attempt *)
(* ended before it signed.                                                   *)
EndsAreTrue ==
  \A q \in Quotes :
    /\ status[q] \in {"FAILED", "CONFIRMED"} =>
         /\ owner[q] # Nobody
         /\ mined[owner[q]] = "ok" \/ (pc[owner[q]] = "done" /\ Never(owner[q]))
    /\ status[q] = "REVERTED" => owner[q] # Nobody /\ mined[owner[q]] = "reverted"

(* A reconciler follows up a record whose transaction was signed, and saves  *)
(* only what it saw on the chain.                                            *)
ReconcilersAreRight ==
  \A x \in Reconcilers :
    /\ rc[x].pc # "idle" =>
         rc[x].quote \in Quotes /\ owner[rc[x].quote] # Nobody /\ nonce[owner[rc[x].quote]] # 0
    /\ rc[x].pc = "closing" =>
         /\ rc[x].next \in {"CONFIRMED", "REVERTED", "SUBMITTED", "UNCERTAIN",
                            "FAILED_NONCE_COLLISION"}
         /\ rc[x].next = "CONFIRMED" => mined[owner[rc[x].quote]] = "ok"
         /\ rc[x].next = "REVERTED" => mined[owner[rc[x].quote]] = "reverted"

SwapInv ==
  /\ SwapTypes /\ OwnersConsumed /\ PlacesAreRight /\ SignedIsSaved
  /\ MinedIsOver /\ EndsAreTrue /\ ReconcilersAreRight

(* A look into the pool of a node finds the transaction or not.              *)
LEMMA LookIsBoolean ==
  ASSUME NEW a, NEW S, NEW seen \in {FALSE, (a \in S)}
  PROVE  seen \in BOOLEAN
<1>1. CASE a \in S
  <2>1. (a \in S) = TRUE
    BY <1>1
  <2>. QED
    BY <2>1
<1>2. CASE a \notin S
  <2>1. (a \in S) = FALSE
    BY <1>2
  <2>. QED
    BY <2>1
<1>. QED
  BY <1>1, <1>2

(* The copies a reconciler takes of its record are such records.             *)
LEMMA ReconcilerCopies ==
  ASSUME ReconcilerTypes, NEW x \in Reconcilers,
         NEW p \in {"idle", "receipt", "mempool", "nonce", "resend", "closing"},
         NEW s \in Statuses, NEW b \in BOOLEAN, NEW n \in Nat
  PROVE  /\ [rc[x] EXCEPT !.pc = p] \in ReconcilerState
         /\ [rc[x] EXCEPT !.pc = p, !.next = s] \in ReconcilerState
         /\ [rc[x] EXCEPT !.pc = p, !.seen = b] \in ReconcilerState
         /\ [rc[x] EXCEPT !.pc = p, !.latest = n] \in ReconcilerState
         /\ Idle \in ReconcilerState
<1>1. rc[x] \in ReconcilerState
  BY DEF ReconcilerTypes
<1>. QED
  BY <1>1, ZenonT(60) DEF ReconcilerState, Idle, Statuses

(* A reconciler that goes on with its record, to save only what it saw on    *)
(* the chain, or ends, is as it should be.                                   *)
LEMMA ReconcilerGoesOn ==
  ASSUME SwapInv, NEW x \in Reconcilers, NEW r \in ReconcilerState, Update(x, r),
         UNCHANGED <<owner, nonce, mined>>,
         r.pc = "idle" \/ (rc[x].pc # "idle" /\ r.quote = rc[x].quote),
         r.pc = "closing" =>
           /\ r.next \in {"CONFIRMED", "REVERTED", "SUBMITTED", "UNCERTAIN",
                          "FAILED_NONCE_COLLISION"}
           /\ r.next = "CONFIRMED" => mined[Tx(x)] = "ok"
           /\ r.next = "REVERTED" => mined[Tx(x)] = "reverted"
  PROVE  ReconcilerTypes' /\ ReconcilersAreRight'
<1>1. /\ rc' \in [Reconcilers -> ReconcilerState] /\ rc'[x] = r
      /\ \A y \in Reconcilers : y # x => rc'[y] = rc[y]
  BY DEF SwapInv, SwapTypes, ReconcilerTypes, Update
<1>. QED
  BY <1>1 DEF SwapInv, SwapTypes, ReconcilerTypes, ReconcilersAreRight, Tx

(* Each step of a reconciler is such a step.                                 *)
LEMMA ReconcilerStep ==
  ASSUME SwapInv, NEW x \in Reconcilers, Reconcile(x)
  PROVE  ReconcilerTypes' /\ ReconcilersAreRight'
<1>. USE DEF executor, records, chain
<1>0. ReconcilerTypes /\ rc[x] \in ReconcilerState /\ latest \in Nat
  BY DEF SwapInv, SwapTypes, ReconcilerTypes, ExecutorTypes
<1>1. ASSUME NEW q \in Quotes, StartReconcile(x, q) PROVE ReconcilerTypes' /\ ReconcilersAreRight'
  <2>. DEFINE r == [Idle EXCEPT !.pc = "receipt", !.quote = q, !.status = status[q]]
  <2>1. /\ r \in ReconcilerState /\ r.pc = "receipt" /\ r.quote = q
        /\ rc' = [rc EXCEPT ![x] = r] /\ owner[q] # Nobody /\ nonce[owner[q]] # 0
        /\ UNCHANGED <<owner, nonce, mined>>
    BY <1>0, <1>1 DEF StartReconcile, Update, ReconcilerState, Idle, Statuses, SwapInv,
       SwapTypes,
       ExecutorTypes
  <2>. HIDE DEF r
  <2>2. rc' \in [Reconcilers -> ReconcilerState] /\ rc'[x] = r
        /\ \A y \in Reconcilers : y # x => rc'[y] = rc[y]
    BY <1>0, <2>1 DEF ReconcilerTypes
  <2>. QED
    BY <2>1, <2>2 DEF SwapInv, ReconcilerTypes, ReconcilersAreRight
<1>2. ASSUME LookForReceipt(x) PROVE ReconcilerTypes' /\ ReconcilersAreRight'
  <2>0. rc[x].pc # "idle" /\ UNCHANGED <<owner, nonce, mined>>
    BY <1>2 DEF LookForReceipt
  <2>1. CASE mined[Tx(x)] = "ok" /\ Update(x, [rc[x] EXCEPT !.pc = "closing", !.next = "CONFIRMED"])
    <3>1. [rc[x] EXCEPT !.pc = "closing", !.next = "CONFIRMED"] \in ReconcilerState
      BY <1>0, ReconcilerCopies DEF Statuses
    <3>. QED
      BY <1>0, <2>0, <2>1, <3>1, ReconcilerGoesOn DEF ReconcilerState, Idle
  <2>2. CASE mined[Tx(x)] = "reverted" /\ Update(x, [rc[x] EXCEPT !.pc = "closing", !.next = "REVERTED"])
    <3>1. [rc[x] EXCEPT !.pc = "closing", !.next = "REVERTED"] \in ReconcilerState
      BY <1>0, ReconcilerCopies DEF Statuses
    <3>. QED
      BY <1>0, <2>0, <2>2, <3>1, ReconcilerGoesOn DEF ReconcilerState, Idle
  <2>3. CASE Update(x, [rc[x] EXCEPT !.pc = "mempool", !.latest = latest])
    <3>1. [rc[x] EXCEPT !.pc = "mempool", !.latest = latest] \in ReconcilerState
      BY <1>0, ReconcilerCopies DEF Statuses
    <3>. QED
      BY <1>0, <2>0, <2>3, <3>1, ReconcilerGoesOn DEF ReconcilerState, Idle
  <2>. QED
    BY <1>2, <2>1, <2>2, <2>3 DEF LookForReceipt
<1>3. ASSUME LookInMempool(x) PROVE ReconcilerTypes' /\ ReconcilersAreRight'
  <2>0. rc[x].pc # "idle" /\ UNCHANGED <<owner, nonce, mined>>
    BY <1>3 DEF LookInMempool
  <2>1. ASSUME NEW seen \in BOOLEAN, Update(x, [rc[x] EXCEPT !.pc = "nonce", !.seen = seen])
        PROVE  ReconcilerTypes' /\ ReconcilersAreRight'
    <3>1. [rc[x] EXCEPT !.pc = "nonce", !.seen = seen] \in ReconcilerState
      BY <1>0, ReconcilerCopies DEF Statuses
    <3>. QED
      BY <1>0, <2>0, <2>1, <3>1, ReconcilerGoesOn DEF ReconcilerState, Idle
  <2>2. \A seen \in {FALSE, Tx(x) \in mempool} : seen \in BOOLEAN
    BY LookIsBoolean
  <2>. QED
    BY <1>3, <2>1, <2>2 DEF LookInMempool
<1>4. ASSUME LookAtNonce(x) PROVE ReconcilerTypes' /\ ReconcilersAreRight'
  <2>0. rc[x].pc # "idle" /\ UNCHANGED <<owner, nonce, mined>>
    BY <1>4 DEF LookAtNonce
  <2>1. CASE Update(x, [rc[x] EXCEPT !.pc = "closing", !.next = "FAILED_NONCE_COLLISION"])
    <3>1. [rc[x] EXCEPT !.pc = "closing", !.next = "FAILED_NONCE_COLLISION"] \in ReconcilerState
      BY <1>0, ReconcilerCopies DEF Statuses
    <3>. QED
      BY <1>0, <2>0, <2>1, <3>1, ReconcilerGoesOn DEF ReconcilerState, Idle
  <2>2. CASE Update(x, Idle)
    <3>1. Idle \in ReconcilerState
      BY <1>0, ReconcilerCopies DEF Statuses
    <3>. QED
      BY <1>0, <2>0, <2>2, <3>1, ReconcilerGoesOn DEF ReconcilerState, Idle
  <2>3. CASE Update(x, [rc[x] EXCEPT !.pc = "resend"])
    <3>1. [rc[x] EXCEPT !.pc = "resend"] \in ReconcilerState
      BY <1>0, ReconcilerCopies DEF Statuses
    <3>. QED
      BY <1>0, <2>0, <2>3, <3>1, ReconcilerGoesOn DEF ReconcilerState, Idle
  <2>4. CASE Update(x, [rc[x] EXCEPT !.pc = "closing", !.next = "SUBMITTED"])
    <3>1. [rc[x] EXCEPT !.pc = "closing", !.next = "SUBMITTED"] \in ReconcilerState
      BY <1>0, ReconcilerCopies DEF Statuses
    <3>. QED
      BY <1>0, <2>0, <2>4, <3>1, ReconcilerGoesOn DEF ReconcilerState, Idle
  <2>. QED
    BY <1>4, <2>1, <2>2, <2>3, <2>4 DEF LookAtNonce
<1>5. ASSUME NonceUnknown(x) PROVE ReconcilerTypes' /\ ReconcilersAreRight'
  <2>0. rc[x].pc # "idle" /\ UNCHANGED <<owner, nonce, mined>>
    BY <1>5 DEF NonceUnknown
  <2>1. CASE Update(x, Idle)
    <3>1. Idle \in ReconcilerState
      BY <1>0, ReconcilerCopies DEF Statuses
    <3>. QED
      BY <1>0, <2>0, <2>1, <3>1, ReconcilerGoesOn DEF ReconcilerState, Idle
  <2>2. CASE Update(x, [rc[x] EXCEPT !.pc = "closing", !.next = "UNCERTAIN"])
    <3>1. [rc[x] EXCEPT !.pc = "closing", !.next = "UNCERTAIN"] \in ReconcilerState
      BY <1>0, ReconcilerCopies DEF Statuses
    <3>. QED
      BY <1>0, <2>0, <2>2, <3>1, ReconcilerGoesOn DEF ReconcilerState, Idle
  <2>. QED
    BY <1>5, <2>1, <2>2 DEF NonceUnknown
<1>6. ASSUME Resend(x) PROVE ReconcilerTypes' /\ ReconcilersAreRight'
  <2>0. rc[x].pc # "idle" /\ UNCHANGED <<owner, nonce, mined>>
    BY <1>6 DEF Resend
  <2>1. CASE Update(x, [rc[x] EXCEPT !.pc = "closing", !.next = "SUBMITTED"])
    <3>1. [rc[x] EXCEPT !.pc = "closing", !.next = "SUBMITTED"] \in ReconcilerState
      BY <1>0, ReconcilerCopies DEF Statuses
    <3>. QED
      BY <1>0, <2>0, <2>1, <3>1, ReconcilerGoesOn DEF ReconcilerState, Idle
  <2>2. CASE Update(x, [rc[x] EXCEPT !.pc = "closing", !.next = "UNCERTAIN"])
    <3>1. [rc[x] EXCEPT !.pc = "closing", !.next = "UNCERTAIN"] \in ReconcilerState
      BY <1>0, ReconcilerCopies DEF Statuses
    <3>. QED
      BY <1>0, <2>0, <2>2, <3>1, ReconcilerGoesOn DEF ReconcilerState, Idle
  <2>3. CASE Update(x, Idle)
    <3>1. Idle \in ReconcilerState
      BY <1>0, ReconcilerCopies DEF Statuses
    <3>. QED
      BY <1>0, <2>0, <2>3, <3>1, ReconcilerGoesOn DEF ReconcilerState, Idle
  <2>. QED
    BY <1>6, <2>1, <2>2, <2>3 DEF Resend
<1>7. ASSUME CloseReconcile(x) PROVE ReconcilerTypes' /\ ReconcilersAreRight'
  <2>0. rc[x].pc # "idle" /\ UNCHANGED <<owner, nonce, mined>>
    BY <1>7 DEF CloseReconcile
  <2>1. CASE Update(x, Idle)
    <3>1. Idle \in ReconcilerState
      BY <1>0, ReconcilerCopies DEF Statuses
    <3>. QED
      BY <1>0, <2>0, <2>1, <3>1, ReconcilerGoesOn DEF ReconcilerState, Idle
  <2>. QED
    BY <1>7, <2>1 DEF CloseReconcile
<1>. QED
  BY <1>1, <1>2, <1>3, <1>4, <1>5, <1>6, <1>7 DEF Reconcile

(* Every step keeps the types.                                               *)
LEMMA TypesStep == SwapInv /\ [Next]_vars => SwapTypes'
<1>. SUFFICES ASSUME SwapInv, [Next]_vars PROVE SwapTypes'
  OBVIOUS
<1>0. SwapTypes /\ ReconcilersAreRight
  BY DEF SwapInv
<1>. USE DEF SwapTypes, ExecutorTypes, executor, records, chain
<1>1. ASSUME NEW a \in Attempts, Mine(a) PROVE SwapTypes'
  BY <1>0, <1>1 DEF ReconcilerTypes, Places, Statuses, Mine, Advance
<1>2. ASSUME OtherTransaction PROVE SwapTypes'
  BY <1>0, <1>2 DEF ReconcilerTypes, Places, Statuses, OtherTransaction, Advance
<1>3. ASSUME NEW a \in Attempts, Evict(a) PROVE SwapTypes'
  BY <1>0, <1>3 DEF ReconcilerTypes, Places, Statuses, Evict
<1>4. ASSUME NEW q \in Quotes, Quote(q) PROVE SwapTypes'
  BY <1>0, <1>4 DEF ReconcilerTypes, Places, Statuses, Quote
<1>5. ASSUME NEW q \in Quotes, Expire(q) PROVE SwapTypes'
  BY <1>0, <1>5 DEF ReconcilerTypes, Places, Statuses, Expire
<1>6. ASSUME NEW a \in Attempts, NEW q \in Quotes, Check(a, q) PROVE SwapTypes'
  BY <1>0, <1>6 DEF ReconcilerTypes, Places, Statuses, Check, Goto
<1>7. ASSUME NEW a \in Attempts, Reserve(a) PROVE SwapTypes'
  BY <1>0, <1>7 DEF ReconcilerTypes, Places, Statuses, Reserve, Goto
<1>8. ASSUME NEW a \in Attempts, Consume(a) PROVE SwapTypes'
  BY <1>0, <1>8 DEF ReconcilerTypes, Places, Statuses, Consume, Goto, Save, SaveFails
<1>9. ASSUME NEW a \in Attempts, CloseUnsigned(a) PROVE SwapTypes'
  BY <1>0, <1>9 DEF ReconcilerTypes, Places, Statuses, CloseUnsigned, CloseWith, Goto
<1>10. ASSUME NEW a \in Attempts, Sign(a) PROVE SwapTypes'
  <2>1. Cardinality(mempool) \in Nat
    BY <1>0, FiniteAssumption, FS_Subset, FS_CardinalityType
  <2>2. PendingNonce \subseteq Nat
    BY <1>0, <2>1 DEF PendingNonce
  <2>3. nonce' \in [Attempts -> Nat]
    BY <1>0, <1>10, <2>2 DEF Sign
  <2>. QED
    BY <1>0, <1>10, <2>3 DEF ReconcilerTypes, Places, Statuses, Sign, Goto, Save,
       SaveFails
<1>11. ASSUME NEW a \in Attempts, Pin(a) PROVE SwapTypes'
  BY <1>0, <1>11 DEF ReconcilerTypes, Places, Statuses, Pin, Goto
<1>12. ASSUME NEW a \in Attempts, Submit(a) PROVE SwapTypes'
  BY <1>0, <1>12 DEF ReconcilerTypes, Places, Statuses, Submit, Goto, Save, SaveFails
<1>13. ASSUME NEW a \in Attempts, Broadcast(a) PROVE SwapTypes'
  BY <1>0, <1>13 DEF ReconcilerTypes, Places, Statuses, Broadcast, Acceptable, Goto
<1>14. ASSUME NEW a \in Attempts, BroadcastUnclear(a) PROVE SwapTypes'
  BY <1>0, <1>14 DEF ReconcilerTypes, Places, Statuses, BroadcastUnclear, Acceptable,
     CloseWith, Goto
<1>15. ASSUME NEW a \in Attempts, NonceTooLow(a) PROVE SwapTypes'
  BY <1>0, <1>15 DEF ReconcilerTypes, Places, Statuses, NonceTooLow, Goto
<1>16. ASSUME NEW a \in Attempts, Collide(a) PROVE SwapTypes'
  BY <1>0, <1>16 DEF ReconcilerTypes, Places, Statuses, Collide, CloseWith, Goto
<1>17. ASSUME NEW a \in Attempts, Await(a) PROVE SwapTypes'
  <2>1. ExecutorTypes'
    BY <1>0, <1>17 DEF Places, Statuses, Await, CloseWith, Goto
  <2>2. ReconcilerTypes'
    BY <1>0, <1>17 DEF ReconcilerTypes, Await
  <2>. QED
    BY <2>1, <2>2
<1>18. ASSUME NEW a \in Attempts, Close(a) PROVE SwapTypes'
  BY <1>0, <1>18 DEF ReconcilerTypes, Places, Statuses, Close, CloseWith, Goto, Save,
     SaveFails, Final
<1>19. ASSUME NEW x \in Reconcilers, NEW q \in Quotes, StartReconcile(x, q) PROVE SwapTypes'
  <2>1. ExecutorTypes'
    BY <1>0, <1>19 DEF Statuses, StartReconcile
  <2>. QED
    BY <1>19, <2>1, ReconcilerStep DEF Reconcile
<1>20. ASSUME NEW x \in Reconcilers, LookForReceipt(x) PROVE SwapTypes'
  <2>1. ExecutorTypes'
    BY <1>0, <1>20 DEF Statuses, LookForReceipt
  <2>. QED
    BY <1>20, <2>1, ReconcilerStep DEF Reconcile
<1>21. ASSUME NEW x \in Reconcilers, LookInMempool(x) PROVE SwapTypes'
  <2>1. ExecutorTypes'
    BY <1>0, <1>21 DEF Statuses, LookInMempool, Save, SaveFails
  <2>. QED
    BY <1>21, <2>1, ReconcilerStep DEF Reconcile
<1>22. ASSUME NEW x \in Reconcilers, LookAtNonce(x) PROVE SwapTypes'
  <2>1. ExecutorTypes'
    BY <1>0, <1>22 DEF Statuses, LookAtNonce
  <2>. QED
    BY <1>22, <2>1, ReconcilerStep DEF Reconcile
<1>23. ASSUME NEW x \in Reconcilers, NonceUnknown(x) PROVE SwapTypes'
  <2>1. ExecutorTypes'
    BY <1>0, <1>23 DEF Statuses, NonceUnknown
  <2>. QED
    BY <1>23, <2>1, ReconcilerStep DEF Reconcile
<1>24. ASSUME NEW x \in Reconcilers, Resend(x) PROVE SwapTypes'
  <2>1. ExecutorTypes'
    BY <1>0, <1>24 DEF Statuses, Resend, Tx, ReconcilersAreRight
  <2>. QED
    BY <1>24, <2>1, ReconcilerStep DEF Reconcile
<1>25. ASSUME NEW x \in Reconcilers, CloseReconcile(x) PROVE SwapTypes'
  <2>1. ExecutorTypes'
    BY <1>0, <1>25 DEF Statuses, ReconcilerTypes, ReconcilerState, CloseReconcile, Save,
       SaveFails
  <2>. QED
    BY <1>25, <2>1, ReconcilerStep DEF Reconcile
<1>26. ASSUME Restart PROVE SwapTypes'
  <2>1. ExecutorTypes'
    BY <1>0, <1>26 DEF Places, Restart
  <2>2. rc' = [x \in Reconcilers |-> Idle]
    BY <1>26 DEF Restart
  <2>3. ReconcilerTypes'
    BY <2>2 DEF ReconcilerTypes, ReconcilerState, Statuses, Idle
  <2>. QED
    BY <2>1, <2>3
<1>27. CASE UNCHANGED vars
  BY <1>0, <1>27 DEF vars, ReconcilerTypes
<1>. QED
  BY <1>1, <1>2, <1>3, <1>4, <1>5, <1>6, <1>7, <1>8, <1>9, <1>10, <1>11, <1>12, <1>13,
     <1>14, <1>15, <1>16, <1>17, <1>18, <1>19, <1>20, <1>21, <1>22, <1>23, <1>24, <1>25,
     <1>26, <1>27 DEF Next, Attempt, Reconcile

(* Every step keeps the invariant.                                           *)
LEMMA SwapStep == SwapInv /\ [Next]_vars => SwapInv'
<1>. SUFFICES ASSUME SwapInv, [Next]_vars PROVE SwapInv'
  OBVIOUS
<1>0. /\ SwapTypes'
      /\ pc \in [Attempts -> Places] /\ rc \in [Reconcilers -> ReconcilerState]
  BY TypesStep DEF SwapInv, SwapTypes, ExecutorTypes, ReconcilerTypes
<1>. USE NobodyAssumption DEF SwapInv, SwapTypes, ExecutorTypes, OwnersConsumed, PlacesAreRight,
     SignedIsSaved, MinedIsOver, EndsAreTrue, ReconcilersAreRight, Never, Saved, Early, Afoot,
     executor, records, chain
<1>1. ASSUME NEW a \in Attempts, Mine(a) PROVE SwapInv'
  <2>1. OwnersConsumed'
    BY <1>0, <1>1 DEF Mine, Advance
  <2>2. PlacesAreRight'
    BY <1>0, <1>1 DEF Mine, Advance
  <2>3. SignedIsSaved' /\ MinedIsOver'
    BY <1>0, <1>1 DEF Mine, Advance
  <2>4. EndsAreTrue' /\ ReconcilersAreRight'
    BY <1>0, <1>1 DEF Mine, Advance
  <2>. QED
    BY <1>0, <2>1, <2>2, <2>3, <2>4
<1>2. ASSUME OtherTransaction PROVE SwapInv'
  <2>1. OwnersConsumed'
    BY <1>0, <1>2 DEF OtherTransaction, Advance
  <2>2. PlacesAreRight'
    BY <1>0, <1>2 DEF OtherTransaction, Advance
  <2>3. SignedIsSaved' /\ MinedIsOver'
    BY <1>0, <1>2 DEF OtherTransaction, Advance
  <2>4. EndsAreTrue' /\ ReconcilersAreRight'
    BY <1>0, <1>2 DEF OtherTransaction, Advance
  <2>. QED
    BY <1>0, <2>1, <2>2, <2>3, <2>4
<1>3. ASSUME NEW a \in Attempts, Evict(a) PROVE SwapInv'
  BY <1>0, <1>3 DEF Evict
<1>4. ASSUME NEW q \in Quotes, Quote(q) PROVE SwapInv'
  <2>1. OwnersConsumed'
    BY <1>0, <1>4 DEF Quote
  <2>2. PlacesAreRight'
    BY <1>0, <1>4 DEF Quote
  <2>3. SignedIsSaved' /\ MinedIsOver'
    BY <1>0, <1>4 DEF Quote
  <2>4. EndsAreTrue' /\ ReconcilersAreRight'
    BY <1>0, <1>4 DEF Quote
  <2>. QED
    BY <1>0, <2>1, <2>2, <2>3, <2>4
<1>5. ASSUME NEW q \in Quotes, Expire(q) PROVE SwapInv'
  <2>1. OwnersConsumed'
    BY <1>0, <1>5 DEF Expire
  <2>2. PlacesAreRight'
    BY <1>0, <1>5 DEF Expire
  <2>3. SignedIsSaved' /\ MinedIsOver'
    BY <1>0, <1>5 DEF Expire
  <2>4. EndsAreTrue' /\ ReconcilersAreRight'
    BY <1>0, <1>5 DEF Expire
  <2>. QED
    BY <1>0, <2>1, <2>2, <2>3, <2>4
<1>6. ASSUME NEW a \in Attempts, NEW q \in Quotes, Check(a, q) PROVE SwapInv'
  <2>1. OwnersConsumed'
    BY <1>0, <1>6 DEF Check, Goto
  <2>2. PlacesAreRight'
    BY <1>0, <1>6 DEF Check, Goto
  <2>3. SignedIsSaved' /\ MinedIsOver'
    BY <1>0, <1>6 DEF Check, Goto
  <2>4. EndsAreTrue' /\ ReconcilersAreRight'
    BY <1>0, <1>6 DEF Check, Goto
  <2>. QED
    BY <1>0, <2>1, <2>2, <2>3, <2>4
<1>7. ASSUME NEW a \in Attempts, Reserve(a) PROVE SwapInv'
  <2>1. OwnersConsumed'
    BY <1>0, <1>7 DEF Reserve, Goto
  <2>2. PlacesAreRight'
    BY <1>0, <1>7 DEF Reserve, Goto
  <2>3. SignedIsSaved' /\ MinedIsOver'
    BY <1>0, <1>7 DEF Reserve, Goto
  <2>4. EndsAreTrue' /\ ReconcilersAreRight'
    BY <1>0, <1>7 DEF Reserve, Goto
  <2>. QED
    BY <1>0, <2>1, <2>2, <2>3, <2>4
<1>8. ASSUME NEW a \in Attempts, Consume(a) PROVE SwapInv'
  <2>1. OwnersConsumed'
    BY <1>0, <1>8 DEF Consume, Goto, Save, SaveFails
  <2>2. PlacesAreRight'
    BY <1>0, <1>8 DEF Consume, Goto, Save, SaveFails
  <2>3. SignedIsSaved' /\ MinedIsOver'
    BY <1>0, <1>8 DEF Consume, Goto, Save, SaveFails
  <2>4. EndsAreTrue' /\ ReconcilersAreRight'
    BY <1>0, <1>8 DEF Consume, Goto, Save, SaveFails
  <2>. QED
    BY <1>0, <2>1, <2>2, <2>3, <2>4
<1>9. ASSUME NEW a \in Attempts, CloseUnsigned(a) PROVE SwapInv'
  <2>0. /\ pc[a] = "consumed" /\ pc' = [pc EXCEPT ![a] = "closing"]
        /\ next' \in {[next EXCEPT ![a] = "FAILED"], [next EXCEPT ![a] = "CONFIRMED"]}
        /\ UNCHANGED <<quoteOf, store, rc, status, owner, nonce, mempool, mined, latest>>
    BY <1>9 DEF CloseUnsigned, CloseWith, Goto
  <2>1. OwnersConsumed'
    BY <1>0, <2>0
  <2>2. PlacesAreRight'
    BY <1>0, <2>0
  <2>3. SignedIsSaved' /\ MinedIsOver'
    BY <1>0, <2>0
  <2>4. EndsAreTrue' /\ ReconcilersAreRight'
    BY <1>0, <2>0
  <2>. QED
    BY <1>0, <2>1, <2>2, <2>3, <2>4
<1>10. ASSUME NEW a \in Attempts, Sign(a) PROVE SwapInv'
  <2>1. OwnersConsumed'
    BY <1>0, <1>10 DEF Sign, Goto, Save, SaveFails
  <2>2. PlacesAreRight'
    BY <1>0, <1>10 DEF Sign, Goto, Save, SaveFails
  <2>3. SignedIsSaved' /\ MinedIsOver'
    BY <1>0, <1>10 DEF Sign, Goto, Save, SaveFails
  <2>4. EndsAreTrue' /\ ReconcilersAreRight'
    BY <1>0, <1>10 DEF Sign, Goto, Save, SaveFails
  <2>. QED
    BY <1>0, <2>1, <2>2, <2>3, <2>4
<1>11. ASSUME NEW a \in Attempts, Pin(a) PROVE SwapInv'
  <2>1. OwnersConsumed'
    BY <1>0, <1>11 DEF Pin, Goto
  <2>2. PlacesAreRight'
    BY <1>0, <1>11 DEF Pin, Goto
  <2>3. SignedIsSaved' /\ MinedIsOver'
    BY <1>0, <1>11 DEF Pin, Goto
  <2>4. EndsAreTrue' /\ ReconcilersAreRight'
    BY <1>0, <1>11 DEF Pin, Goto
  <2>. QED
    BY <1>0, <2>1, <2>2, <2>3, <2>4
<1>12. ASSUME NEW a \in Attempts, Submit(a) PROVE SwapInv'
  <2>1. OwnersConsumed'
    BY <1>0, <1>12 DEF Submit, Goto, Save, SaveFails
  <2>2. PlacesAreRight'
    BY <1>0, <1>12 DEF Submit, Goto, Save, SaveFails
  <2>3. SignedIsSaved' /\ MinedIsOver'
    BY <1>0, <1>12 DEF Submit, Goto, Save, SaveFails
  <2>4. EndsAreTrue' /\ ReconcilersAreRight'
    BY <1>0, <1>12 DEF Submit, Goto, Save, SaveFails
  <2>. QED
    BY <1>0, <2>1, <2>2, <2>3, <2>4
<1>13. ASSUME NEW a \in Attempts, Broadcast(a) PROVE SwapInv'
  BY <1>0, <1>13 DEF Broadcast, Acceptable, Goto
<1>14. ASSUME NEW a \in Attempts, BroadcastUnclear(a) PROVE SwapInv'
  <2>1. OwnersConsumed'
    BY <1>0, <1>14 DEF BroadcastUnclear, Acceptable, CloseWith, Goto
  <2>2. PlacesAreRight'
    BY <1>0, <1>14 DEF BroadcastUnclear, Acceptable, CloseWith, Goto
  <2>3. SignedIsSaved' /\ MinedIsOver'
    BY <1>0, <1>14 DEF BroadcastUnclear, Acceptable, CloseWith, Goto
  <2>4. EndsAreTrue' /\ ReconcilersAreRight'
    BY <1>0, <1>14 DEF BroadcastUnclear, Acceptable, CloseWith, Goto
  <2>. QED
    BY <1>0, <2>1, <2>2, <2>3, <2>4
<1>15. ASSUME NEW a \in Attempts, NonceTooLow(a) PROVE SwapInv'
  <2>1. OwnersConsumed'
    BY <1>0, <1>15 DEF NonceTooLow, Goto
  <2>2. PlacesAreRight'
    BY <1>0, <1>15 DEF NonceTooLow, Goto
  <2>3. SignedIsSaved' /\ MinedIsOver'
    BY <1>0, <1>15 DEF NonceTooLow, Goto
  <2>4. EndsAreTrue' /\ ReconcilersAreRight'
    BY <1>0, <1>15 DEF NonceTooLow, Goto
  <2>. QED
    BY <1>0, <2>1, <2>2, <2>3, <2>4
<1>16. ASSUME NEW a \in Attempts, Collide(a) PROVE SwapInv'
  <2>1. OwnersConsumed'
    BY <1>0, <1>16 DEF Collide, CloseWith, Goto
  <2>2. PlacesAreRight'
    BY <1>0, <1>16 DEF Collide, CloseWith, Goto
  <2>3. SignedIsSaved' /\ MinedIsOver'
    BY <1>0, <1>16 DEF Collide, CloseWith, Goto
  <2>4. EndsAreTrue' /\ ReconcilersAreRight'
    BY <1>0, <1>16 DEF Collide, CloseWith, Goto
  <2>. QED
    BY <1>0, <2>1, <2>2, <2>3, <2>4
<1>17. ASSUME NEW a \in Attempts, Await(a) PROVE SwapInv'
  <2>1. OwnersConsumed'
    BY <1>0, <1>17 DEF Await, CloseWith, Goto
  <2>2. PlacesAreRight'
    BY <1>0, <1>17 DEF Await, CloseWith, Goto
  <2>3. SignedIsSaved' /\ MinedIsOver'
    BY <1>0, <1>17 DEF Await, CloseWith, Goto
  <2>4. EndsAreTrue' /\ ReconcilersAreRight'
    BY <1>0, <1>17 DEF Await, CloseWith, Goto
  <2>. QED
    BY <1>0, <2>1, <2>2, <2>3, <2>4
<1>18. ASSUME NEW a \in Attempts, Close(a) PROVE SwapInv'
  <2>1. OwnersConsumed'
    BY <1>0, <1>18 DEF Close, CloseWith, Goto, Save, SaveFails, Final
  <2>2. PlacesAreRight'
    BY <1>0, <1>18 DEF Close, CloseWith, Goto, Save, SaveFails, Final
  <2>3. SignedIsSaved' /\ MinedIsOver'
    BY <1>0, <1>18 DEF Close, CloseWith, Goto, Save, SaveFails, Final
  <2>4. EndsAreTrue' /\ ReconcilersAreRight'
    BY <1>0, <1>18 DEF Close, CloseWith, Goto, Save, SaveFails, Final
  <2>. QED
    BY <1>0, <2>1, <2>2, <2>3, <2>4
<1>19. ASSUME NEW x \in Reconcilers, NEW q \in Quotes, StartReconcile(x, q) PROVE SwapInv'
  <2>1. OwnersConsumed' /\ PlacesAreRight' /\ SignedIsSaved'
        /\ MinedIsOver' /\ EndsAreTrue'
    BY <1>0, <1>19 DEF StartReconcile, Update, Idle, ReconcilerState
  <2>. QED
    BY <1>0, <1>19, <2>1, ReconcilerStep DEF Reconcile
<1>20. ASSUME NEW x \in Reconcilers, LookForReceipt(x) PROVE SwapInv'
  <2>1. OwnersConsumed' /\ PlacesAreRight' /\ SignedIsSaved'
        /\ MinedIsOver' /\ EndsAreTrue'
    BY <1>0, <1>20 DEF LookForReceipt, Update, Tx, ReconcilerState
  <2>. QED
    BY <1>0, <1>20, <2>1, ReconcilerStep DEF Reconcile
<1>21. ASSUME NEW x \in Reconcilers, LookInMempool(x) PROVE SwapInv'
  <2>1. OwnersConsumed' /\ PlacesAreRight' /\ SignedIsSaved'
        /\ MinedIsOver' /\ EndsAreTrue'
    BY <1>0, <1>21 DEF LookInMempool, Update, Save, SaveFails, Tx, ReconcilerState
  <2>. QED
    BY <1>0, <1>21, <2>1, ReconcilerStep DEF Reconcile
<1>22. ASSUME NEW x \in Reconcilers, LookAtNonce(x) PROVE SwapInv'
  <2>1. OwnersConsumed' /\ PlacesAreRight' /\ SignedIsSaved'
        /\ MinedIsOver' /\ EndsAreTrue'
    BY <1>0, <1>22 DEF LookAtNonce, Update, Idle, ReconcilerState
  <2>. QED
    BY <1>0, <1>22, <2>1, ReconcilerStep DEF Reconcile
<1>23. ASSUME NEW x \in Reconcilers, NonceUnknown(x) PROVE SwapInv'
  <2>1. OwnersConsumed' /\ PlacesAreRight' /\ SignedIsSaved'
        /\ MinedIsOver' /\ EndsAreTrue'
    BY <1>0, <1>23 DEF NonceUnknown, Update, Idle, ReconcilerState
  <2>. QED
    BY <1>0, <1>23, <2>1, ReconcilerStep DEF Reconcile
<1>24. ASSUME NEW x \in Reconcilers, Resend(x) PROVE SwapInv'
  <2>1. OwnersConsumed' /\ PlacesAreRight' /\ SignedIsSaved'
        /\ MinedIsOver' /\ EndsAreTrue'
    BY <1>0, <1>24 DEF Resend, Update, Idle, Acceptable, Tx, ReconcilerState
  <2>. QED
    BY <1>0, <1>24, <2>1, ReconcilerStep DEF Reconcile
<1>25. ASSUME NEW x \in Reconcilers, CloseReconcile(x) PROVE SwapInv'
  <2>1. OwnersConsumed' /\ PlacesAreRight' /\ SignedIsSaved'
        /\ MinedIsOver' /\ EndsAreTrue'
    BY <1>0, <1>25 DEF CloseReconcile, Update, Save, SaveFails, Idle, ReconcilerState
  <2>. QED
    BY <1>0, <1>25, <2>1, ReconcilerStep DEF Reconcile
<1>26. ASSUME Restart PROVE SwapInv'
  <2>1. OwnersConsumed'
    BY <1>0, <1>26 DEF Restart, Idle
  <2>2. PlacesAreRight'
    BY <1>0, <1>26 DEF Restart, Idle
  <2>3. SignedIsSaved' /\ MinedIsOver'
    BY <1>0, <1>26 DEF Restart, Idle
  <2>4. EndsAreTrue' /\ ReconcilersAreRight'
    BY <1>0, <1>26 DEF Restart, Idle
  <2>. QED
    BY <1>0, <2>1, <2>2, <2>3, <2>4
<1>27. CASE UNCHANGED vars
  BY <1>0, <1>27 DEF vars
<1>. QED
  BY <1>1, <1>2, <1>3, <1>4, <1>5, <1>6, <1>7, <1>8, <1>9, <1>10, <1>11, <1>12, <1>13,
     <1>14, <1>15, <1>16, <1>17, <1>18, <1>19, <1>20, <1>21, <1>22, <1>23, <1>24, <1>25,
     <1>26, <1>27 DEF Next, Attempt, Reconcile

(* The invariant holds at the start: nothing is signed.                      *)
LEMMA SwapStart == Init => SwapInv
<1>. SUFFICES ASSUME Init PROVE SwapInv
  OBVIOUS
<1>1. Idle \in ReconcilerState
  BY DEF Idle, ReconcilerState, Statuses
<1>3. SwapTypes
  BY <1>1 DEF Init, SwapTypes, ExecutorTypes, ReconcilerTypes, Places,
     Statuses
<1>4. OwnersConsumed /\ PlacesAreRight /\ SignedIsSaved /\ MinedIsOver /\ EndsAreTrue
  BY DEF Init, OwnersConsumed, PlacesAreRight, SignedIsSaved, MinedIsOver, EndsAreTrue,
     Never,
     Early, Afoot
<1>5. ReconcilersAreRight
  BY DEF Init, ReconcilersAreRight, Idle
<1>. QED
  BY <1>3, <1>4, <1>5 DEF SwapInv

(* At most one attempt ever signs a transaction for a quote (consume_quote   *)
(* and the pre-flight of execute_quote): for any number of attempts, quotes  *)
(* and reconcilers.                                                          *)
THEOREM OneTransaction == Spec => []OneTransactionPerQuote
<1>1. SwapInv => OneTransactionPerQuote
  BY DEF SwapInv, SignedIsSaved, Never, OneTransactionPerQuote
<1>. QED
  BY <1>1, SwapStart, SwapStep, PTL DEF Spec

(* The records never contradict the chain: what is or was in a node's pool   *)
(* has its saved record, CONFIRMED and REVERTED say what was mined, and      *)
(* FAILED only what was never sent or missed its minimal output              *)
(* (execute_quote and reconcile_swap_execution, whoever saves last).         *)
THEOREM RecordsMatch == Spec => []RecordMatchesChain
<1>1. SwapInv => RecordMatchesChain
  <2>. SUFFICES ASSUME SwapInv PROVE RecordMatchesChain
    OBVIOUS
  <2>1. BroadcastIsRecorded
    BY DEF SwapInv, MinedIsOver, SignedIsSaved, EndsAreTrue, Never, Saved,
       BroadcastIsRecorded,
       Recorded
  <2>2. ConfirmedIsMined
    BY DEF SwapInv, EndsAreTrue, Never, ConfirmedIsMined
  <2>. QED
    BY <2>1, <2>2 DEF RecordMatchesChain
<1>. QED
  BY <1>1, SwapStart, SwapStep, PTL DEF Spec
=============================================================================
