-------------------------- MODULE SwapGuardProofs --------------------------
(***************************************************************************)
(* Theorems about what swap execution tells the spend guard, in quiet      *)
(* settings (reconcilers run on UNCERTAIN records, and the chain does not  *)
(* move between two reads of one reconciler): it calls the guard by the    *)
(* protocol, money that may still move is counted, and a record the chain  *)
(* has settled stays as it is.                                             *)
(***************************************************************************)
EXTENDS SwapExecutionProofs

Told == {"pinned", "committed", "released"}

(* What the guard was told of an attempt, by where the attempt is.           *)
PlacesAreTold ==
  \A a \in Attempts :
    /\ pc[a] \in {"idle", "checked"} => outcome[a] = "unused"
    /\ pc[a] \in {"reserved", "consumed", "signed"} => outcome[a] = "open"
    /\ pc[a] \in {"pinned", "submitted", "waiting", "toolow"} => outcome[a] = "pinned"
    /\ pc[a] = "closing" => outcome[a] \in Told
    /\ pc[a] = "toolow" => mined[a] = "no" /\ nonce[a] < latest

(* What the guard was told agrees with the chain.                            *)
ChainIsTold ==
  \A a \in Attempts :
    /\ a \in mempool => latest <= nonce[a]
    /\ a \in mempool \/ mined[a] = "ok" => outcome[a] \in {"pinned", "committed"}
    /\ mined[a] = "reverted" => outcome[a] \in {"pinned", "released"}
    /\ outcome[a] = "committed" => mined[a] = "ok"

(* A record that reconcilers may take up, or that the chain settled, is no   *)
(* longer worked on by its attempt.                                          *)
Left(q) == owner[q] # Nobody /\ pc[owner[q]] = "done"
ReconciledAreLeft ==
  /\ \A q \in Quotes :
       /\ status[q] = "UNCERTAIN" => Left(q) /\ outcome[owner[q]] \in Told
       /\ status[q] \in {"CONFIRMED", "REVERTED"} => Left(q)
  /\ \A x \in Reconcilers : rc[x].pc # "idle" =>
       /\ rc[x].status = "UNCERTAIN" /\ rc[x].pc # "resend"
       /\ Left(rc[x].quote) /\ outcome[owner[rc[x].quote]] \in Told

(* What a reconciler read of a transaction without a receipt stays true.     *)
Gone(a) == mined[a] = "no" /\ nonce[a] < latest
ReadsStayTrue ==
  \A x \in Reconcilers :
    /\ rc[x].pc \in {"mempool", "nonce"} =>
         /\ rc[x].latest <= latest
         /\ nonce[owner[rc[x].quote]] < rc[x].latest => mined[owner[rc[x].quote]] = "no"
    /\ rc[x].pc = "closing" =>
         /\ rc[x].next \in {"CONFIRMED", "REVERTED", "FAILED_NONCE_COLLISION"}
         /\ rc[x].next = "FAILED_NONCE_COLLISION" => Gone(owner[rc[x].quote])

GuardInv ==
  /\ SwapInv /\ outcome \in [Attempts -> Protocol!Outcomes]
  /\ quiet => PlacesAreTold /\ ChainIsTold /\ ReconciledAreLeft /\ ReadsStayTrue

(* The guard is told something it knows, and whether the chain is quiet does *)
(* not change.                                                               *)
LEMMA OutcomesStep ==
  ASSUME GuardInv, [Next]_vars
  PROVE  outcome' \in [Attempts -> Protocol!Outcomes] /\ quiet' = quiet
<1>0. /\ outcome \in [Attempts -> Protocol!Outcomes]
      /\ \A o \in {"open", "pinned", "committed", "released", "abandoned"} : o \in Protocol!Outcomes
  BY DEF GuardInv, Protocol!Outcomes
<1>. USE DEF executor, records, chain
<1>1. ASSUME NEW a \in Attempts, Mine(a) PROVE outcome' \in [Attempts -> Protocol!Outcomes] /\ quiet' = quiet
  BY <1>0, <1>1 DEF Mine, Advance
<1>2. ASSUME OtherTransaction PROVE outcome' \in [Attempts -> Protocol!Outcomes] /\ quiet' = quiet
  BY <1>0, <1>2 DEF OtherTransaction, Advance
<1>3. ASSUME NEW a \in Attempts, Evict(a) PROVE outcome' \in [Attempts -> Protocol!Outcomes] /\ quiet' = quiet
  BY <1>0, <1>3 DEF Evict
<1>4. ASSUME NEW q \in Quotes, Quote(q) PROVE outcome' \in [Attempts -> Protocol!Outcomes] /\ quiet' = quiet
  BY <1>0, <1>4 DEF Quote
<1>5. ASSUME NEW q \in Quotes, Expire(q) PROVE outcome' \in [Attempts -> Protocol!Outcomes] /\ quiet' = quiet
  BY <1>0, <1>5 DEF Expire
<1>6. ASSUME NEW a \in Attempts, NEW q \in Quotes, Check(a, q) PROVE outcome' \in [Attempts -> Protocol!Outcomes] /\ quiet' = quiet
  BY <1>0, <1>6 DEF Check
<1>7. ASSUME NEW a \in Attempts, Reserve(a) PROVE outcome' \in [Attempts -> Protocol!Outcomes] /\ quiet' = quiet
  BY <1>0, <1>7 DEF Reserve, Tell
<1>8. ASSUME NEW a \in Attempts, Consume(a) PROVE outcome' \in [Attempts -> Protocol!Outcomes] /\ quiet' = quiet
  BY <1>0, <1>8 DEF Consume, Tell
<1>9. ASSUME NEW a \in Attempts, CloseUnsigned(a) PROVE outcome' \in [Attempts -> Protocol!Outcomes] /\ quiet' = quiet
  BY <1>0, <1>9 DEF CloseUnsigned, Tell
<1>10. ASSUME NEW a \in Attempts, Sign(a) PROVE outcome' \in [Attempts -> Protocol!Outcomes] /\ quiet' = quiet
  BY <1>0, <1>10 DEF Sign
<1>11. ASSUME NEW a \in Attempts, Pin(a) PROVE outcome' \in [Attempts -> Protocol!Outcomes] /\ quiet' = quiet
  BY <1>0, <1>11 DEF Pin, Tell
<1>12. ASSUME NEW a \in Attempts, Submit(a) PROVE outcome' \in [Attempts -> Protocol!Outcomes] /\ quiet' = quiet
  BY <1>0, <1>12 DEF Submit
<1>13. ASSUME NEW a \in Attempts, Broadcast(a) PROVE outcome' \in [Attempts -> Protocol!Outcomes] /\ quiet' = quiet
  BY <1>0, <1>13 DEF Broadcast
<1>14. ASSUME NEW a \in Attempts, BroadcastUnclear(a) PROVE outcome' \in [Attempts -> Protocol!Outcomes] /\ quiet' = quiet
  BY <1>0, <1>14 DEF BroadcastUnclear
<1>15. ASSUME NEW a \in Attempts, NonceTooLow(a) PROVE outcome' \in [Attempts -> Protocol!Outcomes] /\ quiet' = quiet
  BY <1>0, <1>15 DEF NonceTooLow
<1>16. ASSUME NEW a \in Attempts, Collide(a) PROVE outcome' \in [Attempts -> Protocol!Outcomes] /\ quiet' = quiet
  BY <1>0, <1>16 DEF Collide, Tell
<1>17. ASSUME NEW a \in Attempts, Await(a) PROVE outcome' \in [Attempts -> Protocol!Outcomes] /\ quiet' = quiet
  BY <1>0, <1>17 DEF Await, Tell
<1>18. ASSUME NEW a \in Attempts, Close(a) PROVE outcome' \in [Attempts -> Protocol!Outcomes] /\ quiet' = quiet
  BY <1>0, <1>18 DEF Close
<1>19. ASSUME NEW x \in Reconcilers, NEW q \in Quotes, StartReconcile(x, q) PROVE outcome' \in [Attempts -> Protocol!Outcomes] /\ quiet' = quiet
  BY <1>0, <1>19 DEF StartReconcile
<1>20. ASSUME NEW x \in Reconcilers, LookForReceipt(x) PROVE outcome' \in [Attempts -> Protocol!Outcomes] /\ quiet' = quiet
  BY <1>0, <1>20 DEF LookForReceipt, Tell
<1>21. ASSUME NEW x \in Reconcilers, LookInMempool(x) PROVE outcome' \in [Attempts -> Protocol!Outcomes] /\ quiet' = quiet
  BY <1>0, <1>21 DEF LookInMempool
<1>22. ASSUME NEW x \in Reconcilers, LookAtNonce(x) PROVE outcome' \in [Attempts -> Protocol!Outcomes] /\ quiet' = quiet
  BY <1>0, <1>22 DEF LookAtNonce, Tell
<1>23. ASSUME NEW x \in Reconcilers, NonceUnknown(x) PROVE outcome' \in [Attempts -> Protocol!Outcomes] /\ quiet' = quiet
  BY <1>0, <1>23 DEF NonceUnknown
<1>24. ASSUME NEW x \in Reconcilers, Resend(x) PROVE outcome' \in [Attempts -> Protocol!Outcomes] /\ quiet' = quiet
  BY <1>0, <1>24 DEF Resend
<1>25. ASSUME NEW x \in Reconcilers, CloseReconcile(x) PROVE outcome' \in [Attempts -> Protocol!Outcomes] /\ quiet' = quiet
  BY <1>0, <1>25 DEF CloseReconcile
<1>26. ASSUME Restart PROVE outcome' \in [Attempts -> Protocol!Outcomes] /\ quiet' = quiet
  BY <1>0, <1>26 DEF Restart, Protocol!Forgotten
<1>27. CASE UNCHANGED vars
  BY <1>0, <1>27 DEF vars
<1>. QED
  BY <1>1, <1>2, <1>3, <1>4, <1>5, <1>6, <1>7, <1>8, <1>9, <1>10, <1>11, <1>12, <1>13,
     <1>14, <1>15, <1>16, <1>17, <1>18, <1>19, <1>20, <1>21, <1>22, <1>23, <1>24, <1>25,
     <1>26, <1>27 DEF Next, Attempt, Reconcile

(* In quiet settings every step keeps what the guard was told in agreement   *)
(* with attempts, chain and reconcilers.                                     *)
LEMMA QuietStep ==
  ASSUME GuardInv, [Next]_vars, quiet
  PROVE  PlacesAreTold' /\ ChainIsTold' /\ ReconciledAreLeft' /\ ReadsStayTrue'
<1>0. /\ SwapInv /\ pc \in [Attempts -> Places] /\ rc \in [Reconcilers -> ReconcilerState]
      /\ outcome \in [Attempts -> Protocol!Outcomes] /\ quiet
      /\ PlacesAreTold /\ ChainIsTold /\ ReconciledAreLeft /\ ReadsStayTrue
  BY DEF GuardInv, SwapInv, SwapTypes, ExecutorTypes, ReconcilerTypes
<1>. USE NobodyAssumption DEF SwapInv, SwapTypes, ExecutorTypes, OwnersConsumed, PlacesAreRight,
     SignedIsSaved, MinedIsOver, EndsAreTrue, ReconcilersAreRight, Never, Saved, Early, Afoot,
     PlacesAreTold, ChainIsTold, ReconciledAreLeft, ReadsStayTrue, Left, Gone, Told,
     executor, records, chain
<1>1. ASSUME NEW a \in Attempts, Mine(a)
      PROVE  PlacesAreTold' /\ ChainIsTold' /\ ReconciledAreLeft' /\ ReadsStayTrue'
  <2>1. PlacesAreTold'
    BY <1>0, <1>1 DEF Mine, Advance
  <2>2. ChainIsTold'
    BY <1>0, <1>1 DEF Mine, Advance
  <2>3. ReconciledAreLeft'
    BY <1>0, <1>1 DEF Mine, Advance
  <2>4. ReadsStayTrue'
    BY <1>0, <1>1 DEF Mine, Advance, ReconcilerState
  <2>. QED
    BY <2>1, <2>2, <2>3, <2>4
<1>2. ASSUME OtherTransaction
      PROVE  PlacesAreTold' /\ ChainIsTold' /\ ReconciledAreLeft' /\ ReadsStayTrue'
  <2>1. PlacesAreTold'
    BY <1>0, <1>2 DEF OtherTransaction, Advance
  <2>2. ChainIsTold'
    BY <1>0, <1>2, SMTT(30) DEF OtherTransaction, Advance
  <2>3. ReconciledAreLeft'
    BY <1>0, <1>2 DEF OtherTransaction, Advance
  <2>4. ReadsStayTrue'
    BY <1>0, <1>2 DEF OtherTransaction, Advance, ReconcilerState
  <2>. QED
    BY <2>1, <2>2, <2>3, <2>4
<1>3. ASSUME NEW a \in Attempts, Evict(a)
      PROVE  PlacesAreTold' /\ ChainIsTold' /\ ReconciledAreLeft' /\ ReadsStayTrue'
  <2>1. PlacesAreTold'
    BY <1>0, <1>3 DEF Evict
  <2>2. ChainIsTold'
    BY <1>0, <1>3 DEF Evict
  <2>3. ReconciledAreLeft'
    BY <1>0, <1>3 DEF Evict
  <2>4. ReadsStayTrue'
    BY <1>0, <1>3 DEF Evict
  <2>. QED
    BY <2>1, <2>2, <2>3, <2>4
<1>4. ASSUME NEW q \in Quotes, Quote(q)
      PROVE  PlacesAreTold' /\ ChainIsTold' /\ ReconciledAreLeft' /\ ReadsStayTrue'
  <2>1. PlacesAreTold'
    BY <1>0, <1>4 DEF Quote
  <2>2. ChainIsTold'
    BY <1>0, <1>4 DEF Quote
  <2>3. ReconciledAreLeft'
    BY <1>0, <1>4 DEF Quote
  <2>4. ReadsStayTrue'
    BY <1>0, <1>4 DEF Quote
  <2>. QED
    BY <2>1, <2>2, <2>3, <2>4
<1>5. ASSUME NEW q \in Quotes, Expire(q)
      PROVE  PlacesAreTold' /\ ChainIsTold' /\ ReconciledAreLeft' /\ ReadsStayTrue'
  <2>1. PlacesAreTold'
    BY <1>0, <1>5 DEF Expire
  <2>2. ChainIsTold'
    BY <1>0, <1>5 DEF Expire
  <2>3. ReconciledAreLeft'
    BY <1>0, <1>5 DEF Expire
  <2>4. ReadsStayTrue'
    BY <1>0, <1>5 DEF Expire
  <2>. QED
    BY <2>1, <2>2, <2>3, <2>4
<1>6. ASSUME NEW a \in Attempts, NEW q \in Quotes, Check(a, q)
      PROVE  PlacesAreTold' /\ ChainIsTold' /\ ReconciledAreLeft' /\ ReadsStayTrue'
  <2>1. PlacesAreTold'
    BY <1>0, <1>6 DEF Check, Goto
  <2>2. ChainIsTold'
    BY <1>0, <1>6 DEF Check, Goto
  <2>3. ReconciledAreLeft'
    BY <1>0, <1>6 DEF Check, Goto
  <2>4. ReadsStayTrue'
    BY <1>0, <1>6 DEF Check, Goto
  <2>. QED
    BY <2>1, <2>2, <2>3, <2>4
<1>7. ASSUME NEW a \in Attempts, Reserve(a)
      PROVE  PlacesAreTold' /\ ChainIsTold' /\ ReconciledAreLeft' /\ ReadsStayTrue'
  <2>1. PlacesAreTold'
    BY <1>0, <1>7 DEF Reserve, Goto, Tell
  <2>2. ChainIsTold'
    BY <1>0, <1>7 DEF Reserve, Goto, Tell
  <2>3. ReconciledAreLeft'
    BY <1>0, <1>7 DEF Reserve, Goto, Tell
  <2>4. ReadsStayTrue'
    BY <1>0, <1>7 DEF Reserve, Goto, Tell
  <2>. QED
    BY <2>1, <2>2, <2>3, <2>4
<1>8. ASSUME NEW a \in Attempts, Consume(a)
      PROVE  PlacesAreTold' /\ ChainIsTold' /\ ReconciledAreLeft' /\ ReadsStayTrue'
  <2>1. PlacesAreTold'
    BY <1>0, <1>8 DEF Consume, Goto, Save, SaveFails, Tell
  <2>2. ChainIsTold'
    BY <1>0, <1>8 DEF Consume, Goto, Save, SaveFails, Tell
  <2>3. ReconciledAreLeft'
    BY <1>0, <1>8 DEF Consume, Goto, Save, SaveFails, Tell
  <2>4. ReadsStayTrue'
    BY <1>0, <1>8 DEF Consume, Goto, Save, SaveFails, Tell
  <2>. QED
    BY <2>1, <2>2, <2>3, <2>4
<1>9. ASSUME NEW a \in Attempts, CloseUnsigned(a)
      PROVE  PlacesAreTold' /\ ChainIsTold' /\ ReconciledAreLeft' /\ ReadsStayTrue'
  <2>0. /\ pc[a] = "consumed" /\ pc' = [pc EXCEPT ![a] = "closing"]
        /\ outcome' = [outcome EXCEPT ![a] = "released"]
        /\ UNCHANGED <<rc, status, owner, nonce, mempool, mined, latest>>
    BY <1>9 DEF CloseUnsigned, CloseWith, Goto, Tell
  <2>1. PlacesAreTold'
    BY <1>0, <2>0
  <2>2. ChainIsTold'
    BY <1>0, <2>0
  <2>3. ReconciledAreLeft'
    BY <1>0, <2>0
  <2>4. ReadsStayTrue'
    BY <1>0, <2>0
  <2>. QED
    BY <2>1, <2>2, <2>3, <2>4
<1>10. ASSUME NEW a \in Attempts, Sign(a)
      PROVE  PlacesAreTold' /\ ChainIsTold' /\ ReconciledAreLeft' /\ ReadsStayTrue'
  <2>1. PlacesAreTold'
    BY <1>0, <1>10 DEF Sign, Goto, Save, SaveFails
  <2>2. ChainIsTold'
    BY <1>0, <1>10 DEF Sign, Goto, Save, SaveFails
  <2>3. ReconciledAreLeft'
    BY <1>0, <1>10 DEF Sign, Goto, Save, SaveFails
  <2>4. ReadsStayTrue'
    BY <1>0, <1>10 DEF Sign, Goto, Save, SaveFails
  <2>. QED
    BY <2>1, <2>2, <2>3, <2>4
<1>11. ASSUME NEW a \in Attempts, Pin(a)
      PROVE  PlacesAreTold' /\ ChainIsTold' /\ ReconciledAreLeft' /\ ReadsStayTrue'
  <2>1. PlacesAreTold'
    BY <1>0, <1>11 DEF Pin, Goto, Tell
  <2>2. ChainIsTold'
    BY <1>0, <1>11 DEF Pin, Goto, Tell
  <2>3. ReconciledAreLeft'
    BY <1>0, <1>11 DEF Pin, Goto, Tell
  <2>4. ReadsStayTrue'
    BY <1>0, <1>11 DEF Pin, Goto, Tell
  <2>. QED
    BY <2>1, <2>2, <2>3, <2>4
<1>12. ASSUME NEW a \in Attempts, Submit(a)
      PROVE  PlacesAreTold' /\ ChainIsTold' /\ ReconciledAreLeft' /\ ReadsStayTrue'
  <2>1. PlacesAreTold'
    BY <1>0, <1>12 DEF Submit, Goto, Save, SaveFails
  <2>2. ChainIsTold'
    BY <1>0, <1>12 DEF Submit, Goto, Save, SaveFails
  <2>3. ReconciledAreLeft'
    BY <1>0, <1>12 DEF Submit, Goto, Save, SaveFails
  <2>4. ReadsStayTrue'
    BY <1>0, <1>12 DEF Submit, Goto, Save, SaveFails
  <2>. QED
    BY <2>1, <2>2, <2>3, <2>4
<1>13. ASSUME NEW a \in Attempts, Broadcast(a)
      PROVE  PlacesAreTold' /\ ChainIsTold' /\ ReconciledAreLeft' /\ ReadsStayTrue'
  <2>1. PlacesAreTold'
    BY <1>0, <1>13 DEF Broadcast, Acceptable, Goto
  <2>2. ChainIsTold'
    BY <1>0, <1>13 DEF Broadcast, Acceptable, Goto
  <2>3. ReconciledAreLeft'
    BY <1>0, <1>13 DEF Broadcast, Acceptable, Goto
  <2>4. ReadsStayTrue'
    BY <1>0, <1>13 DEF Broadcast, Acceptable, Goto
  <2>. QED
    BY <2>1, <2>2, <2>3, <2>4
<1>14. ASSUME NEW a \in Attempts, BroadcastUnclear(a)
      PROVE  PlacesAreTold' /\ ChainIsTold' /\ ReconciledAreLeft' /\ ReadsStayTrue'
  <2>1. PlacesAreTold'
    BY <1>0, <1>14 DEF BroadcastUnclear, Acceptable, CloseWith, Goto
  <2>2. ChainIsTold'
    BY <1>0, <1>14 DEF BroadcastUnclear, Acceptable, CloseWith, Goto
  <2>3. ReconciledAreLeft'
    BY <1>0, <1>14 DEF BroadcastUnclear, Acceptable, CloseWith, Goto
  <2>4. ReadsStayTrue'
    BY <1>0, <1>14 DEF BroadcastUnclear, Acceptable, CloseWith, Goto
  <2>. QED
    BY <2>1, <2>2, <2>3, <2>4
<1>15. ASSUME NEW a \in Attempts, NonceTooLow(a)
      PROVE  PlacesAreTold' /\ ChainIsTold' /\ ReconciledAreLeft' /\ ReadsStayTrue'
  <2>1. PlacesAreTold'
    BY <1>0, <1>15 DEF NonceTooLow, Goto, ReceiptMissing
  <2>2. ChainIsTold'
    BY <1>0, <1>15 DEF NonceTooLow, Goto, ReceiptMissing
  <2>3. ReconciledAreLeft'
    BY <1>0, <1>15 DEF NonceTooLow, Goto, ReceiptMissing
  <2>4. ReadsStayTrue'
    BY <1>0, <1>15 DEF NonceTooLow, Goto, ReceiptMissing
  <2>. QED
    BY <2>1, <2>2, <2>3, <2>4
<1>16. ASSUME NEW a \in Attempts, Collide(a)
      PROVE  PlacesAreTold' /\ ChainIsTold' /\ ReconciledAreLeft' /\ ReadsStayTrue'
  <2>1. PlacesAreTold'
    BY <1>0, <1>16 DEF Collide, CloseWith, Goto, Tell
  <2>2. ChainIsTold'
    BY <1>0, <1>16 DEF Collide, CloseWith, Goto, Tell
  <2>3. ReconciledAreLeft'
    BY <1>0, <1>16 DEF Collide, CloseWith, Goto, Tell
  <2>4. ReadsStayTrue'
    BY <1>0, <1>16 DEF Collide, CloseWith, Goto, Tell
  <2>. QED
    BY <2>1, <2>2, <2>3, <2>4
<1>17. ASSUME NEW a \in Attempts, Await(a)
      PROVE  PlacesAreTold' /\ ChainIsTold' /\ ReconciledAreLeft' /\ ReadsStayTrue'
  <2>1. PlacesAreTold'
    BY <1>0, <1>17 DEF Await, CloseWith, Goto, Tell
  <2>2. ChainIsTold'
    BY <1>0, <1>17 DEF Await, CloseWith, Goto, Tell
  <2>3. ReconciledAreLeft'
    BY <1>0, <1>17 DEF Await, CloseWith, Goto, Tell
  <2>4. ReadsStayTrue'
    BY <1>0, <1>17 DEF Await, CloseWith, Goto, Tell
  <2>. QED
    BY <2>1, <2>2, <2>3, <2>4
<1>18. ASSUME NEW a \in Attempts, Close(a)
      PROVE  PlacesAreTold' /\ ChainIsTold' /\ ReconciledAreLeft' /\ ReadsStayTrue'
  <2>1. PlacesAreTold'
    BY <1>0, <1>18 DEF Close, CloseWith, Goto, Save, SaveFails, Final
  <2>2. ChainIsTold'
    BY <1>0, <1>18 DEF Close, CloseWith, Goto, Save, SaveFails, Final
  <2>3. ReconciledAreLeft'
    BY <1>0, <1>18 DEF Close, CloseWith, Goto, Save, SaveFails, Final
  <2>4. ReadsStayTrue'
    BY <1>0, <1>18 DEF Close, CloseWith, Goto, Save, SaveFails, Final
  <2>. QED
    BY <2>1, <2>2, <2>3, <2>4
<1>19. ASSUME NEW x \in Reconcilers, NEW q \in Quotes, StartReconcile(x, q)
      PROVE  PlacesAreTold' /\ ChainIsTold' /\ ReconciledAreLeft' /\ ReadsStayTrue'
  <2>1. PlacesAreTold'
    BY <1>0, <1>19 DEF StartReconcile, Update, Idle, ReconcilerState
  <2>2. ChainIsTold'
    BY <1>0, <1>19 DEF StartReconcile, Update, Idle, ReconcilerState
  <2>3. ReconciledAreLeft'
    BY <1>0, <1>19 DEF StartReconcile, Update, Idle, ReconcilerState
  <2>4. ReadsStayTrue'
    BY <1>0, <1>19 DEF StartReconcile, Update, Idle, ReconcilerState
  <2>. QED
    BY <2>1, <2>2, <2>3, <2>4
<1>20. ASSUME NEW x \in Reconcilers, LookForReceipt(x)
      PROVE  PlacesAreTold' /\ ChainIsTold' /\ ReconciledAreLeft' /\ ReadsStayTrue'
  <2>0. /\ rc[x].pc = "receipt" /\ \A y \in Reconcilers : y # x => rc'[y] = rc[y]
        /\ UNCHANGED <<pc, status, owner, nonce, mempool, mined, latest>>
        /\ rc'[x].quote = rc[x].quote /\ rc'[x].status = rc[x].status
        /\ \/ /\ rc'[x].pc = "closing" /\ rc'[x].next \in {"CONFIRMED", "REVERTED"}
              /\ outcome' \in {[outcome EXCEPT ![Tx(x)] = "committed"],
                               [outcome EXCEPT ![Tx(x)] = "released"]}
           \/ /\ rc'[x].pc = "mempool" /\ rc'[x].latest = latest
              /\ mined[Tx(x)] = "no" /\ outcome' = outcome
    <3>1. CASE /\ Update(x, [rc[x] EXCEPT !.pc = "closing", !.next = "CONFIRMED"])
               /\ outcome' = [outcome EXCEPT ![Tx(x)] = "committed"]
      BY <1>0, <1>20, <3>1 DEF LookForReceipt, Update, ReconcilerState
    <3>2. CASE /\ Update(x, [rc[x] EXCEPT !.pc = "closing", !.next = "REVERTED"])
               /\ outcome' = [outcome EXCEPT ![Tx(x)] = "released"]
      BY <1>0, <1>20, <3>2 DEF LookForReceipt, Update, ReconcilerState
    <3>3. CASE /\ Update(x, [rc[x] EXCEPT !.pc = "mempool", !.latest = latest])
               /\ mined[Tx(x)] = "no" /\ outcome' = outcome
      BY <1>0, <1>20, <3>3 DEF LookForReceipt, Update, ReconcilerState
    <3>. QED
      BY <1>0, <1>20, <3>1, <3>2, <3>3 DEF LookForReceipt, ReceiptMissing, Tell
  <2>1. PlacesAreTold'
    BY <1>0, <1>20 DEF LookForReceipt, Update, Tx, Tell, ReceiptMissing, ReconcilerState
  <2>2. ChainIsTold'
    BY <1>0, <1>20, SMTT(30) DEF LookForReceipt, Update, Tx, Tell, ReceiptMissing, ReconcilerState
  <2>3. ReconciledAreLeft'
    <3>1. \A a \in Attempts : outcome'[a] = outcome[a] \/ outcome'[a] \in Told
      BY <1>0, <2>0 DEF Told
    <3>2. \A q \in Quotes : status'[q] = status[q] /\ owner'[q] = owner[q] /\ Left(q)' = Left(q)
      BY <2>0 DEF Left
    <3>3. \A q \in Quotes :
            /\ status'[q] = "UNCERTAIN" => Left(q)' /\ outcome'[owner'[q]] \in Told
            /\ status'[q] \in {"CONFIRMED", "REVERTED"} => Left(q)'
      BY <1>0, <3>1, <3>2 DEF ReconciledAreLeft
    <3>4. \A y \in Reconcilers : rc'[y].quote = rc[y].quote /\ rc'[y].status = rc[y].status
      BY <2>0
    <3>5. \A y \in Reconcilers : rc[y].pc # "idle" =>
            /\ rc[y].quote \in Quotes /\ owner[rc[y].quote] \in Attempts
            /\ rc[y].status = "UNCERTAIN" /\ rc[y].pc # "resend"
            /\ Left(rc[y].quote) /\ outcome[owner[rc[y].quote]] \in Told
      BY <1>0
    <3>6. \A y \in Reconcilers : rc'[y].pc # "idle" => rc[y].pc # "idle" /\ rc'[y].pc # "resend"
      BY <2>0, <3>5
    <3>7. ASSUME NEW y \in Reconcilers, rc'[y].pc # "idle"
          PROVE  /\ rc'[y].status = "UNCERTAIN" /\ rc'[y].pc # "resend"
                 /\ Left(rc[y].quote)' /\ outcome'[owner'[rc'[y].quote]] \in Told
      <4>1. rc'[y].status = "UNCERTAIN" /\ rc'[y].pc # "resend"
        BY <3>4, <3>5, <3>6, <3>7
      <4>2. Left(rc[y].quote)' /\ outcome'[owner'[rc'[y].quote]] \in Told
        BY <2>0, <3>1, <3>4, <3>5, <3>6, <3>7
      <4>. QED
        BY <4>1, <4>2
    <3>. QED
      BY <3>3, <3>7
  <2>4. ReadsStayTrue'
    BY <1>0, <2>0 DEF Tx, ReconcilerState
  <2>. QED
    BY <2>1, <2>2, <2>3, <2>4
<1>21. ASSUME NEW x \in Reconcilers, LookInMempool(x)
      PROVE  PlacesAreTold' /\ ChainIsTold' /\ ReconciledAreLeft' /\ ReadsStayTrue'
  <2>1. PlacesAreTold'
    BY <1>0, <1>21 DEF LookInMempool, Update, Save, SaveFails, Tx, ReconcilerState
  <2>2. ChainIsTold'
    BY <1>0, <1>21 DEF LookInMempool, Update, Save, SaveFails, Tx, ReconcilerState
  <2>3. ReconciledAreLeft'
    BY <1>0, <1>21 DEF LookInMempool, Update, Save, SaveFails, Tx, ReconcilerState
  <2>4. ReadsStayTrue'
    BY <1>0, <1>21 DEF LookInMempool, Update, Save, SaveFails, Tx, ReconcilerState
  <2>. QED
    BY <2>1, <2>2, <2>3, <2>4
<1>22. ASSUME NEW x \in Reconcilers, LookAtNonce(x)
      PROVE  PlacesAreTold' /\ ChainIsTold' /\ ReconciledAreLeft' /\ ReadsStayTrue'
  <2>0. /\ rc[x].pc = "nonce" /\ \A y \in Reconcilers : y # x => rc'[y] = rc[y]
        /\ UNCHANGED <<pc, status, owner, nonce, mempool, mined, latest>>
        /\ \/ /\ rc'[x].pc = "closing" /\ rc'[x].next = "FAILED_NONCE_COLLISION"
              /\ rc'[x].quote = rc[x].quote /\ rc'[x].status = rc[x].status
              /\ nonce[Tx(x)] < rc[x].latest
              /\ outcome' = [outcome EXCEPT ![Tx(x)] = "released"]
           \/ rc'[x].pc = "idle" /\ outcome' = outcome
    <3>1. CASE /\ Update(x, [rc[x] EXCEPT !.pc = "closing", !.next = "FAILED_NONCE_COLLISION"])
               /\ rc[x].latest > nonce[Tx(x)] /\ outcome' = [outcome EXCEPT ![Tx(x)] = "released"]
      <4>1. rc[x].latest \in Nat /\ nonce[Tx(x)] \in Nat
        BY <1>0, <1>22 DEF LookAtNonce, ReconcilerState, Tx
      <4>. QED
        BY <1>0, <1>22, <3>1, <4>1 DEF LookAtNonce, Update, ReconcilerState
    <3>2. CASE Update(x, Idle) /\ outcome' = outcome
      BY <1>0, <1>22, <3>2 DEF LookAtNonce, Update, Idle
    <3>3. rc[x].status = "UNCERTAIN"
      BY <1>0, <1>22 DEF LookAtNonce
    <3>. QED
      BY <1>0, <1>22, <3>1, <3>2, <3>3 DEF LookAtNonce, Collides, NonceRead, Tell
  <2>1. PlacesAreTold'
    BY <1>0, <1>22, SMTT(30) DEF LookAtNonce, Update, Idle, Tell, Collides, NonceRead, Tx,
       ReconcilerState
  <2>2. ChainIsTold'
    BY <1>0, <1>22, SMTT(30) DEF LookAtNonce, Update, Idle, Tell, Collides, NonceRead, Tx,
       ReconcilerState
  <2>3. ReconciledAreLeft'
    <3>1. Tx(x) \in Attempts
      BY <1>0, <2>0 DEF Tx
    <3>2. \A a \in Attempts : outcome[a] \in Told => outcome'[a] \in Told
      BY <1>0, <2>0, <3>1
    <3>3. \A y \in Reconcilers : rc'[y].pc # "idle" =>
            rc[y].pc # "idle" /\ rc'[y].quote = rc[y].quote /\ rc'[y].status = rc[y].status
      BY <1>0, <2>0
    <3>4. \A y \in Reconcilers : rc'[y].pc # "resend"
      BY <1>0, <2>0
    <3>. QED
      BY <1>0, <2>0, <3>2, <3>3, <3>4
  <2>4. ReadsStayTrue'
    BY <1>0, <2>0 DEF Tx, ReconcilerState
  <2>. QED
    BY <2>1, <2>2, <2>3, <2>4
<1>23. ASSUME NEW x \in Reconcilers, NonceUnknown(x)
      PROVE  PlacesAreTold' /\ ChainIsTold' /\ ReconciledAreLeft' /\ ReadsStayTrue'
  <2>1. PlacesAreTold'
    BY <1>0, <1>23 DEF NonceUnknown, Update, Idle, ReconcilerState
  <2>2. ChainIsTold'
    BY <1>0, <1>23 DEF NonceUnknown, Update, Idle, ReconcilerState
  <2>3. ReconciledAreLeft'
    BY <1>0, <1>23 DEF NonceUnknown, Update, Idle, ReconcilerState
  <2>4. ReadsStayTrue'
    BY <1>0, <1>23 DEF NonceUnknown, Update, Idle, ReconcilerState
  <2>. QED
    BY <2>1, <2>2, <2>3, <2>4
<1>24. ASSUME NEW x \in Reconcilers, Resend(x)
      PROVE  PlacesAreTold' /\ ChainIsTold' /\ ReconciledAreLeft' /\ ReadsStayTrue'
  <2>1. PlacesAreTold'
    BY <1>0, <1>24 DEF Resend, Update, Idle, Acceptable, Tx, ReconcilerState
  <2>2. ChainIsTold'
    BY <1>0, <1>24 DEF Resend, Update, Idle, Acceptable, Tx, ReconcilerState
  <2>3. ReconciledAreLeft'
    BY <1>0, <1>24 DEF Resend, Update, Idle, Acceptable, Tx, ReconcilerState
  <2>4. ReadsStayTrue'
    BY <1>0, <1>24 DEF Resend, Update, Idle, Acceptable, Tx, ReconcilerState
  <2>. QED
    BY <2>1, <2>2, <2>3, <2>4
<1>25. ASSUME NEW x \in Reconcilers, CloseReconcile(x)
      PROVE  PlacesAreTold' /\ ChainIsTold' /\ ReconciledAreLeft' /\ ReadsStayTrue'
  <2>1. PlacesAreTold'
    BY <1>0, <1>25 DEF CloseReconcile, Update, Save, SaveFails, Idle, ReconcilerState
  <2>2. ChainIsTold'
    BY <1>0, <1>25 DEF CloseReconcile, Update, Save, SaveFails, Idle, ReconcilerState
  <2>3. ReconciledAreLeft'
    BY <1>0, <1>25 DEF CloseReconcile, Update, Save, SaveFails, Idle, ReconcilerState
  <2>4. ReadsStayTrue'
    BY <1>0, <1>25 DEF CloseReconcile, Update, Save, SaveFails, Idle, ReconcilerState
  <2>. QED
    BY <2>1, <2>2, <2>3, <2>4
<1>26. ASSUME Restart
      PROVE  PlacesAreTold' /\ ChainIsTold' /\ ReconciledAreLeft' /\ ReadsStayTrue'
  <2>1. PlacesAreTold'
    BY <1>0, <1>26 DEF Restart, Idle, Protocol!Forgotten, ReconcilerState
  <2>2. ChainIsTold'
    BY <1>0, <1>26 DEF Restart, Idle, Protocol!Forgotten, ReconcilerState
  <2>3. ReconciledAreLeft'
    BY <1>0, <1>26 DEF Restart, Idle, Protocol!Forgotten, ReconcilerState
  <2>4. ReadsStayTrue'
    BY <1>0, <1>26 DEF Restart, Idle, Protocol!Forgotten, ReconcilerState
  <2>. QED
    BY <2>1, <2>2, <2>3, <2>4
<1>27. CASE UNCHANGED vars
  BY <1>0, <1>27 DEF vars
<1>. QED
  BY <1>1, <1>2, <1>3, <1>4, <1>5, <1>6, <1>7, <1>8, <1>9, <1>10, <1>11, <1>12, <1>13,
     <1>14, <1>15, <1>16, <1>17, <1>18, <1>19, <1>20, <1>21, <1>22, <1>23, <1>24, <1>25,
     <1>26, <1>27 DEF Next, Attempt, Reconcile

(* The invariant of the guard's view holds for ever.                         *)
LEMMA GuardStep == GuardInv /\ [Next]_vars => GuardInv'
  BY OutcomesStep, QuietStep, SwapStep DEF GuardInv

(* It holds at the start: the guard knows of nothing.                        *)
LEMMA GuardStart == Init => GuardInv
<1>. SUFFICES ASSUME Init PROVE GuardInv
  OBVIOUS
<1>1. outcome \in [Attempts -> Protocol!Outcomes]
  BY DEF Init, Protocol!Outcomes
<1>2. PlacesAreTold /\ ChainIsTold /\ ReconciledAreLeft /\ ReadsStayTrue
  BY DEF Init, PlacesAreTold, ChainIsTold, ReconciledAreLeft, ReadsStayTrue, Idle
<1>. QED
  BY <1>1, <1>2, SwapStart DEF GuardInv

(* What a node can still move, or has moved, is pinned or committed at the   *)
(* spend guard (execute_quote pins before it broadcasts and releases only    *)
(* what cannot move): for any number of attempts, quotes and reconcilers.    *)
THEOREM Counted == Spec => []MovedIsCounted
<1>1. GuardInv => MovedIsCounted
  BY DEF GuardInv, ChainIsTold, MovedIsCounted
<1>. QED
  BY <1>1, GuardStart, GuardStep, PTL DEF Spec

(* One step tells the guard what its protocol allows, or nothing.            *)
LEMMA LegalStep ==
  ASSUME GuardInv, [Next]_vars, quiet
  PROVE  [Protocol!ProtocolNext]_outcome
<1>0. /\ outcome \in [Attempts -> Protocol!Outcomes]
      /\ PlacesAreTold /\ ChainIsTold /\ ReconciledAreLeft /\ ReadsStayTrue
      /\ PlacesAreRight /\ ReconcilersAreRight /\ owner \in [Quotes -> Attempts \cup {Nobody}]
  BY DEF GuardInv, SwapInv, SwapTypes, ExecutorTypes
<1>. USE DEF Protocol!Moves
<1>1. ASSUME NEW a \in Attempts, Reserve(a) PROVE [Protocol!ProtocolNext]_outcome
  <2>1. CASE Tell(a, "open")
    <3>1. Protocol!Made(a)
      BY <1>0, <1>1, <2>1 DEF Reserve, Tell, PlacesAreTold, Protocol!Made
    <3>. QED
      BY <3>1 DEF Protocol!ProtocolNext
  <2>2. CASE UNCHANGED outcome
    BY <2>2
  <2>. QED
    BY <1>1, <2>1, <2>2 DEF Reserve
<1>2. ASSUME NEW a \in Attempts, Consume(a) PROVE [Protocol!ProtocolNext]_outcome
  <2>1. CASE Tell(a, "released")
    <3>1. Protocol!Released(a)
      BY <1>0, <1>2, <2>1 DEF Consume, Tell, PlacesAreTold, Protocol!Released
    <3>. QED
      BY <3>1 DEF Protocol!ProtocolNext
  <2>2. CASE UNCHANGED outcome
    BY <2>2
  <2>. QED
    BY <1>2, <2>1, <2>2 DEF Consume
<1>3. ASSUME NEW a \in Attempts, CloseUnsigned(a) PROVE [Protocol!ProtocolNext]_outcome
  <2>1. Protocol!Released(a)
    BY <1>0, <1>3 DEF CloseUnsigned, Tell, PlacesAreTold, Protocol!Released
  <2>. QED
    BY <2>1 DEF Protocol!ProtocolNext
<1>4. ASSUME NEW a \in Attempts, Pin(a) PROVE [Protocol!ProtocolNext]_outcome
  <2>1. Protocol!Pinned(a)
    BY <1>0, <1>4 DEF Pin, Tell, PlacesAreTold, Protocol!Pinned
  <2>. QED
    BY <2>1 DEF Protocol!ProtocolNext
<1>5. ASSUME NEW a \in Attempts, Collide(a) PROVE [Protocol!ProtocolNext]_outcome
  <2>1. CASE Tell(a, "released")
    <3>1. Protocol!Released(a)
      BY <1>0, <1>5, <2>1 DEF Collide, Tell, PlacesAreTold, Protocol!Released
    <3>. QED
      BY <3>1 DEF Protocol!ProtocolNext
  <2>2. CASE UNCHANGED outcome
    BY <2>2
  <2>. QED
    BY <1>5, <2>1, <2>2 DEF Collide
<1>6. ASSUME NEW a \in Attempts, Await(a) PROVE [Protocol!ProtocolNext]_outcome
  <2>1. CASE Tell(a, "committed")
    <3>1. Protocol!Committed(a)
      BY <1>0, <1>6, <2>1 DEF Await, Tell, PlacesAreTold, Protocol!Committed
    <3>. QED
      BY <3>1 DEF Protocol!ProtocolNext
  <2>2. CASE Tell(a, "released")
    <3>1. Protocol!Released(a)
      BY <1>0, <1>6, <2>2 DEF Await, Tell, PlacesAreTold, Protocol!Released
    <3>. QED
      BY <3>1 DEF Protocol!ProtocolNext
  <2>3. CASE UNCHANGED outcome
    BY <2>3
  <2>. QED
    BY <1>6, <2>1, <2>2, <2>3 DEF Await
<1>7. ASSUME NEW x \in Reconcilers, LookForReceipt(x) PROVE [Protocol!ProtocolNext]_outcome
  <2>0. Tx(x) \in Attempts /\ outcome[Tx(x)] \in Told
    BY <1>0, <1>7 DEF LookForReceipt, Tx, ReconcilersAreRight, ReconciledAreLeft
  <2>1. CASE mined[Tx(x)] = "ok" /\ Tell(Tx(x), "committed")
    <3>1. Protocol!Committed(Tx(x))
      BY <1>0, <2>0, <2>1 DEF Tell, ChainIsTold, Protocol!Committed
    <3>. QED
      BY <2>0, <3>1 DEF Protocol!ProtocolNext
  <2>2. CASE mined[Tx(x)] = "reverted" /\ Tell(Tx(x), "released")
    <3>1. Protocol!Released(Tx(x))
      BY <1>0, <2>0, <2>2 DEF Tell, ChainIsTold, Protocol!Released
    <3>. QED
      BY <2>0, <3>1 DEF Protocol!ProtocolNext
  <2>3. CASE UNCHANGED outcome
    BY <2>3
  <2>. QED
    BY <1>7, <2>1, <2>2, <2>3 DEF LookForReceipt
<1>8. ASSUME NEW x \in Reconcilers, LookAtNonce(x) PROVE [Protocol!ProtocolNext]_outcome
  <2>0. Tx(x) \in Attempts /\ outcome[Tx(x)] \in Told
    BY <1>0, <1>8 DEF LookAtNonce, Tx, ReconcilersAreRight, ReconciledAreLeft
  <2>1. CASE Collides(x) /\ Tell(Tx(x), "released")
    <3>1. rc[x].latest \in Nat /\ nonce[Tx(x)] \in Nat
      BY <1>0, <2>0 DEF GuardInv, SwapInv, SwapTypes, ExecutorTypes, ReconcilerTypes,
         ReconcilerState
    <3>2. mined[Tx(x)] = "no"
      BY <1>0, <1>8, <2>1, <3>1 DEF LookAtNonce, Collides, NonceRead, ReadsStayTrue, Tx
    <3>3. Protocol!Released(Tx(x))
      BY <1>0, <2>0, <2>1, <3>2 DEF Tell, Told, ChainIsTold, Protocol!Released
    <3>. QED
      BY <2>0, <3>3 DEF Protocol!ProtocolNext
  <2>2. CASE UNCHANGED outcome
    BY <2>2
  <2>. QED
    BY <1>8, <2>1, <2>2 DEF LookAtNonce
<1>9. ASSUME Restart PROVE [Protocol!ProtocolNext]_outcome
  BY <1>9 DEF Restart, Protocol!ProtocolNext
<1>10. ASSUME NEW a \in Attempts,
             Mine(a) \/ Evict(a) \/ Sign(a) \/ Submit(a) \/ Broadcast(a) \/
             BroadcastUnclear(a) \/ NonceTooLow(a) \/ Close(a)
      PROVE  UNCHANGED outcome
  BY <1>10 DEF Mine, Evict, Sign, Submit, Broadcast, BroadcastUnclear, NonceTooLow,
     Close,
     executor, records, chain
<1>11. ASSUME NEW x \in Reconcilers,
             LookInMempool(x) \/ NonceUnknown(x) \/ Resend(x) \/
             CloseReconcile(x)
      PROVE  UNCHANGED outcome
  BY <1>11 DEF LookInMempool, NonceUnknown, Resend, CloseReconcile, executor, records,
     chain
<1>12. ASSUME NEW q \in Quotes,
             Quote(q) \/ Expire(q)
      PROVE  UNCHANGED outcome
  BY <1>12 DEF Quote, Expire, executor, records, chain
<1>13. ASSUME NEW q \in Quotes,
             (\E a \in Attempts : Check(a, q)) \/ (\E x \in Reconcilers : StartReconcile(x, q))
      PROVE  UNCHANGED outcome
  BY <1>13 DEF Check, StartReconcile, executor, records, chain
<1>14. CASE OtherTransaction \/ UNCHANGED vars
  BY <1>14 DEF OtherTransaction, vars
<1>. QED
  BY <1>1, <1>2, <1>3, <1>4, <1>5, <1>6, <1>7, <1>8, <1>9, <1>10, <1>11, <1>12, <1>13,
     <1>14 DEF Next, Attempt, Reconcile

(* In quiet settings, what the executor and its reconcilers tell the guard   *)
(* of each reservation is a behaviour of the guard's calling protocol:       *)
(* reserve, pin, then commit or release, retries included.                   *)
THEOREM CalledLegally == Spec => GuardIsCalledLegally
<1>1. Init => Protocol!ProtocolInit
  BY DEF Init, Protocol!ProtocolInit
<1>2. GuardInv /\ [Next]_vars => [quiet => Protocol!ProtocolNext]_outcome
  BY LegalStep
<1>. QED
  BY <1>1, <1>2, GuardStart, GuardStep, PTL DEF Spec, GuardIsCalledLegally

(* In quiet settings a record that says CONFIRMED or REVERTED says so for    *)
(* ever, however many reconcilers still hold an older copy of it.            *)
THEOREM Settled == Spec => SettledStaysSettled
<1>1. ASSUME GuardInv, [Next]_vars, quiet,
             NEW q \in Quotes, status[q] \in {"CONFIRMED", "REVERTED"}
      PROVE  status'[q] = status[q]
  <2>0. /\ status \in [Quotes -> Statuses] /\ owner[q] # Nobody /\ owner[q] \in Attempts
        /\ pc[owner[q]] = "done" /\ store[q] = "gone"
        /\ SwapInv /\ ReconciledAreLeft /\ ReadsStayTrue
    BY <1>1, NobodyAssumption
    DEF GuardInv, SwapInv, SwapTypes, ExecutorTypes, EndsAreTrue, OwnersConsumed,
        ReconciledAreLeft, Left
  <2>1. ASSUME NEW a \in Attempts, Consume(a) PROVE status'[q] = status[q]
    BY <2>0, <2>1 DEF Consume, Save, SaveFails
  <2>2. ASSUME NEW a \in Attempts, Sign(a) \/ Submit(a) \/ Close(a)
        PROVE  status'[q] = status[q]
    <3>1. pc[a] \in Afoot \cup {"consumed", "closing"}
      BY <2>2 DEF Sign, Submit, Close, Afoot
    <3>2. quoteOf[a] # q
      BY <2>0, <3>1 DEF SwapInv, PlacesAreRight, Afoot
    <3>. QED
      BY <2>0, <2>2, <3>2 DEF Sign, Submit, Close, Save, SaveFails
  <2>3. ASSUME NEW x \in Reconcilers, LookInMempool(x) PROVE status'[q] = status[q]
    BY <2>0, <2>3 DEF LookInMempool, ReconciledAreLeft, SaveFails
  <2>4. ASSUME NEW x \in Reconcilers, CloseReconcile(x) PROVE status'[q] = status[q]
    <3>1. CASE rc[x].quote = q
      BY <1>1, <2>0, <2>4, <3>1
      DEF CloseReconcile, Save, SaveFails, SwapInv, ReconcilersAreRight, EndsAreTrue, Never,
          ReadsStayTrue, Gone
    <3>2. CASE rc[x].quote # q
      BY <2>0, <2>4, <3>2 DEF CloseReconcile, Save, SaveFails
    <3>. QED
      BY <3>1, <3>2
  <2>5. ASSUME NEW a \in Attempts,
               Mine(a) \/ Evict(a) \/ Reserve(a) \/ CloseUnsigned(a) \/ Pin(a)
               \/ Broadcast(a) \/ BroadcastUnclear(a) \/ NonceTooLow(a) \/
               Collide(a) \/ Await(a)
        PROVE  UNCHANGED status
    BY <2>5 DEF Mine, Evict, Reserve, CloseUnsigned, Pin, Broadcast, BroadcastUnclear,
       NonceTooLow,
       Collide, Await, records
  <2>6. ASSUME NEW x \in Reconcilers, LookForReceipt(x) \/ LookAtNonce(x) \/ NonceUnknown(x) \/ Resend(x)
        PROVE  UNCHANGED status
    BY <2>6 DEF LookForReceipt, LookAtNonce, NonceUnknown, Resend, records
  <2>7. ASSUME NEW p \in Quotes,
               \/ Quote(p) \/ Expire(p) \/ \E a \in Attempts : Check(a, p)
               \/ \E x \in Reconcilers : StartReconcile(x, p)
        PROVE  UNCHANGED status
    BY <2>7 DEF Quote, Expire, Check, StartReconcile, records
  <2>8. CASE OtherTransaction \/ Restart \/ UNCHANGED vars
    BY <2>8 DEF OtherTransaction, Restart, vars, records
  <2>. QED
    BY <1>1, <2>1, <2>2, <2>3, <2>4, <2>5, <2>6, <2>7, <2>8 DEF Next, Attempt, Reconcile
<1>2. GuardInv /\ [Next]_vars =>
        [quiet => \A q \in Quotes :
           status[q] \in {"CONFIRMED", "REVERTED"} => status'[q] = status[q]]_vars
  BY <1>1
<1>. QED
  BY <1>2, GuardStart, GuardStep, PTL DEF Spec, SettledStaysSettled
=============================================================================
