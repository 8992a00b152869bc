--------------------------- MODULE SwapExecution ---------------------------
(***************************************************************************)
(* execute_quote and reconcile_swap_execution of                           *)
(* backend/app/services/swap_executor.py: a quote is executed at most      *)
(* once, by reserving against the spend guard, consuming the quote,        *)
(* writing a durable record before every step that cannot be undone, and   *)
(* reading the outcome back from the chain.                                *)
(*                                                                         *)
(* An attempt is one call of execute_quote in a thread of the process; a   *)
(* reconciler is one call of reconcile_swap_execution.  Both die with the  *)
(* process.  The records, what was told to the guard, and the chain stay.  *)
(***************************************************************************)
EXTENDS Integers, FiniteSets

CONSTANTS
  Attempts,           \* calls of execute_quote, and the reservation each makes
  Quotes,             \* quote ids
  Reconcilers,        \* concurrent calls of reconcile_swap_execution
  MaxNonce,           \* bound of the relayer's account nonce
  Modes,              \* live or dry-run execution (_live_mode)
  Settings            \* the values of quiet to start from

ASSUME FiniteAssumption == IsFiniteSet(Attempts) /\ IsFiniteSet(Quotes)
ASSUME NonceAssumption == MaxNonce \in Nat \ {0}
ASSUME SwitchAssumption ==
  Modes \subseteq BOOLEAN /\ Settings \subseteq BOOLEAN

Nobody == "nobody"
ASSUME NobodyAssumption == Nobody \notin Attempts \cup Quotes

VARIABLES
  \* process memory
  pc,       \* where each attempt is
  quoteOf,  \* the quote each attempt was called with
  next,     \* the status an attempt is about to save
  store,    \* the quote store: "new", "live" or "gone"
  lock,     \* holder of relayer_broadcast_<address>
  rc,       \* the reconcilers
  \* durable
  status,   \* status of the record of each quote, or "NONE"
  owner,    \* the attempt the record is about
  nonce,    \* nonce of the transaction each attempt signed and saved, or 0
  outcome,  \* what the guard was told of each reservation
  \* the chain
  mempool,  \* attempts whose transaction a node holds
  mined,    \* "no", "ok" or "reverted"
  latest,   \* confirmed nonce of the relayer
  \* an assumption of the properties that need it, chosen once: reconcile is
  \* called on UNCERTAIN records only, and the chain neither moves nor hides a
  \* receipt between two reads of one reconciler
  quiet

executor == <<pc, quoteOf, next, store, lock>>
records  == <<status, owner, nonce>>
chain    == <<mempool, mined, latest, quiet>>
vars == <<executor, rc, records, outcome, chain>>

Protocol == INSTANCE ReservationProtocol WITH Res <- Attempts

Statuses == {"NONE", "PENDING", "PREPARED", "SUBMITTED", "UNCERTAIN", "CONFIRMED",
             "REVERTED", "FAILED", "FAILED_NONCE_COLLISION"}
\* reconcile_swap_execution returns such a record as it is.
Final == {"CONFIRMED", "REVERTED", "FAILED"}

Idle == [pc |-> "idle", quote |-> Nobody, status |-> "NONE", seen |-> FALSE,
         latest |-> 0, next |-> "NONE"]

Init ==
  /\ pc = [a \in Attempts |-> "idle"]
  /\ quoteOf = [a \in Attempts |-> Nobody]
  /\ next = [a \in Attempts |-> "NONE"]
  /\ store = [q \in Quotes |-> "new"]
  /\ lock = Nobody
  /\ rc = [x \in Reconcilers |-> Idle]
  /\ status = [q \in Quotes |-> "NONE"]
  /\ owner = [q \in Quotes |-> Nobody]
  /\ nonce = [a \in Attempts |-> 0]
  /\ outcome = [a \in Attempts |-> "unused"]
  /\ mempool = {}
  /\ mined = [a \in Attempts |-> "no"]
  /\ latest = 1
  /\ quiet \in Settings

-----------------------------------------------------------------------------
(***************************************************************************)
(* The chain, as web3 shows it.                                            *)
(***************************************************************************)
NoncesOf(S) == {nonce[a] : a \in S}

\* What get_transaction_count(.., "pending") answers: the first nonce from the
\* latest on that no transaction in the pool has.
PendingNonce ==
  {n \in latest..(latest + Cardinality(mempool)) :
     n \notin NoncesOf(mempool) /\ latest..(n - 1) \subseteq NoncesOf(mempool)}

\* A node takes a transaction whose nonce is not used up and that conflicts
\* with nothing it already holds.
Acceptable(a) ==
  nonce[a] >= latest /\ nonce[a] \notin NoncesOf(mempool)

\* The next transaction of the account is mined; what had its nonce is dropped.
Advance ==
  /\ latest' = latest + 1
  /\ mempool' = {b \in mempool : nonce[b] # latest}
  /\ UNCHANGED quiet

Mine(a) ==
  /\ a \in mempool /\ nonce[a] = latest
  /\ Advance
  /\ \E r \in {"ok", "reverted"} : mined' = [mined EXCEPT ![a] = r]
  /\ UNCHANGED <<executor, rc, records, outcome>>

\* The relayer key also signs approvals, withdrawals and treasury calls.
OtherTransaction ==
  /\ latest < MaxNonce
  /\ Advance
  /\ UNCHANGED <<executor, rc, records, outcome, mined>>

\* A node may forget a pending transaction.
Evict(a) ==
  /\ a \in mempool
  /\ mempool' = mempool \ {a}
  /\ UNCHANGED <<executor, rc, records, outcome, mined, latest, quiet>>

\* A receipt lookup that finds nothing.
ReceiptMissing(a) == mined[a] = "no" \/ ~quiet

-----------------------------------------------------------------------------
(***************************************************************************)
(* execute_quote.                                                          *)
(***************************************************************************)
Goto(a, l) == pc' = [pc EXCEPT ![a] = l]
Tell(a, o) == outcome' = [outcome EXCEPT ![a] = o]
Save(q, s) == status' = [status EXCEPT ![q] = s]
\* A save that fails raises; the record stays as it was.
SaveFails == UNCHANGED status

\* Ends by saving status s; the guard has been told already.
CloseWith(a, s) == Goto(a, "closing") /\ next' = [next EXCEPT ![a] = s]

\* The router stores a quote; quotes expire.
Quote(q) ==
  /\ store[q] = "new"
  /\ store' = [store EXCEPT ![q] = "live"]
  /\ UNCHANGED <<pc, quoteOf, next, lock, rc, records, outcome, chain>>

Expire(q) ==
  /\ store[q] = "live"
  /\ store' = [store EXCEPT ![q] = "gone"]
  /\ UNCHANGED <<pc, quoteOf, next, lock, rc, records, outcome, chain>>

\* The idempotency pre-flight and get_quote.
Check(a, q) ==
  /\ pc[a] = "idle"
  /\ status[q] \in {"NONE", "FAILED_NONCE_COLLISION"}
  /\ store[q] = "live"
  /\ Goto(a, "checked")
  /\ quoteOf' = [quoteOf EXCEPT ![a] = q]
  /\ UNCHANGED <<next, store, lock, rc, records, outcome, chain>>

\* reserve_spend, which may refuse.
Reserve(a) ==
  /\ pc[a] = "checked"
  /\ \/ Goto(a, "reserved") /\ Tell(a, "open")
     \/ Goto(a, "done") /\ UNCHANGED outcome
  /\ UNCHANGED <<quoteOf, next, store, lock, rc, records, chain>>

\* Mutant: the quote is looked at but not popped.
ConsumeWithoutPop(a) ==
  /\ pc[a] = "reserved"
  /\ IF store[quoteOf[a]] = "live"
     THEN /\ Goto(a, "consumed")
          /\ Save(quoteOf[a], "PENDING")
          /\ owner' = [owner EXCEPT ![quoteOf[a]] = a]
          /\ UNCHANGED <<store, outcome>>
     ELSE Goto(a, "done") /\ Tell(a, "released") /\ UNCHANGED <<store, status, owner>>
  /\ UNCHANGED <<quoteOf, next, lock, rc, nonce, chain>>

\* consume_quote and the first save; a call that comes second releases.  When
\* the save fails the reservation is left to its TTL.
Consume(a) ==
  /\ pc[a] = "reserved"
  /\ IF store[quoteOf[a]] = "live"
     THEN /\ store' = [store EXCEPT ![quoteOf[a]] = "gone"]
          /\ \/ /\ Goto(a, "consumed")
                /\ Save(quoteOf[a], "PENDING")
                /\ owner' = [owner EXCEPT ![quoteOf[a]] = a]
             \/ Goto(a, "done") /\ SaveFails /\ UNCHANGED owner
          /\ UNCHANGED outcome
     ELSE Goto(a, "done") /\ Tell(a, "released") /\ UNCHANGED <<store, status, owner>>
  /\ UNCHANGED <<quoteOf, next, lock, rc, nonce, chain>>

\* No relayer, calldata that cannot be built, an approval that reverts, an RPC
\* that fails before signing; or a dry run.
CloseUnsigned(a) ==
  /\ pc[a] = "consumed"
  /\ \/ CloseWith(a, "FAILED")
     \/ FALSE \in Modes /\ CloseWith(a, "CONFIRMED")
  /\ Tell(a, "released")
  /\ UNCHANGED <<quoteOf, store, lock, rc, records, chain>>

\* Under the relayer's lock: take the pending nonce, sign, and save PREPARED
\* with hash, nonce and bytes.  When the lock is not got in time, or a read or
\* the save fails, nothing is broadcast and the reservation is left to its TTL.
Sign(a) ==
  /\ pc[a] = "consumed" /\ TRUE \in Modes
  /\ \/ /\ lock = Nobody /\ lock' = a
        /\ Goto(a, "signed")
        /\ \E n \in PendingNonce : nonce' = [nonce EXCEPT ![a] = n]
        /\ Save(quoteOf[a], "PREPARED")
     \/ Goto(a, "done") /\ SaveFails /\ UNCHANGED <<lock, nonce>>
  /\ UNCHANGED <<quoteOf, next, store, rc, owner, outcome, chain>>

\* Mutant: the guard is never told to pin.
PinForgotten(a) ==
  /\ pc[a] = "signed"
  /\ Goto(a, "pinned")
  /\ UNCHANGED <<quoteOf, next, store, lock, rc, records, outcome, chain>>

\* pin_reservation
Pin(a) ==
  /\ pc[a] = "signed"
  /\ Goto(a, "pinned")
  /\ Tell(a, "pinned")
  /\ UNCHANGED <<quoteOf, next, store, lock, rc, records, chain>>

Submit(a) ==
  /\ pc[a] = "pinned"
  /\ \/ Goto(a, "submitted") /\ Save(quoteOf[a], "SUBMITTED") /\ UNCHANGED lock
     \/ Goto(a, "done") /\ SaveFails /\ lock' = Nobody
  /\ UNCHANGED <<quoteOf, next, store, rc, owner, nonce, outcome, chain>>

\* send_raw_transaction: accepted, or already known.
Broadcast(a) ==
  /\ pc[a] = "submitted"
  /\ \/ Acceptable(a) /\ mempool' = mempool \cup {a}
     \/ a \in mempool /\ UNCHANGED mempool
  /\ Goto(a, "waiting")
  /\ lock' = Nobody
  /\ UNCHANGED <<quoteOf, next, store, rc, records, outcome, mined, latest, quiet>>

\* Mutant: a broadcast that timed out is taken for one that failed.
BroadcastFailed(a) ==
  /\ pc[a] = "submitted"
  /\ mempool' \in {mempool} \cup {mempool \cup {b} : b \in {a} \cap {c \in Attempts : Acceptable(c)}}
  /\ CloseWith(a, "FAILED")
  /\ UNCHANGED <<quoteOf, store, lock, rc, records, outcome, mined, latest, quiet>>

\* A timeout or any other error: the node may have taken it all the same.
BroadcastUnclear(a) ==
  /\ pc[a] = "submitted"
  /\ mempool' \in {mempool} \cup {mempool \cup {b} : b \in {a} \cap {c \in Attempts : Acceptable(c)}}
  /\ CloseWith(a, "UNCERTAIN")
  /\ UNCHANGED <<quoteOf, store, lock, rc, records, outcome, mined, latest, quiet>>

\* "nonce too low": look for the receipt of our own hash first.
NonceTooLow(a) ==
  /\ pc[a] = "submitted" /\ nonce[a] < latest
  /\ \/ mined[a] # "no" /\ Goto(a, "waiting") /\ lock' = Nobody
     \/ ReceiptMissing(a) /\ Goto(a, "toolow") /\ UNCHANGED lock
  /\ UNCHANGED <<quoteOf, next, store, rc, records, outcome, chain>>

\* Then for the confirmed nonce, when it can be read.
Collide(a) ==
  /\ pc[a] = "toolow"
  /\ \/ latest > nonce[a] /\ Tell(a, "released") /\ CloseWith(a, "FAILED_NONCE_COLLISION")
     \/ UNCHANGED outcome /\ CloseWith(a, "UNCERTAIN")
  /\ UNCHANGED <<quoteOf, store, lock, rc, records, chain>>

\* wait_for_transaction_receipt: success, an output below min_out, a revert,
\* or no answer in time.
Await(a) ==
  /\ pc[a] = "waiting"
  /\ \/ /\ mined[a] = "ok" /\ Tell(a, "committed")
        /\ \E s \in {"CONFIRMED", "FAILED"} : CloseWith(a, s)
     \/ mined[a] = "reverted" /\ Tell(a, "released") /\ CloseWith(a, "REVERTED")
     \/ UNCHANGED outcome /\ CloseWith(a, "UNCERTAIN")
  /\ UNCHANGED <<quoteOf, store, lock, rc, records, chain>>

\* The last save.  If the outcome of a mined transaction cannot be saved, it is
\* tried once more as UNCERTAIN.
Close(a) ==
  /\ pc[a] = "closing"
  /\ \/ Goto(a, "done") /\ Save(quoteOf[a], next[a]) /\ UNCHANGED next
     \/ /\ SaveFails
        /\ IF mined[a] # "no" /\ next[a] \in Final
           THEN CloseWith(a, "UNCERTAIN")
           ELSE Goto(a, "done") /\ UNCHANGED next
  /\ lock' = IF lock = a THEN Nobody ELSE lock
  /\ UNCHANGED <<quoteOf, store, rc, owner, nonce, outcome, chain>>

-----------------------------------------------------------------------------
(***************************************************************************)
(* reconcile_swap_execution.  It works on the copy of the record it read   *)
(* at its start, and takes no lock.                                        *)
(***************************************************************************)
Update(x, r) == rc' = [rc EXCEPT ![x] = r]
Tx(x) == owner[rc[x].quote]

\* Called by execute_quote when it is asked again for an UNCERTAIN quote, or by
\* an operator.  A record without a transaction hash is left alone.
StartReconcile(x, q) ==
  /\ rc[x].pc = "idle"
  /\ status[q] \notin Final /\ owner[q] # Nobody /\ nonce[owner[q]] # 0
  /\ ~quiet \/ status[q] = "UNCERTAIN"
  /\ Update(x, [Idle EXCEPT !.pc = "receipt", !.quote = q, !.status = status[q]])
  /\ UNCHANGED <<executor, records, outcome, chain>>

LookForReceipt(x) ==
  /\ rc[x].pc = "receipt"
  /\ \/ /\ mined[Tx(x)] = "ok" /\ Tell(Tx(x), "committed")
        /\ Update(x, [rc[x] EXCEPT !.pc = "closing", !.next = "CONFIRMED"])
     \/ /\ mined[Tx(x)] = "reverted" /\ Tell(Tx(x), "released")
        /\ Update(x, [rc[x] EXCEPT !.pc = "closing", !.next = "REVERTED"])
     \/ /\ ReceiptMissing(Tx(x)) /\ UNCHANGED outcome
        /\ Update(x, [rc[x] EXCEPT !.pc = "mempool", !.latest = latest])
  /\ UNCHANGED <<executor, records, chain>>

\* A transaction a node holds makes a PREPARED record SUBMITTED.
LookInMempool(x) ==
  /\ rc[x].pc = "mempool"
  /\ \E seen \in {FALSE, Tx(x) \in mempool} :
       /\ Update(x, [rc[x] EXCEPT !.pc = "nonce", !.seen = seen])
       /\ \/ seen /\ rc[x].status = "PREPARED" /\ Save(rc[x].quote, "SUBMITTED")
          \/ SaveFails
  /\ UNCHANGED <<executor, owner, nonce, outcome, chain>>

\* The confirmed nonce as it is by now, or as it was with the receipt.
NonceRead(x) == IF quiet THEN rc[x].latest ELSE latest

\* Mutant: a nonce that is merely reached counts as used.
CollidesAtNonce(x) == NonceRead(x) >= nonce[Tx(x)]

Collides(x) == NonceRead(x) > nonce[Tx(x)]

\* Mutant: a transaction that is still pending is saved as UNCERTAIN.
LookAtNonceAndSave(x) ==
  /\ rc[x].pc = "nonce" /\ ~Collides(x)
  /\ Update(x, [rc[x] EXCEPT !.pc = "closing", !.next = "UNCERTAIN"])
  /\ UNCHANGED <<executor, records, outcome, chain>>

\* The confirmed nonce decides.  Past ours: another transaction has taken it;
\* the breaker is tripped and the reservation released.  At ours: broadcast a
\* PREPARED or SUBMITTED transaction again, unless a node has it: then it is
\* SUBMITTED.
LookAtNonce(x) ==
  /\ rc[x].pc = "nonce"
  /\ \/ /\ Collides(x)
        /\ Tell(Tx(x), "released")
        /\ Update(x, [rc[x] EXCEPT !.pc = "closing", !.next = "FAILED_NONCE_COLLISION"])
     \/ /\ ~Collides(x) /\ UNCHANGED outcome
        /\ Update(x,
             IF rc[x].status \notin {"PREPARED", "SUBMITTED"} \/ NonceRead(x) # nonce[Tx(x)]
             THEN Idle
             ELSE IF ~rc[x].seen THEN [rc[x] EXCEPT !.pc = "resend"]
             ELSE IF rc[x].status = "SUBMITTED" THEN Idle
             ELSE [rc[x] EXCEPT !.pc = "closing", !.next = "SUBMITTED"])
  /\ UNCHANGED <<executor, records, chain>>

\* The nonce cannot be read: a record in no pending status becomes UNCERTAIN.
NonceUnknown(x) ==
  /\ rc[x].pc = "nonce" /\ ~quiet
  /\ Update(x, IF rc[x].status \in {"PREPARED", "SUBMITTED", "UNCERTAIN"} THEN Idle
               ELSE [rc[x] EXCEPT !.pc = "closing", !.next = "UNCERTAIN"])
  /\ UNCHANGED <<executor, records, outcome, chain>>

\* The same bytes again: accepted or already known, too low, or unclear.
Resend(x) ==
  /\ rc[x].pc = "resend"
  /\ \/ /\ Acceptable(Tx(x)) /\ mempool' = mempool \cup {Tx(x)}
        /\ \E s \in {"SUBMITTED", "UNCERTAIN"} :
             Update(x, [rc[x] EXCEPT !.pc = "closing", !.next = s])
     \/ /\ Tx(x) \in mempool /\ UNCHANGED mempool
        /\ Update(x, [rc[x] EXCEPT !.pc = "closing", !.next = "SUBMITTED"])
     \/ /\ nonce[Tx(x)] < latest /\ UNCHANGED mempool
        /\ Update(x, Idle)
     \/ /\ UNCHANGED mempool
        /\ Update(x, [rc[x] EXCEPT !.pc = "closing", !.next = "UNCERTAIN"])
  /\ UNCHANGED <<executor, records, outcome, mined, latest, quiet>>

CloseReconcile(x) ==
  /\ rc[x].pc = "closing"
  /\ Save(rc[x].quote, rc[x].next) \/ SaveFails
  /\ Update(x, Idle)
  /\ UNCHANGED <<executor, owner, nonce, outcome, chain>>

-----------------------------------------------------------------------------
\* The process dies: threads, quotes and the file lock go with it.
Restart ==
  /\ pc' = [a \in Attempts |-> IF pc[a] = "idle" THEN "idle" ELSE "done"]
  /\ store' = [q \in Quotes |-> IF store[q] = "live" THEN "gone" ELSE store[q]]
  /\ lock' = Nobody
  /\ rc' = [x \in Reconcilers |-> Idle]
  /\ Protocol!Forgotten
  /\ UNCHANGED <<quoteOf, next, records, chain>>

Attempt(a) ==
  \/ \E q \in Quotes : Check(a, q)
  \/ Reserve(a) \/ Consume(a) \/ CloseUnsigned(a) \/ Sign(a) \/ Pin(a) \/ Submit(a)
  \/ Broadcast(a) \/ BroadcastUnclear(a) \/ NonceTooLow(a) \/ Collide(a)
  \/ Await(a) \/ Close(a)

Reconcile(x) ==
  \/ \E q \in Quotes : StartReconcile(x, q)
  \/ LookForReceipt(x) \/ LookInMempool(x) \/ LookAtNonce(x) \/ NonceUnknown(x)
  \/ Resend(x) \/ CloseReconcile(x)

Next ==
  \/ \E a \in Attempts : Attempt(a) \/ Mine(a) \/ Evict(a)
  \/ \E x \in Reconcilers : Reconcile(x)
  \/ \E q \in Quotes : Quote(q) \/ Expire(q)
  \/ OtherTransaction
  \/ Restart

Spec == Init /\ [][Next]_vars

-----------------------------------------------------------------------------
(***************************************************************************)
(* Properties.                                                             *)
(***************************************************************************)

\* Types of the variables.
TypeOK ==
  /\ pc \in [Attempts -> {"idle", "checked", "reserved", "consumed", "signed", "pinned",
                          "submitted", "waiting", "toolow", "closing", "done"}]
  /\ quoteOf \in [Attempts -> Quotes \cup {Nobody}]
  /\ next \in [Attempts -> Statuses]
  /\ store \in [Quotes -> {"new", "live", "gone"}]
  /\ lock \in Attempts \cup {Nobody}
  /\ rc \in [Reconcilers ->
               [pc : {"idle", "receipt", "mempool", "nonce", "resend", "closing"},
                quote : Quotes \cup {Nobody}, status : Statuses, seen : BOOLEAN,
                latest : Nat, next : Statuses]]
  /\ status \in [Quotes -> Statuses]
  /\ owner \in [Quotes -> Attempts \cup {Nobody}]
  /\ nonce \in [Attempts -> Nat]
  /\ outcome \in [Attempts -> Protocol!Outcomes]
  /\ mempool \in SUBSET Attempts
  /\ mined \in [Attempts -> {"no", "ok", "reverted"}]
  /\ latest \in Nat
  /\ quiet \in BOOLEAN

\* A quote authorises one transaction: whatever calls race for it and whatever
\* crashes, at most one attempt ever signs for it (consume_quote and the
\* pre-flight of execute_quote).
OneTransactionPerQuote ==
  \A a, b \in Attempts :
    nonce[a] # 0 /\ nonce[b] # 0 /\ quoteOf[a] = quoteOf[b] => a = b

\* What a node holds or has mined is in a durable record of its quote that a
\* restarted process can follow up: saved as signed, and never again as
\* something that was not (execute_quote saves PREPARED before it broadcasts).
Recorded(a) ==
  /\ owner[quoteOf[a]] = a
  /\ status[quoteOf[a]] \notin {"NONE", "PENDING"}
  /\ status[quoteOf[a]] = "FAILED" => mined[a] = "ok"
BroadcastIsRecorded ==
  \A a \in Attempts : a \in mempool \/ mined[a] # "no" => Recorded(a)

\* A record that says CONFIRMED is about a transaction that succeeded, unless it
\* was a dry run that signed nothing; one that says REVERTED about one that
\* reverted.
ConfirmedIsMined ==
  \A q \in Quotes :
    /\ status[q] = "CONFIRMED" => nonce[owner[q]] = 0 \/ mined[owner[q]] = "ok"
    /\ status[q] = "REVERTED" => mined[owner[q]] = "reverted"

\* The record and the chain never contradict each other, whatever was lost on the
\* way and whoever saved the record last.
RecordMatchesChain == BroadcastIsRecorded /\ ConfirmedIsMined

\* Money that a node can still move, or has moved, is counted by the spend
\* guard: pinned or committed, never merely reserved, forgotten or released,
\* as long as no reconciler is misled by a chain that moves while it reads.
MovedIsCounted ==
  quiet => \A a \in Attempts :
    a \in mempool \/ mined[a] = "ok" => outcome[a] \in {"pinned", "committed"}

\* The executor and its reconcilers are legal callers of the spend guard: what
\* they tell it of each reservation is a behaviour of ReservationProtocol, in
\* quiet settings.
GuardIsCalledLegally ==
  Protocol!ProtocolInit /\ [][quiet => Protocol!ProtocolNext]_outcome

\* A record settled by the chain stays as it is, however many reconcilers hold
\* an older copy of it, in quiet settings.
SettledStaysSettled ==
  [][quiet => \A q \in Quotes :
       status[q] \in {"CONFIRMED", "REVERTED"} => status'[q] = status[q]]_vars

\* swap_executor.py:582 says of a confirmed nonce past the record's and no
\* receipt that it "proves another transaction consumed this nonce": the
\* transaction of a FAILED_NONCE_COLLISION was not mined.
CollisionMeansReplaced ==
  \A q \in Quotes :
    status[q] = "FAILED_NONCE_COLLISION" => mined[owner[q]] = "no"
=============================================================================
