---------------------------- MODULE SessionLease ----------------------------
(***************************************************************************)
(* An autonomous agent session: the row of agent_sessions, the workers     *)
(* (agents/src/worker.ts) that lease it for one tick at a time, the owner  *)
(* and the administrators who start, pause and end it, and the owner's     *)
(* withdrawals, on PostgresStorage (the back end that                      *)
(* create_storage_backend gives production).                               *)
(*                                                                         *)
(* Workers are processes of their own; every call to the back end may fail *)
(* on its way there or back.  The row, the invoices and the withdrawal     *)
(* operations are durable; ticks die with their worker; calls, the owner's *)
(* lock and the operations that could not be stored, with the back end.    *)
(***************************************************************************)
EXTENDS Integers, FiniteSets, FiniteSetsExt

CONSTANTS
  Workers,       \* worker processes, each with at most one tick of the session
  Admins,        \* concurrent calls of execute_session_control
  Calls,         \* HTTP calls of withdraw_funds
  Operations,    \* request ids of withdrawals
  Amounts,       \* amounts a withdrawal may ask for
  Budget,        \* budget_usdc
  Prices,        \* prices of candidates
  MaxGeneration  \* bound of run_generation

ASSUME SetsAssumption ==
  /\ IsFiniteSet(Workers)
  /\ Prices \subseteq Nat \ {0}
ASSUME BoundsAssumption == Budget \in Nat /\ MaxGeneration \in Nat

Nobody == "nobody"
Unbound == "unbound"
ASSUME NamesAssumption == Nobody \notin Workers \cup Calls /\ Unbound \notin Amounts

VARIABLES
  row,      \* the session's row: status, worker, lease, run_generation, and
            \* what the models need of runtime_state (phase and spent)
  tick,     \* the tick each worker runs
  invoice,  \* the invoice of the tick with each generation: one purchase each
  control,  \* what each administrator's call has loaded
  lock,     \* holder of owner_ops_lock
  call,     \* the calls of withdraw_funds
  op,       \* qma_withdrawals
  kept,     \* PostgresStorage._withdrawals: operations in memory
  sent,     \* withdrawals the relayer was asked for and has not dealt with (a
            \* second request for the same one changes nothing)
  moved,    \* transfers Circle made
  \* history
  stopped,  \* the owner was told last that the session is stopped
  lapsed,   \* operations a call could not read or store in the database
  orderly   \* no tick was overtaken by another lease or ended unreported, and no
            \* administrator wrote back a runtime_state that was out of date

runtime  == <<row, tick, invoice, control>>
transfer == <<lock, call, op, kept, sent, moved, lapsed>>
history  == <<stopped, orderly>>
vars == <<runtime, transfer, history>>

Terminal == {"completed", "failed", "stopped"}
Statuses == {"draft", "queued", "running", "paused"} \cup Terminal
\* SessionState.status, of which "created" and "paused" start a tick as
\* "running" does.
Phases == {"running", "completed", "failed"}
\* A row is inserted with generation 1, and a lease adds 1.
Generations == 2..MaxGeneration

NoTick == [at |-> "idle", gen |-> 0, phase |-> "running", spent |-> 0,
           price |-> 0]
NoInvoice == [status |-> "none", amount |-> 0]
NoControl == [action |-> "none", status |-> "draft", phase |-> "running", spent |-> 0]
NoCall == [at |-> "new", op |-> Nobody, amount |-> Unbound]
NoOperation == [amount |-> Unbound, answered |-> FALSE]

Init ==
  /\ row = [status |-> "draft", phase |-> "running", spent |-> 0,
            worker |-> Nobody, lease |-> "none", gen |-> 1]
  /\ tick = [w \in Workers |-> NoTick]
  /\ invoice = [g \in Generations |-> NoInvoice]
  /\ control = [a \in Admins |-> NoControl]
  /\ lock = Nobody
  /\ call = [c \in Calls |-> NoCall]
  /\ op = [o \in Operations |-> NoOperation]
  /\ kept = [o \in Operations |-> NoOperation]
  /\ sent = {} /\ moved = {} /\ lapsed = {}
  /\ stopped = FALSE /\ orderly = TRUE

------------------------------------------------------------------------------
\* Workers

Live(w) == tick[w].at # "idle"
\* claim_agent_session_lease.  next_run_at is due whenever the lease is not
\* live: a checkpoint never sets it later than the end of the lease.
Claimable == row.status \in {"queued", "running"} /\ row.lease # "live"

\* acquireSessionLease and tryStart.  No tick starts when the answer is lost
\* or the worker still runs an earlier tick of the session.
Claim(w) ==
  /\ Claimable
  /\ row.gen < MaxGeneration
  /\ row' = [row EXCEPT !.status = "running", !.worker = w, !.lease = "live",
                        !.gen = @ + 1]
  /\ \/ /\ ~Live(w)
        /\ tick' = [tick EXCEPT ![w] = [NoTick EXCEPT !.at = "start", !.gen = row'.gen,
                                           !.phase = row.phase, !.spent = row.spent]]
     \/ UNCHANGED tick
  /\ orderly' = (orderly /\ \A v \in Workers : ~Live(v))
  /\ UNCHANGED <<invoice, control, transfer, stopped>>

Expire ==
  /\ row.lease = "live"
  /\ row' = [row EXCEPT !.lease = "expired"]
  /\ UNCHANGED <<tick, invoice, control, transfer, history>>

\* The rpc of PostgresStorage extends the lease of whoever holds it, so that
\* only a failed call aborts a tick: an aborted tick sends no heartbeat and ends
\* unreported, which any tick may do.
Heartbeat(w) ==
  /\ Live(w)
  /\ row' = [row EXCEPT !.lease = "live"]
  /\ UNCHANGED <<tick, invoice, control, transfer, history>>

Reclaim ==
  /\ row.worker # Nobody /\ row.lease = "expired"
  /\ row.status \notin Terminal
  /\ row' = [row EXCEPT !.worker = Nobody, !.lease = "none"]
  /\ UNCHANGED <<tick, invoice, control, transfer, history>>

\* The tick of w goes on at `at`, with the session in `phase`; the candidate is
\* forgotten once the purchase is over.
Goes(w, at, phase) ==
  /\ tick' = [tick EXCEPT ![w].at = at, ![w].phase = phase,
                         ![w].price = IF at = "report" THEN 0 ELSE @]
  /\ UNCHANGED <<row, control, transfer, history>>

\* Nothing to buy, a stop condition, an error before the purchase, a session
\* that had ended, or an abort.
EndsWithoutPurchase(w) ==
  /\ tick[w].at = "start"
  /\ \/ Goes(w, "report", tick[w].phase)
     \/ tick[w].phase = "running" /\ \E p \in Phases : Goes(w, "report", p)
  /\ UNCHANGED invoice

\* chooseCandidate and createAgentInvoice.
Choose(w, price) ==
  /\ tick[w].at = "start" /\ tick[w].phase = "running"
  /\ price <= Budget - tick[w].spent
  /\ tick' = [tick EXCEPT ![w].at = "ask", ![w].price = price]
  /\ UNCHANGED <<row, invoice, control, transfer, history>>

\* What create_invoice counts as spent.
Counted == {g \in Generations : invoice[g].status \in {"paid", "pending"}}
Invoiced(gens) == MapThenSumSet(LAMBDA g : invoice[g].amount, gens)

\* create_invoice: the checks of the session's status and budget.
Allow(w) ==
  /\ tick[w].at = "ask"
  /\ row.status \notin {"paused"} \cup Terminal
  /\ Invoiced(Counted) + tick[w].price <= Budget
  /\ Goes(w, "create", "running")
  /\ UNCHANGED invoice

\* create_invoice refuses or fails: the purchase failed, the session goes on.
Refuse(w) ==
  /\ tick[w].at \in {"ask", "create"}
  /\ Goes(w, "report", "running")
  /\ UNCHANGED invoice

\* create_invoice saves the invoice; its answer may be lost.
Create(w) ==
  /\ tick[w].at = "create"
  /\ invoice' = [invoice EXCEPT ![tick[w].gen] = [status |-> "pending", amount |-> tick[w].price]]
  /\ \E at \in {"pay", "report"} : Goes(w, at, "running")

\* The payment settles and verify_payment claims it.
Pay(w) ==
  /\ tick[w].at = "pay" /\ invoice[tick[w].gen].status = "pending"
  /\ invoice' = [invoice EXCEPT ![tick[w].gen].status = "verifying"]
  /\ UNCHANGED <<row, tick, control, transfer, history>>

\* GenLayer rules and the settlement completes, whatever became of the tick.
Ruled(g) ==
  /\ invoice[g].status = "verifying"
  /\ \E status \in {"paid", "rejected"} : invoice' = [invoice EXCEPT ![g].status = status]
  /\ UNCHANGED <<row, tick, control, transfer, history>>

\* The purchase is seen paid: recordPurchase.
Bought(w) ==
  /\ tick[w].at = "pay" /\ invoice[tick[w].gen].status = "paid"
  /\ \E phase \in {"running", "completed"} :
       tick' = [tick EXCEPT ![w].at = "report", ![w].phase = phase, ![w].price = 0,
                             ![w].spent = @ + tick[w].price]
  /\ UNCHANGED <<row, invoice, control, transfer, history>>

\* Mutant: an uncertain payment leaves the session going.
UncertainGoesOn(w) ==
  /\ tick[w].at = "pay"
  /\ Goes(w, "report", "running")
  /\ UNCHANGED invoice

\* The payment was rejected or its outcome is uncertain: the session fails.
Uncertain(w) ==
  /\ tick[w].at = "pay"
  /\ Goes(w, "report", "failed")
  /\ UNCHANGED invoice

\* Mutant: the checkpoint is fenced by the session's status only.
FencedByStatus(w) == row.status \in Terminal

\* Mutant: the checkpoint is fenced by the lease only.
FencedByLease(w) == row.worker # w \/ row.gen # tick[w].gen

\* The fence of checkpoint_session_tick.
Fenced(w) ==
  \/ row.worker # w
  \/ row.gen # tick[w].gen
  \/ row.status \in Terminal

Reported(w) ==
  LET ends == tick[w].phase \in Terminal
  IN [row EXCEPT !.status = tick[w].phase, !.phase = tick[w].phase, !.spent = tick[w].spent,
                 !.worker = IF ends THEN Nobody ELSE w,
                 !.lease = IF ends THEN "none" ELSE "live"]

Checkpoint(w) ==
  /\ tick[w].at = "report" /\ ~Fenced(w)
  /\ row' = Reported(w)
  /\ tick' = [tick EXCEPT ![w] = NoTick]
  /\ UNCHANGED <<invoice, control, transfer, history>>

\* The checkpoint is rejected or lost, or not sent because a heartbeat failed
\* and aborted the tick; or the worker dies.
EndsUnreported(w) ==
  /\ Live(w)
  /\ tick' = [tick EXCEPT ![w] = NoTick]
  /\ orderly' = FALSE
  /\ UNCHANGED <<row, invoice, control, transfer, stopped>>

------------------------------------------------------------------------------
\* The owner and the administrators

\* Mutant: the session is queued without the owner's lock.
StartUnlocked ==
  /\ row' = [row EXCEPT !.status = "queued"]
  /\ stopped' = FALSE
  /\ UNCHANGED <<tick, invoice, control, transfer, orderly>>

\* start_session and resume_session, under the owner's lock.
Start ==
  /\ lock = Nobody
  /\ row' = [row EXCEPT !.status = "queued"]
  /\ stopped' = FALSE
  /\ UNCHANGED <<tick, invoice, control, transfer, orderly>>

\* stop_session puts the id into the path of its PATCH; PostgresStorage drops
\* it there, finds no filter and updates nothing.
Stop ==
  /\ stopped' = TRUE
  /\ UNCHANGED <<runtime, transfer, orderly>>

\* execute_session_control reads the row and decides.
Load(a, action) ==
  /\ control[a].action = "none"
  /\ CASE action = "pause"  -> row.status \notin {"paused"} \cup Terminal
       [] action = "resume" -> row.status = "paused"
       [] action = "kill"   -> row.status \notin {"stopped", "completed"}
  /\ control' = [control EXCEPT ![a] = [action |-> action, status |-> row.status,
                                       phase |-> row.phase, spent |-> row.spent]]
  /\ UNCHANGED <<row, tick, invoice, transfer, history>>

NextStatus(action) ==
  CASE action = "pause" -> "paused" [] action = "resume" -> "running" [] action = "kill" -> "stopped"

\* transition_session_status: the status is compared, the runtime_state that
\* was read is written back.
Apply(a) ==
  /\ control[a].action # "none"
  /\ control' = [control EXCEPT ![a] = NoControl]
  /\ IF row.status = control[a].status
     THEN /\ row' = [row EXCEPT !.status = NextStatus(control[a].action),
                                !.phase = control[a].phase, !.spent = control[a].spent]
          /\ orderly' = (orderly /\ row'.phase = row.phase /\ row'.spent = row.spent)
     ELSE UNCHANGED <<row, orderly>>
  /\ UNCHANGED <<tick, invoice, transfer, stopped>>

------------------------------------------------------------------------------
\* Withdrawals

\* The call of c is over, and its lock free.
Leaves(c) ==
  /\ call' = [call EXCEPT ![c] = [NoCall EXCEPT !.at = "over"]]
  /\ lock' = Nobody

\* Mutant: every call draws an idempotency key.
KeyOfCall(c, o) == c

\* What the relayer is asked for: the idempotency key names the operation.
Key(c, o) == o
Transfer(c, o, amount) == [key |-> Key(c, o), op |-> o, amount |-> amount]

\* An operation is bound to the amount it was first called with.
Bound(table, o, amount) ==
  IF table[o].amount = Unbound THEN [table EXCEPT ![o].amount = amount] ELSE table

\* reserve_withdrawal: the operation of the database, or, when it cannot be read
\* there or stored, that of the process.
Reserved(o, amount, operation) ==
  \/ /\ op' = Bound(op, o, amount)
     /\ operation = op'[o]
     /\ UNCHANGED <<kept, lapsed>>
  \/ /\ op' \in {op, Bound(op, o, amount)}
     /\ kept' = Bound(kept, o, amount)
     /\ operation = kept'[o]
     /\ lapsed' = lapsed \cup {o}

\* withdraw_funds under the lock: no session may be active, and the operation
\* is persisted before the relayer is asked.  An answered operation is answered
\* again, one with another amount refused.
Submit(c, o, amount) ==
  /\ call[c].at = "new" /\ lock = Nobody
  /\ row.status \notin {"queued", "running"}
  /\ \E operation \in {op[o], Bound(op, o, amount)[o], Bound(kept, o, amount)[o]} :
       /\ Reserved(o, amount, operation)
       /\ IF operation.amount # amount \/ operation.answered
          THEN Leaves(c) /\ UNCHANGED sent
          ELSE /\ lock' = c
               /\ call' = [call EXCEPT ![c] = [at |-> "sent", op |-> o, amount |-> amount]]
               /\ sent' = sent \cup {Transfer(c, o, amount)}
  /\ UNCHANGED <<runtime, moved, history>>

\* The relayer asks Circle, which makes one transfer for one idempotency key.
Relay(t) ==
  /\ sent' = sent \ {t}
  /\ moved' = IF \E m \in moved : m.key = t.key THEN moved ELSE moved \cup {t}
  /\ UNCHANGED <<runtime, lock, call, op, kept, lapsed, history>>

RelayFails(t) ==
  /\ sent' = sent \ {t}
  /\ UNCHANGED <<runtime, lock, call, op, kept, lapsed, moved, history>>

\* save_withdrawal: the relayer's answer is saved with the operation of the
\* call, in the database, unless that fails, and in the process.
Answered(c) ==
  /\ call[c].at = "sent"
  /\ \E m \in moved : m.key = Key(c, call[c].op)
  /\ LET answer == [amount |-> call[c].amount, answered |-> TRUE]
     IN /\ op' \in {op, [op EXCEPT ![call[c].op] = answer]}
        /\ kept' = [kept EXCEPT ![call[c].op] = answer]
  /\ Leaves(c)
  /\ UNCHANGED <<runtime, sent, moved, lapsed, history>>

\* No answer in 30 s, or an error: the operation stays without a response.
\* The relayer may still be at it.
Unanswered(c) ==
  /\ call[c].at = "sent"
  /\ Leaves(c)
  /\ UNCHANGED <<runtime, op, kept, sent, moved, lapsed, history>>

\* A restart of the back end ends the calls it has, and their lock, and forgets
\* the operations in memory.
Restart ==
  /\ call' = [c \in Calls |-> IF call[c].at = "new" THEN NoCall ELSE [NoCall EXCEPT !.at = "over"]]
  /\ control' = [a \in Admins |-> NoControl]
  /\ lock' = Nobody
  /\ kept' = [o \in Operations |-> NoOperation]
  /\ UNCHANGED <<row, tick, invoice, op, sent, moved, lapsed, history>>

------------------------------------------------------------------------------
Tick(w) ==
  \/ Claim(w) \/ Heartbeat(w)
  \/ EndsWithoutPurchase(w) \/ \E p \in Prices : Choose(w, p)
  \/ Allow(w) \/ Refuse(w) \/ Create(w) \/ Pay(w)
  \/ Bought(w) \/ Uncertain(w) \/ Checkpoint(w) \/ EndsUnreported(w)

Control(a) == Apply(a) \/ \E action \in {"pause", "resume", "kill"} : Load(a, action)

Withdraw(c) ==
  \/ \E o \in Operations, amount \in Amounts : Submit(c, o, amount)
  \/ Answered(c) \/ Unanswered(c)

Next ==
  \/ \E w \in Workers : Tick(w)
  \/ Expire \/ Reclaim
  \/ \E g \in Generations : Ruled(g)
  \/ Start \/ Stop
  \/ \E a \in Admins : Control(a)
  \/ \E c \in Calls : Withdraw(c)
  \/ \E t \in sent : Relay(t) \/ RelayFails(t)
  \/ Restart

Spec == Init /\ [][Next]_vars

------------------------------------------------------------------------------
Rows == [status : Statuses, phase : Phases, spent : Nat, worker : Workers \cup {Nobody},
         lease : {"none", "live", "expired"}, gen : Nat]
Ticks == [at : {"idle", "start", "ask", "create", "pay", "report"}, gen : Nat,
          phase : Phases, spent : Nat, price : Nat]
Invoices == [status : {"none", "pending", "verifying", "paid", "rejected"}, amount : Nat]
Controls == [action : {"none", "pause", "resume", "kill"}, status : Statuses,
             phase : Phases, spent : Nat]
Bindings == [amount : Amounts \cup {Unbound}, answered : BOOLEAN]
Transfers == [key : Operations \cup Calls, op : Operations, amount : Amounts]

\* Every variable has its type (SessionStatus, the pool's one task per session,
\* qma_withdrawals' one operation per id).
TypeOK ==
  /\ row \in Rows
  /\ tick \in [Workers -> Ticks]
  /\ invoice \in [Generations -> Invoices]
  /\ control \in [Admins -> Controls]
  /\ lock \in Calls \cup {Nobody}
  /\ call \in [Calls -> [at : {"new", "sent", "over"}, op : Operations \cup {Nobody},
                          amount : Amounts \cup {Unbound}]]
  /\ op \in [Operations -> Bindings] /\ kept \in [Operations -> Bindings]
  /\ lapsed \subseteq Operations
  /\ sent \cup moved \subseteq Transfers
  /\ stopped \in BOOLEAN /\ orderly \in BOOLEAN

\* A tick changes the row only while no worker runs a tick of a later lease:
\* what the fence of checkpoint_session_tick is for, with leases that expire
\* under their ticks, workers that lease a session they still run, and
\* heartbeats that are not fenced at all.
NewestTickWins ==
  [][\A w \in Workers : Checkpoint(w) =>
       \A v \in Workers : Live(v) => tick[v].gen <= tick[w].gen]_vars

\* What an administrator killed runs again only after its owner started it:
\* neither a tick in flight nor another administrator's call that read the
\* session before may bring it back (execute_session_control,
\* transition_session_status, checkpoint_session_tick).
KilledStaysKilled ==
  [][row.status = "stopped" /\ row'.status # "stopped" => Start]_vars

\* While a withdrawal is being submitted the session is not put in the queue,
\* which is what owner_ops_lock is for.
NotQueuedWhileWithdrawing ==
  \A c \in Calls : call[c].at = "sent" => row.status # "queued"

\* However often a withdrawal is called again - after a timeout, a lost save of
\* the answer, a restart, with another amount - it moves money once, and the
\* amount that was persisted before anything was sent.  The amount alone may be
\* another one when the operation could not be read or stored: it is then bound
\* in a memory that a restart forgets (reserve_withdrawal, save_withdrawal).
OneTransferPerOperation ==
  \A m \in moved :
    /\ \A n \in moved : n.op = m.op => n = m
    /\ m.amount = op[m.op].amount \/ m.op \in lapsed

\* What the session's invoices cost stays within its budget, through pauses,
\* kills and restarts and uncertain payments, unless a tick was overtaken by a
\* later lease or ended unreported, or an administrator wrote back a
\* runtime_state that was out of date.  The agent's account and the check of
\* create_invoice, which does not count invoices under verification, keep it
\* only together.
BudgetCeiling ==
  orderly => Invoiced({g \in Generations : invoice[g].status \in {"verifying", "paid"}}) <= Budget

\* A session that the owner was told is stopped is not leased to a worker until
\* the owner starts it: stop_session says that it invalidates the lease and the
\* generation fence immediately.
StopEndsTheLeases ==
  [][(\E w \in Workers : Claim(w)) => ~stopped]_vars
=============================================================================
