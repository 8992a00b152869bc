------------------------- MODULE SessionLeaseProofs -------------------------
(***************************************************************************)
(* What the run session_leases shows for two workers and two leases holds  *)
(* for all: types, the fence of the checkpoints, that killed stays killed, *)
(* the owner's lock, one transfer for one withdrawal, and the budget.      *)
(***************************************************************************)
EXTENDS SessionLease, Sums, TLAPS

\* The assumptions on the constants, as one fact to cite.
LEMMA ConstantsOK ==
  /\ Prices \subseteq Nat \ {0}
  /\ Budget \in Nat /\ MaxGeneration \in Nat
  /\ Nobody \notin Workers \cup Calls /\ Unbound \notin Amounts
BY SetsAssumption, BoundsAssumption, NamesAssumption

-----------------------------------------------------------------------------
(***************************************************************************)
(* Types.                                                                  *)
(***************************************************************************)

\* The values a row, a tick, an invoice and a control start with are well typed.
LEMMA TypeOfNone ==
  /\ NoTick \in Ticks /\ NoInvoice \in Invoices /\ NoControl \in Controls
  /\ NoCall \in [at : {"new", "sent", "over"}, op : Operations \cup {Nobody},
                 amount : Amounts \cup {Unbound}]
  /\ NoOperation \in Bindings
<1>1. NoTick \in Ticks
  BY DEF NoTick, Ticks, Phases
<1>2. NoInvoice \in Invoices
  BY DEF NoInvoice, Invoices
<1>3. NoControl \in Controls
  BY DEF NoControl, Controls, Phases, Statuses
<1> QED
  BY <1>1, <1>2, <1>3 DEF NoCall, NoOperation, Bindings

\* The initial state is well typed.
LEMMA TypeInit == Init => TypeOK
<1> SUFFICES ASSUME Init PROVE TypeOK
  OBVIOUS
<1>1. row \in Rows
  BY DEF Init, Rows, Statuses, Phases
<1> QED
  BY <1>1, TypeOfNone DEF Init, TypeOK

\* A tick that goes on keeps the types.
LEMMA TypeGoes ==
  ASSUME TypeOK, NEW w \in Workers,
         NEW at \in {"start", "ask", "create", "pay", "report"}, NEW phase \in Phases,
         Goes(w, at, phase), invoice' \in [Generations -> Invoices]
  PROVE  TypeOK'
<1>1. tick[w] \in Ticks
  BY DEF TypeOK
<1>2. [tick[w] EXCEPT !.at = at, !.phase = phase, !.price = IF at = "report" THEN 0 ELSE @] \in Ticks
  BY <1>1 DEF Ticks
<1>3. tick' = [tick EXCEPT ![w] = [tick[w] EXCEPT !.at = at, !.phase = phase,
                                           !.price = IF at = "report" THEN 0 ELSE @]]
  BY DEF Goes, TypeOK
<1>4. tick' \in [Workers -> Ticks]
  BY <1>2, <1>3 DEF TypeOK
<1> QED
  BY <1>4 DEF TypeOK, Goes, transfer, history

\* A step of a tick keeps the types.
LEMMA TypeTick ==
  ASSUME TypeOK, NEW w \in Workers, Tick(w)
  PROVE  TypeOK'
<1>0. tick[w] \in Ticks /\ row \in Rows
  BY DEF TypeOK
<1>1. CASE Claim(w)
  <2>0. row.gen + 1 \in Nat
    BY <1>0 DEF Rows
  <2>1. [row EXCEPT !.status = "running", !.worker = w, !.lease = "live", !.gen = @ + 1] \in Rows
    BY <1>0, <2>0 DEF Rows, Statuses
  <2>2. row' \in Rows
    BY <1>1, <2>1 DEF Claim
  <2>3. [NoTick EXCEPT !.at = "start", !.gen = row'.gen,
                       !.phase = row.phase, !.spent = row.spent] \in Ticks
    BY <1>0, <2>2 DEF NoTick, Ticks, Rows
  <2>4. tick' \in [Workers -> Ticks]
    BY <1>1, <2>3 DEF TypeOK, Claim
  <2>5. orderly' \in BOOLEAN
    BY <1>1 DEF TypeOK, Claim
  <2> QED
    BY <1>1, <2>2, <2>4, <2>5 DEF TypeOK, Claim, transfer
<1>2. CASE Heartbeat(w)
  <2>1. row' \in Rows
    BY <1>0, <1>2 DEF Heartbeat, Rows
  <2> QED
    BY <1>2, <2>1 DEF TypeOK, Heartbeat, transfer, history
<1>3. CASE EndsWithoutPurchase(w)
  <2>1. PICK p \in Phases : Goes(w, "report", p)
    BY <1>0, <1>3 DEF EndsWithoutPurchase, Ticks
  <2> QED
    BY <1>3, <2>1, TypeGoes DEF TypeOK, EndsWithoutPurchase
<1>4. ASSUME NEW p \in Prices, Choose(w, p)
      PROVE  TypeOK'
  <2>1. [tick[w] EXCEPT !.at = "ask", !.price = p] \in Ticks
    BY <1>0, ConstantsOK DEF Ticks
  <2>2. tick' = [tick EXCEPT ![w] = [tick[w] EXCEPT !.at = "ask", !.price = p]]
    BY <1>4 DEF Choose, TypeOK
  <2>3. tick' \in [Workers -> Ticks]
    BY <2>1, <2>2 DEF TypeOK
  <2> QED
    BY <1>4, <2>3 DEF TypeOK, Choose, transfer, history
<1>5. CASE Allow(w) \/ Refuse(w)
  BY <1>5, TypeGoes DEF TypeOK, Allow, Refuse, Phases
<1>6. CASE Create(w)
  <2>1. [status |-> "pending", amount |-> tick[w].price] \in Invoices
    BY <1>0 DEF Invoices, Ticks
  <2>2. invoice' \in [Generations -> Invoices]
    BY <1>6, <2>1 DEF TypeOK, Create
  <2> QED
    BY <1>6, <2>2, TypeGoes DEF Create, Phases
<1>7. CASE Pay(w)
  <2>1. \A g \in Generations : [invoice[g] EXCEPT !.status = "verifying"] \in Invoices
    BY DEF TypeOK, Invoices
  <2>2. invoice' \in [Generations -> Invoices]
    BY <1>7, <2>1 DEF TypeOK, Pay
  <2> QED
    BY <1>7, <2>2 DEF TypeOK, Pay, transfer, history
<1>8. CASE Bought(w)
  <2>1. PICK phase \in {"running", "completed"} :
          tick' = [tick EXCEPT ![w].at = "report", ![w].phase = phase, ![w].price = 0,
                               ![w].spent = @ + tick[w].price]
    BY <1>8 DEF Bought
  <2>0. tick[w].spent + tick[w].price \in Nat
    BY <1>0 DEF Ticks
  <2>2. [tick[w] EXCEPT !.at = "report", !.phase = phase, !.price = 0,
                        !.spent = @ + tick[w].price] \in Ticks
    BY <1>0, <2>0 DEF Ticks, Phases
  <2>3. tick' \in [Workers -> Ticks]
    BY <2>1, <2>2 DEF TypeOK
  <2> QED
    BY <1>8, <2>3 DEF TypeOK, Bought, transfer, history
<1>9. CASE Uncertain(w)
  BY <1>9, TypeGoes DEF TypeOK, Uncertain, Phases
<1>10. CASE Checkpoint(w)
  <2>1. Reported(w) \in Rows
    BY <1>0 DEF Reported, Rows, Ticks, Phases, Statuses, Terminal
  <2>2. tick' \in [Workers -> Ticks]
    BY <1>10, TypeOfNone DEF TypeOK, Checkpoint
  <2> QED
    BY <1>10, <2>1, <2>2 DEF TypeOK, Checkpoint, transfer, history
<1>11. CASE EndsUnreported(w)
  <2>1. tick' \in [Workers -> Ticks]
    BY <1>11, TypeOfNone DEF TypeOK, EndsUnreported
  <2> QED
    BY <1>11, <2>1 DEF TypeOK, EndsUnreported, transfer
<1> QED
  BY <1>1, <1>2, <1>3, <1>4, <1>5, <1>6, <1>7, <1>8, <1>9, <1>10, <1>11 DEF Tick

\* An administrator's step keeps the types.
LEMMA TypeControl ==
  ASSUME TypeOK, NEW a \in Admins, Control(a)
  PROVE  TypeOK'
<1>0. row \in Rows /\ control[a] \in Controls
  BY DEF TypeOK
<1>1. ASSUME NEW action \in {"pause", "resume", "kill"}, Load(a, action)
      PROVE  TypeOK'
  <2>1. [action |-> action, status |-> row.status, phase |-> row.phase, spent |-> row.spent]
          \in Controls
    BY <1>0 DEF Rows, Controls
  <2>2. control' \in [Admins -> Controls]
    BY <1>1, <2>1 DEF TypeOK, Load
  <2> QED
    BY <1>1, <2>2 DEF TypeOK, Load, transfer, history
<1>2. CASE Apply(a)
  <2>1. control' \in [Admins -> Controls]
    BY <1>2, TypeOfNone DEF TypeOK, Apply
  <2>2. NextStatus(control[a].action) \in Statuses
    BY <1>0, <1>2 DEF Apply, NextStatus, Controls, Statuses, Terminal
  <2>3. [row EXCEPT !.status = NextStatus(control[a].action), !.phase = control[a].phase,
                    !.spent = control[a].spent] \in Rows
    BY <1>0, <2>2 DEF Rows, Controls
  <2>4. row' \in Rows
    BY <1>0, <1>2, <2>3 DEF Apply
  <2>5. orderly' \in BOOLEAN
    BY <1>2 DEF TypeOK, Apply
  <2> QED
    BY <1>2, <2>1, <2>4, <2>5 DEF TypeOK, Apply, transfer
<1> QED
  BY <1>1, <1>2 DEF Control

\* A call that is over keeps the types.
LEMMA TypeLeaves ==
  ASSUME TypeOK, NEW c \in Calls, Leaves(c)
  PROVE  /\ call' \in [Calls -> [at : {"new", "sent", "over"}, op : Operations \cup {Nobody},
                                 amount : Amounts \cup {Unbound}]]
         /\ lock' \in Calls \cup {Nobody}
BY DEF TypeOK, Leaves, NoCall

\* A step of a withdrawal keeps the types.
LEMMA TypeWithdraw ==
  ASSUME TypeOK, NEW c \in Calls, Withdraw(c)
  PROVE  TypeOK'
<1>1. ASSUME NEW o \in Operations, NEW amount \in Amounts, Submit(c, o, amount)
      PROVE  TypeOK'
  <2>1. \A table \in [Operations -> Bindings] : Bound(table, o, amount) \in [Operations -> Bindings]
    BY DEF Bound, Bindings
  <2>2. PICK operation : Reserved(o, amount, operation)
    BY <1>1 DEF Submit
  <2>3. /\ op' \in [Operations -> Bindings] /\ kept' \in [Operations -> Bindings]
        /\ lapsed' \subseteq Operations
    BY <2>1, <2>2 DEF Reserved, TypeOK
  <2>4. Transfer(c, o, amount) \in Transfers
    BY DEF Transfer, Key, Transfers
  <2>5. /\ call' \in [Calls -> [at : {"new", "sent", "over"}, op : Operations \cup {Nobody},
                                amount : Amounts \cup {Unbound}]]
        /\ lock' \in Calls \cup {Nobody}
        /\ sent' \subseteq Transfers
    BY <1>1, <2>4, TypeLeaves DEF TypeOK, Submit
  <2> QED
    BY <1>1, <2>3, <2>5 DEF TypeOK, Submit, runtime, history
<1>2. CASE Answered(c)
  <2> DEFINE answer == [amount |-> call[c].amount, answered |-> TRUE]
  <2>1. answer \in Bindings
    BY DEF TypeOK, Bindings
  <2>2. /\ op' \in {op, [op EXCEPT ![call[c].op] = answer]}
        /\ kept' = [kept EXCEPT ![call[c].op] = answer]
    BY <1>2 DEF Answered
  <2>3. op' \in [Operations -> Bindings] /\ kept' \in [Operations -> Bindings]
    <3> HIDE DEF answer
    <3> QED
      BY <2>1, <2>2 DEF TypeOK
  <2> QED
    BY <1>2, <2>3, TypeLeaves DEF TypeOK, Answered, runtime, history
<1>3. CASE Unanswered(c)
  BY <1>3, TypeLeaves DEF TypeOK, Unanswered, runtime, history
<1> QED
  BY <1>1, <1>2, <1>3 DEF Withdraw

\* Every other step keeps the types.
LEMMA TypeNext == TypeOK /\ [Next]_vars => TypeOK'
<1> SUFFICES ASSUME TypeOK, [Next]_vars PROVE TypeOK'
  OBVIOUS
<1>0. row \in Rows
  BY DEF TypeOK
<1>1. CASE \E w \in Workers : Tick(w)
  BY <1>1, TypeTick
<1>2. CASE \E a \in Admins : Control(a)
  BY <1>2, TypeControl
<1>3. CASE \E c \in Calls : Withdraw(c)
  BY <1>3, TypeWithdraw
<1>4. CASE Expire \/ Reclaim
  <2>1. row' \in Rows
    BY <1>0, <1>4 DEF Expire, Reclaim, Rows
  <2> QED
    BY <1>4, <2>1 DEF TypeOK, Expire, Reclaim, transfer, history
<1>5. ASSUME NEW g \in Generations, Ruled(g)
      PROVE  TypeOK'
  <2>1. \A status \in {"paid", "rejected"} : [invoice[g] EXCEPT !.status = status] \in Invoices
    BY DEF TypeOK, Invoices
  <2>2. invoice' \in [Generations -> Invoices]
    BY <1>5, <2>1 DEF TypeOK, Ruled
  <2> QED
    BY <1>5, <2>2 DEF TypeOK, Ruled, transfer, history
<1>6. CASE Start
  <2>1. row' \in Rows
    BY <1>0, <1>6 DEF Start, Rows, Statuses
  <2> QED
    BY <1>6, <2>1 DEF TypeOK, Start, transfer
<1>7. CASE Stop
  BY <1>7 DEF TypeOK, Stop, runtime, transfer
<1>8. ASSUME NEW t \in sent, Relay(t) \/ RelayFails(t)
      PROVE  TypeOK'
  BY <1>8 DEF TypeOK, Relay, RelayFails, runtime, history
<1>9. CASE Restart
  BY <1>9, TypeOfNone DEF TypeOK, Restart, NoCall, history
<1>10. CASE UNCHANGED vars
  BY <1>10 DEF TypeOK, vars, runtime, transfer, history
<1> QED
  BY <1>1, <1>2, <1>3, <1>4, <1>5, <1>6, <1>7, <1>8, <1>9, <1>10 DEF Next

\* Every reachable state is well typed, for any number of workers,
\* administrators and calls (the shape of the row, the ticks and the tables).
THEOREM TypeCorrect == Spec => []TypeOK
BY TypeInit, TypeNext, PTL DEF Spec

-----------------------------------------------------------------------------
(***************************************************************************)
(* The fence: ticks are never newer than the row, so that the one whose    *)
(* generation is the row's is the newest.                                  *)
(***************************************************************************)

TicksAreOld == \A w \in Workers : tick[w].gen <= row.gen

\* The initial state has no ticks.
LEMMA OldInit == Init => TicksAreOld
BY ConstantsOK DEF Init, TicksAreOld, NoTick

\* Only a lease starts a tick, and it raises the row's generation; nothing lowers it.
LEMMA OldNext == TypeOK /\ TicksAreOld /\ [Next]_vars => TicksAreOld'
<1> SUFFICES ASSUME TypeOK, TicksAreOld, [Next]_vars PROVE TicksAreOld'
  OBVIOUS
<1>0. row \in Rows /\ tick \in [Workers -> Ticks]
  BY DEF TypeOK
<1>1. ASSUME NEW w \in Workers, Claim(w)
      PROVE  TicksAreOld'
  <2>1. row'.gen = row.gen + 1
    BY <1>0, <1>1 DEF Claim, Rows
  <2>2. \A v \in Workers : tick'[v].gen = tick[v].gen \/ tick'[v].gen = row'.gen
    BY <1>0, <1>1 DEF Claim, NoTick
  <2>3. \A v \in Workers : tick[v].gen \in Nat /\ row.gen \in Nat
    BY <1>0 DEF Rows, Ticks
  <2> QED
    BY <2>1, <2>2, <2>3 DEF TicksAreOld
<1>2. ASSUME NEW w \in Workers, Tick(w), ~Claim(w)
      PROVE  TicksAreOld'
  <2>1. row'.gen = row.gen
    BY <1>0, <1>2 DEF Tick, Heartbeat, EndsWithoutPurchase, Choose, Allow, Refuse, Create, Pay,
                      Bought, Uncertain, Goes, Checkpoint, Reported, EndsUnreported, Rows
  <2>2. \A v \in Workers : tick'[v].gen \in {tick[v].gen, 0}
    <3>1. ASSUME NEW at, NEW phase, Goes(w, at, phase)
          PROVE  \A v \in Workers : tick'[v].gen = tick[v].gen
      BY <1>0, <3>1 DEF Goes, Ticks
    <3>2. CASE EndsWithoutPurchase(w)
      BY <3>1, <3>2 DEF EndsWithoutPurchase
    <3>3. CASE Allow(w) \/ Refuse(w) \/ Create(w) \/ Uncertain(w)
      BY <3>1, <3>3 DEF Allow, Refuse, Create, Uncertain
    <3>4. CASE Bought(w) \/ \E p \in Prices : Choose(w, p)
      BY <1>0, <3>4 DEF Bought, Choose, Ticks
    <3>5. CASE Heartbeat(w) \/ Pay(w) \/ Checkpoint(w) \/ EndsUnreported(w)
      BY <1>0, <3>5 DEF Heartbeat, Pay, Checkpoint, EndsUnreported, NoTick
    <3> QED
      BY <1>2, <3>2, <3>3, <3>4, <3>5 DEF Tick
  <2>3. \A v \in Workers : tick[v].gen \in Nat /\ row.gen \in Nat
    BY <1>0 DEF Rows, Ticks
  <2> QED
    BY <2>1, <2>2, <2>3 DEF TicksAreOld
<1>3. CASE tick' = tick /\ row'.gen = row.gen
  BY <1>3 DEF TicksAreOld
<1>4. ASSUME ~\E w \in Workers : Tick(w)
      PROVE  tick' = tick /\ row'.gen = row.gen
  BY <1>0, <1>4 DEF Next, vars, runtime, Expire, Reclaim, Ruled, Start, Stop, Control, Load, Apply,
                    Withdraw, Submit, Answered, Unanswered, Relay, RelayFails, Restart, Rows
<1> QED
  BY <1>1, <1>2, <1>3, <1>4

\* A checkpoint is accepted only of a tick with the row's generation: no worker
\* then runs a tick of a later lease (checkpoint_session_tick's fence).
THEOREM NewestWins == Spec => NewestTickWins
<1>1. TicksAreOld /\ [Next]_vars =>
        [\A w \in Workers : Checkpoint(w) =>
           \A v \in Workers : Live(v) => tick[v].gen <= tick[w].gen]_vars
  BY DEF TicksAreOld, Checkpoint, Fenced
<1> QED
  BY <1>1, TypeInit, TypeNext, OldInit, OldNext, PTL DEF Spec, NewestTickWins

-----------------------------------------------------------------------------
(***************************************************************************)
(* What was killed.                                                        *)
(***************************************************************************)

\* No administrator's call is under way on a session that it read as stopped.
NoneLoadedStopped ==
  \A a \in Admins : control[a].action # "none" => control[a].status # "stopped"

\* The initial state has no calls.
LEMMA LoadedInit == Init => NoneLoadedStopped
BY DEF Init, NoneLoadedStopped, NoControl

\* No action can be decided on a stopped session.
LEMMA LoadedNext == TypeOK /\ NoneLoadedStopped /\ [Next]_vars => NoneLoadedStopped'
<1> SUFFICES ASSUME TypeOK, NoneLoadedStopped, [Next]_vars PROVE NoneLoadedStopped'
  OBVIOUS
<1>0. control \in [Admins -> Controls]
  BY DEF TypeOK
<1>1. ASSUME NEW a \in Admins, NEW action \in {"pause", "resume", "kill"}, Load(a, action)
      PROVE  NoneLoadedStopped'
  <2>1. row.status # "stopped"
    BY <1>1 DEF Load, Terminal
  <2> QED
    BY <1>0, <1>1, <2>1 DEF Load, NoneLoadedStopped
<1>2. ASSUME NEW a \in Admins, Apply(a)
      PROVE  NoneLoadedStopped'
  BY <1>0, <1>2 DEF Apply, NoControl, NoneLoadedStopped
<1>3. CASE Restart
  BY <1>3 DEF Restart, NoControl, NoneLoadedStopped
<1>4. CASE UNCHANGED control
  BY <1>4 DEF NoneLoadedStopped
<1>5. ASSUME ~\E a \in Admins : Control(a), ~Restart
      PROVE  UNCHANGED control
  BY <1>5, ZenonT(60) DEF Next, vars, runtime, Tick, Claim, Heartbeat, EndsWithoutPurchase, Choose, Allow, Refuse,
              Create, Pay, Bought, Uncertain, Goes, Checkpoint, EndsUnreported, Expire, Reclaim, Ruled,
              Start, Stop, Withdraw, Submit, Answered, Unanswered, Relay, RelayFails
<1> QED
  BY <1>1, <1>2, <1>3, <1>4, <1>5 DEF Control

\* A stopped session runs again only after its owner's start: leases need
\* another status, checkpoints are fenced, and an administrator's call must find
\* the status that it read.
THEOREM KilledStays == Spec => KilledStaysKilled
<1>1. TypeOK /\ NoneLoadedStopped /\ [Next]_vars =>
        [row.status = "stopped" /\ row'.status # "stopped" => Start]_vars
  <2> SUFFICES ASSUME TypeOK, NoneLoadedStopped, Next,
                      row.status = "stopped", row'.status # "stopped", ~Start
               PROVE  FALSE
    OBVIOUS
  <2>0. row \in Rows
    BY DEF TypeOK
  <2>1. ASSUME NEW w \in Workers, Tick(w)
        PROVE  FALSE
    BY <2>0, <2>1 DEF Tick, Claim, Claimable, Heartbeat, EndsWithoutPurchase, Choose, Allow, Refuse,
                      Create, Pay, Bought, Uncertain, Goes, Checkpoint, Fenced, Terminal,
                      EndsUnreported, Rows
  <2>2. ASSUME NEW a \in Admins, Apply(a)
        PROVE  FALSE
    BY <2>2 DEF Apply, NoneLoadedStopped
  <2> QED
    BY <2>0, <2>1, <2>2 DEF Next, Control, Load, Expire, Reclaim, Ruled, Stop, Withdraw, Submit,
         Answered, Unanswered, Relay, RelayFails, Restart, runtime, Rows
<1> QED
  BY <1>1, TypeInit, TypeNext, LoadedInit, LoadedNext, PTL DEF Spec, KilledStaysKilled

-----------------------------------------------------------------------------
(***************************************************************************)
(* Withdrawals.                                                            *)
(***************************************************************************)

Withdrawing == \/ \E c \in Calls : Withdraw(c)
               \/ \E t \in sent : Relay(t) \/ RelayFails(t)
               \/ Restart

\* Withdrawals do not touch the row, and nothing else touches the withdrawals.
LEMMA Apart ==
  ASSUME [Next]_vars
  PROVE  IF Withdrawing THEN row' = row ELSE UNCHANGED transfer
<1>1. ASSUME NEW w \in Workers, Tick(w)
      PROVE  UNCHANGED transfer
  BY <1>1 DEF Tick, Claim, Heartbeat, EndsWithoutPurchase, Choose, Allow, Refuse, Create, Pay,
              Bought, Uncertain, Goes, Checkpoint, EndsUnreported
<1>2. ASSUME NEW a \in Admins, Control(a)
      PROVE  UNCHANGED transfer
  BY <1>2 DEF Control, Load, Apply
<1>3. ASSUME Expire \/ Reclaim \/ Start \/ Stop \/ UNCHANGED vars \/ \E g \in Generations : Ruled(g)
      PROVE  UNCHANGED transfer
  BY <1>3 DEF Expire, Reclaim, Start, Stop, Ruled, vars
<1>4. ASSUME Withdrawing
      PROVE  row' = row
  BY <1>4 DEF Withdrawing, Withdraw, Submit, Answered, Unanswered, Relay, RelayFails, Restart, runtime
<1> QED
  BY <1>1, <1>2, <1>3, <1>4 DEF Withdrawing, Next

\* A withdrawal under way holds the owner's lock, and the session is not queued.
LockHeld == \A c \in Calls : call[c].at = "sent" => lock = c /\ row.status # "queued"

\* The initial state has no withdrawals.
LEMMA LockInit == Init => LockHeld
BY DEF Init, LockHeld, NoCall

\* Only a start puts a session into the queue.
LEMMA QueuedByStart ==
  ASSUME TypeOK, [Next]_vars, row.status # "queued", ~Start
  PROVE  row'.status # "queued"
<1>0. row \in Rows /\ tick \in [Workers -> Ticks] /\ control \in [Admins -> Controls]
  BY DEF TypeOK
<1>1. ASSUME NEW w \in Workers, Checkpoint(w)
      PROVE  row'.status # "queued"
  BY <1>0, <1>1 DEF Checkpoint, Reported, Rows, Ticks, Phases
<1>2. ASSUME NEW w \in Workers, Tick(w), ~Checkpoint(w)
      PROVE  row'.status # "queued"
  BY <1>0, <1>2 DEF Tick, Claim, Claimable, Heartbeat, EndsWithoutPurchase, Choose, Allow, Refuse,
                    Create, Pay, Bought, Uncertain, Goes, EndsUnreported, Rows
<1>3. ASSUME NEW a \in Admins, Control(a)
      PROVE  row'.status # "queued"
  BY <1>0, <1>3 DEF Control, Load, Apply, NextStatus, Rows, Controls
<1>4. ASSUME Expire \/ Reclaim \/ Stop \/ UNCHANGED vars \/ \E g \in Generations : Ruled(g)
      PROVE  row'.status # "queued"
  BY <1>0, <1>4 DEF Expire, Reclaim, Stop, Ruled, vars, runtime, Rows
<1>5. ASSUME Withdrawing
      PROVE  row'.status # "queued"
  BY <1>5, Apart
<1> QED
  BY <1>1, <1>2, <1>3, <1>4, <1>5 DEF Next, Withdrawing

\* The lock is held by one call at a time, and a start needs it.
LEMMA LockNext == TypeOK /\ LockHeld /\ [Next]_vars => LockHeld'
<1> SUFFICES ASSUME TypeOK, LockHeld, [Next]_vars PROVE LockHeld'
  OBVIOUS
<1>0. /\ call \in [Calls -> [at : {"new", "sent", "over"}, op : Operations \cup {Nobody},
                             amount : Amounts \cup {Unbound}]]
      /\ \A c \in Calls : c # Nobody
  BY ConstantsOK DEF TypeOK
<1>1. ASSUME NEW c \in Calls, NEW o \in Operations, NEW amount \in Amounts, Submit(c, o, amount)
      PROVE  LockHeld'
  <2>1. \A d \in Calls : call[d].at # "sent"
    BY <1>0, <1>1 DEF Submit, LockHeld
  <2>2. row'.status # "queued"
    BY <1>1 DEF Submit, runtime
  <2>3. \A d \in Calls : call'[d].at = "sent" => d = c /\ lock' = c
    BY <1>0, <1>1, <2>1 DEF Submit, Leaves, NoCall
  <2> QED
    BY <2>2, <2>3 DEF LockHeld
<1>2. ASSUME NEW c \in Calls, Answered(c) \/ Unanswered(c)
      PROVE  LockHeld'
  <2>1. lock = c
    BY <1>2 DEF Answered, Unanswered, LockHeld
  <2>2. \A d \in Calls : call'[d].at # "sent"
    BY <1>0, <1>2, <2>1 DEF Answered, Unanswered, Leaves, NoCall, LockHeld
  <2> QED
    BY <2>2 DEF LockHeld
<1>3. ASSUME NEW t \in sent, Relay(t) \/ RelayFails(t)
      PROVE  LockHeld'
  BY <1>3 DEF Relay, RelayFails, runtime, LockHeld
<1>4. CASE Restart
  BY <1>0, <1>4 DEF Restart, NoCall, LockHeld
<1>5. CASE Start
  <2>1. \A c \in Calls : call[c].at # "sent"
    BY <1>0, <1>5 DEF Start, LockHeld
  <2> QED
    BY <1>5, <2>1 DEF Start, transfer, LockHeld
<1>6. CASE ~Withdrawing /\ ~Start
  BY <1>6, Apart, QueuedByStart DEF transfer, LockHeld
<1> QED
  BY <1>1, <1>2, <1>3, <1>4, <1>5, <1>6 DEF Withdrawing, Withdraw

\* While a withdrawal is submitted the session is not put in the queue
\* (owner_ops_lock in withdraw_funds, start_session and resume_session).
THEOREM NotQueued == Spec => []NotQueuedWhileWithdrawing
<1>1. LockHeld => NotQueuedWhileWithdrawing
  BY DEF LockHeld, NotQueuedWhileWithdrawing
<1> QED
  BY <1>1, TypeInit, TypeNext, LockInit, LockNext, PTL DEF Spec

\* An operation that was always read and stored is bound to this amount.
BoundTo(o, amount) == o \in lapsed \/ op[o].amount = amount

\* What was sent or moved, or a call waits for, is what its operation is bound
\* to, under its key, and Circle made one transfer for one key.
SentAsBound ==
  /\ \A t \in sent \cup moved : t.key = t.op /\ BoundTo(t.op, t.amount)
  /\ \A m, n \in moved : m.key = n.key => m = n
  /\ \A c \in Calls : call[c].at = "sent" =>
       call[c].op \in Operations /\ call[c].amount \in Amounts /\ BoundTo(call[c].op, call[c].amount)

\* The initial state has none.
LEMMA SentInit == Init => SentAsBound
BY DEF Init, SentAsBound, NoCall

\* A step that keeps the amounts operations are bound to, but for those that
\* lapsed, keeps what is bound to them.
LEMMA BoundStays ==
  ASSUME TypeOK, \A o \in Operations : op[o].amount # Unbound => op'[o].amount = op[o].amount,
         lapsed \subseteq lapsed', NEW o \in Operations, NEW amount \in Amounts, BoundTo(o, amount)
  PROVE  BoundTo(o, amount)'
BY ConstantsOK DEF BoundTo

\* An operation once bound stays bound to its amount, so what is sent later
\* agrees with what was sent before.
LEMMA SentNext == TypeOK /\ SentAsBound /\ [Next]_vars => SentAsBound'
<1> SUFFICES ASSUME TypeOK, SentAsBound, [Next]_vars PROVE SentAsBound'
  OBVIOUS
<1>0. /\ op \in [Operations -> Bindings]
      /\ sent \subseteq Transfers /\ moved \subseteq Transfers
      /\ \A t \in sent \cup moved : t.op \in Operations /\ t.amount \in Amounts
  BY DEF TypeOK, Transfers
<1>1. ASSUME NEW c \in Calls, NEW o \in Operations, NEW amount \in Amounts, Submit(c, o, amount)
      PROVE  SentAsBound'
  <2>1. PICK operation :
          /\ Reserved(o, amount, operation)
          /\ IF operation.amount # amount \/ operation.answered
             THEN Leaves(c) /\ UNCHANGED sent
             ELSE /\ lock' = c
                  /\ call' = [call EXCEPT ![c] = [at |-> "sent", op |-> o, amount |-> amount]]
                  /\ sent' = sent \cup {Transfer(c, o, amount)}
    BY <1>1 DEF Submit
  <2>2. \A q \in Operations : op[q].amount # Unbound => op'[q].amount = op[q].amount
    BY <1>0, <2>1 DEF Reserved, Bound
  <2>3. lapsed \subseteq lapsed'
    BY <2>1 DEF Reserved
  <2>4. \A t \in sent \cup moved : t.key = t.op /\ BoundTo(t.op, t.amount)'
    BY <1>0, <2>2, <2>3, BoundStays DEF SentAsBound
  <2>5. moved' = moved /\ \A m, n \in moved : m.key = n.key => m = n
    BY <1>1 DEF Submit, SentAsBound
  <2>6. \A d \in Calls : call[d].at = "sent" =>
          /\ call[d].op \in Operations /\ call[d].amount \in Amounts
          /\ call[d].op \in lapsed' \/ op'[call[d].op].amount = call[d].amount
    <3>1. \A q \in Operations, a \in Amounts : BoundTo(q, a) => BoundTo(q, a)'
      BY <2>2, <2>3, BoundStays
    <3>2. \A q \in Operations, a \in Amounts :
            BoundTo(q, a) => q \in lapsed' \/ op'[q].amount = a
      BY <3>1 DEF BoundTo
    <3> QED
      BY <3>2 DEF SentAsBound
  <2>7. CASE operation.amount # amount \/ operation.answered
    <3>1. /\ call' = [call EXCEPT ![c] = [NoCall EXCEPT !.at = "over"]]
          /\ sent' = sent
      BY <2>1, <2>7 DEF Leaves
    <3>2. \A d \in Calls : call'[d].at = "sent" => call'[d] = call[d]
      BY <3>1 DEF TypeOK, NoCall
    <3> QED
      BY <2>4, <2>5, <2>6, <3>1, <3>2 DEF SentAsBound, BoundTo
  <2>8. CASE ~(operation.amount # amount \/ operation.answered)
    <3>1. /\ call' = [call EXCEPT ![c] = [at |-> "sent", op |-> o, amount |-> amount]]
          /\ sent' = sent \cup {Transfer(c, o, amount)}
      BY <2>1, <2>8
    <3>2. BoundTo(o, amount)'
      BY <2>1, <2>8 DEF Reserved, BoundTo
    <3>3. \A t \in sent' \cup moved' : t.key = t.op /\ BoundTo(t.op, t.amount)'
      BY <2>4, <2>5, <3>1, <3>2 DEF Transfer, Key
    <3>4. \A d \in Calls :
            call'[d] = IF d = c THEN [at |-> "sent", op |-> o, amount |-> amount] ELSE call[d]
      BY <3>1 DEF TypeOK
    <3> QED
      BY <2>5, <2>6, <3>2, <3>3, <3>4 DEF SentAsBound, BoundTo
  <2> QED
    BY <2>7, <2>8
<1>2. ASSUME NEW c \in Calls, Answered(c)
      PROVE  SentAsBound'
  <2>1. /\ call[c].op \in Operations /\ call[c].amount \in Amounts
        /\ BoundTo(call[c].op, call[c].amount)
    BY <1>2 DEF Answered, SentAsBound
  <2>2. /\ op' \in {op, [op EXCEPT ![call[c].op] = [amount |-> call[c].amount, answered |-> TRUE]]}
        /\ call' = [call EXCEPT ![c] = [NoCall EXCEPT !.at = "over"]]
        /\ UNCHANGED <<sent, moved, lapsed>>
    BY <1>2 DEF Answered, Leaves
  <2>3. \A q \in Operations : q \in lapsed \/ op'[q].amount = op[q].amount
    BY <1>0, <2>1, <2>2 DEF BoundTo
  <2>4. \A q \in Operations, amount \in Amounts : BoundTo(q, amount) => BoundTo(q, amount)'
    BY <2>2, <2>3 DEF BoundTo
  <2>5. \A d \in Calls : call'[d].at = "sent" => call'[d] = call[d]
    BY <2>2 DEF TypeOK, NoCall
  <2>6. \A d \in Calls : call'[d].at = "sent" =>
          /\ call'[d].op \in Operations /\ call'[d].amount \in Amounts
          /\ call'[d].op \in lapsed' \/ op'[call'[d].op].amount = call'[d].amount
    <3>1. \A q \in Operations, a \in Amounts :
            BoundTo(q, a) => q \in lapsed' \/ op'[q].amount = a
      BY <2>4 DEF BoundTo
    <3> QED
      BY <2>5, <3>1 DEF SentAsBound
  <2>7. \A t \in sent \cup moved : t.key = t.op /\ BoundTo(t.op, t.amount)'
    BY <1>0, <2>4 DEF SentAsBound
  <2> QED
    BY <2>2, <2>6, <2>7 DEF SentAsBound, BoundTo
<1>3. ASSUME NEW t \in sent, Relay(t)
      PROVE  SentAsBound'
  BY <1>3 DEF Relay, SentAsBound, BoundTo
<1>4. CASE (\E c \in Calls : Unanswered(c)) \/ (\E t \in sent : RelayFails(t)) \/ Restart
  <2>1. \A d \in Calls : call'[d].at = "sent" => call'[d] = call[d]
    BY <1>4 DEF Unanswered, Leaves, RelayFails, Restart, TypeOK, NoCall
  <2>2. UNCHANGED <<op, lapsed, moved>> /\ sent' \subseteq sent
    BY <1>4 DEF Unanswered, RelayFails, Restart
  <2> QED
    BY <2>1, <2>2 DEF SentAsBound, BoundTo
<1>5. CASE ~Withdrawing
  BY <1>5, Apart DEF transfer, SentAsBound, BoundTo
<1> QED
  BY <1>1, <1>2, <1>3, <1>4, <1>5 DEF Withdrawing, Withdraw

\* However often a withdrawal is called, it moves money once, and the amount it
\* was bound to unless that could not be read or stored (reserve_withdrawal and
\* the relayer's idempotency key).
THEOREM OneTransfer == Spec => []OneTransferPerOperation
<1>1. SentAsBound => OneTransferPerOperation
  BY DEF SentAsBound, BoundTo, OneTransferPerOperation
<1> QED
  BY <1>1, TypeInit, TypeNext, SentInit, SentNext, PTL DEF Spec

-----------------------------------------------------------------------------
(***************************************************************************)
(* The budget: the account that the row keeps between ticks, and the tick  *)
(* while one runs, covers what was sold.                                   *)
(***************************************************************************)

\* What a generation's invoice counts for, and what they all come to.
Cost == [g \in Generations |-> IF invoice[g].status \in {"verifying", "paid"}
                               THEN invoice[g].amount ELSE 0]
Total == SumOf(Cost, Generations)

\* What the tick of a worker knows of the purchases: nothing was bought with its
\* own generation before it pays, and what it believes is spent covers the rest.
TickAccount(w) ==
  LET t == tick[w] IN
  /\ Live(w) => t.gen = row.gen /\ t.gen \in Generations /\ \A v \in Workers : Live(v) => v = w
  /\ t.at \in {"start", "ask", "create"} => invoice[t.gen].status = "none"
  /\ t.at \in {"start", "report"} /\ t.phase = "running" => Total <= t.spent
  /\ t.at \in {"ask", "create"} => Total <= t.spent /\ t.spent + t.price <= Budget
  /\ t.at = "pay" => /\ Total <= t.spent + Cost[t.gen] /\ t.spent + t.price <= Budget
                     /\ invoice[t.gen].amount = t.price

Accounts ==
  orderly =>
    /\ row.gen >= 1 /\ Total <= Budget
    /\ (\A w \in Workers : ~Live(w)) /\ row.phase = "running" => Total <= row.spent
    /\ \A g \in Generations : g > row.gen => invoice[g].status = "none"
    /\ \A w \in Workers : TickAccount(w)

\* There are finitely many generations.
LEMMA GenerationsFinite == IsFiniteSet(Generations) /\ Generations \subseteq Nat
<1>1. Generations \subseteq Nat /\ Generations \subseteq 1..MaxGeneration
  BY ConstantsOK DEF Generations
<1>. QED
  <2>1. IsFiniteSet(1..MaxGeneration)
    BY ConstantsOK, FS_Interval
  <2>. QED
    BY <1>1, <2>1, FS_Subset

\* Costs are natural numbers, and so is their sum.
LEMMA CostType ==
  ASSUME TypeOK
  PROVE  (\A g \in Generations : Cost[g] \in Nat) /\ Total \in Nat
<1>1. \A g \in Generations : Cost[g] \in Nat
  BY DEF TypeOK, Invoices, Cost
<1>. QED
  BY <1>1, GenerationsFinite, SumType DEF Total

\* The same of the next state.
LEMMA CostTypePrime ==
  ASSUME TypeOK'
  PROVE  (\A g \in Generations : Cost'[g] \in Nat) /\ Total' \in Nat
<1>1. \A g \in Generations : Cost'[g] \in Nat
  BY DEF TypeOK, Invoices, Cost
<1>. QED
  BY <1>1, GenerationsFinite, SumType DEF Total

\* What the budget is compared with is that sum.
LEMMA TotalIs ==
  ASSUME TypeOK
  PROVE  Invoiced({g \in Generations : invoice[g].status \in {"verifying", "paid"}}) = Total
<1>. DEFINE Sold == {g \in Generations : invoice[g].status \in {"verifying", "paid"}}
            f == [g \in Generations |-> invoice[g].amount]
            P(it) == it = [s \in SUBSET Sold |-> IF s = {} THEN 0
                           ELSE LET x == CHOOSE x \in s : TRUE IN invoice[x].amount + it[s \ {x}]]
<1>1. \A it : IsSum(it, f, Sold) <=> P(it)
  <2>1. \A s \in SUBSET Sold : s # {} =>
          f[CHOOSE x \in s : TRUE] = invoice[CHOOSE x \in s : TRUE].amount
    OBVIOUS
  <2>. HIDE DEF f, Sold
  <2>. QED
    BY <2>1 DEF IsSum
<1>2. Invoiced(Sold) = (CHOOSE it : P(it))[Sold]
  BY DEF Invoiced, MapThenSumSet, MapThenFoldSet
<1>3. SumOf(f, Sold) = (CHOOSE it : IsSum(it, f, Sold))[Sold]
  BY DEF SumOf, MapThenSumSet, MapThenFoldSet, IsSum
<1>. HIDE DEF P
<1>4. Invoiced(Sold) = SumOf(f, Sold)
  BY <1>1, <1>2, <1>3
<1>5. SumOf(Cost, Generations) = SumOf(f, Sold)
  <2>1. \A g \in Generations : f[g] \in Nat /\ Cost[g] = IF g \in Sold THEN f[g] ELSE 0
    BY DEF TypeOK, Invoices, Cost
  <2>2. Sold \in SUBSET Generations /\ IsFiniteSet(Generations)
    BY GenerationsFinite
  <2>. HIDE DEF f, Sold
  <2>3. PICK c, e : c = Cost /\ e = f
    OBVIOUS
  <2>4. \A g \in Generations : e[g] \in Nat /\ c[g] = IF g \in Sold THEN e[g] ELSE 0
    BY <2>1, <2>3
  <2>5. SumOf(c, Generations) = SumOf(e, Sold)
    BY <2>2, <2>4, SumRestricted
  <2>. QED
    BY <2>3, <2>5
<1>. QED
  BY <1>4, <1>5 DEF Total

\* One invoice changes, and the total by as much.
LEMMA TotalChanges ==
  ASSUME TypeOK, TypeOK', NEW p \in Generations,
         \A g \in Generations : g # p => invoice'[g] = invoice[g]
  PROVE  /\ Total' + Cost[p] = Total + Cost'[p]
         /\ \A g \in Generations : g # p => Cost'[g] = Cost[g]
<1>1. \A g \in Generations : Cost[g] \in Nat /\ Cost'[g] \in Nat
  BY CostType, CostTypePrime
<1>2. \A g \in Generations : g # p => Cost'[g] = Cost[g]
  BY DEF Cost
<1>3. SumOf(Cost', Generations) + Cost[p] = SumOf(Cost, Generations) + Cost'[p]
  <2>1. IsFiniteSet(Generations)
    BY GenerationsFinite
  <2>. QED
    BY <1>1, <1>2, <2>1, SumChanges
<1>. QED
  BY <1>2, <1>3 DEF Total

\* No cost changes, and the total does not.
LEMMA TotalStays ==
  ASSUME TypeOK, invoice' = invoice
  PROVE  Total' = Total /\ Cost' = Cost
BY DEF Total, Cost

\* The initial account is empty.
LEMMA AccountsInit == Init => Accounts
<1>. SUFFICES ASSUME Init PROVE Accounts
  OBVIOUS
<1>1. TypeOK
  BY TypeInit
<1>2. \A g \in Generations : Cost[g] = 0 /\ invoice[g].status = "none"
  BY DEF Init, Cost, NoInvoice
<1>3. Total = 0
  <2>1. PICK c : c = Cost
    OBVIOUS
  <2>2. PICK z : z = [x \in {} |-> 0]
    OBVIOUS
  <2>3. PICK f : f = [g \in Generations |-> 0]
    OBVIOUS
  <2>4. \A g \in Generations : f[g] \in Nat /\ c[g] = IF g \in {} THEN f[g] ELSE 0
    BY <1>2, <2>1, <2>3
  <2>5. {} \in SUBSET Generations /\ IsFiniteSet(Generations)
    BY GenerationsFinite
  <2>6. SumOf(c, Generations) = SumOf(f, {})
    BY <2>4, <2>5, SumRestricted
  <2>. QED
    BY <2>1, <2>6, SumEmpty DEF Total
<1>4. row.gen = 1 /\ row.spent = 0 /\ \A w \in Workers : tick[w].at = "idle"
  BY DEF Init, NoTick
<1>. QED
  BY <1>2, <1>3, <1>4, ConstantsOK DEF Accounts, TickAccount, Live

\* A step that leaves the purchases, the ticks and the account in the row alone.
LEMMA AccountsStill ==
  ASSUME TypeOK, Accounts, invoice' = invoice, tick' = tick, row'.gen = row.gen,
         orderly' => orderly /\ row'.phase = row.phase /\ row'.spent = row.spent
  PROVE  Accounts'
<1>1. Total' = Total /\ Cost' = Cost
  BY TotalStays
<1>. QED
  BY <1>1 DEF Accounts, TickAccount, Live

\* A step of the one tick there is.
LEMMA AccountsOneTick ==
  ASSUME TypeOK, Accounts, NEW w \in Workers, Live(w), orderly' => orderly,
         \A v \in Workers : v # w => tick'[v] = tick[v],
         row'.gen = row.gen, Total' <= Budget,
         \A g \in Generations : g > row.gen => invoice'[g].status = "none",
         (~Live(w))' /\ row'.phase = "running" => Total' <= row'.spent,
         TickAccount(w)'
  PROVE  Accounts'
<1>. SUFFICES ASSUME orderly' PROVE Accounts'
  BY DEF Accounts
<1>1. \A v \in Workers : v # w => tick'[v].at = "idle"
  BY DEF Accounts, TickAccount, Live
<1>2. \A v \in Workers : TickAccount(v)'
  BY <1>1 DEF TickAccount, Live
<1>. QED
  BY <1>2 DEF Accounts

\* A tick that goes on without touching the purchases: before it pays it moves
\* towards the end of the tick, and once it stops paying its session fails.
LEMMA AccountsGoes ==
  ASSUME TypeOK, TypeOK', Accounts, NEW w \in Workers, Live(w),
         NEW at \in {"create", "report"}, NEW phase \in Phases, Goes(w, at, phase),
         invoice' = invoice,
         at = "create" => tick[w].at = "ask",
         phase = "running" => /\ tick[w].at \in {"start", "ask", "create"}
                              /\ tick[w].at = "start" => tick[w].phase = "running"
  PROVE  Accounts'
<1>. SUFFICES ASSUME orderly' PROVE Accounts'
  BY DEF Accounts
<1>1. orderly /\ orderly' /\ row' = row /\ TickAccount(w) /\ Total' = Total /\ Cost' = Cost
  BY TotalStays DEF Accounts, Goes, history
<1>2. tick[w] \in Ticks
  BY DEF TypeOK
<1>3. /\ tick'[w].at = at /\ tick'[w].phase = phase /\ tick'[w].gen = tick[w].gen
      /\ tick'[w].spent = tick[w].spent /\ (at = "create" => tick'[w].price = tick[w].price)
      /\ \A v \in Workers : v # w => tick'[v] = tick[v]
  BY <1>2 DEF Goes, TypeOK, Ticks
<1>4. TickAccount(w)'
  <2>1. /\ tick'[w].gen = row'.gen /\ tick'[w].gen \in Generations
        /\ \A v \in Workers : Live(v)' => v = w
    BY <1>1, <1>3 DEF TickAccount, Live
  <2>2. CASE at = "create"
    BY <1>1, <1>3, <2>1, <2>2 DEF TickAccount
  <2>3. CASE at = "report"
    BY <1>1, <1>3, <2>1, <2>3 DEF TickAccount
  <2>. QED
    BY <2>2, <2>3
<1>. QED
  BY <1>1, <1>3, <1>4, AccountsOneTick DEF Accounts, Live

\* A lease: the tick starts from the account in the row, which no other tick
\* is behind.
LEMMA AccountsClaim ==
  ASSUME TypeOK, TypeOK', Accounts, NEW w \in Workers, Claim(w)
  PROVE  Accounts'
<1>. SUFFICES ASSUME orderly' PROVE Accounts'
  BY DEF Accounts
<1>1. orderly /\ \A v \in Workers : tick[v].at = "idle"
  BY DEF Claim, Live
<1>2. Total' = Total /\ Cost' = Cost /\ invoice' = invoice
  BY TotalStays DEF Claim
<1>3. row \in Rows /\ tick \in [Workers -> Ticks] /\ MaxGeneration \in Nat
  BY ConstantsOK DEF TypeOK
<1>4. /\ row'.gen = row.gen + 1 /\ row'.phase = row.phase /\ row'.spent = row.spent
      /\ row.gen \in Nat /\ row.gen < MaxGeneration
  BY <1>3 DEF Claim, Rows
<1>5. \A g \in Generations : g \in Nat /\ (g > row.gen => invoice[g].status = "none")
  BY <1>1, GenerationsFinite DEF Accounts
<1>6. Total <= Budget /\ (row.phase = "running" => Total <= row.spent)
  BY <1>1 DEF Accounts, Live
<1>7. CASE UNCHANGED tick
  BY <1>1, <1>2, <1>4, <1>5, <1>6, <1>7 DEF Accounts, TickAccount, Live
<1>8. CASE tick' = [tick EXCEPT ![w] = [NoTick EXCEPT !.at = "start", !.gen = row'.gen,
                                            !.phase = row.phase, !.spent = row.spent]]
  <2>1. /\ tick'[w].at = "start" /\ tick'[w].gen = row'.gen /\ tick'[w].phase = row.phase
        /\ tick'[w].spent = row.spent /\ \A v \in Workers : v # w => tick'[v].at = "idle"
    BY <1>1, <1>3, <1>8 DEF NoTick
  <2>2. row.gen + 1 \in Generations
    <3>1. row.gen >= 1
      BY <1>1 DEF Accounts
    <3>. QED
      BY <1>3, <1>4, <3>1 DEF Generations
  <2>3. TickAccount(w)'
    BY <1>2, <1>4, <1>5, <1>6, <2>1, <2>2 DEF TickAccount, Live
  <2>4. \A v \in Workers : TickAccount(v)'
    BY <2>1, <2>3 DEF TickAccount, Live
  <2>. QED
    BY <1>2, <1>4, <1>5, <1>6, <2>1, <2>4 DEF Accounts, Live
<1>. QED
  BY <1>7, <1>8 DEF Claim

\* The purchases of a tick, from its choice to the payment it sees.
LEMMA AccountsPurchase ==
  ASSUME TypeOK, TypeOK', Accounts, NEW w \in Workers,
         (\E p \in Prices : Choose(w, p)) \/ Create(w) \/ Pay(w) \/ Bought(w)
  PROVE  Accounts'
<1>. SUFFICES ASSUME orderly' PROVE Accounts'
  BY DEF Accounts
<1>1. orderly /\ Live(w) /\ row' = row /\ TickAccount(w) /\ Total <= Budget
  BY DEF Accounts, Choose, Create, Pay, Bought, Goes, history, Live
<1>2. tick \in [Workers -> Ticks] /\ tick[w] \in Ticks /\ tick[w].spent \in Nat /\ tick[w].price \in Nat
  BY DEF TypeOK, Ticks
<1>3. invoice \in [Generations -> Invoices] /\ tick[w].gen \in Generations /\ tick[w].gen = row.gen
  BY <1>1 DEF TypeOK, TickAccount
<1>4. Total \in Nat /\ Total' \in Nat /\ Budget \in Nat
  BY CostType, CostTypePrime, ConstantsOK
<1>5. \A g \in Generations : g > row.gen => invoice[g].status = "none"
  BY <1>1 DEF Accounts
<1>6. \A g \in Generations : g > row.gen => g # tick[w].gen
  BY <1>3, GenerationsFinite
<1>7. ASSUME NEW p \in Prices, Choose(w, p)
      PROVE  Accounts'
  <2>1. Total' = Total /\ Cost' = Cost /\ invoice' = invoice
    BY <1>7, TotalStays DEF Choose
  <2>2. /\ tick'[w].at = "ask" /\ tick'[w].price = p /\ tick'[w].gen = tick[w].gen
        /\ tick'[w].spent = tick[w].spent
        /\ \A v \in Workers : v # w => tick'[v] = tick[v]
    BY <1>2, <1>7 DEF Choose, Ticks
  <2>3. Total <= tick[w].spent /\ tick[w].spent + p <= Budget /\ invoice[tick[w].gen].status = "none"
    <3>1. tick[w].at = "start" /\ tick[w].phase = "running" /\ p <= Budget - tick[w].spent
      BY <1>7 DEF Choose
    <3>2. p \in Nat
      BY ConstantsOK
    <3>3. Total <= tick[w].spent /\ invoice[tick[w].gen].status = "none"
      BY <1>1, <3>1 DEF TickAccount
    <3>. QED
      BY <1>2, <1>4, <3>1, <3>2, <3>3
  <2>4. TickAccount(w)'
    BY <1>1, <2>1, <2>2, <2>3 DEF TickAccount, Live
  <2>. QED
    BY <1>1, <1>5, <2>1, <2>2, <2>4, AccountsOneTick DEF Live
<1>8. CASE Create(w)
  <2>1. /\ invoice'[tick[w].gen].status = "pending" /\ invoice'[tick[w].gen].amount = tick[w].price
        /\ \A g \in Generations : g # tick[w].gen => invoice'[g] = invoice[g]
    BY <1>3, <1>8 DEF Create
  <2>2. Cost[tick[w].gen] = 0 /\ Cost'[tick[w].gen] = 0
    BY <1>1, <1>3, <1>8, <2>1 DEF Cost, TickAccount, Create
  <2>3. Total' = Total
    BY <1>3, <1>4, <2>1, <2>2, TotalChanges
  <2>4. PICK at \in {"pay", "report"} : Goes(w, at, "running")
    BY <1>8 DEF Create
  <2>5. /\ tick'[w].at = at /\ tick'[w].phase = "running" /\ tick'[w].gen = tick[w].gen
        /\ tick'[w].spent = tick[w].spent /\ (at = "pay" => tick'[w].price = tick[w].price)
        /\ \A v \in Workers : v # w => tick'[v] = tick[v]
    BY <1>2, <2>4 DEF Goes, Ticks
  <2>6. Total <= tick[w].spent /\ tick[w].spent + tick[w].price <= Budget
    BY <1>1, <1>8 DEF TickAccount, Create
  <2>7. TickAccount(w)'
    BY <1>1, <1>2, <1>4, <2>1, <2>2, <2>3, <2>5, <2>6 DEF TickAccount, Live
  <2>. QED
    BY <1>1, <1>5, <1>6, <2>1, <2>3, <2>5, <2>7, AccountsOneTick DEF Live
<1>9. CASE Pay(w)
  <2>1. /\ invoice'[tick[w].gen].status = "verifying"
        /\ invoice'[tick[w].gen].amount = invoice[tick[w].gen].amount
        /\ \A g \in Generations : g # tick[w].gen => invoice'[g] = invoice[g]
    BY <1>3, <1>9 DEF Pay, Invoices
  <2>2. /\ Total <= tick[w].spent + Cost[tick[w].gen] /\ invoice[tick[w].gen].amount = tick[w].price
        /\ tick[w].spent + tick[w].price <= Budget
    BY <1>1, <1>9 DEF TickAccount, Pay
  <2>3. Cost[tick[w].gen] = 0 /\ Cost'[tick[w].gen] = tick[w].price
    BY <1>3, <1>9, <2>1, <2>2 DEF Cost, Pay
  <2>4. Total' = Total + tick[w].price
    BY <1>2, <1>3, <1>4, <2>1, <2>3, TotalChanges
  <2>5. tick' = tick
    BY <1>9 DEF Pay
  <2>6. TickAccount(w)'
    BY <1>1, <1>2, <1>4, <1>9, <2>1, <2>2, <2>3, <2>4, <2>5 DEF TickAccount, Live, Pay
  <2>7. Total' <= Budget
    BY <1>2, <1>4, <2>2, <2>3, <2>4
  <2>8. ~(~Live(w))'
    BY <1>1, <2>5 DEF Live
  <2>. QED
    BY <1>1, <1>5, <1>6, <2>1, <2>5, <2>6, <2>7, <2>8, AccountsOneTick
<1>10. CASE Bought(w)
  <2>1. Total' = Total /\ Cost' = Cost /\ invoice' = invoice
    BY <1>10, TotalStays DEF Bought
  <2>2. PICK phase \in {"running", "completed"} :
          tick' = [tick EXCEPT ![w].at = "report", ![w].phase = phase, ![w].price = 0,
                               ![w].spent = @ + tick[w].price]
    BY <1>10 DEF Bought
  <2>3. /\ tick'[w].at = "report" /\ tick'[w].gen = tick[w].gen
        /\ tick'[w].spent = tick[w].spent + tick[w].price
        /\ \A v \in Workers : v # w => tick'[v] = tick[v]
    BY <1>2, <2>2 DEF Ticks
  <2>4. Cost[tick[w].gen] = tick[w].price
    BY <1>1, <1>3, <1>10 DEF Cost, Bought, TickAccount
  <2>5. Total <= tick[w].spent + tick[w].price
    BY <1>1, <1>10, <2>4 DEF TickAccount, Bought
  <2>6. TickAccount(w)'
    BY <1>1, <2>1, <2>3, <2>5 DEF TickAccount, Live
  <2>. QED
    BY <1>1, <1>5, <2>1, <2>3, <2>6, AccountsOneTick DEF Live
<1>. QED
  BY <1>7, <1>8, <1>9, <1>10

\* GenLayer's ruling takes a purchase off what was sold, or leaves it there.
LEMMA AccountsRuled ==
  ASSUME TypeOK, TypeOK', Accounts, NEW p \in Generations, Ruled(p)
  PROVE  Accounts'
<1>. SUFFICES ASSUME orderly' PROVE Accounts'
  BY DEF Accounts
<1>1. orderly /\ row' = row /\ tick' = tick
  BY DEF Ruled, history
<1>2. /\ \A g \in Generations : g # p => invoice'[g] = invoice[g]
      /\ invoice'[p].amount = invoice[p].amount
      /\ invoice[p].status = "verifying" /\ invoice'[p].status \in {"paid", "rejected"}
  BY DEF Ruled, TypeOK, Invoices
<1>3. /\ Total' + Cost[p] = Total + Cost'[p] /\ \A g \in Generations : g # p => Cost'[g] = Cost[g]
  BY <1>2, TotalChanges
<1>4. Cost[p] = invoice[p].amount /\ Cost'[p] \in {0, Cost[p]}
  BY <1>2 DEF Cost
<1>5. Total \in Nat /\ Total' \in Nat /\ Cost[p] \in Nat /\ Budget \in Nat
  BY CostType, CostTypePrime, ConstantsOK
<1>6. Total' <= Total
  BY <1>3, <1>4, <1>5
<1>7. ASSUME NEW w \in Workers
      PROVE  TickAccount(w)'
  <2>1. TickAccount(w)
    BY <1>1 DEF Accounts
  <2>2. tick[w].spent \in Nat /\ tick[w].price \in Nat
    BY DEF TypeOK, Ticks
  <2>3. CASE tick[w].gen = p
    BY <1>1, <1>2, <1>3, <1>4, <1>5, <1>6, <2>1, <2>2, <2>3 DEF TickAccount, Live
  <2>4. CASE tick[w].gen # p
    <3>1. /\ tick[w].gen \in Generations => invoice'[tick[w].gen] = invoice[tick[w].gen]
                                             /\ Cost'[tick[w].gen] = Cost[tick[w].gen]
          /\ tick[w].gen \in Generations => Cost[tick[w].gen] \in Nat
      BY <1>2, <1>3, <2>4, CostType
    <3>. QED
      BY <1>1, <1>5, <1>6, <2>1, <2>2, <3>1 DEF TickAccount, Live
  <2>. QED
    BY <2>3, <2>4
<1>8. row.phase = "running" /\ (\A w \in Workers : ~Live(w)) => Total' <= row.spent
  <2>1. row.spent \in Nat
    BY DEF TypeOK, Rows
  <2>. QED
    BY <1>1, <1>5, <1>6, <2>1 DEF Accounts
<1>9. \A g \in Generations : g > row.gen => invoice'[g].status = "none"
  BY <1>1, <1>2 DEF Accounts
<1>. QED
  BY <1>1, <1>5, <1>6, <1>7, <1>8, <1>9 DEF Accounts, Live

\* The end of a tick: what it reports is what the row then says.
LEMMA AccountsEnd ==
  ASSUME TypeOK, TypeOK', Accounts, NEW w \in Workers, Checkpoint(w) \/ EndsUnreported(w)
  PROVE  Accounts'
<1>. SUFFICES ASSUME orderly' PROVE Accounts'
  BY DEF Accounts
<1>1. Checkpoint(w) /\ orderly
  BY DEF Checkpoint, EndsUnreported, history
<1>2. Live(w) /\ TickAccount(w) /\ Total <= Budget
  BY <1>1 DEF Accounts, Checkpoint, Live
<1>3. invoice' = invoice /\ Total' = Total /\ Cost' = Cost
  BY <1>1, TotalStays DEF Checkpoint
<1>4. row' = Reported(w) /\ row \in Rows
  BY <1>1 DEF Checkpoint, TypeOK
<1>5. row'.gen = row.gen /\ row'.phase = tick[w].phase /\ row'.spent = tick[w].spent
  BY <1>4 DEF Reported, Rows
<1>6. tick'[w] = NoTick /\ \A v \in Workers : v # w => tick'[v] = tick[v]
  BY <1>1 DEF Checkpoint, TypeOK
<1>7. row'.phase = "running" => Total' <= row'.spent
  BY <1>1, <1>2, <1>3, <1>5 DEF TickAccount, Checkpoint
<1>8. TickAccount(w)'
  BY <1>6 DEF TickAccount, Live, NoTick
<1>9. \A g \in Generations : g > row.gen => invoice'[g].status = "none"
  BY <1>1, <1>3 DEF Accounts
<1>. QED
  BY <1>1, <1>2, <1>3, <1>5, <1>6, <1>7, <1>8, <1>9, AccountsOneTick

\* Every step keeps the accounts.
LEMMA AccountsNext == TypeOK /\ TypeOK' /\ Accounts /\ [Next]_vars => Accounts'
<1>. SUFFICES ASSUME TypeOK, TypeOK', Accounts, [Next]_vars PROVE Accounts'
  OBVIOUS
<1>0. row \in Rows
  BY DEF TypeOK
<1>1. ASSUME NEW w \in Workers, Tick(w)
      PROVE  Accounts'
  <2>1. CASE Claim(w)
    BY <2>1, AccountsClaim
  <2>2. CASE Heartbeat(w)
    <3>1. row'.gen = row.gen /\ row'.phase = row.phase /\ row'.spent = row.spent
      BY <1>0, <2>2 DEF Heartbeat, Rows
    <3>. QED
      BY <2>2, <3>1, AccountsStill DEF Heartbeat, history
  <2>3. CASE EndsWithoutPurchase(w)
    <3>1. PICK p \in Phases : /\ Goes(w, "report", p)
                              /\ p = "running" => tick[w].phase = "running"
      BY <2>3 DEF EndsWithoutPurchase, TypeOK, Ticks
    <3>2. Live(w) /\ tick[w].at = "start" /\ invoice' = invoice
      BY <2>3 DEF EndsWithoutPurchase, Live
    <3>. QED
      BY <3>1, <3>2, AccountsGoes
  <2>4. CASE (\E p \in Prices : Choose(w, p)) \/ Create(w) \/ Pay(w) \/ Bought(w)
    BY <2>4, AccountsPurchase
  <2>5. CASE Allow(w)
    <3>1. Live(w) /\ tick[w].at = "ask" /\ Goes(w, "create", "running") /\ invoice' = invoice
      BY <2>5 DEF Allow, Live
    <3>. QED
      BY <3>1, AccountsGoes DEF Phases
  <2>6. CASE Refuse(w)
    <3>1. /\ Live(w) /\ tick[w].at \in {"ask", "create"} /\ Goes(w, "report", "running")
          /\ invoice' = invoice
      BY <2>6 DEF Refuse, Live
    <3>. QED
      BY <3>1, AccountsGoes DEF Phases
  <2>7. CASE Uncertain(w)
    <3>1. Live(w) /\ Goes(w, "report", "failed") /\ invoice' = invoice
      BY <2>7 DEF Uncertain, Live
    <3>. QED
      BY <3>1, AccountsGoes DEF Phases
  <2>8. CASE Checkpoint(w) \/ EndsUnreported(w)
    BY <2>8, AccountsEnd
  <2>. QED
    BY <1>1, <2>1, <2>2, <2>3, <2>4, <2>5, <2>6, <2>7, <2>8 DEF Tick
<1>2. ASSUME NEW g \in Generations, Ruled(g)
      PROVE  Accounts'
  BY <1>2, AccountsRuled
<1>3. ASSUME NEW a \in Admins, Control(a)
      PROVE  Accounts'
  <2>1. /\ invoice' = invoice /\ tick' = tick /\ row'.gen = row.gen
        /\ orderly' => orderly /\ row'.phase = row.phase /\ row'.spent = row.spent
    <3>1. CASE \E action \in {"pause", "resume", "kill"} : Load(a, action)
      BY <3>1 DEF Load, history
    <3>2. CASE Apply(a)
      <4>1. invoice' = invoice /\ tick' = tick /\ row'.gen = row.gen
        BY <1>0, <3>2 DEF Apply, Rows
      <4>2. orderly' => orderly /\ row'.phase = row.phase /\ row'.spent = row.spent
        BY <3>2 DEF Apply
      <4>. QED
        BY <4>1, <4>2
    <3>. QED
      BY <1>3, <3>1, <3>2 DEF Control
  <2>. QED
    BY <2>1, AccountsStill
<1>4. CASE Expire \/ Reclaim \/ Start \/ Stop
  <2>1. /\ invoice' = invoice /\ tick' = tick /\ row'.gen = row.gen
        /\ orderly' = orderly /\ row'.phase = row.phase /\ row'.spent = row.spent
    BY <1>0, <1>4 DEF Expire, Reclaim, Start, Stop, Rows, history, runtime
  <2>. QED
    BY <2>1, AccountsStill
<1>5. CASE Withdrawing \/ UNCHANGED vars
  <2>1. invoice' = invoice /\ tick' = tick /\ row' = row /\ orderly' = orderly
    BY <1>5 DEF Withdrawing, Withdraw, Submit, Answered, Unanswered, Relay, RelayFails, Restart,
                runtime, history, vars
  <2>. QED
    BY <2>1, AccountsStill
<1>. QED
  BY <1>1, <1>2, <1>3, <1>4, <1>5 DEF Next, Withdrawing

\* What an orderly session's purchases come to stays within its budget, however
\* many ticks, workers and administrators there are: the agent's account and the
\* row's carry it from lease to lease (chooseCandidate and recordPurchase of the
\* agent, create_invoice, checkpoint_session_tick, transition_session_status).
THEOREM BudgetKept == Spec => []BudgetCeiling
<1>1. TypeOK /\ Accounts => BudgetCeiling
  BY TotalIs DEF Accounts, BudgetCeiling
<1>. QED
  BY <1>1, TypeInit, TypeNext, AccountsInit, AccountsNext, PTL DEF Spec
=============================================================================
