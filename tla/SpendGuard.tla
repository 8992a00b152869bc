----------------------------- MODULE SpendGuard -----------------------------
(***************************************************************************)
(* SpendLimitGuard of backend/app/services/spend_guard.py: the per-payer   *)
(* daily cap, the two-phase reservations that lock part of it while a swap *)
(* is executing, the circuit breaker, and the best-effort durable ledger   *)
(* from which a restarted process rebuilds all three.                      *)
(*                                                                         *)
(* One payer is modelled: every structure of the guard is keyed by payer   *)
(* and no operation reads across payers.  The deployment guard of          *)
(* core/config.py forces a single process, so concurrency is between the   *)
(* threads of that process and between two lives of it (Restart).          *)
(***************************************************************************)
EXTENDS Integers, FiniteSets, ReservationProtocol

CONSTANTS
  Amount,         \* the USDC amount each reservation asks for, in whole units
  MaxAmount,      \* an upper bound of the amounts
  MaxSingleTx,    \* max_single_tx
  Cap,            \* max_daily_spend
  TTL,            \* life of an unpinned reservation (300 s)
  Window,         \* the 24 h of the daily cap and of the ledger replay
  Cooldown,       \* cooldown_seconds of the breaker
  FailWindow,     \* failure_window_seconds
  MaxFailures,    \* max_consecutive_failures
  PinWithin,      \* a caller pins less than this long after reserving
  Losable,        \* ledger operations that may fail without anyone noticing
  MaxTime,        \* bound of the clock
  BreakerEvents   \* bound: whether failures, trips and resets happen at all

ASSUME ResAssumption == IsFiniteSet(Res)
ASSUME AmountAssumption ==
  MaxAmount \in Nat /\ \A r \in Res : Amount[r] \in 0..MaxAmount
ASSUME LimitAssumption == MaxSingleTx \in Nat /\ Cap \in Nat
ASSUME TimeAssumption ==
  /\ {TTL, Window, Cooldown, FailWindow, MaxTime} \subseteq Nat
  /\ MaxFailures \in Nat \ {0}
ASSUME PinAssumption == PinWithin \in Nat
ASSUME LosableAssumption ==
  Losable \subseteq {"RESERVE", "PIN", "SPEND", "RELEASE", "TRIP", "RESET", "READ"}
ASSUME BoundAssumption == BreakerEvents \in BOOLEAN

VARIABLES
  now,         \* time.time()
  \* process memory, lost by a restart
  seeded,      \* payer \in _seeded_payers
  held,        \* _reservations[payer]: what is known of each id
  spent,       \* _spends[payer]: ids with a confirmed spend
  failures,    \* _failures[payer]: timestamps
  trippedAt,   \* _tripped_breakers[payer], or Never
  reading,     \* copies of the ledger can_spend has read and not yet applied
  overtaken,   \* history: ids whose spend was recorded while such a read was out
  \* the durable ledger, table qma_spend_guard_events
  ledger,      \* the event kinds recorded for each id
  reservedAt,  \* timestamp of the reservation of each id
  spentAt,     \* timestamp of the commit of each id
  lastTrip,    \* newest BREAKER_TRIP event, or Never
  lastReset    \* newest BREAKER_RESET event, or Never

memory  == <<seeded, held, spent, failures, trippedAt>>
reads   == <<reading, overtaken>>
durable == <<ledger, reservedAt, spentAt, lastTrip, lastReset>>
vars == <<now, memory, reads, durable, outcome>>

Never == 0

(***************************************************************************)
(* The sum of the amounts of a set of reservations, as the cardinality of  *)
(* the set of their units.                                                 *)
(***************************************************************************)
Units(S) == {u \in S \X (1..MaxAmount) : u[2] <= Amount[u[1]]}
Total(S) == Cardinality(Units(S))

(***************************************************************************)
(* What the guard reads of its own memory.                                 *)
(***************************************************************************)
Unexpired(r) == reservedAt[r] + TTL > now

\* Mutant: the window of the daily total is open at its far end.
InWindowStrict(S) == {r \in S : spentAt[r] + Window > now}

\* Confirmed spends of the last 24 h (get_daily_spent).
InWindow(S) == {r \in S : spentAt[r] + Window >= now}

\* Reservations that count: pinned, or not past their TTL.
Active(h) == {r \in Res : h[r] = "pinned" \/ (h[r] = "held" /\ Unexpired(r))}

\* The reservations after the prune every read of the pending total does.
Pruned(h) == [r \in Res |-> IF r \in Active(h) THEN h[r] ELSE "none"]

EffectiveOf(s, h) == Total(InWindow(s)) + Total(Active(h))
Effective == EffectiveOf(spent, held)

\* is_circuit_breaker_tripped on a given breaker value.
Tripped(t) == t # Never /\ now - t < Cooldown

(***************************************************************************)
(* _ensure_seeded: what it takes from the last 24 h of the ledger, and     *)
(* what applying that makes of the memory.  The two are apart: the copy is *)
(* taken without a lock and applied later, under one.  A spend list in the *)
(* copy replaces the one in memory; unresolved reservations are added;     *)
(* nothing else in memory is removed.                                      *)
(***************************************************************************)
LedgerSpends == {r \in Res : "SPEND" \in ledger[r] /\ spentAt[r] + Window >= now}

\* Mutant: only reservations within their TTL are looked for.
UnresolvedWithinTTL(r) ==
  /\ "RESERVE" \in ledger[r]
  /\ Unexpired(r)
  /\ ledger[r] \cap {"SPEND", "RELEASE"} = {}

Unresolved(r) ==
  /\ "RESERVE" \in ledger[r]
  /\ reservedAt[r] + Window >= now
  /\ ledger[r] \cap {"SPEND", "RELEASE"} = {}

LedgerCopy ==
  [spends |-> LedgerSpends,
   open |-> [r \in Res |-> IF ~Unresolved(r) THEN "none"
                           ELSE IF "PIN" \in ledger[r] THEN "pinned" ELSE "held"],
   trip |-> IF lastTrip > lastReset THEN lastTrip ELSE Never]

\* A failed read comes back empty.
EmptyCopy == [spends |-> {}, open |-> [r \in Res |-> "none"], trip |-> Never]

\* The copies that may be read of the ledger.
Reads == {LedgerCopy} \cup (IF "READ" \in Losable THEN {EmptyCopy} ELSE {})

SeedSpent(c) == IF c.spends # {} THEN c.spends ELSE spent

\* Mutant: a pinned reservation expires like any other.
SeedHeldUnexpired(c) ==
  [r \in Res |-> IF c.open[r] # "none" /\ Unexpired(r) THEN c.open[r] ELSE held[r]]

SeedHeld(c) == [r \in Res |-> IF r \in Active(c.open) THEN c.open[r] ELSE held[r]]

\* Mutant: the replay does not restore the breaker.
SeedTripForgotten(c) == trippedAt

SeedTrip(c) == IF Tripped(c.trip) THEN c.trip ELSE trippedAt

\* _persist_event is best effort: a failed write is logged and forgotten.
Persist(r, kind) ==
  \/ ledger' = [ledger EXCEPT ![r] = @ \cup {kind}]
  \/ kind \in Losable /\ UNCHANGED ledger

PersistTrip == lastTrip' = now \/ ("TRIP" \in Losable /\ UNCHANGED lastTrip)

-----------------------------------------------------------------------------
Init ==
  /\ now = 1
  /\ seeded = FALSE
  /\ held = [r \in Res |-> "none"]
  /\ spent = {}
  /\ failures = {}
  /\ trippedAt = Never
  /\ reading = {}
  /\ overtaken = {}
  /\ ledger = [r \in Res |-> {}]
  /\ reservedAt = [r \in Res |-> 0]
  /\ spentAt = [r \in Res |-> 0]
  /\ lastTrip = Never
  /\ lastReset = Never
  /\ ProtocolInit

(***************************************************************************)
(* reserve_spend, up to its decision: under the payer's cross-process lock *)
(* it replays the ledger, lets a cooled-down breaker reset itself, prunes  *)
(* and compares the effective total with the limits.                       *)
(***************************************************************************)
Allowed(r, s, h, t) ==
  /\ ~Tripped(t)
  /\ Amount[r] <= MaxSingleTx
  /\ EffectiveOf(s, h) + Amount[r] <= Cap

\* A cooled-down breaker is dropped and the failures forgotten with it.
CooledDown(t) ==
  /\ trippedAt' = IF Tripped(t) THEN t ELSE Never
  /\ failures' = IF t # Never /\ ~Tripped(t) THEN {} ELSE failures

\* force_reload: the memory has every recorded spend again, until an older
\* copy that is still out is applied.
Reloaded ==
  /\ seeded' = TRUE
  /\ overtaken' = IF reading = {} THEN {} ELSE overtaken
  /\ UNCHANGED reading

Reserve(r) ==
  /\ Made(r)
  /\ \E c \in Reads :
       /\ Allowed(r, SeedSpent(c), SeedHeld(c), SeedTrip(c))
       /\ spent' = InWindow(SeedSpent(c))
       /\ held' = [Pruned(SeedHeld(c)) EXCEPT ![r] = "held"]
       /\ CooledDown(SeedTrip(c))
  /\ Reloaded
  /\ reservedAt' = [reservedAt EXCEPT ![r] = now]
  /\ Persist(r, "RESERVE")
  /\ UNCHANGED <<now, spentAt, lastTrip, lastReset>>

\* A refused reservation still leaves the memory seeded; the limits are only
\* looked at, and the memory pruned, when the breaker lets the call through.
RefuseReserve(r) ==
  /\ outcome[r] = "unused"
  /\ \E c \in Reads :
       /\ ~Allowed(r, SeedSpent(c), SeedHeld(c), SeedTrip(c))
       /\ IF Tripped(SeedTrip(c)) \/ Amount[r] > MaxSingleTx
          THEN spent' = SeedSpent(c) /\ held' = SeedHeld(c)
          ELSE spent' = InWindow(SeedSpent(c)) /\ held' = Pruned(SeedHeld(c))
       /\ CooledDown(SeedTrip(c))
  /\ Reloaded
  /\ UNCHANGED <<now, durable, outcome>>

(***************************************************************************)
(* commit_spend, release_spend and pin_reservation.  None of them seeds    *)
(* the memory: on an id the process does not hold, the first two return    *)
(* without touching memory or ledger.                                      *)
(***************************************************************************)
CommitSpend(r) ==
  /\ IF held[r] = "none"
     THEN UNCHANGED <<memory, ledger, spentAt, overtaken>>
     ELSE /\ held' = [held EXCEPT ![r] = "none"]
          /\ spent' = spent \cup {r}
          /\ spentAt' = [spentAt EXCEPT ![r] = now]
          /\ failures' = {}
          /\ Persist(r, "SPEND")
          /\ overtaken' = IF reading = {} THEN overtaken ELSE overtaken \cup {r}
          /\ UNCHANGED <<seeded, trippedAt>>
  /\ UNCHANGED <<now, reading, reservedAt, lastTrip, lastReset>>

ReleaseSpend(r) ==
  /\ IF held[r] = "none"
     THEN UNCHANGED <<memory, ledger>>
     ELSE /\ held' = [held EXCEPT ![r] = "none"]
          /\ Persist(r, "RELEASE")
          /\ UNCHANGED <<seeded, spent, failures, trippedAt>>
  /\ UNCHANGED <<now, reads, reservedAt, spentAt, lastTrip, lastReset>>

\* Pinning needs no lock; the event is written even when the id is gone.
PinReservation(r) ==
  /\ held' = [held EXCEPT ![r] = IF @ = "none" THEN "none" ELSE "pinned"]
  /\ Persist(r, "PIN")
  /\ UNCHANGED <<now, seeded, spent, failures, trippedAt, reads,
                 reservedAt, spentAt, lastTrip, lastReset>>

\* cleanup_expired_reservations, and the prune of the pending total.
Prune ==
  /\ held' = Pruned(held)
  /\ UNCHANGED <<now, seeded, spent, failures, trippedAt, reads,
                 durable, outcome>>

(***************************************************************************)
(* The breaker.                                                            *)
(***************************************************************************)
RecentFailures == {t \in failures : now - t <= FailWindow}

\* record_failure: the failure that fills the window trips the breaker.
RecordFailure ==
  /\ failures' = RecentFailures \cup {now}
  /\ IF Cardinality(RecentFailures) + 1 >= MaxFailures
     THEN trippedAt' = now /\ PersistTrip
     ELSE UNCHANGED <<trippedAt, lastTrip>>
  /\ UNCHANGED <<now, seeded, held, spent, reads, ledger, reservedAt,
                 spentAt, lastReset, outcome>>

TripCircuitBreaker ==
  /\ trippedAt' = now
  /\ failures' = failures \cup {now}
  /\ PersistTrip
  /\ UNCHANGED <<now, seeded, held, spent, reads, ledger, reservedAt,
                 spentAt, lastReset, outcome>>

\* reset_circuit_breaker: the event is written only if this process knew of
\* a trip.
ResetCircuitBreaker ==
  /\ trippedAt' = Never
  /\ failures' = {}
  /\ IF trippedAt # Never
     THEN lastReset' = now \/ ("RESET" \in Losable /\ UNCHANGED lastReset)
     ELSE UNCHANGED lastReset
  /\ UNCHANGED <<now, seeded, held, spent, reads, ledger, reservedAt,
                 spentAt, lastTrip, outcome>>

(***************************************************************************)
(* can_spend, as agent_decision calls it without the payer's lock.  Its    *)
(* answer is advice only; what it does to the memory is not.  Once per     *)
(* process, unless this process has already spent, it marks the payer      *)
(* seeded and reads the ledger; whatever is committed, released, pinned or *)
(* reset before it applies that copy is undone in the memory by it.  Then, *)
(* and in every later call, it lets a cooled-down breaker reset itself and *)
(* prunes what it counts.                                                  *)
(***************************************************************************)
SeedsOnce == ~seeded /\ spent = {}

StartSeeding ==
  /\ SeedsOnce
  /\ \E c \in Reads : reading' = reading \cup {c}
  /\ seeded' = TRUE
  /\ UNCHANGED <<now, held, spent, failures, trippedAt, overtaken, durable, outcome>>

\* What can_spend does to the memory it looks at.
Counted(s, h, t) ==
  /\ CooledDown(t)
  /\ IF Tripped(t) THEN spent' = s /\ held' = h
     ELSE spent' = InWindow(s) /\ held' = Pruned(h)

FinishSeeding ==
  /\ \E c \in reading :
       /\ Counted(SeedSpent(c), SeedHeld(c), SeedTrip(c))
       /\ reading' = reading \ {c}
  /\ UNCHANGED <<now, seeded, overtaken, durable, outcome>>

CanSpend ==
  /\ ~SeedsOnce
  /\ Counted(spent, held, trippedAt)
  /\ seeded' = TRUE
  /\ UNCHANGED <<now, reads, durable, outcome>>

(***************************************************************************)
(* A process crash and restart, and time.  The threads die with the        *)
(* process: nobody will pin or release what they had only reserved.        *)
(***************************************************************************)
Restart ==
  /\ seeded' = FALSE
  /\ held' = [r \in Res |-> "none"]
  /\ spent' = {}
  /\ failures' = {}
  /\ trippedAt' = Never
  /\ reading' = {}
  /\ overtaken' = {}
  /\ Forgotten
  /\ UNCHANGED <<now, durable>>

Tick ==
  /\ now < MaxTime
  /\ now' = now + 1
  /\ UNCHANGED <<memory, reads, durable, outcome>>

(***************************************************************************)
(* The calls of a caller that follows ReservationProtocol.  It pins within *)
(* PinWithin: swap_executor bounds every wait between the two.             *)
(***************************************************************************)
Pin(r) ==
  /\ Pinned(r)
  /\ now < reservedAt[r] + PinWithin
  /\ PinReservation(r)

Commit(r) == Committed(r) /\ CommitSpend(r)

Release(r) == Released(r) /\ ReleaseSpend(r)

\* No two breaker events share a timestamp; the ledger orders them by it.
FreshTime == now \notin failures \cup {lastTrip, lastReset}

\* A breaker with MaxFailures failures in memory is not driven further.
BreakerEvent ==
  /\ BreakerEvents /\ FreshTime
  /\ \/ Cardinality(failures) < MaxFailures /\ RecordFailure
     \/ Cardinality(failures) < MaxFailures /\ TripCircuitBreaker
     \/ ResetCircuitBreaker

Next ==
  \/ \E r \in Res : Reserve(r) \/ RefuseReserve(r) \/ Pin(r) \/ Commit(r) \/ Release(r)
  \/ Prune
  \/ BreakerEvent
  \/ StartSeeding \/ FinishSeeding \/ CanSpend
  \/ Restart
  \/ Tick

Spec == Init /\ [][Next]_vars

-----------------------------------------------------------------------------
(***************************************************************************)
(* Properties.                                                             *)
(***************************************************************************)

\* What _ensure_seeded may hold of the ledger.
Copy == [spends : SUBSET Res, open : [Res -> {"none", "held", "pinned"}], trip : Nat]

\* Types of the variables.
TypeOK ==
  /\ now \in Nat
  /\ seeded \in BOOLEAN
  /\ held \in [Res -> {"none", "held", "pinned"}]
  /\ spent \in SUBSET Res
  /\ failures \in SUBSET Nat
  /\ trippedAt \in Nat
  /\ reading \in SUBSET Copy
  /\ overtaken \in SUBSET Res
  /\ ledger \in [Res -> SUBSET {"RESERVE", "PIN", "SPEND", "RELEASE"}]
  /\ reservedAt \in [Res -> Nat]
  /\ spentAt \in [Res -> Nat]
  /\ lastTrip \in Nat
  /\ lastReset \in Nat
  /\ outcome \in [Res -> Outcomes]

\* Money that may have left, or still may leave, the payer's wallet against
\* the cap of the last 24 h: reservations made in that time that are pinned
\* or committed, or are still within their TTL.
AtRisk(r) ==
  /\ reservedAt[r] + Window >= now
  /\ \/ outcome[r] \in {"pinned", "committed"}
     \/ outcome[r] = "open" /\ Unexpired(r)

\* The daily cap (reserve_spend, _ensure_seeded): whatever the interleaving of
\* reservations, TTL expiries, commits that find nothing and restarts that
\* forget the memory, what was reserved in the last 24 h and may be spent
\* never exceeds the cap.
DailyCapHolds == Total({r \in Res : AtRisk(r)}) <= Cap

\* Once a process has reserved, every reservation at risk is in the memory it
\* checks the next one against: nothing pinned or committed in an earlier life
\* of the process is forgotten (_ensure_seeded with force_reload).
ReplayIsComplete ==
  [][(\E r \in Res : Reserve(r))
       => \A q \in Res : AtRisk(q)' => q \in spent' \/ held'[q] # "none"]_vars

\* A confirmed spend the guard has recorded keeps counting for a full 24 h in
\* every process life that has seeded its memory, whatever is reloaded, pruned,
\* released or pinned late.  Only a spend recorded while can_spend's unlocked
\* read of the ledger was out may be missing, for that copy replaces the list
\* it was added to; it counts again from the next reservation's forced reload
\* that no such read outlives (_ensure_seeded, get_daily_spent).
SpendCountsForADay ==
  seeded /\ reading = {} =>
    \A r \in Res : "SPEND" \in ledger[r] /\ spentAt[r] + Window >= now
                     => r \in spent \cup overtaken

\* A breaker tripped and not reset admits no reservation until it has cooled
\* down, in this process or in a restarted one (is_circuit_breaker_tripped,
\* _ensure_seeded).
BreakerHolds ==
  [][(\E r \in Res : Reserve(r))
       => ~(lastTrip > lastReset /\ now - lastTrip < Cooldown)]_vars
=============================================================================
