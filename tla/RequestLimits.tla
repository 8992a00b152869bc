--------------------------- MODULE RequestLimits ---------------------------
(***************************************************************************)
(* The two sliding windows that bound what a client may ask for, both kept *)
(* in the memory of one process, which a restart empties: the request      *)
(* buckets of the HTTP middleware, one per scope and address, dropped when *)
(* there are too many of them; and the daily number of withdrawals relayed *)
(* for a depositor, which is checked before the gateway is asked and       *)
(* counted after it has answered.                                          *)
(***************************************************************************)
EXTENDS Naturals, FiniteSets

CONSTANTS
  Addresses,     \* client addresses
  Paths,         \* the paths they ask for
  ScopeOf,       \* the scope of a path
  PerWindow,     \* the limit of a scope; 0 for a scope without one
  LimitWindow,   \* RATE_LIMIT_WINDOW_SECONDS
  StaleAbove,    \* how many buckets there are before stale ones are looked for
  BucketsMax,    \* how many buckets are kept then
  Withdrawals,   \* withdrawals of one depositor
  RelaysPerDay,  \* WITHDRAW_RELAY_DAILY_LIMIT
  Day,           \* a day, in ticks
  MaxLimitTime,  \* bound: the last limitClock
  MaxLimitRestarts,  \* bound: times at which the process restarts
  MaxRequests    \* bound: requests let through

ASSUME LimitAssumption ==
  /\ {LimitWindow, StaleAbove, BucketsMax, Day, MaxLimitTime, MaxLimitRestarts,
      MaxRequests} \subseteq Nat
  /\ PerWindow \in [{ScopeOf[p] : p \in Paths} -> Nat]
  /\ RelaysPerDay \in Nat \ {0}   \* 0 turns this limit off
  /\ IsFiniteSet(Withdrawals)

\* A bucket holds the times of requests; here it holds the requests.
VARIABLES
  limitClock,  \* time.time()
  buckets,     \* state.rate_limit_buckets: key, place in the order of keys, requests
  served,      \* the requests let through: key, time and number
  relayed,     \* state.withdraw_relay_daily_events of the depositor
  withdrawal,  \* each withdrawal: where it is, whether it began alone, when
               \* its mint was sent
  restartedAt  \* when the process has restarted

limitVars == <<limitClock, buckets, served, relayed, withdrawal, restartedAt>>
requestVars == <<buckets, served>>
relayVars == <<relayed, withdrawal>>

LimitInit ==
  /\ limitClock = 0 /\ buckets = {} /\ served = {} /\ relayed = {} /\ restartedAt = {}
  /\ withdrawal = [w \in Withdrawals |-> [at |-> "new", alone |-> TRUE, minted |-> {}]]

----------------------------------------------------------------------------
(* qma_rate_limit_middleware, all of it under _RATE_LIMIT_LOCK.              *)

KeyOf(a, p) == <<ScopeOf[p], a>>

\* The entries that still count: those not older than the window.
StillCounted(entries, span) == {e \in entries : limitClock - e.time <= span}

\* Mutant: a bucket is stale once its first entry is.
StaleByFirst(bucket) == \E r \in bucket.requests : limitClock - r.time > LimitWindow

Stale(bucket) == \A r \in bucket.requests : limitClock - r.time > LimitWindow

\* With too many buckets the stale ones go, then the first ones, stale or not.
Trimmed(all) ==
  IF Cardinality(all) <= StaleAbove THEN all
  ELSE LET kept == {b \in all : ~Stale(b)} IN
       {b \in kept : Cardinality({c \in kept : c.since >= b.since}) <= BucketsMax}

Own(k) == {b \in buckets : b.key = k}
CountedFor(k) == StillCounted(UNION {b.requests : b \in Own(k)}, LimitWindow)
NextNumber == Cardinality(served) + 1

\* The bucket of a key, pruned, in its place or as the last one.
WithRequests(k, requests) ==
  LET since == IF Own(k) = {} THEN NextNumber ELSE (CHOOSE b \in Own(k) : TRUE).since
  IN (buckets \ Own(k)) \cup {[key |-> k, since |-> since, requests |-> requests]}

\* A request that is let through is counted; one over the limit is refused.
AskPath(a, p) ==
  LET k == KeyOf(a, p)
      request == [key |-> k, time |-> limitClock, number |-> NextNumber]
  IN /\ Cardinality(served) < MaxRequests /\ PerWindow[ScopeOf[p]] > 0
     /\ IF Cardinality(CountedFor(k)) >= PerWindow[ScopeOf[p]]
        THEN buckets' = WithRequests(k, CountedFor(k)) /\ UNCHANGED served
        ELSE /\ buckets' = Trimmed(WithRequests(k, CountedFor(k) \cup {request}))
             /\ served' = served \cup {request}
     /\ UNCHANGED <<limitClock, restartedAt, relayVars>>

----------------------------------------------------------------------------
(* submit_withdraw in the relayed mode.                                      *)

Out(w) == withdrawal[w].at \in {"sent", "taken", "minted", "failed"}

\* enforce_withdraw_relay_policy, without a lock.
PrunesRelays == relayed' = StillCounted(relayed, Day)
MayRelay == Cardinality(relayed') < RelaysPerDay

\* A call refused here, or by the checks before, is answered at once.
SubmitWithdraw(w) ==
  /\ withdrawal[w].at = "new"
  /\ PrunesRelays
  /\ withdrawal' = IF ~MayRelay THEN withdrawal
       ELSE [withdrawal EXCEPT ![w].at = "sent",
                               ![w].alone = ~\E v \in Withdrawals : Out(v)]
  /\ UNCHANGED <<limitClock, restartedAt, requestVars>>

\* POST /api/withdraw/relay: Circle's transfer is refused or taken, ...
RelayTransfer(w) ==
  /\ withdrawal[w].at = "sent"
  /\ \E end \in {"taken", "failed"} : withdrawal' = [withdrawal EXCEPT ![w].at = end]
  /\ UNCHANGED <<limitClock, restartedAt, requestVars, relayed>>

\* ... its mint is sent and its receipt awaited; a mint that reverts, or whose
\* receipt is late, is an error although the relayer has paid for it.
RelayMint(w) ==
  /\ withdrawal[w].at = "taken"
  /\ \E end \in {"minted", "failed"} :
       withdrawal' = [withdrawal EXCEPT ![w].at = end, ![w].minted = {limitClock}]
  /\ UNCHANGED <<limitClock, restartedAt, requestVars, relayed>>

\* An answer that is not ok, late (timeout=120) or lost is not recorded, whatever
\* the gateway still does.
RelayFails(w) ==
  /\ Out(w)
  /\ withdrawal' = [withdrawal EXCEPT ![w].at = "lost"]
  /\ UNCHANGED <<limitClock, restartedAt, requestVars, relayed>>

\* record_withdraw_relay, at the time of the answer.
RelayAnswered(w) ==
  /\ withdrawal[w].at = "minted"
  /\ withdrawal' = [withdrawal EXCEPT ![w].at = "done"]
  /\ relayed' = relayed \cup {[of |-> w, time |-> limitClock]}
  /\ UNCHANGED <<limitClock, restartedAt, requestVars>>

----------------------------------------------------------------------------
LimitTick ==
  /\ limitClock < MaxLimitTime /\ limitClock' = limitClock + 1
  /\ UNCHANGED <<restartedAt, requestVars, relayVars>>

\* A new process begins with no bucket and no relay on record; the calls that
\* were under way die, whatever the gateway still does.
LimitRestart ==
  /\ Cardinality(restartedAt) < MaxLimitRestarts
  /\ restartedAt' = restartedAt \cup {limitClock}
  /\ buckets' = {} /\ relayed' = {}
  /\ withdrawal' = [w \in Withdrawals |->
       IF Out(w) THEN [withdrawal[w] EXCEPT !.at = "lost"] ELSE withdrawal[w]]
  /\ UNCHANGED <<limitClock, served>>

AskNext ==
  (\E a \in Addresses, p \in Paths : AskPath(a, p)) \/ LimitTick \/ LimitRestart

RelayNext ==
  \/ \E w \in Withdrawals :
       SubmitWithdraw(w) \/ RelayTransfer(w) \/ RelayMint(w) \/ RelayFails(w) \/ RelayAnswered(w)
  \/ LimitTick \/ LimitRestart

LimitNext == AskNext \/ RelayNext

LimitSpec == LimitInit /\ [][LimitNext]_limitVars

LimitKeys == {KeyOf(a, p) : a \in Addresses, p \in Paths}
LimitTypeOK ==
  /\ limitClock \in 0..MaxLimitTime
  /\ served \subseteq [key: LimitKeys, time: 0..limitClock, number: 1..MaxRequests]
  /\ \A b \in buckets : b.key \in LimitKeys /\ b.since \in Nat /\ b.requests \subseteq served
  /\ relayed \subseteq [of: Withdrawals, time: 0..limitClock] /\ restartedAt \subseteq 0..limitClock
  /\ withdrawal \in [Withdrawals ->
       [at: {"new", "sent", "taken", "minted", "failed", "lost", "done"},
        alone: BOOLEAN, minted: SUBSET (0..MaxLimitTime)]]

----------------------------------------------------------------------------
Within(first, last) == {r \in served : r.time \in first..last}
KeysWithin(first, last) == {r.key : r \in Within(first, last)}

RestartedIn(first, last) == restartedAt \cap first..last # {}

\* The requests of a key in any window are within its limit, unless the process
\* restarted in it, or more keys than are kept were busy at about that time and
\* its bucket went with the first.
RequestsAreLimited ==
  \A r \in served :
    LET t == r.time IN
    Cardinality({q \in Within(t, t + LimitWindow) : q.key = r.key}) > PerWindow[r.key[1]]
      => \/ RestartedIn(t, t + LimitWindow)
         \/ \E u \in t..(t + LimitWindow) :
              Cardinality(KeysWithin(IF u < LimitWindow THEN 0 ELSE u - LimitWindow, u)) > BucketsMax

\* The withdrawals relayed in any day in which the process did not restart are
\* within its limit, leaving out those that began while another was out or whose
\* answer was lost.
RelaysAreLimited ==
  LET regular == {w \in Withdrawals :
        withdrawal[w].at \in {"minted", "done"} /\ withdrawal[w].alone}
  IN \A v \in regular : \A t \in withdrawal[v].minted :
       \/ RestartedIn(t, t + Day)
       \/ Cardinality({w \in regular : withdrawal[w].minted \cap t..(t + Day) # {}})
            <= RelaysPerDay

\* What the two windows of one process promise, and when they do not.
LimitsHold == RequestsAreLimited /\ RelaysAreLimited
============================================================================
