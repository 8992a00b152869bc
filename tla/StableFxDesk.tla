---------------------------- MODULE StableFxDesk ----------------------------
(***************************************************************************)
(* The StableFX desk of services/stablefx_service.py: quotes at a cached   *)
(* rate, and settlements that check the buyer's deposit, reserve it and    *)
(* send the payout from the relayer's wallet.  Settlements run one at a    *)
(* time under stablefx_settle from the reservation on.  The reservation    *)
(* is a row of stablefx_consumed_deposits, or an entry of a JSON file that *)
(* a failed read takes for empty; the flag that a payout was tried is      *)
(* process memory.                                                         *)
(***************************************************************************)
EXTENDS Naturals, FiniteSets

CONSTANTS
  Deposits,    \* confirmed deposit transactions
  Settlers,    \* requests of POST /api/v1/stablefx/settle
  Rates,       \* what the feeds say of EUR/USD; one of them the configured rate
  BaseRate,    \* BASE_EURC_USD_RATE
  QuoteTicks,  \* how long a quote is guaranteed, QUOTE_TTL_SECONDS
  CacheTicks,  \* how long a rate is cached, _FX_CACHE_TTL_SECONDS
  MaxTicks,    \* bound on time
  MaxCrashes   \* bound on restarts

ASSUME FxAssumption ==
  /\ BaseRate \in Rates /\ {QuoteTicks, CacheTicks, MaxTicks, MaxCrashes} \subseteq Nat
  /\ "free" \notin Settlers

VARIABLES
  tick,       \* time
  feed,       \* what the feeds say, {} when none answers
  rateCache,  \* _FX_RATE_CACHE: rate and time of the fetch, {} at first
  quoted,     \* the quotes given, by deposit: rate and expiry
  table,      \* "postgres" or "json": where reservations are
  reservation,\* per deposit: "none", "reserved" or "broadcast"
  forgotten,  \* deposits whose entry a failed read of the file has dropped
  attempted,  \* _payout_broadcast_attempted
  trail,      \* deposits in the audit trail
  payouts,    \* payouts sent: deposit, rate, time
  fxDesk,     \* the settlement under stablefx_settle, or "free"
  settler,    \* the requests
  crashes

fxVars == <<tick, feed, rateCache, quoted, table, reservation, forgotten, attempted, trail,
            payouts, fxDesk, settler, crashes>>
fxLedger == <<reservation, forgotten, attempted, trail, payouts>>
fxMarket == <<tick, feed, rateCache, quoted, table, crashes>>

NoRequest == [at |-> "idle", deposit |-> {}, rate |-> 0]

FxInit ==
  /\ tick = 0 /\ feed \in {{r} : r \in Rates} /\ rateCache = {}
  /\ quoted = {} /\ table \in {"postgres", "json"}
  /\ reservation = [d \in Deposits |-> "none"] /\ forgotten = {}
  /\ attempted = {} /\ trail = {} /\ payouts = {}
  /\ fxDesk = "free" /\ settler = [c \in Settlers |-> NoRequest] /\ crashes = 0

\* _resolve_usd_per_eur: the cache while it is young, else a feed, else the
\* configured rate; whatever it is becomes the cache.
Fresh == \E e \in rateCache : tick - e.at < CacheTicks
FeedRate == IF feed = {} THEN BaseRate ELSE CHOOSE r \in feed : TRUE
UsdPerEur == IF Fresh THEN (CHOOSE e \in rateCache : TRUE).rate ELSE FeedRate
Cached == rateCache' = IF Fresh THEN rateCache ELSE {[rate |-> FeedRate, at |-> tick]}

\* get_stablefx_quote, for the buyer that makes deposit d at it.
Quote(d) ==
  /\ \A q \in quoted : q.deposit # d
  /\ quoted' = quoted \cup {[deposit |-> d, rate |-> UsdPerEur, until |-> tick + QuoteTicks]}
  /\ Cached
  /\ UNCHANGED <<tick, feed, table, crashes, fxLedger, fxDesk, settler>>

\* settle_stablefx_swap: the price of the payout, and the deposit on chain.
BeginSettle(c, d) ==
  /\ settler[c].at = "idle"
  /\ \E q \in quoted : q.deposit = d
  /\ settler' = [settler EXCEPT ![c] = [at |-> "lock", deposit |-> {d}, rate |-> UsdPerEur]]
  /\ Cached
  /\ UNCHANGED <<tick, feed, quoted, table, crashes, fxLedger, fxDesk>>

Deposit(c) == CHOOSE d \in settler[c].deposit : TRUE
Ends(c) == settler' = [settler EXCEPT ![c] = NoRequest] /\ fxDesk' = "free"
Step(c, place) == settler' = [settler EXCEPT ![c].at = place] /\ UNCHANGED fxDesk

\* The reservations as they are found: a file that cannot be read is empty, and
\* is written back without the entries it had.
FileReads == {reservation} \cup IF table = "json" THEN {[d \in Deposits |-> "none"]} ELSE {}
Dropped(found) == {d \in Deposits : reservation[d] # found[d]}

\* _reserve_deposit, under the lock.  A trail that cannot be read shows nothing.
ReserveDeposit(c) ==
  LET d == Deposit(c) IN
  /\ settler[c].at = "lock" /\ fxDesk = "free"
  /\ \E found \in FileReads :
       \/ /\ found[d] = "none"
          /\ reservation' = [found EXCEPT ![d] = "reserved"]
          /\ forgotten' = forgotten \cup Dropped(found)
          /\ settler' = [settler EXCEPT ![c].at = "build"] /\ fxDesk' = c
       \/ /\ found[d] # "none" \/ d \in trail
          /\ Ends(c) /\ UNCHANGED <<reservation, forgotten>>
  /\ UNCHANGED <<fxMarket, attempted, trail, payouts>>

\* cross_process_lock gives up, or a check before it refuses.
SettleRefused(c) ==
  /\ settler[c].at = "lock"
  /\ settler' = [settler EXCEPT ![c] = NoRequest]
  /\ UNCHANGED <<fxMarket, fxLedger, fxDesk>>

\* _release_deposit: in the table only while it is not marked as broadcast.
Releases(d) ==
  \/ /\ table = "json" \/ reservation[d] # "broadcast"
     /\ \E found \in FileReads :
          /\ reservation' = [found EXCEPT ![d] = "none"]
          /\ forgotten' = forgotten \cup (Dropped(found) \ {d})
  \/ /\ table = "postgres" /\ reservation[d] = "broadcast"
     /\ UNCHANGED <<reservation, forgotten>>

\* Mutant: a payout that was tried is released too.
FailsTried(c) ==
  /\ Ends(c)
  /\ Releases(Deposit(c)) \/ UNCHANGED <<reservation, forgotten>>

\* Any exception of the payout ends here; the release itself may fail.
Fails(c) ==
  /\ Ends(c)
  /\ \/ Deposit(c) \notin attempted /\ Releases(Deposit(c))
     \/ UNCHANGED <<reservation, forgotten>>

\* Nonce, gas price and signature, before anything is tried.
BuildPayout(c) ==
  /\ settler[c].at = "build"
  /\ Step(c, "mark") /\ attempted' = attempted \cup {Deposit(c)}
  /\ UNCHANGED <<fxMarket, reservation, forgotten, trail, payouts>>

BuildPayoutFails(c) ==
  /\ settler[c].at = "build"
  /\ Fails(c)
  /\ UNCHANGED <<fxMarket, attempted, trail, payouts>>

\* _mark_deposit_broadcast, which the JSON file has not.
MarkBroadcast(c) ==
  LET d == Deposit(c) IN
  /\ settler[c].at = "mark"
  /\ \/ /\ reservation' = [reservation EXCEPT ![d] = IF table = "postgres" THEN "broadcast" ELSE @]
        /\ Step(c, "send") /\ UNCHANGED forgotten
     \/ table = "postgres" /\ Fails(c)
  /\ UNCHANGED <<fxMarket, attempted, trail, payouts>>

\* send_raw_transaction: it may fail before or after the node has it.
SendPayout(c) ==
  LET d == Deposit(c)
      sent == payouts \cup {[deposit |-> d, rate |-> settler[c].rate, by |-> c, at |-> tick]}
  IN
  /\ settler[c].at = "send"
  /\ \/ payouts' = sent /\ Step(c, "record") /\ UNCHANGED <<reservation, forgotten>>
     \/ payouts' \in {sent, payouts} /\ Fails(c)
  /\ UNCHANGED <<fxMarket, attempted, trail>>

\* The STABLEFX_SWAP record of the audit trail; its failure is swallowed.
RecordPayout(c) ==
  /\ settler[c].at = "record"
  /\ trail' \in {trail, trail \cup {Deposit(c)}}
  /\ Ends(c)
  /\ UNCHANGED <<fxMarket, reservation, forgotten, attempted, payouts>>

FeedMoves ==
  /\ \E f \in {{}} \cup {{r} : r \in Rates} : f # feed /\ feed' = f
  /\ UNCHANGED <<tick, rateCache, quoted, table, crashes, fxLedger, fxDesk, settler>>

FxTick ==
  /\ tick < MaxTicks /\ tick' = tick + 1
  /\ UNCHANGED <<feed, rateCache, quoted, table, crashes, fxLedger, fxDesk, settler>>

FxRestart ==
  /\ crashes < MaxCrashes /\ crashes' = crashes + 1
  /\ attempted' = {} /\ rateCache' = {} /\ fxDesk' = "free"
  /\ settler' = [c \in Settlers |-> NoRequest]
  /\ UNCHANGED <<tick, feed, quoted, table, reservation, forgotten, trail, payouts>>

FxNext ==
  \/ \E d \in Deposits : Quote(d)
  \/ \E c \in Settlers :
       \/ \E d \in Deposits : BeginSettle(c, d)
       \/ ReserveDeposit(c) \/ SettleRefused(c) \/ BuildPayout(c) \/ BuildPayoutFails(c)
       \/ MarkBroadcast(c) \/ SendPayout(c) \/ RecordPayout(c)
  \/ FeedMoves \/ FxTick \/ FxRestart

FxSpec == FxInit /\ [][FxNext]_fxVars

FxTypeOK ==
  /\ tick \in 0..MaxTicks /\ feed \in SUBSET Rates
  /\ rateCache \subseteq [rate: Rates, at: Nat] /\ Cardinality(rateCache) <= 1
  /\ quoted \subseteq [deposit: Deposits, rate: Rates, until: Nat]
  /\ reservation \in [Deposits -> {"none", "reserved", "broadcast"}]
  /\ {forgotten, attempted} \subseteq SUBSET Deposits /\ trail \subseteq Deposits
  /\ payouts \subseteq [deposit: Deposits, rate: Rates, by: Settlers, at: Nat]
  /\ fxDesk \in Settlers \cup {"free"}
  /\ settler \in [Settlers -> [at: {"idle", "lock", "build", "mark", "send", "record"},
                               deposit: SUBSET Deposits, rate: Rates \cup {0}]]

\* A deposit is paid out once: not by a second request, a repeated one after an
\* answer that was lost, or one after a restart that forgot what was tried.  Only
\* one whose entry a failed read of the JSON file dropped can be paid again.
OnePayoutPerDeposit ==
  \A p, q \in payouts : p.deposit = q.deposit => p = q \/ p.deposit \in forgotten
============================================================================
