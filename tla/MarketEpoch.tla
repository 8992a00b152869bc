---------------------------- MODULE MarketEpoch ----------------------------
(***************************************************************************)
(* The market epochs of one provider and symbol, and GenLayer's ruling on  *)
(* the reports frozen in them.  A purchase takes the snapshot of the       *)
(* current window, or builds one outside the store's lock; once paid, its  *)
(* invoice is verified through services/genlayer_arbiter.py: from the SLA  *)
(* cache, from the order in the contract, by polling the transaction of    *)
(* the invoice or of its epoch, or by a submission of its own.             *)
(*                                                                         *)
(* The store is process memory; the cache, the invoices and the contract   *)
(* outlive a restart.  A report is the number of the build it came from.   *)
(***************************************************************************)
EXTENDS Naturals, FiniteSets, Functions

CONSTANTS
  Purchases,     \* invoices
  MaxWindow,     \* bound: the last window of EPOCH_SECONDS
  MaxRotations,  \* bound: how often a snapshot is found invalid
  MaxEpochs,     \* _MAX_EPOCHS
  MaxResubmits,  \* how often a transaction is given up, 3 in the code
  MaxRestarts    \* bound on restarts

ASSUME EpochAssumption ==
  {MaxWindow, MaxRotations, MaxEpochs, MaxResubmits, MaxRestarts} \subseteq Nat /\ MaxEpochs > 0

Windows == 0..MaxWindow
EpochKeys == [window: Windows, generation: 0..MaxRotations]
NoKey == [window |-> 0, generation |-> MaxRotations + 1]
Reports == 1..Cardinality(Purchases)

VARIABLES
  window,      \* _current_index
  epochs,      \* _EPOCHS: key -> report, state and transaction
  generation,  \* _GENERATIONS
  purchase,    \* the invoices: where each is, key, report, transaction,
               \* resubmissions, and whether its verification has its epoch
  built,       \* reports built so far
  orders,      \* the contract's order of each invoice
  submitted,   \* transactions: the invoice that submitted one, and how it ended
  slaCache,    \* reports with an attestation in _SLA_VERDICT_CACHE
  poisoned,    \* reports found invalid in their epoch
  restarts

epochVars == <<window, epochs, generation, purchase, built, orders, submitted,
               slaCache, poisoned, restarts>>
storeVars == <<epochs, generation, poisoned>>
chainVars == <<orders, submitted>>

NoOrder == [report |-> 0, verdict |-> "none"]
EpochInit ==
  /\ window = 0 /\ generation = 0 /\ built = 0 /\ restarts = 0
  /\ epochs = [k \in {} |-> 0]
  /\ purchase = [i \in Purchases |->
       [at |-> "new", key |-> NoKey, report |-> 0, tx |-> {}, resubmitted |-> 0,
        epochal |-> FALSE]]
  /\ orders = [i \in Purchases |-> NoOrder]
  /\ submitted = [i \in Purchases |-> "none"]
  /\ slaCache = {} /\ poisoned = {}

CurrentKey == [window |-> window, generation |-> generation]
\* get_epoch: the store has the key, and its second window has not ended.
LiveEpoch(k) == k \in DOMAIN epochs /\ window < k.window + 2
Buys(i, k, report) ==
  purchase' = [purchase EXCEPT ![i].at = "bought", ![i].key = k, ![i].report = report]

\* begin_or_get_epoch: an epoch is found under the lock, or built without it.
StartPurchase(i) ==
  /\ purchase[i].at = "new"
  /\ IF CurrentKey \in DOMAIN epochs
     THEN Buys(i, CurrentKey, epochs[CurrentKey].report)
     ELSE purchase' = [purchase EXCEPT ![i].at = "building", ![i].key = CurrentKey]
  /\ UNCHANGED <<window, storeVars, built, chainVars, slaCache, restarts>>

\* _evict: expired epochs when there are too many, then any until they fit.
Evicted(store) ==
  IF Cardinality(DOMAIN store) <= MaxEpochs THEN {store}
  ELSE LET kept == {k \in DOMAIN store : window < k.window + 2}
       IN {Restrict(store, ks) : ks \in
             IF Cardinality(kept) <= MaxEpochs THEN {kept}
             ELSE {s \in SUBSET kept : Cardinality(s) = MaxEpochs}}

\* The lock again: another thread's epoch is used if it was first.
FinishBuild(i) ==
  LET k == purchase[i].key IN
  /\ purchase[i].at = "building"
  /\ IF k \in DOMAIN epochs
     THEN Buys(i, k, epochs[k].report) /\ UNCHANGED <<epochs, built>>
     ELSE /\ built' = built + 1
          /\ Buys(i, k, built + 1)
          /\ epochs' \in Evicted([key \in DOMAIN epochs \cup {k} |->
               IF key = k THEN [report |-> built + 1, state |-> "pending", tx |-> {}]
                          ELSE epochs[key]])
  /\ UNCHANGED <<window, generation, poisoned, chainVars, slaCache, restarts>>

\* No snapshot could be built: a report of the invoice's own.
BuildFails(i) ==
  /\ purchase[i].at = "building"
  /\ built' = built + 1
  /\ Buys(i, NoKey, built + 1)
  /\ UNCHANGED <<window, storeVars, chainVars, slaCache, restarts>>

\* mark_epoch_tx: the first transaction of an epoch stays.
WithTx(store, k, tx) ==
  IF k \in DOMAIN store /\ store[k].tx = {} THEN [store EXCEPT ![k].tx = tx] ELSE store

\* mark_epoch_verdict: an invalid snapshot is dropped and the generation bumped.
MarkVerdict(k, verdict) ==
  IF k \notin DOMAIN epochs THEN UNCHANGED storeVars
  ELSE IF verdict = "VALID"
  THEN epochs' = [epochs EXCEPT ![k].state = "valid"] /\ UNCHANGED <<generation, poisoned>>
  ELSE /\ generation < MaxRotations
       /\ epochs' = Restrict(epochs, DOMAIN epochs \ {k})
       /\ generation' = generation + 1
       /\ poisoned' = poisoned \cup {epochs[k].report}

\* The invoice is paid and verified: the report of the epoch, if it is there,
\* must be the one the invoice was sold with.
BeginVerification(i) ==
  LET k == purchase[i].key
      report == IF LiveEpoch(k) THEN epochs[k].report ELSE purchase[i].report
      tx == IF purchase[i].tx # {} THEN purchase[i].tx
            ELSE IF LiveEpoch(k) THEN epochs[k].tx ELSE {}
  IN
  /\ purchase[i].at \in {"bought", "pending"}
  /\ purchase' = [purchase EXCEPT
       ![i].at = IF report = purchase[i].report THEN "asking" ELSE "changed",
       ![i].tx = IF report = purchase[i].report THEN tx ELSE @,
       ![i].epochal = LiveEpoch(k)]
  /\ UNCHANGED <<window, storeVars, built, chainVars, slaCache, restarts>>

\* After resubmitAfterSeconds the transaction is given up, so many times.
GiveUpTransaction(i) ==
  /\ purchase[i].at = "asking" /\ purchase[i].tx # {}
  /\ IF purchase[i].resubmitted < MaxResubmits
     THEN purchase' = [purchase EXCEPT ![i].tx = {}, ![i].resubmitted = @ + 1]
     ELSE purchase' = [purchase EXCEPT ![i].at = "pending"]
  /\ UNCHANGED <<window, storeVars, built, chainVars, slaCache, restarts>>

\* verify_report accepts: the verdict is marked on the key, whatever is there now.
Receives(i, verdict) ==
  /\ purchase' = [purchase EXCEPT ![i].at = IF verdict = "VALID" THEN "valid" ELSE "rejected"]
  /\ IF purchase[i].epochal THEN MarkVerdict(purchase[i].key, verdict) ELSE UNCHANGED storeVars

\* Mutant: any attestation of the cache will do.
CachedVerdictAny(i) == slaCache # {}

\* get_cached_sla_verdict, by the report.
CachedVerdict(i) == purchase[i].report \in slaCache

AnsweredByCache(i) ==
  /\ purchase[i].at = "asking" /\ CachedVerdict(i)
  /\ Receives(i, "VALID")
  /\ UNCHANGED <<window, built, chainVars, slaCache, restarts>>

\* _validate_order binds the order to invoice and report.
ValidOrder(i) == orders[i].verdict # "none" /\ orders[i].report = purchase[i].report

AnsweredByOrder(i) ==
  /\ purchase[i].at = "asking" /\ ~CachedVerdict(i) /\ ValidOrder(i)
  /\ Receives(i, orders[i].verdict)
  /\ slaCache' = slaCache \cup {r \in {purchase[i].report} : orders[i].verdict = "VALID"}
  /\ UNCHANGED <<window, built, chainVars, restarts>>

\* The invoice stays pending with the transaction it knows of, if any; the epoch
\* learns of it too.
StaysPending(i, tx, given) ==
  /\ purchase' = [purchase EXCEPT ![i].at = "pending", ![i].tx = tx, ![i].resubmitted = given]
  /\ epochs' = IF purchase[i].epochal THEN WithTx(epochs, purchase[i].key, tx) ELSE epochs
  /\ UNCHANGED <<window, generation, poisoned, built, orders, slaCache, restarts>>

\* No order and no transaction yet: one is submitted, whose hash may be lost.
SubmitOrder(i) ==
  /\ purchase[i].at = "asking" /\ ~CachedVerdict(i)
  /\ orders[i].verdict = "none" /\ purchase[i].tx = {}
  /\ submitted' = [submitted EXCEPT ![i] = IF @ = "done" THEN @ ELSE "open"]
  /\ \E tx \in {{}, {i}} : StaysPending(i, tx, purchase[i].resubmitted)

\* The transaction at hand is polled.  One that finished with an error is forgotten
\* by the invoice, never by the epoch; its resubmissions are counted as far as
\* the count matters.
PollTransaction(i) ==
  LET failed == \E j \in purchase[i].tx : submitted[j] = "failed" IN
  /\ purchase[i].at = "asking" /\ ~CachedVerdict(i)
  /\ orders[i].verdict = "none" /\ purchase[i].tx # {}
  /\ IF failed /\ purchase[i].resubmitted < MaxResubmits
     THEN StaysPending(i, {}, purchase[i].resubmitted + 1)
     ELSE StaysPending(i, IF failed THEN {} ELSE purchase[i].tx, purchase[i].resubmitted)
  /\ UNCHANGED submitted

\* The node is not reached, or its queue is saturated.
NotReached(i) ==
  /\ purchase[i].at = "asking" /\ ~CachedVerdict(i)
  /\ StaysPending(i, purchase[i].tx, purchase[i].resubmitted)
  /\ UNCHANGED submitted

\* prewarm_genlayer_sla_for_invoice, in the background after a purchase.
Prewarm(i) ==
  LET k == purchase[i].key IN
  /\ purchase[i].at = "bought" /\ LiveEpoch(k) /\ ~CachedVerdict(i)
  /\ epochs[k].tx = {} /\ orders[i].verdict = "none" /\ submitted[i] = "none"
  /\ submitted' = [submitted EXCEPT ![i] = "open"]
  /\ epochs' = WithTx(epochs, k, {i})
  /\ UNCHANGED <<window, generation, poisoned, purchase, built, orders, slaCache, restarts>>

\* submit_and_verify of the contract: one order per invoice, for its report.
Rule(i, verdict) ==
  /\ submitted[i] = "open" /\ orders[i].verdict = "none"
  /\ orders' = [orders EXCEPT ![i] = [report |-> purchase[i].report, verdict |-> verdict]]
  /\ submitted' = [submitted EXCEPT ![i] = "done"]
  /\ UNCHANGED <<window, storeVars, purchase, built, slaCache, restarts>>

SubmissionFails(i) ==
  /\ submitted[i] = "open"
  /\ submitted' = [submitted EXCEPT ![i] = "failed"]
  /\ UNCHANGED <<window, storeVars, purchase, built, orders, slaCache, restarts>>

CacheLapses == \E r \in slaCache :
  /\ slaCache' = slaCache \ {r}
  /\ UNCHANGED <<window, storeVars, purchase, built, chainVars, restarts>>

NextWindow ==
  /\ window < MaxWindow /\ window' = window + 1
  /\ UNCHANGED <<storeVars, purchase, built, chainVars, slaCache, restarts>>

\* The store is lost with the process, and so are the requests it served.
EpochRestart ==
  /\ restarts < MaxRestarts /\ restarts' = restarts + 1
  /\ epochs' = [k \in {} |-> 0] /\ generation' = 0
  /\ purchase' = [i \in Purchases |->
       CASE purchase[i].at = "building" -> [purchase[i] EXCEPT !.at = "new", !.key = NoKey]
         [] purchase[i].at = "asking" -> [purchase[i] EXCEPT !.at = "pending"]
         [] OTHER -> purchase[i]]
  /\ UNCHANGED <<window, poisoned, built, chainVars, slaCache>>

EpochNext ==
  \/ \E i \in Purchases :
       \/ StartPurchase(i) \/ FinishBuild(i) \/ BuildFails(i) \/ Prewarm(i)
       \/ BeginVerification(i) \/ GiveUpTransaction(i)
       \/ AnsweredByCache(i) \/ AnsweredByOrder(i)
       \/ SubmitOrder(i) \/ PollTransaction(i) \/ NotReached(i)
       \/ \E verdict \in {"VALID", "INVALID"} : Rule(i, verdict)
       \/ SubmissionFails(i)
  \/ CacheLapses \/ NextWindow \/ EpochRestart

EpochSpec == EpochInit /\ [][EpochNext]_epochVars

EpochTypeOK ==
  /\ window \in Windows /\ generation \in 0..MaxRotations /\ built \in 0..Cardinality(Purchases)
  /\ DOMAIN epochs \subseteq EpochKeys
  /\ \A k \in DOMAIN epochs : epochs[k] \in
       [report: Reports, state: {"pending", "valid"}, tx: SUBSET Purchases]
  /\ purchase \in [Purchases ->
       [at: {"new", "building", "bought", "asking", "pending", "valid", "rejected", "changed"},
        key: EpochKeys \cup {NoKey}, report: Reports \cup {0},
        tx: SUBSET Purchases, resubmitted: 0..MaxResubmits, epochal: BOOLEAN]]
  /\ orders \in [Purchases -> [report: Reports \cup {0}, verdict: {"none", "VALID", "INVALID"}]]
  /\ submitted \in [Purchases -> {"none", "open", "failed", "done"}]
  /\ slaCache \subseteq Reports /\ poisoned \subseteq Reports /\ restarts \in 0..MaxRestarts

\* A report is released only on a ruling about that very report: whatever the
\* cache, a transaction shared with the epoch, an epoch replaced under its key
\* or a restart do, the contract holds a valid order for it.
ReleasedIsAttested ==
  \A i \in Purchases : purchase[i].at = "valid" =>
    \E j \in Purchases : orders[j] = [report |-> purchase[i].report, verdict |-> "VALID"]

\* A snapshot found invalid is sold to nobody from then on, though it may be
\* found by threads that wait for the lock, or built under the key it had; and
\* what is released is attested.
EpochsAreSound ==
  [][/\ ReleasedIsAttested'
     /\ \A i \in Purchases :
          purchase[i].at \in {"new", "building"} /\ purchase'[i].at = "bought"
            => purchase'[i].report \notin poisoned]_epochVars
============================================================================
