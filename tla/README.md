# A TLA+ model of qma

qma is a FastAPI backend (`backend/app`) that sells market reports to agents, has an on-chain
arbiter (GenLayer) rule on each report, pays the creator or refunds the buyer through a TypeScript
sidecar (`arc_gateway`), runs agents in worker processes, swaps and invests the operator's money, and
keeps the books of all that. This directory models the parts of it that decide whether money moves
twice, moves uncounted or stays where it is for ever, whether access is given for what was not paid,
and whether what was stored is still there. The modules are translated from the source;
`PROJECT.json` maps every definition to its lines.

How to read it: sections 1 and 2 are the inventory and the plan; 3 to 8 describe the modules, with the
code they stand for; 9 the runs and their bounds; 10 fairness; 11 the proofs; 12 where the code and its
documentation differ; 13 what is left out; 14 how to run it.

## 1. Inventory

| Component | State it keeps | Operations | What is hard | What makes it correct | Module |
|---|---|---|---|---|---|
| **Spend guard** `services/spend_guard.py` | per payer: reservations, spends, failures, tripped breaker (memory); event table (durable, best effort) | reserve, pin, commit, release, prune, replay, trip, reset | TTL against a slow broadcast, restarts, lost ledger writes, reload beside live threads | what may be spent in 24 h never exceeds the cap; a tripped breaker holds | `SpendGuard` |
| **Swap executor** `services/swap_executor.py` | execution record per quote, relayer lock | execute, reconcile, plan for a buyer | ambiguous broadcast, crash between saves, a chain that moves between reads | one transaction per quote; records agree with the chain; money moved is counted | `SwapExecution`, `SwapQuotes` |
| **Swap router** `services/swap_router.py` | quotes with an expiry (memory) | quote, store, consume, expire | prices that move under a signed plan | a plan deposits only what its swap paid | `SwapQuotes` |
| **Invoice settlement** `payment_service.py`, `genlayer_reconcile_service.py`, `arc_verdict_settlement.py` | invoice row, verdict, plan, checkpoint; shared dicts | claim, verify, poll, plan, settle, sweep | timeouts with the work still going on, copies of one dict, late reports | one transfer; report or refund; it does get done | `InvoiceSettlement` |
| **Settlement claims** `invoice_builder.py`, `payment_service.py`, `postgres.py` | claimed settlement per row; events, entitlements | check, claim, bind, enter | check, claim and binding are three steps; failed saves, restarts | one settlement pays one invoice | `SettlementClaim` |
| **Split payments** `endpoints/internal.py`, `payment_state_machine.py`, `arc_gateway/server.ts` | legs with a reservation of two minutes | reserve, record, release, verify, poll | lapses and lost answers while the money moves | a leg is charged once and keeps its settlement | `SplitPayment` |
| **Access to reports** `main.py`, `circle_client.py`, `invoice_builder.py` | tokens, gateway status in memory and in the row | authorise, return, poll, sweep | a settlement that fails after access was given, late answers, restarts, failed saves | a known failure closes access | `ReportAccess` |
| **Payment ledger and views** `payment_events_service.py`, `payment_service.py`, `circle_client.py` | invoices and events: two copies of each payment | save, reload, sweep, publish | silent failures, a list replaced under a sweep | nothing is published as settled that is not | `PaymentViews` |
| **Market epochs, arbiter** `market_epoch.py`, `genlayer_arbiter.py` | snapshots, generations, SLA cache, orders | begin, rotate, evict, verify | snapshots built outside the lock, one transaction for many invoices | a report ruled INVALID is not sold again | `MarketEpoch` |
| **Agent sessions** `endpoints/sessions.py`, `0002_agent_runtime.sql`, `agents/src/*`, `incident_engine.py` | session row, lease, generation, runtime state; withdrawals | lease, heartbeat, checkpoint, start, pause, kill, withdraw | leases that expire under a tick, unfenced heartbeats, uncertain payments | newest lease wins; killed stays killed; budget; one transfer per withdrawal | `SessionLease` |
| **Session wallets** `endpoints/sessions.py` | rows, registry of wallets | create, delete | storage calls that fail one by one | a funded wallet stays bound | `WalletBinding` |
| **Creator claims** `creator_claims.py`, `endpoints/providers.py` | claim ledger, nonces seen | create, pay out, answer | payouts whose outcome is unknown | never paid more than earned, never twice | `CreatorClaims` |
| **Rate limits** `main.py`, `creator_claims.py` | buckets, relays of a day | ask, clean up, relay | dropped buckets, check before and count after | limits hold, and when they do not | `RequestLimits` |
| **StableFX desk** `stablefx_service.py` | rate cache, reserved deposits, tried payouts | quote, settle, release | restart between reservation, broadcast and record | one payout per deposit | `StableFxDesk` |
| **USYC treasury** `usyc_treasury.py`, `contracts/USYCVault_fixed.sol` | cash, shares, policy, cached position | decide, sweep, redeem; deposit, mint, withdraw, redeem | stale reads under concurrent moves, rounding | sweeps leave the reserve; the share price never falls | `TreasuryDesk`, `UsycVault` |
| **Earn kit** `earn_kit.py` | positions in memory and in a row | deposit, withdraw, read | stale merges, swallowed failures | no deposit is lost | `EarnLedger` |
| **Euthyna audit** `euthyna_audit.py` | hash chain | record, load, verify | several processes, failed reads | the chain has no fork | `EuthynaChain` |
| **Emergency stop** `core/config.py`, `usyc_treasury.py`, `incident_engine.py` | flag, stored policy, open incidents | halt, lift, move money | flag and policy apart, overlapping updates | a halt holds; an incident keeps it | `EmergencyHalt` |
| **MCP server, OAuth** `mcp_oauth.py`, `endpoints/oauth.py`, `mcp_server/server.py` | connection, codes, tokens, spend ledger | approve, redeem, revoke, purchase | approvals beside a revocation, purchases counted late | revoked stays revoked; caps hold | `McpAccess` |
| **Agent decisions** `agent_decision.py`, `laya_decision.py` | none but the request | read, decide | fallbacks between four deciders | a purchase is within the request's limits | `AgentDecision` |
| **Spending advice** `spending_policy.py` | reads invoices and events | evaluate | two copies, calendar windows, limited reads | what is allowed fits the caps | `SpendAdvice` |
| **Storage** `postgres.py`, `json_store.py`, `supabase.py`, `repositories/storage.py` | tables of records | save, load, look up, reload | unlocked files, silent failures, whole-table saves | a row that was saved stays and is found | `RecordStores` |
| Sidecar and Circle client | none of their own | | dies or is asked twice half-way | same key each time | in the modules above |
| Reports, plugins, profiles, onramp; front end, SDKs, scripts | | | | | section 13 |

How they interact: the executor calls the guard and never the other way round; a request thread and
the background sweep share invoice dicts and the lock `genlayer_verify:<invoice>`; the sidecar is called
over HTTP with a timeout and calls back into the backend; agent workers are processes of their own
that lease sessions over HTTP; desks, treasury and Earn kit read the halt before they move money and
write to the audit trail after; almost everything is saved through `repositories/storage.py`. The
backend is one process (`core/config.py` refuses more), so concurrency is between threads of one
process, between two lives of it, and with the world outside; only the audit trail and the JSON files are
locked between processes as well.

## 2. Plan

Order was by how much money is at stake when the part is wrong, and by how little tests reach it.

| | Modules | Status | Composes | Abstract specification | Theorems |
|---|---|---|---|---|---|
| 1 | `ReservationProtocol`, `SpendGuard` | done | the guard under every caller that follows the protocol | `ReservationProtocol` | types, daily cap, replay, breaker |
| 2 | `SwapExecution` | done | instantiates the protocol: the executor *is* such a caller | `ReservationProtocol` | one transaction, records, counted, protocol, settled |
| 3 | `InvoiceSettlement` | done | backend, sidecar, Circle | | types, one key, report or money, confirmed by Circle; liveness with TLC |
| 4 | `SettlementClaim`, `SplitPayment`, `ReportAccess`, `PaymentViews` | done | before and after 3, over the same invoices | | one invoice per settlement; split legs; closed access; published figures |
| 5 | `SessionLease`, `WalletBinding` | done | workers, owner, administrators, relayer | | fence, killed, lock, withdrawals, budget; wallets |
| 6 | `MarketEpoch` | done | the store behind the epoch that ends in 3, and the arbiter | | what is released and sold |
| 7 | `StableFxDesk`, `CreatorClaims`, `RequestLimits` | done | back end, sidecar, chain | | one payout; what creators are paid; both limits |
| 8 | `TreasuryDesk`, `UsycVault`, `EarnLedger`, `EmergencyHalt` | done | runs, administrators, chain, storage | | vault, reserve, deposits, halt |
| 9 | `McpAccess`, `AgentDecision`, `SpendAdvice`, `SwapQuotes` | done | | | revocation, caps; decisions; advice; covered deposits |
| 10 | `RecordStores`, `EuthynaChain` | done | facade and back ends; processes | | rows that stay, one chain |
| 11 | the sweep's queue of 20 over many invoices; liveness of the executor once something reconciles after a restart | open | on 2 and 3 | | (liveness stays with TLC) |
| 12 | `Sums` and the `*Proofs` modules | done | | | section 11 |
| 13 | `RefundedIsTerminal` for one request thread as a theorem; a specification of one payment that `InvoiceSettlement` implements | open | on 3 | | |

## 3. `ReservationProtocol`, `SpendGuard`

`ReservationProtocol` is the contract between the guard and its callers, as the life of a
reservation: made, pinned before anything is broadcast, then committed or released, or abandoned by
a crash before it was pinned. The guard's actions are conjoined with it, so `SpendGuard` is the guard
under *any* caller that follows the protocol; `SwapExecution` shows that the executor follows it.
That is how the two are composed without a product of their state spaces.

`SpendGuard` models `SpendLimitGuard` for one payer (every structure is keyed by payer). `held`,
`spent`, `failures`, `trippedAt`, `seeded` are `_reservations`, `_spends`, `_failures`,
`_tripped_breakers` and `_seeded_payers`; `ledger`, `reservedAt`, `spentAt`, `lastTrip`, `lastReset`
what the event table says. `Reserve` is the whole of `reserve_spend`: a forced reload from the
ledger, the prune, the breaker, the limits, then the reservation and its event; `RefuseReserve` is
its early return, after the same reload. `CommitSpend` and `ReleaseSpend` return silently on an id
the process does not hold, as the code does. `Restart` forgets the memory; each event write may
be lost if its kind is in `Losable`, since `_persist_event` logs and goes on, and a read may come
back empty if "READ" is.

`can_spend`, which `agent_decision` calls without the payer's lock, is in two steps while it seeds the memory:
`StartSeeding` marks the payer seeded and reads the ledger (`spend_guard.py:147`), `FinishSeeding` applies that copy later, and
with it undoes in memory what was committed, released, pinned or reset meanwhile (`:203-214`). `reading` holds the copy that is
out. A spend recorded in that time, remembered in the history variable `overtaken`, is gone from the list until the next
`reserve_spend` loads it again: reservations are always decided on the reloaded list, so the cap holds, while the advice of
`can_spend` and `get_daily_spent` may be too generous until then. `SpendCountsForADay` states exactly that exception.

Abstractions: one payer; amounts in whole units (`Total` counts units, so that sums need no
recursion); `can_spend` reads its two totals at once, and a process has one unlocked read out at most (two calls
would have to pass the test of `_seeded_payers` before either adds to it); the reload inside `reserve_spend` is one step:
commit and release take the same lock, while a pin or a breaker event beside it is before or after it; no two breaker
events share a timestamp;
`PinWithin` stands for the executor's bounded waits between reserving and pinning.

## 4. `SwapExecution`

An attempt is one call of `execute_quote`, a reconciler one of `reconcile_swap_execution`, both
step by step: an action is the code between two effects that others can see (a save, a call to the
guard, an RPC call). `status`, `owner` and `nonce` are the durable record of each quote, `outcome` what
the guard was told (the variable of `ReservationProtocol`), `mempool`, `mined` and `latest` the chain
as one relayer account sees it. The steps of an attempt: `Check` (pre-flight on the record and the
quote), `Reserve`, `Consume` (saves PENDING), `Sign` (saves PREPARED with the signed bytes), `Pin`,
`Submit`, then `Broadcast`, `BroadcastUnclear`, or `NonceTooLow` and `Collide`, then `Await` and `Close`. Each
save may fail (`SaveFails`), and then the code's handler is what happens: release before anything
was signed, UNCERTAIN after.

A reconciler works without a lock on the copy of the record it read first: receipt
(`LookForReceipt`), then mempool, then confirmed nonce (`LookAtNonce`), then perhaps the same bytes
again (`Resend`), then its save. `quiet` is chosen at the start: in a quiet setting the chain does not move, and no replica
lags, between the receipt and the nonce, and reconcilers are called on UNCERTAIN records only, as
`execute_quote` does; otherwise on any record, as the tests do.

Abstractions: venues, calldata, allowances and prices are gone; a transaction is its attempt and its
nonce; another transaction of the relayer is `OtherTransaction`. `PendingNonce` is what the node may
answer: the first nonce from the latest on that no transaction in its pool has.

## 5. `InvoiceSettlement`

One invoice paid by one Circle settlement. A thread serves a request (`VerifyPayment`,
`StatusPoll`) or is the sweep (`SweepPending`, `SweepSettlement`). Their steps: `Claim` and `Bind` (ask Circle,
bind the settlement), `Refresh` (of the gateway status), `Verify` (is there a report, has its hash
changed), then GenLayer `Answered` or `Unanswered`, then `Settle` (make the plan, ask the sidecar),
`Answer` or `Timeout`. The sidecar's run for a thread goes on by itself: `Fetch` the plan,
`Confirm` the source, `Mint` under the plan's key, checkpoint (`Minted`), `Poll`, and report; it may
fail, report retryable or vanish at any point, and after a timeout it runs beside its successor.

Invoices are Python dicts. `heap` holds the copies alive, `cur` the one in `invoices_db`, `ref` the one a
thread works on, `saved` the row in the database. A save that fails drops the dict from the
table (`main.py:774-776`), and the next request loads another copy.

Abstractions: one sidecar request per thread at a time; CPU-only sections are one step; a plan is
made in one step (the verification path does not take the plan lock that `settle` takes; that window
has no I/O); the settlement-claim lock is left out, which only adds behaviours; a report is the
label of its hash.

## 6. `SessionLease`

One session of one owner on `PostgresStorage`, the back end `create_storage_backend` gives
production. `row` is the row of `agent_sessions`: status, worker and lease, generation, and of its
`runtime_state` the state of the agent's session (`phase`) and what it has spent. Workers are
processes: `Claim` is `claim_agent_session_lease` with the worker's `tryStart`; a tick (`tick`) buys
at most one report, step by step: `Choose` a candidate within the remaining budget, `Allow` and `Create` (the
check and the save of `create_invoice`), `Pay`, then `Bought` or `Uncertain` or `Refuse`, and
`Checkpoint`. Anything may be lost: `EndsUnreported` is a worker that dies, a checkpoint that is refused or does
not arrive, a tick that a failed heartbeat aborted. A lease may `Expire` at any moment, also
under a live tick, and then another worker, or the same one, leases the session again; `Heartbeat` extends whoever's
lease, as `PostgresStorage.rpc` does. `Ruled` is GenLayer and the settlement of module 4 reduced to their outcome.

The owner's `Start` (start and resume) takes `owner_ops_lock`; his `Stop` changes nothing (section 12). An
administrator's pause, resume or kill is `Load`, which reads the row and decides, and `Apply`, which
compares the status and writes back the `runtime_state` it read. A withdrawal is `Submit` (under
the lock: no active session, the operation bound and saved, the relayer asked), `Relay` or `RelayFails` at
any later time, and `Answered` or `Unanswered`, after which it may be called again. `op` is `qma_withdrawals`. An
operation that cannot be read or written there is kept in the process instead (`kept`, which a restart clears);
`Reserved` has both cases, `Answered` too, and `lapsed` (history) the operations it happened to.

Abstractions: prices are positive integers; one `invoice` per generation, since a tick makes at
most one; `next_run_at` is left out, because a checkpoint never sets it later than the end of the lease;
a tick whose abort was signalled is one that sends no more heartbeats and ends unreported. A
worker's PATCH of the session exists (`updateSessionState`) but nothing calls it. Owners may edit
the budget; the model's is fixed.

`orderly` (history) says that no tick was overtaken by another lease, none ended unreported, and no
`Apply` wrote back a state that was out of date. `BudgetCeiling` holds under it, and fails without:
`create_invoice` does not count invoices under verification, so only the agent's own account keeps
the ceiling, and that account is in the `runtime_state` that is lost or overwritten.

## 7. The marketplace: nine modules

`MCMarketplace` puts them into one run. They share no variable: `part` is chosen at the start, a behaviour
is about that one, and the others stay as they began. The union of the state spaces is explored, never
their product.

- **`SettlementClaim`**: several calls of `verify_payment` for several invoices and settlements, on PostgreSQL.
  `row` has the columns `status` and `settlement_id` and the copy inside the JSON of an invoice, `mem` is
  `invoices_db`, `entered` the settlements in events and entitlements, `lock` the locks
  `settlement_claim:<id>`. A call takes the lock or times out, looks for another owner, claims by the
  conditional UPDATE, binds after Circle's answer, and enters the payment after the ruling, when the lock is gone.
  Any save may fail (memory then loses the invoice), `SaveBack` is another thread that saves an old copy, and a
  restart may come anywhere.
- **`SplitPayment`**: the sidecar's request for a leg looks, reserves, settles, records and perhaps releases; each
  endpoint runs under its locks and is one action. Answers may be lost after the endpoint did its work. A
  reservation lapses after two minutes. `unsure` are the legs let go while a settlement was open: only those can
  be charged twice.
- **`ReportAccess`**: tokens, polls, `authorize_paid_invoice`, the report, and `reconcile_disputed_invoices` (here
  `StartSweep`, `AskForVisit`, `EndVisit`), against a Circle that accepts first and may fail later. `saved` is the row of an
  invoice, `paper` the object in `invoices_db`, `dropped` an object that a failed save took out of it and that some
  thread (`astray`) still holds. A look-up at Circle is three steps, asked, answered, written, and what is written is what was
  answered then. A report's fetch changes its object and saves nothing. `learnt` has the invoices whose failure is in memory,
  `recorded` those whose failure is in the row: nothing is authorised while either knows.
- **`PaymentViews`**: each payment is kept as its invoice and as an event; saves and loads fail silently, `StartRefresh` /
  `FinishRefresh` is the background sweep over objects that a reload (`BeginReload`, `EndReload`) may have
  replaced meanwhile. The two views that are published are operators over both copies.
- **`CreatorClaims`**: `CreateClaim` is the whole of the check and the debit, which run under two locks; payout
  requests are posted, carried out and answered apart, in any order, and the sidecar may still act after the
  backend gave up. The replay cache is cleared when full and by a restart; the index on nonces is not.
- **`AgentDecision`**: the cascade (rule, local model, remote model, ranking) as operators, one step per request after
  the entitlements were read; what a model answers is any plan at all, then checked as the code does.
- **`WalletBinding`**: creations and deletions of one owner's sessions, one action per storage call, each of which
  may fail, with wallets that receive and lose USDC meanwhile. `doubtful` and `replaced` (history) say that a creation
  ran beside another or failed to read the registry, and that another wallet was registered over the registered one.
- **`McpAccess`**: one client and one wallet. Approvals (load, bind, code), the exchange of a code, the revocation
  (find, patch, delete codes), and purchases: caps compared, session started, report bought, collected and
  entered in the spend ledger under the newest entitlement.
- **`SpendAdvice`**: what the wallet paid, what the two copies know of it, and whether `evaluate_spending` allows the
  next purchase; day, week and month are calendar windows, and a query returns so many rows only.

## 8. The operator's desks and books: ten modules

`MCDesks` puts them into one run, in the same way.

- **`MarketEpoch`**: purchases take the snapshot of the current window or build one outside the lock (`StartPurchase`,
  `FinishBuild`), eviction and rotation as in `market_epoch.py`, then the verification through
  `genlayer_arbiter.py`: SLA cache, order of the contract, poll of the invoice's or the epoch's transaction, or
  a submission, given up after `MaxResubmits`. A report is the number of its build. `poisoned` are the
  reports ruled INVALID in their epoch.
- **`StableFxDesk`**: quotes at the cached or configured rate; a settlement checks, reserves, builds, marks, sends
  and records, under `stablefx_settle` from the reservation on; what fails before the broadcast releases. The
  mark that a payout was tried is memory, the state of the reservation a row, or an entry of the JSON file, which a
  failed read takes for empty and the next save replaces (`FileReads`; `forgotten` are the deposits dropped that way).
- **`TreasuryDesk`**: CFO runs and administrators' orders decide, pass the rails, send, and wait for a receipt or
  give up; the transaction may be mined at any time after. Payments leave the account meanwhile. A call names the account it
  is about: that one is read and checked, while the account of the private key pays ("own"; any other is "other", about which
  the module knows only what is read). `left` is what else left the account that pays since a sweep was checked on it.
- **`UsycVault`**: the contract, one call per step: deposit, mint, withdraw, redeem, yield, donations, sweep of the surplus,
  cap and pause; `mulDiv` with its two roundings in exact integers.
- **`EarnLedger`**: the position in memory and in its row, with the refresh under the lock, the merge without it,
  withdrawals in two locked parts, and saves and reads that fail silently.
- **`EuthynaChain`**: processes that load, chain and save under the lock; a hash is the identity of the record it is of, so
  verification compares predecessors. The trail is in the database, in a file, or, with a custom path under
  PostgreSQL, nowhere.
- **`EmergencyHalt`**: an update of the policy is five steps (set, compare, write the flag, sync, save); storage may fail
  at each. One movement of money (they do not depend on each other) looks at the flag, then at the policy, and sends the
  money at any time after that (`CheckFlag`, `CheckPolicy`, `MoveMoney`). `gated`, `alone`, `overlap`, `stands` and `sure`
  record what the property speaks of: `sure`, that the movement began to look while an answered halt stood.
- **`SwapQuotes`**: the router asks all venues, ranks them, checks the best against the oracle anchor and stores the quote;
  `build_fund_gateway_plan` turns it into steps that the buyer signs one by one while prices move. Calldata
  are ABI words, decoded as the router contract would.
- **`RecordStores`**: for eleven tables and three back ends, how a row is written (under a lock of the file, without,
  or as one statement), what a failed write says, how many rows a read returns, and which of that the facade in
  `repositories/storage.py` passes on; reloads replace the process's copy. Paid reports are also saved as a whole, and the
  refresh of the payments replaces their JSON file by the list in memory, perhaps one that a reload has replaced since. `raced`
  are the payments saved beside such a reload or such a list.
- **`RequestLimits`**: the buckets of the HTTP middleware, with the clean-up of stale ones and of those over the limit
  (a bucket, a list of times in the code, is the set of its requests, each with its time and its number in the window);
  and the day's relays of one depositor, checked before the gateway is asked and counted after. Both are memory of the
  process: a restart (`LimitRestart`) empties them and ends the calls under way.

In all of them amounts are small integers, names are model values, an external service answers anything it can
answer, and a step is the code between two effects that another thread, process or restart can see.

## 9. Runs

Deadlock checking is off in all of them: clocks and counters are bounded, and a finished attempt, a settled
invoice or a redeemed code really is the end.

| Run | Checks | Shows |
|---|---|---|
| `spend_limits` | `DailyCapHolds`, `SpendCountsForADay`, `ReplayIsComplete`, `BreakerHolds` | the cap across TTL expiries, restarts, lost SPEND and RELEASE events and old copies of the ledger applied late; the breaker across restarts and lost TRIP and RESET events |
| `swap_races` | `OneTransactionPerQuote`, `RecordMatchesChain`, `MovedIsCounted`, `GuardIsCalledLegally`, `SettledStaysSettled` | the executor against a chain that moves between any two reads; the last three where it does not |
| `invoice_rebuilt` | `OnePersistedKey`, `ReportOrRefund`, `ConfirmedIsComplete` | one transfer, one outcome, with a restart or a failed save, timeouts, two copies, and epochs that are rebuilt |
| `invoice_settles` | `RefundedIsTerminal`, `EventuallySettled` | a ruled invoice gets settled, whatever dies on the way |
| `session_leases` | `NotQueuedWhileWithdrawing`, `OneTransferPerOperation`, `BudgetCeiling`, `NewestTickWins`, `KilledStaysKilled` | two workers, an administrator, the owner and his withdrawals |
| `marketplace` | eleven properties of the nine modules of section 7 | see there |
| `desks` | ten properties of the ten modules of section 8 | see there |
| `swap_collision`, `invoice_refunded`, `invoice_payer`, `session_stop`, `records_durable` | one property each | violated: section 12 |

Bounds, and why they are enough:

- `spend_limits`: reservations of 1, 1, 2 and 3 units against a cap and a single-transaction limit of 2: both
  small ones or the large one fill the cap, any further must be refused, and the last is always too large. TTL 2,
  day 3, clock 6 (7 for the breaker): a reservation can expire, be pinned late in its TTL, be committed, and leave the day
  while later ones are made; two trips with a reset between them and a restart after either. The
  constraint `OneQuestion` keeps apart behaviours about the cap and about the breaker; while `can_spend` has read the ledger and
  not applied it, or after something overtook it, there are the two small reservations and a clock of 5: one
  spend that is lost and one that takes its place. Section 11 removes the bounds.
- `swap_*`: two attempts and two quotes: two calls on one quote, and two quotes contending for one nonce.
  `MaxNonce` 2 bounds only `OtherTransaction`. `Settings` starts quiet behaviours (records that are UNCERTAIN are
  reconciled, receipt and nonce are of one moment) and others; `SmallUnlessQuiet` keeps the second reconciler
  and the two calls for one quote to the quiet ones. Proved without bounds.
- `invoice_*`: one request thread and one sweep: two is what a lock, a lost copy or a late report needs. `MaxKeys` 2:
  one more than may be used. `MaxFaults` 1: one restart or failed save, anywhere. `RebuiltOrCopied` keeps apart
  rebuilt epochs with a restart, and two copies with a failed save, where a second key is possible (section 12).
- `session_leases`: two workers and two leases (`MaxGeneration` 3, a row starts at 1): a tick and the one that overtakes it. Budget
  1 and price 1: any second purchase is one too many. Two calls, one operation, two amounts: a withdrawal
  and its repetition, with the same amount or another. `KeptApart` lets the database fail a withdrawal, and answers be
  kept in memory, only beside the first tick and without a purchase, since withdrawals look at nothing of the tick but the row's
  status. The view leaves out `stopped`, which no action and no property of the run reads.
- `marketplace`: three claims, two nonces and three sales of two providers (one paid automatically): a claim too many, a nonce
  used again, a claim beside an automatic payout. Three requests for two legs with one lost answer. Two
  invoices, two settlements and two calls, where one settlement would be accepted for both. One invoice with two requests
  for its report, a poll and a visit of the sweep, any number of restarts and failed saves, but one dropped object of it at
  a time; a sweep that does not come to an invoice (`max_invoices`) is one that does not start. One invoice of
  the ledger with one failed read or write, whole or split. Two offers and all combinations of wording, limits and
  tiers. Two session ids, two wallets, two creators, two deleters, one storage fault at any of seven places: two creations
  that overtake each other and a deletion beside them. Two approvals and two
  purchases. Two payments over three days, a week of two and a month of three, and five sets of caps, each with another one
  that binds. `ReadLimit` 3 and `LedgerReadFails = FALSE`: see section 12.
- `desks`: two purchases, three windows, one rotation, one epoch kept, one restart. One deposit, two settlements, two rates,
  one crash, any number of failed reads. One CFO run and two administrators on either rail, each for the account that pays or
  another. Three calls, one reader, one fault, two back
  ends. Two holders, two virtual shares, sums up to 3. Two writers, four records, failed reads. Two halts and
  two lifts, one acknowledged, one fault. Three venues. Four savers and two rows, where a limited
  read returns one. Two addresses and three scopes, of which one is unlimited; two buckets kept; three withdrawals over
  two ticks with one relay a day; one restart. The constraint `InTurn` lets administrators, and the savers, which are
  interchangeable and begin once, begin in a fixed order.

Every property has a mutant: an operator whose comment begins with "Mutant:" and which, in place of the
definition named in `PROJECT.json`, makes TLC find that property violated under the same configuration. No
specification uses them.

## 10. Fairness

Only `InvoiceSettlement` has liveness, under `FairSpec`:

- weak fairness of each thread that is not idle: every wait in the code has a timeout, and a thread
  that is in a handler goes on;
- weak fairness of each sidecar run: it goes on, or fails;
- strong fairness of the sweep's two entries: the loop comes around for ever
  (`genlayer_reconcile_service.py:454-463`), and finds the lock free again and again. Requests are *not*
  fair: no buyer has to come back;
- Circle ends every transaction it has accepted (complete or failed);
- outages end: from some point on, calls to Circle and GenLayer are answered and the sidecar stays
  up. Without that the code can promise nothing; it may take any finite time.

The sweep takes the first 20 invoices of each kind. With one invoice that limit is not seen. No other module
claims that something happens in the end: what the others do on failure is to answer with an error and
leave the next step to a caller, and no caller has to come.

## 11. Proofs

Eight modules, 44 theorems, each for every value of the constants under the module's own assumptions (which TLC
evaluates for the values of its runs). A theorem that needs more says so in its statement: those are the conditions of
section 12 that the code does not guarantee.

**`SpendGuardProofs`**: `TypeCorrect`; `DailyCap`: `Reliable => (Spec => []DailyCapHolds)`; `ReplayComplete`:
`Reliable => (Spec => ReplayIsComplete)`; `BreakerRespected` and `SpendCounts`: `"READ" \notin Losable =>` the breaker holds,
and a recorded spend counts for a day.
`Reliable` is what the cap needs of its surroundings: callers pin within the TTL (`PinWithin <= TTL`), and
RESERVE and PIN events and ledger reads are not lost. The code does not guarantee the last two: a
failed write is logged and a failed read is an empty list (`postgres.py:873`), so after a restart
in such an outage the guard starts its day at zero. `DailyCapHolds` is not inductive: it speaks of what is at
risk in the world, and a reservation is admitted by what the process remembers. The invariant is
`TypeOK /\ LedgerTells /\ Total(Risks) <= Cap`, where `LedgerTells` ties the ledger to the world: what was made has
its RESERVE event, what is pinned or committed its PIN event, a RELEASE event only if it was released.
From it `ReplayCovers` shows that the reload at the head of `reserve_spend` brings all that is at risk into
memory; `ReserveKeepsCap` then follows from the guard's own comparison, and `OthersOnlyLower` shows that no
other step adds to the risk. `BreakerRespected` needs no such invariant: the reload that precedes every
decision reads the newest trip and reset. `SpendCounts` needs `Unseeded` (a process that has not read the ledger holds
no reservation, so it has none to commit) and `CopiesCount`: a copy still out lacks only spends recorded after it was read.

**`SwapExecutionProofs`**: `OneTransaction` and `RecordsMatch`, in quiet settings or not, by `SwapInv`: an owner of a
record has consumed its quote (`OwnersConsumed`); what an attempt has at each place (`PlacesAreRight`); what was signed
has the saved record of its quote (`SignedIsSaved`), which is what makes two signatures for one quote
impossible; a mined transaction's nonce is spent (`MinedIsOver`); final records are borne out by the chain
(`EndsAreTrue`); and a reconciler saves only what it saw (`ReconcilersAreRight`), which is needed because it works on a copy.

**`SwapGuardProofs`**: `Counted`, `CalledLegally`, `Settled`, in quiet settings, by `GuardInv`, which adds to `SwapInv` what the
guard was told by each place (`PlacesAreTold`) and by the chain (`ChainIsTold`), that an attempt has left the records that
reconcilers take up (`ReconciledAreLeft`), and that what a reconciler read stays true (`ReadsStayTrue`). `CalledLegally` is
the refinement: every step maps to a step of `ReservationProtocol` or to a stutter. With `DailyCap` it says that the
executor is among the callers the cap is proved for, as far as pins and outcomes go; that its waits keep within
the TTL is the assumption `PinWithin`.

**`InvoiceSettlementProofs`**, for any number of threads, copies, keys and faults: `TypeCorrect`, `ReportOrMoney` and
`ConfirmedByCircle` by `InvoiceInv`: every copy and the row agree with Circle (`Sound`: who is paid has a payout planned, what
is confirmed was completed, what is planned has a key); a thread that waits has a copy with a plan (`ThreadsHold`); and what
a run of the sidecar knows is true (`RunsAreTrue`), which carries a late report safely into any copy. `OneKey` adds
`OneCopy`: where no save is lost there is one copy, it agrees with the row, and every run works with the row's key.

**`SessionLeaseProofs`**, with no assumption about losses or fairness: `TypeCorrect`; `NewestWins`, by `TicksAreOld`: no tick has
a generation the row has not reached, so that a tick which passes the fence is the newest one; `KilledStays`, by
`NoneLoadedStopped`: no administrator's call is under way on a session it read as stopped; `NotQueued`, by
`LockHeld` and `QueuedByStart`; `OneTransfer`, by `SentAsBound`: what was sent agrees with what its
operation is bound to in the database, unless that failed a call of it, and an operation once bound there stays bound. `Apart` says once that withdrawals and the
rest touch different variables. `BudgetKept`, by `Accounts`: the total of the invoices is covered by what the row says was
spent while no tick runs, and by what the tick believes, plus the invoice of its own generation, while one does
(`TickAccount`). Generations above the row's have no invoice yet.

**`Sums`** holds the laws of sums that `BudgetKept`, `PaidWithin`, `CapsHold` and `AdviceStands` need. The code's sums are folds
of the community modules, defined by a CHOOSE of a recursive function, about which the library's induction theorems cannot
be used here (they take an operator as parameter). The laws are proved by the least counterexample instead: `LeastSet`
gives, in any set of finite sets that has a member, one without a smaller member in it, and `SumUnique` and `SumExists`
show with it that a function on the subsets of a finite set obeys the equations of the fold, and only one does. From there:
`SumSplit` (a member taken out), `SumChanges` (one value changed), `SumMonotone`, `SumOfPart`, `SumPlus`, `SumZero`, and
`SumInjected` (one sum is at most another if its terms map into it one to one).

**`MarketplaceProofs`**, one section for each module of section 7:
- `OneInvoice`. `OneInvoicePerSettlement` speaks of what rows are bound to; the invariant `ClaimInv`
  adds that a binding, in a row or in memory, is the claim of its row (`CopiesAreClaimed`), that no two rows claim
  one settlement (`ClaimsDiffer`), that a call between check and binding holds the lock (`LockHeld`), and that no
  other row claims what a call is about to bind (`NoOtherClaim`): a restart lets go of the locks but ends the calls.
- `LegChargedOnce`, `PaidLegStays`, by `SplitInv`: a leg that was never let go early has at most one request that may still
  charge the buyer or has, and is reserved for it or paid by it (`EngagedOnce`).
- `FailureCloses`, by `FailuresAreReal` (what object, row or answer calls failed is failed at Circle, for good), by
  `FailuresAreKept` (what is learnt is in memory, and what is recorded in the row) and `CopiesKeep` (who still works
  on an object that a failed save dropped).
- `SignedClaimsPaidOnce`, without conditions, and `PaidWithin` under `WholeLedgerIsRead` (a read of the claim ledger does not
  fail and returns every claim): what is sent is reserved in the ledger, one claim per nonce is, and the debits are covered by
  the final sales that are not paid automatically (`DebitsCovered`).
- `PublishedIsTrue`, by `CopiesAreTrue`: what an object, a row, or a table about to be loaded calls completed, Circle has
  completed; and `PaidTogether`: the legs of a split invoice are paid in one step.
- `PurchasesWithinPolicy`: what each of the four deciders returns is `Sound` (`AcceptedIsSound`, `CascadeIsSound`).
- `AdviceStands`, by `InvoiceLags`: the invoice has what Circle says now or said before, never a state that would not count
  while the money has left; and `DaysInOrder`: billed, settled, ruled on. Then every payment that left
  the wallet in a window maps to a row the advice counts, one to one (`LeftIsCounted`, with `SumInjected`).
- `Revocation`, by `NoneUnderWay`: from the PATCH of the row on, no approval is between its load of the
  client and its code, unless one was under way then (`raced`). `CapsHold`, by `WithinCaps`: with what the purchase under way
  may still pay the connection stays within its budget.
- `BoundWhileFunded`, by `Relied`: what a deletion relies on (the registry has the wallet, another row has it, or it was empty)
  stays while it holds the lock, and by `OneRegistered`: creations one by one choose the wallet that is registered.

**`DesksProofs`**, one section for each module of section 8:
- `OnePayout`, by `FxInv`: the request past its reservation has the desk (`OneAtTheDesk`), its
  deposit is reserved, unpaid before the payout is sent and flagged from the mark on (`DepositInHand`), and what
  was paid stays reserved (`PaidStaysReserved`), because a release needs a deposit that was not tried, in this process
  or in the row. Where a failed read of the file dropped an entry, each of these says so (`FoundRows`, `ReleaseKeeps`).
- `VaultInvariant`, `PriceNeverFalls`, `VaultCovered`. The step lemmas are products of naturals: what rounding
  down loses (`DownBound`) and rounding up gains (`UpBound`) goes to the vault. The invariant says that the supply is the
  number of shares held (`Issued`, by cardinalities), and that the ledger is at least
  worth the initial price (`Backed`).
- `DepositsKept`: inductive with the types, because every mutation loads the row again under the lock; what readers merge in
  between does not matter (`RefreshedCovers`).
- `ReserveKept`, by `CheckedSweeps`: from its check until it is mined, the cash and what else left the account since cover the
  reserve and the sweep. Outflows lower the cash by what they add to the count of every sweep under way (`OutflowKeeps`).
- `TrailIsOneChain`, by `HoldsTheTrail`: between its load and its save a process holds the lock, and its copy is the trail
  unless the read failed.
- `DepositCovered`, by `PlanInv` and `PlanOf`: at each signature what the plan deposits is the floor in the calldata of its
  swap, no more than the vault pays, or paid already; prices that move cannot make a swap pay less than its floor.
- `HaltStands`, by `HaltAlone` and `GateHolds`: a movement that began to look after the answer gets past the flag only after
  one failure, and past the policy only after another. After an update alone, flag and policy both say halted (one of them does after
  one failure, `OneStoreHalts`); while updates do not overlap and nothing fails the two agree between updates, and at each
  place of one they are what that place has written (`StoresAgree`).
- `EpochsSound`, by `StoreIsSound` (a report is in the store under one key, and none that was found invalid is) and
  `RulingsStand` (what the cache attests and what was released has its order).
- `RowsStay`, by `SaverKnows`: who is between load and replacement of a file holds its lock, and its copy is the table; and by
  `ListInv`: while neither a reload nor a replaced list is about, the list in memory has every payment that is written.
- `LimitsStand`: unless the process restarted meanwhile, every request let through in the last window is in the bucket of its key unless more keys than are kept were
  busy about then (`BucketsHold`); of the regular withdrawals one at most is out (`OneAloneOut`), those that are over are
  remembered for a day (`RelaysRemembered`), and when one was let out there was room for it (`RoomForOne`).

Only model-checked: `RefundedIsTerminal`, which is false for more than one request thread or with rebuilt epochs (section 12) and
is checked where it holds; `EventuallySettled`, because liveness under fairness is out of the prover's reach; and the
properties of the violated runs. No module uses a recursive operator.

## 12. Where the code and its documentation differ

Each of these is a run that TLC ends with a counterexample.

1. `swap_collision`: `reconcile_swap_execution` reads the receipt, then the confirmed nonce. If its
   own transaction is mined in between, it finds no receipt and a nonce past its own, which
   `swap_executor.py:581-582` calls a proof of replacement; it saves FAILED_NONCE_COLLISION, trips the
   breaker and releases the reservation of a swap that happened. `MovedIsCounted` is therefore
   claimed for quiet settings only.
2. `invoice_refunded`: `verify_payment` tests the status before it asks Circle and sets
   `verification_pending` after it; an invoice refunded meanwhile loses its terminal status.
   It takes a rejection without a verdict (a rebuilt report), or a second request that binds the invoice while the first
   still waits for Circle; `invoice_settles`, where the status holds, has neither: one request thread and no rebuilt
   epoch.
3. `invoice_payer`: a settlement sent by a relayer or smart account is refunded to the buyer's
   wallet by the backend and refused by the sidecar, for ever.
4. `session_stop`: the owner's stop puts the session's id into the path of its PATCH; `PostgresStorage`
   drops it there, finds no filter and updates nothing, and the endpoint answers "stopped". The
   session goes on being leased, and the owner cannot withdraw. Deletion has the same defect. The JSON
   back end reads the path, so the tests pass.
5. `records_durable`: an entitlement is put into the process's table of paid reports and the table is then
   saved as a whole; a reload in between replaces the table by what was read before, the save succeeds without the row,
   and the report is handed out although its entitlement is stored nowhere (`main.py:1164-1165`, `core/state.py:203`).

Conditions under which a property that holds here would fail, all of them real in the code; the property
states the condition, or the configuration excludes it:

- *Ledger reads.* A failed read of the spend guard's events, of creator claims (`postgres.py:605`, against
  `storage.py:359`: "Database errors cannot be interpreted as zero previously paid claims.") or of
  invoices is taken for an empty one, and several queries return their first 500 rows: caps and earnings are then
  computed from less than was paid.
- *Executor.* A record left PREPARED or SUBMITTED by a crash stays in flight, since nothing in the backend
  reconciles it (`swap_executor.py:703`), while `docs/security/AUDIT_FINAL_V4.md:113` says that this happens by itself.
  The array in the calldata of a buyer's Uniswap plan has its contents in the head, after an offset of six
  words (`swap_executor.py:371`), which the router cannot decode: such a swap reverts, and the plan has no
  approval for the gateway's deposit.
- *Invoices.* After three resubmissions (`genlayer_reconcile_service.py:575`) an invoice without a verdict is left
  alone; with one failed save and two keys, two threads plan one invoice under two idempotency keys, against the
  comment at `arc_verdict_settlement.py:131`. A split leg let go while its settlement was open can be charged twice.
  A report that learns of a failed settlement changes the invoice in memory only (`main.py:1141-1151`): after a restart, or a
  failed save that drops the object, the old status is loaded and a valid token opens the report again, until a poll, a report
  or the sweep asks Circle anew.
  The report of a disputed invoice can still be read through the wallet's report detail. "Every invoice created inside the window
  reuses the frozen query and report" (`market_epoch.py`) is not always so: an evicted or rotated epoch is built again.
- *Sessions.* A checkpoint turns a session that was paused during its tick into running again; an administrator's
  resume does not take the owner's lock; a `runtime_state` written back out of date forgets what was spent. A withdrawal
  that the database cannot read or store is bound to its amount in the process's memory (`postgres.py:1377`, `:1400`): after a
  restart, or once the database answers, the same request id is bound anew, perhaps to another amount. It is still
  one transfer, since the idempotency key is the operation's, but the answer may tell of the other amount.
- *Wallets.* `create_session` is not under `owner_ops_lock`. Of two creations at once, or after a read of the registry that
  failed, the second registers another wallet over the first, and a deletion that had found the first one in the registry
  then drops its last row although it holds USDC, against "so the binding (and any USDC the wallet holds) survives session
  deletion" (`sessions.py:119`).
- *Connections.* An approval that loaded the client before a revocation brings the connection back. Purchases
  admitted while another is not yet counted may exceed the caps together.
- *Desks.* A quote of the StableFX desk is called guaranteed, and its settlement is priced again
  (`stablefx_service.py:300`). The halt is read once, at the start of an operation: a deposit or redemption that read it before
  it was answered still reads balances, may approve and wait 15 s for the receipt, and then sends
  (`usyc_treasury.py:623`, `:915-931`; `earn_kit.py:989`, `:1064`). Overlapping updates of the policy can lift a halt past the incident gate, and a policy that
  cannot be read is the default one, not a halt ("Fails closed", `config.py:300`). A cash reading that fails counts as 0.
  Nothing holds what a check has found: sweeps that each passed it, and other payments, can take the account below
  its reserve together. The rails check the account that the call names, by default `PLATFORM_TREASURY_ADDRESS`
  (`usyc_treasury.py:640`), the account of the private key pays (`:900-937`): where they differ a sweep is held by nothing on
  the account it takes the money from. On the JSON back end of the StableFX desk a file that cannot be read has no
  reservations (`stablefx_service.py:427-435`) and is saved without them: unless the audit trail shows it, a deposit that was paid can
  be paid again. On the JSON back end, or with
  a swallowed failure, an Earn deposit can be lost.
- *Books.* A custom audit path under PostgreSQL keeps the trail nowhere; a failed read begins a new chain. Several JSON
  tables are written without the lock of their file, and an unreadable file is taken for an empty one. The refresh of the payments
  saves the whole list in memory over their JSON file (`circle_client.py:336`, `main.py:718`, `json_store.py:106`): payments saved
  beside a reload of that list, or by another process, vanish. Without `fcntl` the locks of files and of the audit
  trail hold within one process only (`core/state.py:59-64`).
- *Limits.* With more than 2000 buckets active ones are dropped; relays whose receipt timed out are not counted. Both windows
  are memory of one process (`core/state.py:33`, `:45`): a restart hands out both limits again, and each worker process has its
  own.

## 13. Not modelled

- `record_spend`, `record_success` and `enforce_spend` of the guard (one-step calls that the executor uses only where
  reservations are missing).
- The sweep's queue of the first 20 over many invoices, and resubmission without end.
- Of the sessions: events, edits of task and budget, the JSON and Supabase back ends.
- Wallets, signatures and the x402 facilitator of the sidecar; refresh tokens and read-only tools of the MCP server.
- Market data feeds, provider plugins, recommendations, report texts, the language models' wording: what they answer is an
  input, chosen freely. Wallet profiles, ERC-8004 identity and onramp: functions of one request.
- Yield projections and opportunities of the treasury and the Earn kit.
- Incident detection; the table of incidents is one of `RecordStores`'.
- `SupabaseStorage` is modelled as far as the facade can reach it, but `factory.py` never constructs it. The SQL ledger of
  `0003_hash_chained_ledger.sql` has no caller in the backend.
- Front end, SDKs and scripts: they keep no state the backend depends on.

## 14. Running it

    tlc -config SpendGuard_limits.cfg MCSpendGuard
    tlc -config SwapExecution_races.cfg MCSwapExecution
    tlc -config InvoiceSettlement_rebuilt.cfg MCInvoiceSettlement
    tlc -config SessionLease_fenced.cfg MCSessionLease
    tlc -config Marketplace.cfg MCMarketplace
    tlc -config Desks.cfg MCDesks
    tlc -config RecordStores_entitlement.cfg MCRecordStores
    tlapm SpendGuardProofs.tla        (and Sums and the other *Proofs modules)
