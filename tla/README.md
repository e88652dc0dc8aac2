# iRexPro execution core: TLA+ models, checks and proofs

The repository is an automated trading platform: a NestJS API (`apps/api`), web,
admin and mobile clients, and Python services that produce signals and drive MT5
terminals. This directory models the part that may lose money if two things
happen in the wrong order: the authority under which a signal may create new
exposure, the capital it reserves, the dispatch of the order, the reconciliation
of what the provider did with what the database says, the broker connection and
its tokens, the MT5 command queue, and the fees that are charged on the result.

Paths below are relative to `src/apps/api/src/modules/` unless they start with `src/`.

## 1. Inventory

| Component | State | Operations | Talks to | Hard part |
|---|---|---|---|---|
| Shared control revisions (`execution-authority/shared-control-*`) | two singletons (policy, provider catalog) with revision and fingerprint, an append-only log each | sync at every boot: seed, no-op, append and compare-and-set | read by risk evaluation and by the dispatch boundary | rolling deployments, crash between append and CAS |
| Trading authority (`trading-authority.service`, `grant-invalidation.service`) | per-user generation | bump, sweep of grants, sweep of confirmations | called by governance, sessions, brokers, OAuth, risk profile | bump and sweep are separate statements, each may be lost |
| Risk grants and confirmations (`risk/risk-grant.service`, `execution/execution-confirmation.service`) | grants, PENDING confirmations, both unique per signal | issue, reuse, supersede, re-bind, confirm, expire, invalidate | pipeline, confirm endpoint, boundary, expiry job | two evaluations of one signal |
| Risk evaluation (`risk/risk.service`) | risk profile with kill switch and revision | validate a proposed trade, toggle, edit, suspend | issues the grant | dozens of awaits between the first read and the grant |
| Final dispatch boundary (`execution/orchestration/final-dispatch-boundary`) | none of its own | `authorize`, `commitProviderDispatch` | all of the above | re-reads before the transaction, lost acknowledgement of COMMIT |
| Execution (`execution/execution.service`, `orchestration/execution-orchestrator.service`) | sessions, trades | executeTrade, session start, change, suspend, end, close | orders, boundary, adapters | retries, timeouts, crash between steps |
| Orders and trades (`execution/orders`) | order and trade rows with state machines | guarded transitions, fills | dispatch and reconciliation | several writers with stale copies |
| State reconciliation (`execution/reconciliation`, `execution/jobs`) | none but its copies | snapshot, passes 7a to 7d, per connection, repeatable job | adapters, orders, trades, grants | overlaps the dispatch and other runs |
| Signal pipeline (`strategy/strategy-orchestrator.service`, `execution/services/trade-intent.service`) | trade intents | process signal, record and settle intents | risk, execution | duplicate delivery |
| Emergency controls (`execution-control`) | controls and a global revision | activate, deactivate, expire | risk evaluation, boundary | expiry changes no revision |
| Account governance, users (`users`) | account and eligibility status | admin actions, appeals, reviews | authority | revocation beside a running dispatch |
| Broker connections, OAuth (`broker/broker.service`, `broker/services`) | connection rows, credentials with generation and refresh lease | connect, recover, health check, disconnect, delete, enable, revoke, validate, rotate, refresh | authority, adapters | decisions on a loaded copy, single-use refresh tokens, lease expiry |
| Allocation, intents, expiry job (`execution/services`, `execution/jobs`) | budget, reservations, trade intents | set budget, reserve, release, expire | pipeline, execution, reconciliation | four writers of one reservation |
| Direct MT5 (`broker/direct-mt5`, `src/services/mt5-connector`) | connector row, command rows; a journal on each machine | pair, provision, take over, revoke, heartbeat; enqueue, lease, run, report | adapters, MT5 terminal | a command must reach the account at most once over restarts and takeovers |
| Performance fees and payments (`performance-*`, `payments`, `broker-reconciliation`) | performance row with high-water mark, assessments, invoices, transactions, webhook events | reconcile, assess, invoice, checkout, webhook | payment provider, broker history | no transactions: every statement interleaves; repeated events |
| Authentication (`auth`) | sessions, refresh tokens, one-time codes | login, refresh, reset, verify, MFA | users | token reuse |
| Everything else | | | | market data, AI modules, clients, realtime, audit, metrics, configuration: computation, I/O or views |

What makes each modelled component correct:

* **Shared control**: a replica serves under the revision that carries its own
  content; revisions are spent on changes only; the fatal convergence error needs
  real contention; boots end.
* **Grants and boundary**: after the sweep of a revoked generation no grant of it
  is consumed; a control in force when its read happens stops the commitment, and so
  does the kill switch unless a save of an old profile wrote its revision back; grant
  and confirmation are spent together; a trade recorded as rejected was never sent.
* **Orders, trades, reconciliation**: at most one placement; what is recorded as
  not sent was not sent; a rejected trade has no position; recorded exposure is
  real; terminal rows stay; abandoned reservations are released.
* **Capital**: commitments stay within the budget; a decision reserves once;
  abandoned capital comes back; released capital has no live order.
* **Broker connection**: a suspended connection is not executable; the stored
  token pair stays usable; every operation ends.
* **Direct MT5**: a mutating command is sent at most once; rows and answers are
  true; the queue drains.
* **Fees**: paid means collected; no more unpaid assessments than admin requests at
  once; what was collected is entered once, and once more at most per time its event
  was sent while it was processed; a payable session is not orphaned as long as no
  checkout fails after its claim, no webhook stops half-way and no event is sent while
  it is processed; what was collected is recorded.

`PROJECT.json` lists the components (modelled or not) and the hazards with the
properties that catch them.

## 2. Modules

| Module | Models | Depends on |
|---|---|---|
| `SharedControl` | the boot-time sync loop of one singleton, await by await | |
| `PolicyFence` | composition: replicas that boot with the same sync, and dispatches that bind and compare the revision | EXTENDS `SharedControl` |
| `NewExposure` | from the delivery of a signal to the provider call, and every authority change beside it | |
| `OrderLifecycle` | one order and its trade from the reservation on: live dispatch, reconciliation runs, provider | |
| `CapitalAllocation` | the reservation of each decision beside its intent and trade: pipeline, user, expiry job, reconciliation | |
| `BrokerConnection` | one connection row: nine operations and the token refresh under its lease | |
| `CommandChannel` | abstract: what the MT5 transport promises about a mutating command | |
| `DirectMt5` | pairing, hosted ownership, command queue, connector program with journal | `INSTANCE CommandChannel` |
| `PerformanceBilling` | cycles, assessments, invoices, checkouts and webhooks of one account | |
| `FunctionSums` | lemmas on sums over finite sets | TLAPS |
| `*Proofs` | theorems (seven modules) | their module, TLAPS, `FunctionSums` where capital or fees are summed |
| `MC*` | model values of an instance | their module |

`OrderLifecycle` takes up where `NewExposure` stops: `NewExposure` treats the
commitment in detail and the provider call as one step; `OrderLifecycle` treats
the commitment as one guarded transaction and the call in detail.

### SharedControl

`state` and `log` are the two tables, `installed` is a history variable (which
fingerprint each revision installed). A replica's `pc` is the await it is at:
`read` (`findState`), `seedState`, `seedLog`, `append`, `cas`. The two syncs,
policy and catalog, call the same function with two pairs of tables, so one
instance stands for both. `Crash` at any await covers process death, redeploy
and a store error (which is fatal at boot).

### PolicyFence

Each replica also evaluates (with the content it embeds), issues (binding the
shared revision) and rechecks (comparing the revision only). `Dispatchers` are the
replicas that dispatch, one dispatch at a time; the others only boot and move the
row. The boots are those of `SharedControl`, so one run checks the properties of
both modules.

### NewExposure

* `facts` are the counters that a grant binds: user generation, session, profile
  revision, control revision, policy and catalog revisions, credential
  generation. Session id and session generation are one number.
* A dispatch `d` walks through Deliver, Evaluate, Bind, the issuance loop
  (`Reuse`, `FindOther`, `Supersede`, `RevokeSuperseded`, `Insert`,
  `InsertLost`), then either waits for the user (SEMI_AUTO) or goes on with
  `Preflight`, `Authorize`, `Permit`, `Reserve`, `MarkExecuted`, `Submit`,
  the market gate, the boundary's reads (`cGrant`, `cAuthority`, `cProfile`,
  `cSession`), `Commit` and `Send`.
* A revoker `job` runs the best-effort chain after a change: `BumpAuthority`,
  `SweepGrants`, `SweepConfs`, each of which may be the last one that happens.
  Changes made in one transaction (risk profile, kill switch, governance) are one
  step.
* The risk profile is changed in two ways. `KillSwitch` is a toggle whose read and
  save nothing separates. An editor `e` loads the row (`LoadProfile`) and saves its copy later:
  `updateProfile` loads outside its transaction and `save(profile)` writes back every
  column in which the copy differs from the row, the kill switch and the revision among
  them, before it bumps (`SaveProfile`) or, for a display-only edit, does not
  (`SaveDisplayEdit`). The history variable `overwritten` says that a copy of an older
  revision was saved.
* A behaviour starts with a session that is active or suspended by a risk limit.
* Grant and confirmation slots are finite; a free slot is a row that does not
  exist yet.

Abstractions: the many reads of `validateProposedTrade` are two steps, `Evaluate`
(the limits, kill switch and controls) and `Bind` (the counters), because only
what lies between those two groups can change the outcome; the reads of
`authorize()` are one step; reserving the order and marking it SUBMITTED is one
step; finding the duplicate trade and settling the intent is one step. The
market quote that decides reuse is a nondeterministic choice. Starting a new
session after an end, the in-process account lease and account-identity drift on
reconnect are left out.

### OrderLifecycle

* `order`, `trade`, `grant` are the rows, `provider`, `wire`, `answer` the outside,
  `live` the dispatching process, `runs` the reconciliation runs with their
  copies, `clock` the two deadlines that matter: the grant's TTL (60 s) and the
  grace window of 7d (5 min).
* A guarded statement (read status, assert the transition, UPDATE ... WHERE
  status = read) is one step. That the row moved in between, or the store failed,
  or the answer of a successful UPDATE was lost, is a fault counted by
  `MaxFaults`. The two compare-and-sets of `TradeLifecycleCasService` are one
  step.
* A run takes the provider snapshot first, the rows second, and then works on
  these copies; each provider query and each write is a step, so a dispatch, a
  provider event or another run may come between.
* The provider is external, modelled from `broker/interfaces/broker-adapter.interface.ts`:
  `listOrders` returns working orders only, order records may become visible late,
  positions do not lag, a fill answer may lack its price or its id, and in the
  cTrader family a position has an id of its own.

A position that the cTrader match by symbol, side and volume finds is taken to be
the order's own, and the repeatable job to reach the connection: it skips suspended
ones, whose reservations wait until they recover.

Left out: EXPIRED (behaves as CANCELLED), user cancellation, close orders (no
grant), stop-loss repair, discrepancy rows, fills without a price in
reconciliation. The capability check before the commitment cannot refuse the
MARKET orders this path sends. The gap between the commitment's clock reading
and its UPDATE is assumed shorter than the four minutes between TTL and grace
window.

### CapitalAllocation

* `budget`, `intent`, `alloc`, `trade`, `order` are the rows of one (user, logical
  account); `worker` are deliveries inside `processSignal` and `executeTrade`;
  `sweep` is the expiry job. One action is one statement or one transaction; the
  advisory lock is what makes the reservation one step.
* Broker equity is an arbitrary answer at the reservation. The earlier reads of
  `resolveOrAllocate` are repeated inside its transaction and are part of its step.
* "STALE" is CREATED with `expires_at` in the past. The trade statuses OPEN and
  RECONCILIATION_PENDING count alike and are one value; an order rejected before
  its commitment is "none". The commitment is one step (`NewExposure` has it in
  detail); a committed order's trade moves as the state machine allows
  (`OrderLifecycle` has that in detail).
* 7d's three statements are one step that may stop after each; 7b's close and
  release are one step because CLOSED no longer counts.

Left out: currencies, accounts without a logical key (refused at once), the daily
risk period (a get-or-create under a unique key), lots.

### BrokerConnection

A worker loads the row once and decides on its copy; each later statement is a
step, guarded on the loaded authorization state where the code guards it
(`applyGuardedAuthorizationUpdate`) and by id only where it does not. `connect`,
`recover` and `health` first run the token lifecycle: look at the expiry, claim the
lease, verify the generation under it, call the provider, persist with the fence
(generation and owner token), or wait for another owner. Token pairs are numbers;
`alive` is what the provider still accepts (a refresh kills the pair it used).
The recovery probe does not write CONNECTING as other attempts do: it writes SUSPENDED and
the failure count of its copy, over whatever happened since. The count has no
limit, in the code or here; the number of operations bounds it.
The authority invalidation that follows a transition is `NewExposure`'s revoker.
Left out: the paper broker's shortcut to an authorised state and its exemption
from market-data gaps in the health check, account-identity drift, audit.

### DirectMt5 and CommandChannel

* A host is a machine with a journal that survives its processes. HTTP requests
  authenticate in one statement and act in the next. Times are flags: a heartbeat
  grows stale, a lease expires, a request gives up.
* The terminal call is a step between two journal writes; a crash may come at
  each, and a takeover (hosted reclaim, re-pairing) at any time.
* Opening a journal turns the entries found EXECUTING to UNCERTAIN. `begin` runs a
  command whose entry is missing or EXECUTING; with one process per journal the
  latter cannot come up.
* The refinement maps a command row and the connector's position to a phase of
  `CommandChannel` (none, queued, out, withdrawn), `sent` to itself and the last
  answer to the answer.

Abstracted: one DEMO account; the two UPDATEs of heartbeat, provision and revoke
are one step; heartbeat sequence numbers, the expiry of pairing codes and the
order of the queue; lease renewal is part of the poll; MODIFY_ORDER behaves as
CLOSE_ORDER. Left out: CLOSE_ALL, the presence of host workers, two processes that
share one journal.

### PerformanceBilling

Amounts are integers with four decimals folded into `FeeScaled`. A period has one
closed trade with result `Pnl[p]`. Admin, customer and webhook requests have a
program counter each; their statements interleave freely. `sessions` and `events`
are the payment provider: a session is paid, fails or expires once, its event is
delivered until it is acknowledged, and may be repeated: `MaxRepeats`
bounds the deliveries of an unprocessed event that was answered or is at work, `MaxOverlaps`
those of one event at work (the record's processed flag is no lock), counted in `again`. `CallsFail` chooses whether calls may fail or
requests only die. A checkout that fails after its claim (`CheckoutFails`: the
provider call, the save of the reference, or its unique violation) goes through
the safety net, which reads the transaction and releases it. `interrupted` records that such
a failure happened, or that a webhook stopped half-way. The cycle's closing update is a step
after the assessment's (`CloseCycle`), so an invoiced assessment may have a failed
cycle. Left out: creating and deactivating
policies, manual ledger entries, account-wide cycles, the FEE_ASSESSED entry, a
Paystack reference that is paid after it failed, subscription events (retired: the
handler only logs them).

## 3. Runs

| Run | Instance | Shows |
|---|---|---|
| `policy_fence` | 2 replicas, 1 dispatches, 3 builds, 4 boots | the sync's safety properties, `BootTerminates`, and `DeploymentFencesGrant`: a revision written after the issue, rolled back or not, stops the grant |
| `new_exposure_auto` | FULL_AUTO, 2 dispatches of 1 signal, 1 profile editor, 1 change | `RejectedTradeNeverSent`, `ControlStopsCommitment`, `KillSwitchStopsCommitment`, `RevocationFencesCommitment` |
| `new_exposure_semi` | SEMI_AUTO, 3 executions of 1 signal | `ConfirmationSpentWithGrant` and the type invariant |
| `new_exposure_live` | 2 issuances, fair | `DispatchEnds` |
| `order_lifecycle` | quantity 2, 1 run, both families, 1 fault | placement, certainty, rejection, exposure, terminality, and `ReservationConverges` |
| `order_lifecycle_fill` | 2 runs | violation: a fill is applied twice |
| `capital_allocation` | 2 decisions of one strategy, 2 deliveries, capital 2 | `BudgetHolds`, `ReservedOnce`, `InFlightEnds` |
| `capital_allocation_release` | 1 decision, 1 delivery | violation: the sweep releases the capital of an order that is sent |
| `broker_connection` | DEMO, 2 operations at once, 1 fault | `SuspendedNotExecutable`, `StoredPairSurvives`, `OperationEnds` |
| `direct_mt5` | 1 PC, 1 hosted worker, an order, a close and a read, one of which is asked, 3 ids, 1 fault | `SentAtMostOnce`, `RowsAreTrue`, `ImplementsChannel`, `QueueDrains` |
| `billing` | 2 periods, 1 invoice, 2 sessions, 1 admin, 1 checkout, 2 webhook requests, 1 fault, 1 repeat, 1 overlap | `PaidWasCollected`, `OneOutstanding`, `FeePaidOnce` |
| `checkout` | 2 checkouts, 2 webhook requests, 3 sessions, 2 repeats, neither faults nor overlaps | `SessionIsTracked`, `CollectedIsRecorded` |

Bounds. Four boots let a replica lose all three rounds of its loop (three
revisions of the other replica and its own boot). One signal with two or three
executions contains every race on the per-signal unique slots; one authority
change suffices for the fences because each property speaks of one change and
one commitment. Quantity 2 is the least at which a partial fill exists. One
reconciliation run beside the dispatch, with copies read at any time, contains
the races between a stale writer and a newer row; the safety properties of
`order_lifecycle` were also explored with two overlapping runs (quantity 1 with
one fault, and quantity 2 without, 4.9 and 8.1 million states).
Capital 2 with reservations of 1 lets two decisions fit, or exceed a budget lowered
to 1; two deliveries are the least for a duplicate, and two decisions the least for
a race on the last capital. Two broker operations at once contain every pair of a
stale copy and a newer row; three pairs let a refresh of a refreshed pair fail. Three
ids let a PC, a hosted worker and a re-pairing follow each other. Two periods let an
assessment start from a mark another one moves; three sessions let a checkout be
repeated twice. One overlap is the least at which a fee is entered twice.
One invoice with two sessions contains a retried payment; the invariants of `billing`
were also explored with two invoices, and with three sessions (5.5 and 8.3 million states).
The largest runs are `new_exposure_auto` (3.0 million distinct states), `billing` (1.7),
`capital_allocation` and `new_exposure_semi` (1.2 each); none of the others reaches a million. Since `direct_mt5` asks
one command per behaviour, its queue never holds two; the theorems of `DirectMt5Proofs`
have no such bound, `QueueDrains` has.

Deadlock is checked in the order runs. The others end when every process has
ended and their bounds are used up, so their configurations switch it off.

Fairness. Weak fairness on a process's own next statement: a live process gets
the answer of what it awaits (every store call answers or throws). A crash,
failure or provider event is never obliged to happen. `OrderLifecycle` adds that
the repeatable job runs again, that time passes and that a provider record
becomes visible at last. `CapitalAllocation` assumes that time passes, that the
job scheduled every minute runs, and that it does not die in every sweep before it
has expired an intent; it assumes nothing of workers. `DirectMt5` assumes the
loop of a running connector, that the lease of a command expires and that a pending
close request polls or gives up, and claims `QueueDrains` only if from some time on one
connector serves. `PerformanceBilling` assumes that the provider delivers an
event until it is acknowledged.

## 4. What the checks found

Two disagreements have a run:

* **Double fill** (`order_lifecycle_fill`). `resolveOrderFromProviderState` computes
  its delta from a copy; nothing compares the filled quantity when it is applied.
* **Release of live capital** (`capital_allocation_release`). The expiry job lists a
  stale intent, a worker that passed the intent guard binds it to its trade, the
  compare-and-set to EXPIRED misses, and the job releases the capital anyway.

The others are stated as properties in the modules, which the code does not keep;
a configuration of the passing run with that one property (and, where named, the
change of constants) shows the behaviour:

* **Cut-off** (`NewExposure!CutoffIsExact`). The boundary's comment promises zero
  provider calls for any authority change before the commitment; the re-reads are
  separate queries before the transaction, so the guarantee is the weaker one
  proved here: a change whose sweep has run stops the grant, and a value in force
  when its read happens stops the commitment.
* **Kill switch written back** (`NewExposure!KillSwitchHolds`). An edit that loaded
  the profile before the switch was set saves the old value, and with it the old
  revision, against "Monotonic risk-profile REVISION" (`risk/entities/risk-profile.entity.ts:208`).
  A later toggle can so reach a number some grant is bound to; this is the exception in
  `KillSwitchStopsCommitment`.
* **Lost acknowledgement** (`NewExposure!BlockedConsumesNothing`). No exposure is
  created (`RejectedTradeNeverSent` holds), but grant and confirmation are spent by
  a dispatch reported as blocked.
* **Stale replica** (`PolicyFence!StaleReplicaNeverExecutes`). A revision number does
  not tell which content a replica evaluated with.
* **Closed while working** (`OrderLifecycle!ClosedIsClosed`). 7c has no grace window
  and meets dispatches that are waiting for their answer; the later WORKING answer
  stores an order id that 7a takes for a position's.
* **No healing** (`OrderLifecycle!SyncLagHeals`). After 7c's fallback neither 7b nor
  7c selects the order.
* **Rotation beside a refresh** (`BrokerConnection!RefreshReplacesItsOwnPair`).
  `rotateCredentials` keeps the generation, so the refresh overwrites the new pair.
* **Validation beside enabling** (`BrokerConnection!DemoExecutableHasEvidence`). A
  failed validation clears its flag while an enable that read it goes on to ACTIVE.
* **Suspended LIVE connection** (`SuspendedNotExecutable` with AccountType = "LIVE").
  `enableLiveTrading` accepts the authorization state SUSPENDED and does not look
  at the link's status, so a connection whose environment was contradicted can be
  made ACTIVE again.
* **Profit charged twice** (`PerformanceBilling!NoProfitChargedTwice`). An assessment
  calculated between the webhook's PAID and its high-water mark starts from the old
  mark.
* **A cancelled close** (`DirectMt5!ClosesRemainPossible`). A close is keyed by
  position and volume; once a re-pairing cancelled its row, later closes meet it.

Met while modelling, and not stated as properties:

* Capital: a duplicate delivery that the risk engine rejects as DUPLICATE_SIGNAL
  releases the first delivery's reservation (the same violation by another path);
  a trade reserved after its intent was closed counts again without a new check
  (`BudgetHolds` leaves such trades out by `OnTime`); a trade that stays PENDING
  without an order, or whose 7d run died after its first statement, holds its
  capital for good; after a blocked dispatch `markRejected` never applies, because
  the intent is EXECUTED by then.
* Direct MT5: a PENDING command never expires, so it may be sent after the caller
  was told UNCERTAIN; FAILED may be reported for a command that was sent
  (`runtime.py:182`); a worker authenticated before a token rotation can still lease,
  record and report; a failover can leave two live sessions.
* Billing: an event sent while it is processed has its fee entered twice, against
  "Never double-process the same providerEventId"
  (`payments/services/webhook-processor.service.ts:43`): nothing locks or compares between the read
  of the processed flag and its save, and `FeePaidOnce` allows exactly these entries. Two admins
  stack assessments, against "Prevent stacking unpaid assessments"
  (`performance-fees/services/performance-fee.service.ts:260`): the check and the save are separate, and
  `OneOutstanding` allows one per admin request. A webhook request that dies after it marked a
  transaction FAILED has its event repeated, which marks the transaction FAILED again
  while a newer session is open: a further checkout follows, both sessions are paid
  and each is entered. Sessions are orphaned in three ways, which `SessionIsTracked`
  names: the safety net of a checkout that failed releases another request's claim, a
  webhook stops half-way and its event comes again, or an event is sent while it is processed.
  Two deliveries for different assessments can lower the mark. A request that dies
  after the claim leaves the transaction PROCESSING.

## 5. Proofs

Checked by TLAPS for every value of the constants (any number of replicas,
dispatches, runs, workers, decisions, deliveries, machines, periods, sessions and
faults). Each invariant below was first checked by TLC on the run of its module.

* `SharedControlProofs` (also the proofs of `PolicyFence`): inductive invariant
  `IInv`, the type invariant, "the row is the last entry of the history"
  (`RowIsLastInstalled`), what a replica knows in the middle of an attempt
  (`AttemptInv`: the revision it read exists and carried other content, the round
  number never runs ahead of the revision, its log row exists before the CAS), and
  the history properties. `SyncedRevisionIsOurs` is not inductive alone: the CAS
  needs that `seen` was other content and that nobody moved the row since. From it:
  `TypeCorrect`, `SyncedRevisionCorrect`, `HistoryCorrect`, `LogCorrect`,
  `ConvergenceErrorCorrect`. `DeploymentFences` follows because a bound revision is
  never ahead of the row and the row moves on every write.
* `NewExposureProofs`: inductive invariant `AuthorityInv` with, for each counter, "a
  grant never binds a number ahead of the fact", "an ACTIVE grant bound to a fenced
  generation is behind it", and, per control location of a dispatch, which
  comparisons have already passed. For the profile this holds until a copy of an
  older revision is saved (`overwritten`): up to then a copy of the present revision
  is a copy of the present row (`EditSound`), and a bound revision that is the present one was
  read with the switch off (`RevisionSound`). From it `TypeCorrect`, `RevocationFences`,
  `ControlStops`, `KillSwitchStops`. Two more invariants stand on it. `SlotInv` says
  that one dispatch at most is past the reservation of a signal's trade
  (`OneInSlot`) and that a trade with no live row was not sent; it gives
  `RejectedNeverSent`, which is not inductive alone because a blocked dispatch
  rejects the trade without looking at the others. `SpentInv` says which grant and
  confirmation a dispatch holds after each re-bind and that a consumed row stays
  consumed; it gives `SpentTogether`.
* `OrderLifecycleProofs`: `IInv` is about belief. The dispatch's verdict on the
  provider is true (`LiveInv`), what each reconciliation run believes is true however
  old its copies are (`Believes`), the provider knows nothing before the placement
  arrives (`ProviderInv`), and a consumed grant precedes any placement (`SendInv`). A run
  that stamps DEFINITELY_NOT_SENT needs `Unsendable`: the grant has run out by the
  time the grace window opens, so the dispatch it overlaps cannot commit any more.
  From it `TypeCorrect`, `OnePlacement`, `NotSent`, `RejectedIsFlat`, `RealExposure`; and
  `TerminalStays` from the guards of every writer.
* `CapitalAllocationProofs`: `SoundInv` ties reservation, intent and trade of each
  decision and gives each worker the decision it holds. `BudgetAlwaysHolds` compares
  the sum of what counts before and after a step: every action but the reservation
  and the budget change only takes decisions out of the sum, and those two check it
  in their transaction. `ReservationIsFinal` is the action property `ReservedOnce`.
* `FunctionSums`: a sum over a finite set loses one summand when the set loses one
  element, grows with its summands, and changes by the difference at one point. The
  library defines it by a fold, and the usual induction over finite sets is not
  available to the installed provers. The proofs use instead that a nonempty set of
  naturals has a least element: a least cardinality at which the fact fails, and the
  fold's own recursion, contradict each other.
* `BrokerConnectionProofs`: `PairInv` numbers the claims of the refresh lease: the
  tokens of workers are distinct, no copy is ahead of the generation, and without
  faults lease and generation belong to the refreshing worker from its claim to its
  write. From it `TypeCorrect` and `StoredPair`. `SuspendedIsIdle` assumes AccountType =
  "DEMO" (for LIVE it is false, section 4); its invariant `SuspendInv` relates the
  link's status, the authorization state and what each request read when it was
  admitted; the recovery probe's write of SUSPENDED keeps it because it is guarded on
  the authorization state SUSPENDED that the probe loaded.
* `DirectMt5Proofs`: the inductive invariant `IInv` ties the four places a command
  lives in. A row that nobody leased has never run anywhere; at most one host ever
  took a mutating command, since a LEASED row is not leased again; the journal of
  that host is written before the terminal call, and opening it turns EXECUTING to
  UNCERTAIN, so a later process does not run the command again. `SentAtMostOnce` alone is not
  inductive: it needs where the single send may still come from. From it
  `NeverSentTwice`, `RowsStayTrue` and the refinement `RouteImplementsChannel`, with
  one lemma for the caller, one for a new binding and one for the connector
  process, each mapping a step to a step of the channel or to a stutter. On the
  channel `ChannelIsHonest` holds (a definite answer is true of the command), and
  with the refinement `RouteIsHonest` is the same of the whole route.
* `PerformanceBillingProofs`: `Typed` and `RefInv` (every request in flight refers to
  rows that exist and keep their identity, since rows are only appended) give
  `TypeCorrect` and `PaidIsCollected`. No theorem here has a hypothesis on the
  environment: admins, deliveries, repeats, overlaps and failures are arbitrary.
  `NothingStacks` needs `StackInv`, which counts with the unpaid assessments the periods
  that admins past the check hold (`Held`): a request adds a period only if nothing was
  outstanding, and then every held period belongs to a request of its own.
  `EnteredOnce` needs that only paid sessions are entered (`EntriesPaid`), that an invoice not
  yet linked is used by nobody (`FreshInv`), that a settled session leaves no
  unpaid assessment behind (`SettledInv`), so a later delivery of its event finds it
  PAID, and `CountInv`: requests on an event, and entries plus requests about to enter, are at most one
  plus `again`. `TotalIsEntered`, that the fee total never exceeds the entries: the
  difference is what the webhook requests between the entry and the total still owe.
  `SessionsAreTracked` is an implication from the history (`Calm`): while it is calm,
  `TrackInv` says that a claim has one holder, whose transaction is PROCESSING and has
  no payable session, and what each webhook request found is still true.

Only model-checked. Liveness (`BootTerminates`, `DispatchEnds`, `ReservationConverges`,
`InFlightEnds`, `OperationEnds`, `QueueDrains`, `CollectedIsRecorded`): fairness and
ENABLED are out of the prover's reach. The violations of section 4 are
counterexamples, shown by TLC alone.

Assumptions on constants are in the modules that declare them and evaluated by
the runs: `NoFingerprint` is no fingerprint, bounds are naturals, the requested
quantity is positive, families are the two known ones, grant and confirmation
slots are positive numbers (0 stands for none), "none" is no decision, the initial
mode is one of the two execution modes, admins and deliverers are finitely many, results are
integers and the fee a percentage.

## 6. Not modelled, and why

* Market data, AI features and model training, position sizing: numeric computation
  over live data whose verdict is a nondeterministic input here. They are most of
  the repository's lines.
* Broker adapters other than the direct MT5 one: clients of external providers,
  modelled by their interface in `OrderLifecycle`.
* Web, admin and mobile clients, realtime, notifications, audit, metrics: write
  nothing that the modelled parts read.
* The close path (closeTrade, partial close, flatten), protective orders, the daily
  risk period, authentication, live-account onboarding, the admin side of emergency
  controls and governance: they have state of their own. The close path is the
  first that would be worth a module.

## 7. Plan

1. An abstract specification of exactly-once dispatch that `NewExposure` and
   `OrderLifecycle` implement, with the refinement proved.
2. The close path beside `CapitalAllocation`.
3. `StoredPair` under the faults it survives (an answer lost before the exchange).
