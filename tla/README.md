# abr-out: a verification project

abr-out is a marketplace for V2Ray outbounds. Sellers list tunnels, buyers open
*configs* (clients of a seller's inbound on a 3x-ui panel) and pay per byte from
a prepaid wallet, sellers are credited and withdraw USDT on BSC. The program is
a FastAPI service, an aiogram bot and one APScheduler worker over a Postgres
database, next to three things it does not control: the panel, the hot wallet's
chain and the payment gateways.

## 1. Inventory

| Component | State | Operations | Hard behaviour | What makes it correct |
|---|---|---|---|---|
| USDT withdrawals (`payout/service.py`, `payout/bsc.py`, `process_withdrawals.py`, `wallet.py`) | `withdrawal_requests`, `wallet_transactions`, advisory lock per user; chain nonce, mempool, receipts | create, recover, claim, sign, persist, broadcast, poll, refund | crash after any step, lost or late transfers, concurrent requests, debits that take no lock | pay or refund, exactly once; one in flight per user; the ledger balances |
| Traffic billing (`poll_traffic.py`, `enforce_quota.py`, `xui_client.py`) | panel counters, anchors, usage rows, the memory of a cycle | read, reset, bill, wipe, zero anchors, caps | calls that fail with or without effect, a cycle that ends anywhere, traffic that never stops, a second caller | nobody is billed or credited a byte twice; every loss is a named one |
| Config lifecycle (`routes/configs.py`, `enforce_balance.py`, the part of `routes/listings.py` that switches configs) | `configs.status`, `auto_disabled_at`, the price opt-in, the panel client and its flag | buy, disable, enable, delete, patch, volume cap, the seller's pause, price rise and delete, stop on empty wallet, resume on top-up | blind updates across awaits, best-effort panel calls, a job whose one transaction locks rows and hides its updates for a whole tick | row and client agree; deleted stays deleted; the broke are stopped, the paid resumed, and only those the job stopped |
| Listing health (`listing_quality_gate.py`, `routes/prober.py`, `routes/listings.py`) | `listings.status`, deadlines, last-ok and last-probed stamps, samples | post samples, promote, demote, recover, retry, edit, enable, disable, delete | late and duplicated samples, seller actions between the gate's select and update | only tested tunnels are sold; deleted stays deleted; bounded notices per outage |
| Top-ups (`routes/webhook.py`, `bot/handlers/topup.py`) | `payment_intents`, ledger | create intent, gateway callbacks | duplicated, concurrent, reordered callbacks | credited at most once and never above the invoice |
| Provisioning (`routes/listings.py`, `scripts/`) | listing row, panel inbound, probe client | create, delete, reprovision, reactivate | two stores and no journal: failure between panel and commit, a commit that takes effect unseen, two requests at the cap, a status written back over a deletion | no inbound nobody answers for, no live listing without inbound and probe client, the cap on listings |
| Automatic withdrawals (`auto_withdraw.py`, the auto routes of `routes/withdrawals.py`) | `auto_withdrawal_configs` | put, disable, evaluate every user each minute | one shared session, configs edited between load and use, manual withdrawals beside it | withdrawals keep their distance; who is due is served |
| Broadcasts and support (`broadcast.py`, `routes/admin.py`, `bot/handlers/admin.py`) | `broadcasts`, `users.is_blocked`, support messages | queue, select, send, count, finish, block, unblock | a tick cut off anywhere starts again from the beginning, with the audience read anew | nobody selected throughout is left out, nobody blocked throughout is written to, repetitions only by interruption, true counters, an end |
| Bot, notifications, explorer client, prober agents, settings, migrations, backup, frontend | none the others depend on | I/O and presentation | | not modelled |

Interactions. Every money movement is a row of `wallet_transactions`; a balance
is their sum. Billing debits buyers and credits sellers, withdrawals debit and
refund, top-ups credit, administrators adjust. `enforce_balances_once` calls
`poll_traffic_once`, which calls `enforce_quotas_once`. The auto-withdraw job and
the HTTP route share `create_withdrawal`. The panel is shared by billing (reads
and resets), config and listing lifecycle (client flags) and provisioning.
`worker/main.py` registers each job with `max_instances=1`: a job never overlaps
itself, but two different jobs interleave at every `await`.

## 2. Plan

| Order | Module | Composes | State |
|---|---|---|---|
| 1 | `Withdrawals` | API sessions, worker, chain; implements `PayoutPromise` | modelled, checked, proved |
| 2 | `Billing` | the panel, the cycle, the caps | modelled, checked, proved |
| 3 | `TopUp` | the bot, both gateways, the callback handlers; implements `TopUpPromise` | modelled, checked, proved |
| 4 | `ListingHealth` | prober, gate, seller's requests | modelled, checked, proved |
| 5 | `ConfigLifecycle` | config routes, volume caps, the seller's requests on its listing, both passes of `enforce_balances_once`, the panel | modelled, checked, proved |
| 6 | `Provisioning` | `create_listing`, `delete_listing`, the repair scripts, the panel | modelled, checked, proved |
| 7 | `AutoWithdraw` | the job, the users' configs, what goes on beside it | modelled, checked, proved |
| 8 | `Broadcast` | administrators, users, the job | modelled, checked, proved |

The order is that of the money: what pays out, what bills, what pays in, then what
decides who may use and sell. Left: an abstract specification of billing (bytes flow, and each
is billed once or named lost) and its refinement proof; `Billing` and
`ConfigLifecycle` in one module, so that a config is stopped in the very cycle that
empties its wallet; and support messages, which have little to be wrong.

## 3. The modules

### 3.1 `Withdrawals` and `PayoutPromise`

| State | Code |
|---|---|
| `status`, `owner`, `amount`, `hash` | columns of `withdrawal_requests`; `hash` is the nonce of the transfer whose hash is in `tx_hash` |
| `aged`, `recent` | `updated_at` beyond its status's window; `created_at` within 24 hours |
| `balance`, `refundRows`, `charged` | sums and keys over `wallet_transactions` |
| `session` | the open transaction of `create_withdrawal`, which holds the user's advisory lock |
| `pc`, `queue`, `signed` | what one tick of `process_withdrawals_once` holds in memory |
| `mempool`, `receipts`, `chainNonce` | the hot wallet on chain |

`OpenRequest` is everything `create_withdrawal` checks under the lock;
`CommitRequest` inserts request and debit in one transaction. The worker's tick is
`StartTick` (recover stale `submitting` rows), `Claim` (a batch), and for each row
`Sign` or `SignFails`, `Persist` (hash and status, committed before the
broadcast), `Broadcast`; then `Poll` and `ReceiptFound` or `ReceiptMissing` for
each submitted row. `Crash` may come between any two of them and loses the tick's
memory. `Mine` and `Drop` are the network: a transfer may be mined late, revert,
or never be heard of. `Charge` is every debit that does not take the lock.

`PayoutPromise` is what the user is promised: an amount in escrow leaves it
once, to the chain or to the wallet. `Fate` maps a request to it: paid as soon as a
receipt says so, though the row may learn of it later.

### 3.2 `Billing`

`used` and `carried` are what really flowed; `clientBytes` and `inboundBytes` the
panel's counters; `anchor` and `outAnchor` the last-seen columns; `billed` and
`credited` the sums of the usage rows. Each caller's cycle is `Begin`, and per
listing `Read`, `Reset`, `Bill` (`_bill_inbound`, one transaction), then `Wipe` (the
panel-wide reset), `Settle` (zero the anchors of `processed_ids`) and `Quota`
(`enforce_quotas_once`). Every panel call has a failing variant, and a reset that
fails may have taken effect or not; `Abort` ends a cycle anywhere. A snapshot read
client by client may cover some of the inbound's clients only (`Read`): the buyers'
and the probe client that every inbound has. If it covers any, the whole inbound is
reset, and the configs it misses lose their bytes: they are `excused`, also when
only the probe answered. A billing that fails may be taken for one done before
(`IntegrityError`), and its listing then counts as processed. `Traffic` is
enabled in every state, also between a read and its reset. `forgiven`, `leaked`
and `excused` are history variables that name the ways a byte may be lost; no
action reads them.

### 3.3 `TopUp` and `TopUpPromise`

`RecordIntent` and `CreateInvoice` are the two halves of `on_topup_amount`,
between which the gateway call may fail. `Report` is the gateway; a callback once
sent stays in `sent` and can be delivered again at any time, in any order.
`Receive` is the `SELECT ... FOR UPDATE` and the status check of `nowpayments_ipn`
and `plisio_ipn`, `Settle` the rest of the handler with its commit (`Credit`,
or `Close`, also for an amount below the dust limit), `Fail` a request that
dies before it. The two gateways differ in vocabulary only, and the header of the
module gives the translation.

`TopUpPromise` is what a top-up is to its user: a price, what the gateway names of it, and
one settlement, in one step and for good. `Fate`, `Due` and `Arrived` map
the rows to it. The price cannot be read off the intent alone, since a credit overwrites
`payment_intents.amount` with what it credited: once settled, it is the invoice's.
Recording the intent and the gateway's reports are steps of the promise; so is `Settle`, as a
credit or a refusal; locks, invoices, deaths and repeated callbacks are invisible.

### 3.4 `ListingHealth`

`row` is the committed row; `measured` the samples the prober took and `posted` the
table `ping_samples`. A tick of the gate is one transaction: `Begin` (select the
pending rows), `PendingPass`, `DemotePass`, `RecoverPass` (which ends in the
commit), then `Notify` (send, count, commit). `draft` holds the rows the tick has
updated, and so locked, until the commit; `seen` the row objects of the session's
identity map, which are not read again when a later select returns the same row.
`Post` and `Commit` wait for a locked row; nothing else keeps the gate's updates,
by id alone, from overwriting what a seller committed after the select. A request
is `Load` (status check on the loaded row) and `Commit` (the columns the handler
assigned: `Disable`, `Enable`, `Delete`, `Retest`), with its panel and Telegram
calls in between; `Drop` is one that dies. `heard` is a history variable: the ok
samples that had arrived when the tick began.

### 3.5 `ConfigLifecycle`

`status`, `marked` and `optIn` are columns of `configs` (`marked` is a set
`auto_disabled_at`); `client` and `inbound` are the panel. A request is a record in
`req`: what it does, the configs it has still to call the panel for (`left`) and those
it will write (`rows`). It begins with the guards of its handler (`Create`, `Switch`,
`ReachCap`, `Seller`, all by way of `Start`), goes through `CallOk`, `CallRefused` (an
`XuiError`: no effect) or `CallLost` (a transport error, which no handler catches and which may
have had its effect), and ends in `Commit` or `Die`. What a refusal means differs by
handler and is in `CallRefused`: a purchase gives up, a price rise leaves the
config alone, the others write the row as if the panel had agreed. The seller's
delete also drops the inbound (`DropInbound`), and every client on it.

One tick of `enforce_balances_once` is one transaction: `Begin`, `VisitToStop` and
`StopConfig`, `Turn`, `VisitToResume` and `ResumeConfig`, `CommitTick` or `DieTick`.
`draft` is its uncommitted update of a row, which makes requests that want to write
it wait; `known` the listing objects of its session, not read again while referenced.
`MovesLegal` says how a status may change: what the job brings back carries the job's
own mark, nothing leaves `deleted`, and nothing becomes absent again.
`Moderate` is what the gate and the seller's other requests do to a listing, in any state:
`ListingHealth` shows that it may even undo a deletion.
`dirty` is a history variable: configs whose last operation failed, or met another one.
What the module promises of a config it promises of those that are not dirty, since
every update is by id alone and the code does nothing against overlaps.

### 3.6 `Provisioning`

`create_listing` is `Create` (the unlocked look), `AddInbound`, `AddProbe`, `Recheck` (the
count under the advisory lock), `Save`; every exit after the inbound leads to `Undo`,
which is tried once. `SaveFails` is a commit that fails, or that takes effect though
its answer or the refresh in the same `try` fails: the inbound goes either way.
`Delete`, `Drop` and `Erase` are the panel half of `delete_listing`. `Load` and `Write` are
everybody else who writes a status: disable, enable, retry and patch, which load the row, and
the gate, all of which write it back by its id. The write may come after the deletion and
undo it: the listing is live, its inbound is gone, and another may have taken its place
under the cap. Nothing in the code prevents it and no failure is needed, so `Served`
and `CapHeld` say what is left: such listings (`revived`) apart, every live listing is
served and nobody creates more than the cap. The repair scripts call `add_client` with an
argument it does not take, so they add an inbound, remove it and stop (`Repair`,
`AfterInbound`). Ports are unique over all rows, so a listing is its
port. `stray` (inbounds left by a failure), `doubt` (listings whose creation or
deletion was cut off) and `revived` are history; `Remove` is somebody at the panel's own page.

### 3.7 `AutoWithdraw`

`Put` and `Disable` are the user's requests: the upsert recomputes `next_run_at` and leaves
`last_run_at`. A tick loads the enabled configs and the time once (`Start`), and
for each user decides (`Evaluate`: trigger, cooldown, amount) and creates the withdrawal:
`Pay`, or `Refuse`, which rolls the session back and expires every loaded config,
so that the next user's evaluation raises and the tick ends (`Collapse`); `Skip` is
an error that is caught and may leave the user's advisory lock with the session.
`loaded` is what the tick decides on, `row` what it writes to. `create_withdrawal` grants or refuses
here; how is `Withdrawals`. `last` is history.

### 3.8 `Broadcast`

`Create` is `create_broadcast`; `Pick`, `ReadAudience`, `Send`, `Flush` and `Finish` are one tick, and
`Cut` ends it anywhere. Between `Pick` and `Finish` the database knows two
counters and no user. `Join`, `Buy` and `SetBlocked` change who is selected
meanwhile. `asked`, `tries`, `cuts`, `steady` and `barred` are history.

## 4. The runs

| Run | Bounds | Shows |
|---|---|---|
| `Withdrawals` | 2 users, 3 requests, 2 sessions, batch of 2, 1 crash, nonces 0..2, a charge per wallet | no double payment, no payment with refund, one in flight, cap, cover and a ledger that balances (`MoneyKept`), `PayoutPromise` is implemented |
| `WithdrawalsLive` | 2 users, 2 requests, 1 crash | pending and claimed rows are sent or refunded; a mined transfer ends its request |
| `Billing` | 2 listings, two configs on one and one on the other beside the probes, 2, 1 and 0 bytes, minimum 2, 2 faults | nobody over-billed or over-credited, every loss named, caps stop |
| `BillingOverlap` | as above, 2 callers, no fault | disagreement: two jobs bill one reading |
| `TopUp` | 2 orders, 2 handlers, 2 amounts, 2 worths, 1 death | one credit per intent, backed by a report (`LedgerSound`), settled at last, `TopUpPromise` is implemented (`SettlementKept`) |
| `ListingHealth` | 1 listing, 1 request, windows of 1, horizon 2, 2 samples | stamps follow samples, sold and broken on evidence, deletions undone by overlap only, health settles |
| `ConfigLifecycle` | 1 config, 1 request beside the job, 2 prices, 1 fault | panel and row agree, a status moves only as it may (`MovesLegal`), a price rise stops, the broke are stopped, the paid resumed |
| `ConfigManual` | the same, no fault | disagreement: a config stopped by hand keeps the job's mark and is brought back |
| `Provisioning` | 2 sellers, 2 ports, 2 requests, cap 1, 3 inbounds, 2 faults | every inbound is answered for; but for deletions written over, live listings are served and the cap holds |
| `AutoWithdraw` | 2 users, a time and a threshold config, time 0..2, 2 edits, 1 fault | withdrawals keep their distance, who stays due is served |
| `AutoStarved` | the same, no fault | disagreement: one user's refusal ends the tick for the others |
| `Broadcast` | 2 users, 2 broadcasts, counters every 2, 3 edits, 1 cut | who gets how many copies, true counters, every broadcast ends |

Why the bounds are enough. *Withdrawals*: a double payment needs one request
signed twice, so one crash and two nonces; stacking needs two sessions of one user;
the nonce clash needs two rows of one batch; a third request makes a user's second
withdrawal meet another's first, and with amounts of 2 under a cap of 4 and a wallet
of 6 two of them reach the cap exactly and the third is over it while the wallet would
cover it. Users and sessions are symmetric. `WithdrawalsLive`
has no symmetry, since it checks liveness. *Billing*: a listing whose read failed
beside one that is processed is the case the anchors are about, and needs two
listings; two faults let a failed reset be followed by a second failure before it is
made good; two configs on one inbound make a snapshot partial, with one of them or
with the probe alone; traffic of two bytes puts a difference on either side of the minimum,
and a second config's byte makes the inbound's total differ from the first's and leaves
a byte to flow after a wipe. The config of the other listing moves nothing, as its part is
to be processed when the first is not; traffic on both is left to the theorems.
*TopUp*: two handlers race for one order while the other order is reported; the
worths lie below the dust limit, between it and the invoice, and above. *ListingHealth*:
listings share nothing, so one is enough; with windows of one unit and a horizon of
two, a deadline and a stamp can each be open and over, and a listing can break,
recover and break again; two samples can arrive in the wrong order.
*ConfigLifecycle*: every operation touches its configs one by one, so one config meets
every request, price and status beside the job, and one fault makes it dirty in every
way there is; what two requests do to each other, and a request over several configs,
is left to the theorems, which hold for any number of both.
*Provisioning*: two requests at a cap of one race for the last place and for a port; a
third inbound comes after a failed one; the second fault hits the cleanup of the first; one
request loads a row that the other deletes, and then creates beside it.
*AutoWithdraw*: a refusal stops the *other* user; a cooldown of two with a clock to two
lets one withdrawal be too early and another in time; two edits switch a config off and on
between load and use. *Broadcast*: an update of the counters falls in the middle of an
audience or at its end; the second broadcast waits for the first; three edits make a
user join, be blocked and be unblocked during a tick.

Deadlock is checked where the system never stops: a tick, a cycle or a callback can
always follow. It is not in the runs of `AutoWithdraw` and `Broadcast`, where the clock,
the edits and the broadcasts to send are used up and nothing is left to do.

## 5. Fairness

* `Withdrawals`: `WF(Worker)`: the container is restarted unless stopped and the
  scheduler starts the next tick when one has ended. `WF(AgeRow)`: time passes.
  `SF(ReceiptFound)`: the node does not fail for ever on the same receipt. Nothing is
  assumed of the network: a transfer may never be mined, and then nothing is promised.
* `Billing`: `WF(Cycle(k))`: the poll job runs again and again. Faults are bounded, so
  in the end a cycle completes.
* `TopUp`: the gateways repeat a callback until it is answered, and a request that
  holds a row lock ends.
* `ListingHealth`: `WF(Advance)`: time passes. `WF(Tick)`: the gate runs every thirty
  seconds. `SF(RecoverPass)`: a tick that comes to its commit infinitely often commits
  infinitely often, so not every tick dies. Sellers and prober are owed nothing: the
  listing settles even if no sample ever arrives and the seller keeps asking for tests.
* `ConfigLifecycle`, `AutoWithdraw`, `Broadcast`: `WF(Tick)`: `worker/main.py` starts each job at
  its interval, one instance at a time, and a tick that is not interrupted goes on.
  Nothing is owed by users, sellers, administrators or the panel: no request has to be
  sent or to end.
* `Provisioning`: none. A request that dies is never taken up again, so nothing
  is promised of it; what matters is what it leaves behind.

## 6. What is proved

For every value of the constants that satisfies the modules' named assumptions
(`ConstantsAssumption`, `BillingAssumption`, `TopUpAssumption`, `ListingAssumption`,
`NoRowAssumption`, `LifecycleAssumption`, `ProvisioningAssumption`, `AutoWithdrawAssumption`,
`BroadcastAssumption`), which TLC also evaluates:

* `WithdrawalsProofs`: `TypeCorrect`, `PaidOnce`, `RefundExcludesPayment`, `NoStacking`,
  `Covered`, `HashFixed`, `MoneyIsKept`, and `KeepsPromise`, the refinement of `PayoutPromise`.
  `PaidAtMostOnce` alone is not inductive: a second transfer could be signed for a row
  whose first is forgotten. `ChainInv` says a transfer the network knows is the one on its
  row; `RowInv` what each status says of hash and chain; `WorkerInv` that rows in the
  tick's memory are still in the status it left them in; `LockInv` that what a
  session checked under the lock holds until it commits.
  `MoneyIsKept` is about sums over sets of requests. A sum defined by a fold would need
  induction over data, so `SumOver` counts instead: `Units` gives each request as many
  elements as its amount, and the sum is the cardinality of their union (TLC compares it
  with the fold of the community modules, assumption `SumOverIsSum` of `MCWithdrawals`). What
  the proof needs of sums are facts about cardinality: `SumAdd`, `SumRemove`, `SumSame`,
  `SumMonotone`. `MoneyInv` balances each wallet against its requests and charges; `CapInv`
  keeps what a session under the lock is about to add to the day's sum below the cap
  until it commits, while other users' requests commit and rows leave the window.
* `BillingProofs`: `TypeCorrect` for any callers; `NoOverbilling`, `LossesNamed` and
  `NoOvercredit` under `OneCaller`, without which they are false (`BillingOverlap`).
  `BuyerInv` relates counter, anchor and snapshot: outside a listing the counter says
  beyond its anchor exactly what is unbilled (`Reconciled`); inside one, the snapshot does
  (`ReconciledBy`), differently before and after the reset. `SellerInv` does the
  same for inbounds, whose wipe and anchors come a step apart.
* `TopUpProofs`: `TypeCorrect`, `CreditedOnce`, `NoFreeCredit`, `SettledForGood`, `LedgerIsSound`,
  and `KeepsPromise`, the refinement of `TopUpPromise`. `LockInv`: a
  handler past its status check has the order to itself and the order is still
  pending. `InvoiceInv`: a pending intent and its invoice name one amount. They also
  carry the refinement: a handler settles the price its callback was read against, so
  what it credits is an amount the gateway has named (`NamedType`, `ArrivedKept`), and every
  other step leaves the mapped state alone (`Invisible`).
* `ListingHealthProofs`: `TypeCorrect`, `StampsRight`, `NoHealthyBroken`, `OnlyTestedSold`,
  `DeletionFinal`. A tick decides on what it loaded, so the invariant says what that still
  has to do with the row: `SeenInv` (the gate alone writes count and `broken_since`, and
  stamps only grow), `DraftInv` (what is written and uncommitted was justified when it
  was written, and its row has not moved), `AlertInv` (a warning to be counted is still below the
  cap), with `PassInv` on the tick's memory and `HeardInv`, `StampInv`, `LoadInv`.
* `ConfigLifecycleProofs`: `TypeCorrect`, `NoClientRunsFree`, `NoConfigIsDead`, `MovesAreLegal`,
  `DeletionIsFinal`, `PriceRisesStop`, for any number of configs and requests. `NoFreeRide` and `NoDeadConfig`
  speak of configs at rest, so the invariant must follow them through an operation:
  `Clean(c)` says of a config that is not dirty that a request on it is alone (`Alone`), that
  its choice of rows still fits the status (`Chosen`), that the client is where the calls made
  so far have put it (`Served`), and that, with nobody at work, client and row agree as
  the row will be once the tick commits (`Agree`, `Effective`). `MovesAreLegal` also needs what
  the tick knows of its own updates (`JobInv`): a clean config it has drafted to stop is
  still active, and one it has drafted to resume still disabled and marked or, if this very
  tick stopped it before, active, through all the requests that go on meanwhile.
* `ProvisioningProofs`: `TypeCorrect`, `NothingForgotten`, `LiveIsServed`, `CapIsHeld`. `Shape` and
  `Ownership` say who holds which inbound: no two requests the same, and none one that
  a row names, but a save that took effect unseen. `Dropped`, `Fitted` and `Locked`
  carry the three properties over the steps between panel, lock and commit; `Locked` needs
  a lemma on the cardinality of a set that gains one element, and speaks of the listings that
  are not `revived` (`Counted`), since one may be brought back between the count and the commit.
  The last two theorems are as strong as the code: a deletion written over is exempt.
* `AutoWithdrawProofs`: `TypeCorrect`, `WithdrawalsArePaced`. `Paced` is about the config as
  loaded, while the user edits the row: `Remembers` relates the row to the last
  withdrawal, `Fresh` the loaded config to both, across an edit between load and use.
* `BroadcastProofs`: `TypeCorrect`, `DeliveredRight`. `Tallied`: the tick's counters are the
  cardinality of what it has taken from its audience, which is also why they are in
  their type. `Known` says whom a broadcast is still for, `Pending` that a message belongs to a
  tick cut off, to the one at work, or to the one that finished.

Each proof has the shape `Init => IInv`, `IInv /\ [Next]_vars => IInv'`, `IInv => P`, with a
lemma per part of the invariant and a step per action; the last step is propositional
temporal logic. An action property follows from the invariant at the step.

Proved and not a property of a run: `CreditedOnce` and `NoFreeCredit` (the two parts of
`LedgerSound`), `SettledForGood` (a settled intent stays so), `Covered` (a part of `MoneyKept`),
`HashFixed` (a recorded hash is final), `DeletionIsFinal` (a part of `MovesLegal`).

Every safety property of a passing run is a theorem. Only model-checked are the liveness
properties (`RequestProcessed`, `MinedSettles`, `CapStops`, `ReportSettles`, `HealthSettles`,
`BrokeStops`, `PaidResumes`, `DueServed`, `Drained`), which are out of the prover's reach. That
`SumOver` is the sum by recursion is compared by TLC on small functions only.

## 7. Disagreements with the code's own words

`PROJECT.json` quotes each. Three have a run with a counterexample:

* a cycle is not safe next to another one, and two jobs start cycles (`BillingOverlap`);
* the mark of the balance job outlives a manual enable, so a config its buyer then
  stops by hand is brought back (`ConfigManual`);
* one refused automatic withdrawal ends the tick for everybody after it (`AutoStarved`).

The others follow from the models without a run of their own:

* the advisory lock does not serialise "all balance-mutating writes", and the pending
  block does not keep two in-flight sends off one nonce;
* the outbound counters are not symmetric with the clients': sellers lose what flows
  until the wipe;
* an edited listing is not re-validated if it was ever up, the cap on outage warnings is
  lifted by a retry, and several comments of `models.py` describe an older gate;
* the hard cap on configs is counted without a lock, and enabling or disabling a
  client overwrites the expiry and volume the panel was to enforce;
* `create_listing` can keep a row whose inbound it removes (the refresh is in the same
  `try`), or leave the inbound (the lock statements are in none); the repair scripts cannot
  get past their `add_client` call;
* a status written by a request or the gate that had loaded the row before brings a deleted
  listing back, without its inbound and past the cap whose check is "authoritative";
* a full-balance withdrawal above the maximum is refused at every tick;
* a broadcast is not processed to completion but from the beginning, and the bot
  reports messages as sent that were not.

## 8. What is not modelled

* Support tickets and direct messages: one insert and one best-effort message, no state
  anybody reads back. The bot's dialogue states, menus and deep links likewise.
* Money: prices, commission, fees and rounding. Billing counts bytes and Withdrawals small
  integers; what a rate makes of an underpaid callback is any of `Worths`; a wallet in
  `ConfigLifecycle` is above zero or not.
* Two worker processes at once: the deployment runs one, and every job assumes it.
* Chain reorganisations after the confirmation the worker waits for, and two
  transfers with the same bytes.
* More than fifty rows that stay submitted for ever, which starve the confirmation batch.
* What the code does nothing against is no property: the hazards that only an exempted
  overlap or failure can reach are listed in `PROJECT.json` without one, and why.
* Row-lock deadlocks, which Postgres resolves by ending a transaction: `Crash`, `Fail`,
  `Die` and `Drop` are what the rest of the system sees of it.
* The statistics of `aggregate_ping.py`, the blocked flag, notifications, the bot's menus,
  the explorer client, migrations, backup and the frontend: no protocol of their own.
