# A TLA+ verification project for SatPeek

SatPeek is a faucet: users earn satoshis by viewing ads, following shortlinks,
reading articles and completing offerwall tasks, each reward guarded by a
drawn-trajectory captcha and a bot score; advertisers buy views with their
balance; users withdraw the balance through FaucetPay or on chain. It is a
Laravel application: PHP-FPM requests, `queue:work` workers and a scheduler
share a Postgres database, a Redis queue and a cache.

Every component that matters here is a few SQL transactions with other steps
around them: a cache lock, an HTTP call, a model that was loaded earlier. Each
transaction is atomic; what can go wrong is what other processes do between
them. So a module of this project has one action per transaction and per step
between two transactions, and the program counter of each process says which
one is next.

## 1. Inventory

### 1.1 Withdrawals (modelled)

| part | state | operations | modelled by |
|---|---|---|---|
| `WithdrawController::store` | `withdrawals`, `balance_ledgers`, `users.balance_sat` | check the balance, ask the price oracle, insert + debit + ledger row | `RequestCheck`, `RequestAbort`, `RequestCommit` |
| admin panel (`WithdrawalResource`) | the same | approve, reject and refund, edit any row | `Approve`, `Reject`, `AdminEdit` |
| scheduler and `satpeek:process-withdrawals` | the ids it plucked | dispatch one job per queued row | `CronScan`, `CronDispatch` |
| queue and unique lock | Redis envelopes and attempts, cache lock | pop, release, redeliver, delete, fail | `Pop`, `Backoff`, `Redeliver`, `Delete`, `LockLost` |
| `ProcessWithdrawalJob` | the row; a payout at the gateway | precheck, hold, claim, send, settle or refund, `failed()` | `PreCheck` ... `DeadLetter` |
| payout gateways (FaucetPay, Tron, Eth, Btc) | external accounts | pay, decline, be unreachable, pay and have the reply lost (reported as failed or as unreachable) | `GatewayAccepts`, `GatewayDeclines`, `GatewayUnreachable`, `GatewayAmbiguous` |
| `WatchOnchainConfirmationsJob` | `confirmations_seen`, status of broadcast rows | sweep the chains, count, promote at finality, refund what reverted | `ConfirmationWatcher` |

What makes it hard: two workers on one row when the cache lock is lost; a
worker killed between the transfer and the row that records it; retries that
overlap the next cron tick; an admin deciding while a job or a sweep holds a
model it read before; sweeps that outlive their 60-second lock; a request that
checks the balance long before it debits.

What makes it correct: the balance and the ledger move together; a withdrawal
ends once, paid or with the money back; the gateway is called successfully at
most once; `sent` means final on the chain; nothing that awaits review is
paid; nothing in flight is stranded.

### 1.2 Earning (modelled)

| part | state | operations | modelled by |
|---|---|---|---|
| `ChallengeBuilder`, `ChallengeVerifier`, `satpeek:cleanup-captcha` | `captcha_challenges` | issue, read and judge a trace, expire, prune | `CaptchaChallenge` |
| `CaptchaConsumer` | the same | consume a solved challenge, give it back | `Consume`, `Unconsume` |
| PTC, shortlink and article controllers | `ptc_views`, `shortlink_clicks`, `internal_article_views` | start under the daily limit, heartbeat, complete | `Start`, `Heartbeat`, `Load` of `EarnSession` |
| `EarnSessionClaimService` | the same, the ledger and the balance | consume, gates, claim and credit, compensate | `ConsumeCaptcha`, `Gate`, `Credit`, `CreditFails`, `Undo` |
| `ReferralPayout` | the ledger, the referrer's balance | commission, capped at the platform's share | `Earnings` |

What makes it hard: two completing requests for one session, or with one
captcha; the captcha is spent in a transaction of its own before the credit, so
a lost race or a failed credit has to hand it back; the verifier and the
rejection of a session save models they loaded earlier.

What makes it correct: one reward per solve and per session; a solve is never
silently lost; the status shown agrees with the ledger; only what was watched
is paid; a commission never exceeds the platform's pool.

### 1.3 Advertising (modelled)

| part | state | operations | modelled by |
|---|---|---|---|
| `AdvertiseController` | `ptc_ads`, the ledger, the advertiser's balance | order views (check, probe the target over HTTP, create and debit), pause | `OrderCheck`, `OrderCommit`, `SetActive` |
| `PtcAdResource` | the same | approve, reject and refund, toggle | `ApproveLoad`, `ApproveSave`, `Reject` |
| `PtcController` | `ptc_views`, the budget | start a view (read the servable ad, count, create), load, credit and take one view from the budget | `StartCheck`, `StartCreate`, `Load`, `TurnDown`, `Credit` of `AdBudget` |

What makes it hard: the budget is looked at when a view starts, before the view is
created, and taken when it is credited; a completion decides whether the budget is used
up from a model it loaded before the captcha and the gates; an approval saves a model
that a rejection may have overtaken; the order compares the balance before an HTTP call
and debits after it, and other orders, withdrawals and chargebacks debit the same
balance.

What makes it correct: what is left is what was bought and not served; the
refund is exactly that, once; no start reads a refunded ad as servable; a view pays
out no more than it cost; an order overdraws the balance by nothing of its own.

### 1.4 Offerwall postbacks (modelled)

| part | state | operations | modelled by |
|---|---|---|---|
| BitcoTasks (external) | the postbacks it has not read an ok for | post, post again, read the reply, lose it | `Post`, `LoseReply`, `ReadOk` |
| `BitcoTaskCallbackController` | `balance_ledgers`, `users.balance_sat` | refuse, acknowledge without effect, credit, charge back, recognise a duplicate | `Refuse`, `Ignore`, `Shrug`, `Credit`, `Chargeback`, `Duplicate` |

What makes it hard: a postback is repeated until its sender reads `ok`, for
hours, beside its own earlier copies and in any order with others; the UNIQUE
index on `(reason, external_ref)` turns a repetition into an exception that has
to be told from a real failure; a chargeback may carry the transId of the credit
it takes back.

What makes it correct: one ledger row per transId; what its sender stops
sending is in the ledger.

`satpeek:sync-offerwalls` and `OfferwallMerge` refresh the list of offers, which
is rewritten every fifteen minutes and which nothing else depends on: not
modelled.

### 1.5 Browser code and its endpoints (modelled)

| part | state | operations | modelled by |
|---|---|---|---|
| `resources/js/ptc/viewer.ts` and the view of `PtcController` | countdown, timers, a heartbeat in flight; `heartbeats_received` | tick, beat, await, stop, complete through the gates | `PtcViewer` |
| `resources/js/beacon/telemetry.ts` and `BeaconController` | buffer, posts in flight; `behavioral_events` | record, flush when the buffer is full or on the timer, leave the page, insert | `TelemetryBeacon` |
| `resources/js/captcha/trajectory-trace.ts` | challenge, samples, animation frames | issue, draw, sample, verify, reset | `TrajectoryCaptcha` |

What makes it hard: one callback runs at a time, but each `await` lets others
run: a heartbeat awaited over `stop()`, a buffer that fills while the timer's
flush is awaited, an answer of `issue()` that replaces the challenge under a
pointer that is held, two animation loops with one handle.

What makes it correct: who watched is credited; the loops end; an event is
stored or lost once; a trace is posted with the challenge it was drawn for.

### 1.6 Bot detection (not modelled)

`ScoreEngine` turns twelve signals into a weighted score, a tier and a row of
history, throttled by a cache key; `PolicyEnforcer` turns the tier into what a
user may do. The signals are statistics of behavioural events: only their range
matters to the engine. The models of earning and of withdrawals let the tier be
anything at any moment: a start may happen or not, a withdrawal may need review
or not. That is more than any score can do, so nothing proved here depends on
how it is computed.

### 1.7 Not modelled

| part | why |
|---|---|
| `BotDetection` | see 1.6: its outcome is an arbitrary input of the other models |
| `BtcUtxoSelector` | sorts and adds integers inside one call; no state survives it. What it would take is a recursive definition against a reference definition, and nothing else here depends on it |
| `PriceOracle`, `PayoutConversion` | in the withdrawal model the oracle answers or not, and the amount is or is not below a unit |
| offerwall lists | rewritten on schedule from an HTTP answer; no balance depends on them |
| `Payout/Tron`, `Payout/Eth`, `Payout/Btc` (clients, RLP, signing, addresses) | encodings and cryptography over HTTP; the models keep what each can answer |
| shortlink providers | one HTTP call each, whose failure deletes a click nobody has seen |
| `IpReputation` providers and `ProviderRateLimit` | one lookup per address with a cache; its verdict is an input of a signal |
| `Deposit` | an interface, no implementation yet |
| Filament pages and widgets | forms and tables over rows; the actions that change withdrawals and ads are modelled with their component |
| deletion of an ad, an edit of its reward, `expires_at` | the code says nothing of the budget of a deleted ad, and the price of a view is fixed in the model |
| the adblock report | one insert that no modelled decision reads |
| `HealthController`, `PublicStatsBuilder`, `WeeklySummaryBuilder`, mail | read-only reports and wording |
| auth controllers, middleware, `AppServiceProvider` | Laravel's own flows and wiring |
| prune commands for histories and audit logs | delete old rows that nothing reads back |
| `public/js/filament` | minified files that Filament publishes; the repository does not write them |
| reorganisations of a chain | the watcher keeps nothing of earlier sweeps that could detect one |

## 2. The plan

1. `WithdrawalTable`: the transactions, with `WithdrawalPromise` as the abstract
   specification, and its proofs (done).
2. `PayoutJob` over it with `PayoutContract`, `ConfirmationWatcher` over it,
   `WithdrawalSystem` composing both, and their proofs (done).
3. `CaptchaChallenge`, `Earnings`, `EarnSession` with `SolvePromise`, and proofs
   (done).
4. `AdBudget` over `Earnings` and its proofs (done).
5. `PostbackCallback` over `Earnings`; the three browser classes, with
   `EventLog` for the beacon; `ApiClients` for all of them, and proofs (done).
6. `FiniteSums` and the proofs about money: every invariant of the passing runs
   is proved (done).
7. Left: the bot score over the tiers, the coin selection and the conversions
   as functions with a reference definition.

## 3. The modules

Modules whose name begins with `MC` give the constants values for TLC. Names
ending in `_proofs` hold theorems; `FiniteSums` has the lemmas about sums that
they cite.

### WithdrawalTable

`row`, `ledger`, `balance` and `totalWithdrawn` are the columns the code reads:
`status`, `requires_review`, whether a payout reference is stored and
`confirmations_seen`; the set of `(reason, withdrawal)` pairs the partial UNIQUE
index speaks of; `balance_sat` and `total_withdrawn_sat`. `request` is where the
HTTP request of each withdrawal is: it has compared the balance (`"checked"`) or
not. One action per transaction: `ClaimRow`, `SettleSent`,
`MarkFailedAndRefund` (job), `RecordConfirmations`, `Promote`, `RefundReverted`
(watcher), `Approve`, `Reject`, `AdminEdit` (admin panel), `RequestCommit`.
A guard is the transaction's WHERE or the check inside it; a write of a loaded
model without WHERE has no guard, and the modules above decide what was loaded.
`ConcurrentRequests` says whether one user may have two requests in flight.

### PayoutJob

Adds the scan of the cron, the unique lock, the envelopes with their attempts,
the place of each worker in `handle()` and `failed()`, and the transfers the
gateway made. A worker's step ends wherever another process can write. Faults
are switched on by `FaultKinds` and counted by `MaxFaults`: an evicted lock, a
crash, a `--timeout`, a failing settle transaction, a reply lost after the
gateway paid. Such a reply is a failed result, or a `ConnectException` (an operation
timeout, an empty reply), which the clients report as unreachable: the job is then
retried. `DeadLetter` runs without a claim, as the code does.

### ConfirmationWatcher

Adds the chains (`height`, the block each transaction is `mined` in, whether it
`reverted`), the lock of 60 seconds, and sweepers. A sweep remembers the rows
and the confirmation count as it read them: `WriteRow` saves only what differs
from that, like Eloquent. `LockExpires` says whether a sweep may outlive its
lock. Other processes act through the table's transactions.

### WithdrawalSystem

Composes all of the above: users, admins, cron, workers and sweepers on one
table. Here a row is broadcast only after a transfer.

### CaptchaChallenge, Earnings, EarnSession

`CaptchaChallenge` has the rows and the verifiers. A verifier's read and write
are two steps, because `update()` has no WHERE on the status;
`OverlappingVerify` says whether two traces of one challenge may be in flight.
The `user_id` of a challenge is chosen initially, the guest included.
`Earnings` has the ledger and the balance and the commission arithmetic.
`EarnSession` has the session rows, the requests in `claim()` and two history
variables: `spentOn`, the sessions paid with each captcha, and `forfeit`, the
captchas lost by a rejected claim or a dead process. They are written and never
read by an action. The ads here carry no budget (`user_id` null, as the
operator's own); `AdBudget` has those with one. The reward of a view is
read from the ad when it is completed, that of the other surfaces is copied at
the start; the model fixes it, so an edit of an ad's reward is left out. A
click whose shortener fails is deleted before its token was ever shown, which
leaves everything as it was and is no step.

### AdBudget

The ads with a budget, over the ledger and the arithmetic of `Earnings`, whose events
are here the views of these ads. `bank` is the part of a balance that does not come from
earnings; `Movements` are what else changes it: withdrawals and their refunds, offerwall
credits and chargebacks. `ordering` are the orders between the balance check and the
debit, in any number at once, and `taken`, which no action reads, is what others took
from the advertiser of each since its check. `starting` are the views whose start has
read a servable ad (`StartCheck`) and not yet created the view or given up at the daily
count (`StartCreate`), `approving` the ads whose model an admin has loaded, and `at` the
view and the ad that a completing request has loaded: `TakeView` writes the SQL
decrement on the row of now and decides on the row of then. Captchas and gates are those
of `EarnSession`; here any completion may be turned down. Changing the reward of a
running ad and deleting it, both in the admin panel, and `expires_at` are left out.

### PostbackCallback

The ledger of `Earnings`, whose events are here postbacks; `Reward` is the amount,
credited or charged back. `copies` are the requests on their way, `replies` the oks on
their way back, `stopped` the postbacks BitcoTasks sends no more. `Taken` is the
UNIQUE index as the code uses it: by transId, for a credit and a chargeback
alike. The transaction is one step, and `Refuse` stands for each way not to
answer ok: a bad signature, no configuration, or a transaction that failed.
`usd_to_sat` may be unset (`converts`), in which case every postback is
acknowledged and none is accounted (`Shrug`).

### PtcViewer, TelemetryBeacon, TrajectoryCaptcha, ApiClients

The three classes of `resources/js`, each with the endpoint it posts to; an
`await` ends a step. `PtcViewer` has one clock: a timer fires at most `Lag`
after it is due and time does not pass a timer that is due. A fetch has no timeout, and
an answer may take any time: `slow`, which no action reads, says that one took longer than
`MaxTrip`. `Waits` are the jittered waits. `TelemetryBeacon` keeps which
events are in the buffer, in a post, stored or lost, not what they say. In
`TrajectoryCaptcha` a sample is the challenge that was active when it was taken
and its two times; `frames` are the animation loops with a frame requested, of
which the class remembers only the last. The verdict on a trace is that of
`CaptchaChallenge`.

`ApiClients` puts them beside `PostbackCallback`. They share no state and call
nothing of each other, so a behaviour follows one client, chosen at the start.

No Blade view loads these classes at this commit: `ptc/view.blade.php` and
`components/trajectory-captcha.blade.php` carry inline variants with the same
loops. The class leaves out some curves the server draws from (`damped_sine`,
`growing_sine`, `triangle`) and thins its samples to one in 8 ms; both concern
the shape of a trace, which the model does not have.

### WithdrawalPromise, PayoutContract, SolvePromise, EventLog

Abstract specifications. `WithdrawalPromise`: an amount leaves once, and the
withdrawal then ends once, paid or returned. `PayoutContract` adds the transfer
at the gateway: paid exactly if transferred, returned only if not transferred or
reverted; a block may revert several transfers at once. `SolvePromise`: a solved
captcha is spent at most once, on a session not rewarded before, or lost, for
good. `EventLog`: an event is kept at most once, given up at most once, never
both. `PhaseOf`, `Contract`, `EndToEnd`, `SolveOf` and `Log` are the refinement
mappings.

## 4. What is model-checked

| run | instance | what it shows |
|---|---|---|
| `job` | 2 withdrawals of one user (one FaucetPay, one on chain) of 2 and 3 over a balance of 4, 2 workers, 3 tries, two faults: an evicted lock, a `--timeout`, a failing settle or a lost reply | until the first fault the whole contract (`KeepsContract`); after it too, refunds agree with statuses, terminal stays and sent means paid; the balance never goes below zero; under fairness, in flight settles |
| `job_edit` | 1 withdrawal, the edit form in use, a crash or a failing settle | the ledger still explains the balance; nothing under review is paid |
| `watch` | 1 withdrawal, 2 sweepers that may die, 4 blocks, finality 3, a lock that outlasts a sweep | sent means final; counts never shrink; a mined row settles; the tables keep the promise |
| `system` | 1 USDT withdrawal, 1 worker, 2 tries, an evicted lock, 2 overlapping sweepers, 3 blocks | each step is a transaction of the tables; refunded means reverted; from request to finality the contract holds (`KeepsEndToEnd`) |
| `earn` | 2 sessions, 2 captchas, 2 requests, one fault; a commission of 30% capped at 25% | one reward per solve, none lost in silence, ledger, statuses and balances agree, `KeepsSolvePromise` |
| `ads` | 2 ads of which the balance of 14 pays one, with orders that may overlap, a withdrawal of 6 and its return, 2 views of the ad that has 2, 2 requests; a commission of 50% capped at 25% | the budget left and the refund are what was not served, refunded ads end, payouts stay within the price, an order overdraws only by what others took since its check |
| `clients` | an ad of 8 seconds with jitter and heartbeats that are slow, lost or under way at the completion; a beacon with overlapping flushes; 2 captchas issued, drawn, reset and verified in any order; 4 postbacks repeated and reordered | who watched is credited; batches fit and the log keeps its promise; traces are of their challenge; one ledger row per transId and none missing; the loops end |

Five disagreements with what the repository says of itself were met
while modelling; each has a run that TLC ends with a counterexample.

| run | what happens |
|---|---|
| `concurrent_requests` | two requests of one user pass the balance check, both debit, the unsigned balance would be negative |
| `job_lost_lock` | after the lock is evicted, the claim (which accepts `processing`) lets a second worker call the gateway |
| `captcha_reuse` | the slower of two traces of one captcha makes it solved again after it was spent |
| `ads_used_up` | two completions of the last two views loaded the ad before: neither sees the budget used up, the ad stays approved |
| `short_ad` | an ad of 5 seconds needs 3 heartbeats; with waits of two seconds a viewer with exact timers sends 2 and is turned down |

Seen with the same models, and partly kept in the comments of the actions rather than in
runs: a settle that raises after the gateway accepted sends the envelope back and pays
again (`ProcessWithdrawalJob.php:34-40` knows); a worker that dies after its envelope is
deleted and before `failed()` strands the row (188-192); the edit form lets a row be
refunded again under the other reason (`WithdrawalResource.php:230-235`); a gateway
reply lost after the payment is refunded, or, reported as unreachable, sent again,
although "the request never reached the wire" (`ProcessWithdrawalJob.php:38-40,
138-139`, `FaucetPayClient.php:25-28`): Guzzle raises `ConnectException` for an
operation timeout and an empty reply too; sessions opened before the first is completed
are all paid, whatever the daily limit (`ShortlinkController.php:101`); an order whose
advertiser withdraws or orders again while its target is probed overdraws the balance
(`AdvertiseController.php:63-116`); a start that read an ad before it was refunded
creates its view afterwards (`PtcController.php:61-74`); views pending when the budget
ends, or when the ad is rejected and refunded, are still paid (`PtcController.php:60`),
and a late credit turns a rejected ad into a completed one (194). With `LockExpires` in
`watch`, a sweep that outlives its 60-second lock writes an old count over a row another
sweep has promoted. Timers that a background tab delays (`Lag`) cost a view its
heartbeats like a short ad does. Nothing in the class keeps `verify()` from posting a
trace twice, which is what `captcha_reuse` needs. The beacon does not flush when the
page goes away: what is in its buffer is lost. A chargeback that carries the transId of
its credit is acknowledged as a duplicate and takes nothing back; one with its own does
not take back the commission; without `usd_to_sat` a postback is acknowledged and never
accounted.

### Bounds

Two workers, two sweepers, two requests are what every race of this code needs: each
guard compares one process with one other. Two withdrawals of one user are needed for
the balance, which covers either of them in `job`: the second can be asked for once the
first was refunded. Two faults let one meet the recovery from another. Two sessions and
captchas are needed for a reuse; what one row does not share with another is checked
with one. Two views of an ad with two are what a stale count needs, and a view under way
when the ad is rejected oversells it; a third view multiplies the states beyond the run,
and the proofs are for any number. The second ad, which the balance cannot pay as well,
and the withdrawal are there for the order. `MaxTries` is 3 in the code: 2 still has a
first try, a retry and an exhausted envelope. Finality is 3 in `watch` with four blocks
and 2 in `system` with three: below, at and above. `MaxTransfers`, `MaxHeight`,
`MaxBeats`, `MaxFaults`, `Horizon`, `MaxClock`, `MaxPoints`, `MaxEvents`, `MaxCopies`
and `MaxLost` bound counters that nothing compares beyond those values. `Duration` 4
gives the minimum of three expected heartbeats. Symmetry is used in `earn` over requests
and captchas and in the runs of `AdBudget` over requests and views, and without
liveness. Deadlock is not checked: users may stop asking. `system` has one worker: with
two, an evicted lock breaks the contract, which is what `job_lost_lock` shows.

`clients`: a second is 8 ticks, the waits 1.5, 2 and 2.5 seconds; an answer of up to one
tick is not slow, but it may take any time; one heartbeat may be lost, and the captcha
takes at least one tick, so that a heartbeat may still be under way when the view is
completed. The ad lasts 8 seconds, the shortest at which the slowest jitter with answers
that are not slow still sends the three required heartbeats, the last of them in time
(`LongEnough`; the roundings make some longer ads, the last of 31 seconds, fall short of
it in that worst case). The clock runs one second past the countdown. `Lag` is 0 there
and any number in the proof. A buffer of 3, a server limit of 4 and 5 events give a full
batch, a partial one and two posts at once (the code has 150 and 200). Two challenges of
two curve lengths, two samples and a clock to 3 give every overlap of two animations.
Four postbacks: a credit and a chargeback with one transId, a chargeback with its own,
one that is ignored; one copy of each on its way, so that a repetition meets another
postback and its own first attempt already accounted.

### Fairness

`job`: the scheduler ticks every minute (WF on the scan and each dispatch);
workers are restarted and a gateway call ends within its timeout (WF on a
worker's steps); the backoff and `retry_after` are clocks, but the model lets
them fire only between ticks, hence SF; the queue is served in order, so a
ready envelope that keeps being ready is popped (SF). Nothing is assumed of the
gateway's answer nor of the absence of faults. `watch`: blocks keep coming, the
lock expires, the scheduler starts a sweep whenever it can, an RPC does not fail
for ever (SF on a successful fetch and look-up); sweeps may die at any time.
`clients`: a fetch is answered or fails (WF on `Arrive` or `LoseBeat`), the
continuation of an `await` runs (WF on `Return`), the browser draws the frames it
was asked for and its clock goes on (WF on `Frame` and `ClockTicks`). Nothing is
assumed of the user, of the page being left, nor of a postback getting through.

## 5. What is proved

Every theorem is for all values of the constants under the named assumptions of
the modules (`...Assumption`), which TLC evaluates in the runs.

### Sums

The properties about money add amounts up over a set of ledger rows, views or
withdrawals. `MapThenSumSet` is a fold whose order `CHOOSE` fixes, and the
induction theorems of the library cannot be applied to it. `FiniteSums` proves
what is needed without them, from the equation the fold is defined by and a
smallest counterexample among the cardinalities: the fold exists (`FoldExists`),
there is one (`FoldsAgree`), and any element may be taken first (`AnyOrder`), so
that a new element adds its value (`SumAdds`) and a bound on the values bounds
the sum (`SumBound`). Every sum of a model is tied to `SumOf` by a lemma
(`WorthOfPairs`, `AmountsCount`, `SumOfRewards`, `SumOfShares`, `SumOfPayouts`).
The sets are finite although the constants need not be: each step adds one
element, which the invariants record.

### The withdrawal tables

`WithdrawalTable_proofs`: types, `RefundMatchesStatus`, `TerminalIsFinal` and the
refinement of `WithdrawalPromise`. `RefundMatchesStatus` alone is not inductive: a
row that nobody requested could be debited, and a row under review could be
claimed. `TableInv` adds that a request that is only checked has no row, and
that a row under review is on hold. A lemma about inserting a pair in the ledger
and one about moving money carry most steps; then one step per transaction.
`BalanceCovers` (`BalanceNonNegative`) needs one request per user at a time:
`SoleRequest`, and what a request has checked is still covered.
`concurrent_requests` shows that it needs it.

- `BooksBalance` (`BalanceMatchesLedger`), with concurrent requests too: an amount is
  debited or returned exactly when a row enters the ledger. `BookedInv` adds that the
  ledger is finite and that an uncommitted request has no row in it (`RequestIsNew`), so
  that the row of a debit is new;
- `TotalsCount` (`TotalWithdrawnMatches`): only rows that were settled carry a payout
  reference (`RefIsSettled`), so that a settle or a revert changes the total by exactly
  one amount.

### The payout job

`PayoutJob_proofs`, for any workers, envelopes, tries and faults:

- `JobTypeCorrect`, `EditedBooksBalance` (`BalanceMatchesLedger`) and
  `ReviewPrecedesPayment`, also with the edit form in use: `EditInv` says that a
  transfer, a settled row or a worker past the claim belongs to a row whose review is
  over;
- `JobStaysOnTables` from `JobInv`: a step of the job is a transaction of the tables or
  leaves them, so the theorems on them hold of it; `JobKeepsBooks` says which. The hold
  that the job writes for a review has no WHERE, but without the edit form it is never
  reached (`NoneHeld`): a row that awaits a review is on hold already, and the precheck
  lets only queued and processing rows through;
- `SentIsPaid`, under any fault: `SentInv` follows the worker from the accepted transfer
  to the settle;
- `ContractKept`: until the first fault the job implements `PayoutContract`. `Quiet`
  says that a withdrawal has one envelope, in the hands of one worker, that what is
  tried again was claimed before and is in no scan still running, that a dead letter is
  the last of its withdrawal, that whoever is about to send or to refund finds it
  unpaid, and that a transfer is in the row or on its way into it. More than one try is
  needed: `failed()` of a job with one try could refund what a second dispatch is
  sending;
- `NeverSentTwice` (`OneTransfer`) and `ContractHeld`: the contract to the end of the
  behaviour, for a job that is `Reliable`. That is one of two things. Without faults and
  with more than one try, `Quiet` holds for ever. With one worker (`OneWorker`:
  `docker-compose.yml:86-94` starts a single `queue:work`) the unique lock may be lost
  at any moment: two envelopes of a withdrawal then exist, which `Quiet` forbids, but
  the one worker handles them one after the other, and the second finds what the first
  has made of the row. `Solo` is what remains of `Quiet` in that case, and it needs no
  second try. The other faults are excluded because each breaks the contract, with one
  worker as well (TLC says so of each): a `--timeout`, a crash or a failing settle can
  leave a transfer that the row does not show, a transfer whose reply is lost is
  refunded or sent again. And `job_lost_lock` shows what a lost lock does to two
  workers.

### The watcher and the whole

`WithdrawalSystem_proofs`, for any withdrawals, sweepers, chains' heights and
thresholds:

- `WatchTypeCorrect` and `RefundsAreReverted`, from `WatchInv`: a row in a
  sweep's memory is on its chain, what it found out about it stays true, and a
  payout reference means a transaction. They hold whatever sweeps overlap or
  die. `CountsAssumption` says that a depth fits the counter;
- `SentIsFinal` and `CountsGrow` while the lock outlasts a sweep (`LockInv`: one
  sweep at a time, whose copy is the row's own count and whose head is not below
  the depth shown). Without it an old count is written over a promoted row;
- `SentStaysDeep`: even then, only the count is wrong. A sweep promotes on what it
  found on its chain, so `sent` is as deep as its threshold and did not revert
  (`SentIsDeep`), whatever sweeps overlap;
- `WatchStaysOnTables` and `WatchKeepsBooks`: the watcher does only transactions of
  the tables, so books, promise and settled rows are as the tables' theorems say;
- `SystemWatches`: with the payout job beside it, faults included, the watcher
  is still `WatchSpec`, whose other processes may do any transaction of the job
  in any order. So what is proved of the watcher holds of the whole system, and
  by `SystemStaysOnTables` what is proved of the tables does: `SystemKeepsBooks`,
  `SystemSendsFinal`, under any fault of the job;
- `EndToEndKept`: with a `Reliable` job, from request to finality one
  transfer at most, paid only when the chain has it, returned only if there was
  none or it was reverted. `EndInv` joins the invariants of both with two facts
  neither has alone: a row with a reference was transferred, and a sent row on
  chain was mined and did not revert. The run `system`, with an evicted lock and one
  worker, is an instance of it.

### Earning, advertising, postbacks

`EarnSession_proofs`, for any users, sessions, captchas, requests, faults and
percentages:

- `EarnTypeCorrect`, types;
- `SolvePaysOnce` and `SolveReturned`, while no two traces of one captcha are in
  flight. The invariant `SolveInv` says who may touch a captcha: a verifier's
  captcha is still unresolved and has one verifier, a consumed one has at most
  one holder and has paid for nothing while it is held. Its core is
  `ConsumedUntouched`: issuing, verifying and cleaning neither consume nor free
  a captcha. `captcha_reuse` shows that the assumption is needed;
- `SolveKept`: under the same assumption the pipeline implements `SolvePromise`;
- `RejectedUnpaid`, `StatusTellsPayment`: these need no such assumption; only
  the credit of a pending session rewards (`OnlyCreditRewards`);
- `EarningsBalance` (`EarningsMatch`), neither: the UNIQUE index makes the rows of a
  grant new, so its events are new to the sums (`GrantSums`), and the increments are
  theirs. `LedgerInv` adds that the rewarded events are finitely many;
- `CommissionFunded`: the share never exceeds the pool, for all percentages,
  negative ones included;
- `PaidWasWatched`: by `WatchInv`, a request carries no more heartbeats than its
  session has, and has passed the gates before it credits.

`AdBudget_proofs`, for any ads, prices, views and requests and a commission that is not
negative: `BudgetIsUnserved`, `RefundExact` and `RefundEnds` from `BudgetInv`, which
adds that an ad not placed yet has no history (no refund, no view, none starting, no
request) and that a request completes a view that was created. `RefundEnds` is about the
starts that read the ad after its refund: one that had read it before still creates its
view, as `PtcController.php:61-74` does. The oversold rest is outside it on purpose: it
speaks of ads with views left. `OrderIsCovered` (`AdvertiserCovers`) assumes nothing of
how orders, withdrawals and chargebacks overlap: the balance an order passed with, less
what others took since (`taken`), still pays it (`OrderedIsCovered`), so that what its
debit leaves is below zero at most by those. The code does not prevent that overdraft.
`PayoutWithinCost` is arithmetic: the commission is rounded down and capped, the price
rounded up. Added up over the views served it gives `PayoutsFromBudget`
(`PaidFromBudget`), whose condition `UnsoldIsFunded` shows to hold of every ad with
views left. `ViewersBalance` is `EarningsMatch` here. `Earnings_proofs` has the lemmas
about a grant that these proofs cite.

`ApiClients_proofs`, for any postbacks, transIds and copies:
`TransCountsOnce` and `StoppedIsLedgered`; the second needs that an ok on its way
back is already true (`OkMeansLedgered`). `OfferwallBalances`: a balance is the sum
of its credits and commissions less its chargebacks, and may be negative.

### The browser code

`ApiClients_proofs`:

- `BatchesAccepted` and `LogKept`, for every buffer size within the server's
  limit: an event is in the buffer or in a single batch (`ApartInv`), and no
  buffer outgrows its limit (`SizeInv`);
- `TracesPure`, for any challenges and curves: the samples are those of the
  active challenge, stamped since it arrived, in order; what was posted and what
  is shown were taken from them, and a challenge arrives once (`TraceInv`);
- `WatchedIsCredited`, for every length of an ad that is long enough for the
  slowest jitter with answers within `MaxTrip`, for every value of `MaxTrip`, every
  lateness of the timers and every captcha time, if no answer was slower (`slow`); a
  heartbeat still under way at the completion included:
  `PaceInv` says that the n-th heartbeat is posted within n rounds,
  `CountdownInv` that the countdown cannot end early, `EndInv` that enough was
  posted by then, `CountInv` that what was sent was received, is in flight or
  was lost.

`ApiClients` lets a behaviour follow one client while the others stay as they
were: `ClientsInv` joins the four invariants, and `ClientsTypeCorrect` and
`ClientsKeep` carry the results over.

### Proved beyond the runs

`ContractHeld`, `SentStaysDeep`, `SystemSendsFinal`, `SystemWatches`,
`WatchStaysOnTables`, `RefundExact`, `PaidWasWatched`, `PayoutWithinCost`,
`UnsoldIsFunded` and `OfferwallBalances` state what no run checks as a property.

### Only model-checked

Liveness under fairness (`InFlightSettles`, `MinedSettles`, `PulseEnds`,
`AnimationEnds`), which is outside the prover, and what the five runs with a
counterexample refute. Everything else that a run checks is proved.
