# A verification project for diem-relay

diem-relay sells prepaid access to Venice inference.  On chain, users stake DIEM
through sDIEM, whose staked DIEM gives the relay its compute; customers' USDC goes
through the RevenueSplitter to the stakers, driven by a daily keeper.  Off chain, a
relay server meters chat requests against dated, prepaid credits, a watcher turns
payments made to the DIEM vault into such credits, and borrowers talk to the relay
from a command line.  A web application shows holders their positions and submits
their calls.

This directory holds TLA+ models of those parts, the configurations TLC checks them
with, and proofs checked by TLAPS.  Paths below are relative to the repository.

## 1. Inventory

| Component | Source | State | Operations | Talks to |
|---|---|---|---|---|
| sDIEMv2 | `contracts/src/sDIEMv2.sol` | sDIEM balances and supply, one withdrawal request per address, the pending total, the reward stream and its checkpoints, three roles, pause | stake, transfer, requestWithdraw, completeWithdraw, cancelWithdraw, exit, claims, Venice management, notifyRewardAmount, admin | DIEM token (staking), USDC, the operator |
| Venice staking | the DIEM token; `interfaces/IDIEMStaking.sol` | per contract: staked, pending, end of the cooldown | stake, initiateUnstake, unstake | called by sDIEM |
| RevenueSplitter | `contracts/src/RevenueSplitter.sol` | receiver, minimum, cooldown, last distribution, totals, roles, pause | distribute, setters, hand-over | sDIEM as its operator, USDC |
| csDIEMv2 | `contracts/src/csDIEMv2.sol` | ERC-4626 shares over sDIEM, swap settings | deposit, redeem, harvest, depositDIEM | sDIEMv2, a pool, an oracle |
| sDIEM (v1) | `contracts/src/sDIEM.sol` | as v2, not transferable, with a stored counter of what is not initiated yet | as v2 | as v2 |
| csDIEM (v1) | `contracts/src/csDIEM.sol` | shares, asynchronous redemptions, the pending total | deposit, harvest, requestRedeem, completeRedeem, cancelRedeem, syncWithdrawals | sDIEM v1, a pool, an oracle |
| DIEMVault | `contracts/src/DIEMVault.sol` | borrower balances, total deposits, protocol fees, roles, pause | deposit, withdrawProtocolFees, setters | USDC; its event is read by the watcher |
| Relay: credits and metering | `src/db/index.ts`, `src/metering.ts` | SQLite: credits (tranches), borrowers, usage_logs | addCredit, reserve, refund, settle, daily reset, sweep, summaries of use | called by the HTTP handlers and by `admin.ts` |
| Relay: handlers, sessions | `src/index.ts`, `src/auth.ts` | sessions, borrowers.active, the login limiter, requests in flight | chat, buy, credit, registration, login, suspend, timers, shutdown | database, Venice proxy |
| Relay: pricing, configuration | `src/config.ts`, `src/metering.ts` | none | models' prices, auction price, cost estimate | the clock |
| Relay: Venice proxy | `src/proxy.ts` | none | one HTTP exchange | Venice |
| Deposit watcher | `src/deposit-watcher.ts` | last processed block, in memory and in a file; batches in flight | start, catch-up, poll, credit, shutdown | chain RPC, relay over HTTP |
| Keeper | `src/keeper-distribute.ts` | a log, a ping to an outside monitor | read, decide, simulate, submit harvests and distribute, wait | splitter, csDIEM vaults, RPC |
| Health check | `scripts/health-check.sh` | none | reads the keeper's log, raises an alert | the keeper's log |
| Command-line tools | `src/borrower-cli.ts`, `src/admin.ts`, `src/test-e2e.ts` | the REPL: a session, a conversation | log in, chat, retry once; administer | relay over HTTP, its database |
| Web application | `app` | a snapshot of the chain, what is typed, transactions on their way, errors | pool page, sDIEM card, fees page, yields | contracts through a wallet, indexed events |
| Deploy scripts | `contracts/script`, `scripts` | none | run once | |

**Where it is hard, and what makes each part correct.**

- *sDIEMv2.*  One Venice cooldown is shared by everybody: starting another unstake
  restarts it.  A call that reverts undoes an initiation made before the revert.
  Liquid DIEM goes to whoever calls first, in parts.  Cancelled requests leave DIEM
  pending that nobody is owed.  Rewards round down in three places, while balances
  move by stake, transfer, withdrawal and exit.  Correct: no DIEM lost, nothing paid
  before its delay or to another user, the queue always on its way, every withdrawal
  eventually paid, solvent in USDC, rewards moved only by time.
- *RevenueSplitter.*  Two contracts change in one transaction, and USDC flows back
  to the caller during it.  Correct: no USDC lost, a distribution never shortens what
  stakers had coming.
- *Keeper and health check.*  A run reads, decides and submits later, while admins
  pause and reconfigure, the RPC fails, transactions sit in the mempool beyond the
  wait, and the process may be killed.  Correct: revenue is served in the end, and a
  run that left possible work undone does not go unnoticed.
- *Relay.*  One thread, but each request has two awaits.  Between reserving credit
  and settling it, other requests, purchases, midnight, sweeps, suspension and a
  crash may come.  A second copy of the balance is kept by hand.  Correct: reserved
  credit is spent or returned exactly once, the copy agrees, a suspended borrower
  reserves nothing.  Its handlers read the clock several times, and `admin.ts` is a
  second process on its database.  Correct: no day's credits are sold by the rules of
  another, counters and log of the use agree.
- *Relay client.*  A session may run out on its way, a connection may break with the
  relay still working, a login may be refused by a limiter shared with others.
  Correct: a message is charged once, the conversation stays a list of turns, a turn
  ends.
- *DIEMVault and deposit watcher.*  The vault splits one transfer three ways; then
  overlapping batches, failing or half-done calls, restarts between any two steps.
  Correct: no payment credited twice or for more than the vault holds, none lost.
- *sDIEM v1.*  What Venice must still be asked for is a stored counter, moved by hand
  in requests, capped initiations, cancellations and payouts.  Correct: it never
  forgets DIEM that somebody waits for.
- *csDIEMv2.*  Shares are bought and sold around harvests, gifts and zaps that change
  their price, in one transaction with sDIEM's reward checkpoints.  Correct: nobody
  else pays for it, no harvest sells below the floor.
- *csDIEM v1.*  A redemption fixes its price when it is requested and is paid later,
  from one withdrawal of the vault in sDIEM that all redeemers share.  Correct: what
  is promised is there, a cancellation takes nothing from those who stayed, later
  redeemers do not delay earlier ones, everybody is paid.
- *Web application.*  A page decides from a snapshot that ages while the holder
  types, approves and confirms; the card runs several transactions at once.  The fees
  page walks three sorted lists with cursors that never go back.  Correct: what is
  offered works, no click restarts a delay the holder has waited out, a supply goes
  through, the charts and the table agree.

Every hazard is listed with its line and its properties in `PROJECT.json`.

## 2. Plan

Done, in this order, each extending or composing what was there:

1. `VeniceStaking`, `SDiemV2`, abstract `StakeLedger`; proofs `SDiem_proofs`.
2. `RevenueSplitter`, over `SDiemV2`: the two contracts composed.
3. `Relay`, abstract `PrepaidAccounts`; proofs `Relay_proofs`.
4. `DepositWatcher`, and `DIEMVault` in front of it; proofs `DepositWatcher_proofs`.
5. `SDiemV1`, with its own queue functions; it too implements `StakeLedger`; proofs
   in `SDiem_proofs`, with those of v2.  `SDiem` checks the two side by side.
6. `VaultShares`, `CSDiemV2`: the vault composed with `SDiemV2`; proofs `WebApp_proofs`.
7. `CSDiemV1` over what `StakeLedger` promises of sDIEM; proofs `CSDiemV1_proofs`.
8. `Keeper`, over `RevenueSplitter`, with the health check; proofs `Keeper_proofs`.
9. `RelayClient`, over what `PrepaidAccounts` promises; proofs `RelayClient_proofs`.
10. `Wallet`, `PoolPage`, `SDiemCard`, `FeeHistory`, `FeesChart`, `StakingYield`,
    `WebApp`: the web application over `CSDiemV2`; proofs `WebApp_proofs`.
11. `Auction`: the price list and the purchases; `UsageReports`: counters, log, reports;
    `RelayServer`: both beside `Relay`.
12. `ArithmeticTheorems`: sums and rounding, for all the proofs.

Left to model: csDIEM v1 over `SDiemV1` itself instead of over its promises; the setters
of csDIEM's swap settings.

Theorems worth proving, all done: the DIEM side, the types, the ledger, the solvency and the
entitlements of sDIEMv2; the counter, the ledger and the solvency of sDIEM v1; the watcher's
credits; the relay's accounts, balances and suspensions; csDIEM v1's backing and share
price; the client's turns, logins and margins; csDIEMv2's share price, purchases and floor;
the USDC and the stream of splitter and keeper, and what the health check sees; what the
pool page says of a withdrawal and that it does not restart one; the charts, the table and
the yields.

## 3. How the models are built

**A transaction is a step.**  A Solidity call either happens entirely or not at all,
so each external function is one action, its `require`s are conjuncts, and a
revert is no step.  `completeWithdraw` thereby loses an initiation it made before
reverting, as on chain.  Reentrancy is excluded by the contracts' guards.

**Between two awaits is a step.**  The relay is one JavaScript thread with a
synchronous database driver; what a handler does between two awaits is one action.
The watcher's, the keeper's and the client's awaits are split likewise: a request, its
effect and the arrival of its answer are separate steps.

**Time counts down.**  Deadlines are kept as the time left, so no clock has to be
bounded.  `SDiemV2!Tick` lowers every running timer by one.

### Modules

- `VeniceStaking` — a pool record (liquid, staked, pending, cooldown) and pure
  operators on it.  External: it says what the interface documents and what the
  contracts' test double does.
- `SDiemV2` — every state-changing function of the contract.  `TryInitiate` is
  `_tryInitiateVeniceUnstake`, `Uncovered` is `totalPendingNotInitiated`, the
  `Checkpoint` operators are `updateReward`, `Mint`, `BurnShares` and `MoveShares`
  are what the three kinds of `_update` do.  `PayReward` chooses whether the USDC
  transfer succeeds.  A user and a claim's recipient are not told apart: `claimed`
  counts for the user whose reward it was.
- `StakeLedger` — what a staker is promised with Venice left out.
- `RevenueSplitter` — extends `SDiemV2`; `Distribute` is the splitter's and sDIEM's
  half of one transaction.  The splitter is one of `Managers` and starts as
  operator; sDIEM's admin may change that.  Its behaviours are run by `Keeper`.
- `Keeper` — extends `RevenueSplitter` by the vaults' harvests as the keeper sees them
  and by its run, one read, simulation, submission or receipt a step, for the harvest
  and the distribute job.  A transaction sent is in the mempool in nonce order until it
  is mined, whoever still waits for it.  The log it leaves is read by `Alert`, the
  health check.  `due` is a history variable: the jobs possible ever since the run began.
- `SDiemV1` — extends `SDiemV2` by `totalPendingNotInitiated`.  The queue functions are
  its own (`RequestWithdrawV1` and so on, over `AfterInitiate` and `LeftAfter`, the two
  results of `_tryInitiateVeniceUnstake`); the functions that never look at the counter
  are those of `SDiemV2`, because the two files agree there.
- `SDiem` — one of the two generations, whichever is deployed: what is asked of the queue is
  the same, and the instance too.  What v1 counts is a view in v2 (`AsV2`).
- `VaultShares` — the share arithmetic of the vendored ERC-4626 with its virtual shares
  and the direction in which each conversion rounds.
- `CSDiemV2` — extends `SDiemV2`: the vault is one of sDIEM's `Users`, a deposit or a
  redemption is an sDIEM `Transfer` and a change of shares in one action.  The oracle's
  quote and what the pool pays are open within what the slippage checks let through.
- `CSDiemV1` — the vault with its own queue.  Of sDIEM it keeps the vault's position
  (staked, queued, time left), which is what `StakeLedger` promises, and with
  `PartialPayouts` sDIEM may pay any part of it or nothing when it is time.
- `Relay` — the tables as one record `db`, pure operators named after the functions
  of `db/index.ts`, and handlers as actions over a program counter per request
  (`idle`, `body`, `venice`, `done`).  A model is looked up in `ModelPricing` or gets
  `DefaultPricing`, and estimate and cost are computed from it.  Amounts are units of the
  last digit the code rounds to, so rounding and its epsilons vanish.
- `Auction` — `config.ts`'s calendar and rates, `GET /v1/pricing` and `POST /v1/buy`.  A
  handler is one action, with as many readings of the clock as the code makes; between
  two of them an hour or the day may turn.
- `UsageReports` — the counters and `usage_logs` as a settlement writes them, the admin's
  endpoints, and the commands info and stats of `admin.ts`, whose queries are
  steps of their own.
- `RelayServer` — one of `Relay`, `Auction` and `UsageReports` at a time, each on the clock
  it needs: what they share, the tables, is written by `Relay`'s operators, and the other
  two keep of it what their questions are about.
- `PrepaidAccounts` — what a borrower is promised: bought, held, spent or returned.
- `RelayClient` — `borrower-cli.ts`, as the REPL or as one command, against the relay's
  sessions, login limiter and chat handler; of the credits it keeps an account of
  `PrepaidAccounts`.  Requests and answers travel and may be lost with the connection.
- `DIEMVault` — deposits, fees, roles and the log of its events.
- `DepositWatcher` — extends `DIEMVault`: chain, watcher and the relay reduced to its
  look-up by hash.  The node returns the events whose form, `VaultEvent`, is the one the
  watcher asks for, `DEPOSITED_EVENT`; the two differ in the repository.  For each event the watcher first registers the borrower
  (`EnsureBorrower`) and then asks for the credit, two calls that fail separately.
- `Wallet` — extends `CSDiemV2` by the holder's allowances, by what each call the pages
  submit does when it is mined, and by everybody else (`Others`, the admin, rewards).
- `PoolPage` — `app/page.tsx`: a snapshot or none, what is typed, the one transaction
  the page follows.  The `...Enabled` operators are the buttons; the two tabs and the two
  ways of each of the withdraw and convert panels are modes; typing (also while a
  transaction is open), pressing, mining, a refusal and the next snapshot are steps.
- `SDiemCard` — the card with its hooks, several transactions open at once, an error per
  hook, Dismiss, the auto-compound box.  Its five queries are refreshed one by one:
  a button is pressed on readings that are true or on older ones.
- `FeeHistory` — pure functions: the cursor walks of `fees.ts` as recursive functions of the
  turn, the joins of the fees page and of `useStakeHistory.ts`, each beside a reference
  definition that looks at every element for every day.
- `FeesChart` — pure functions: the axis, the lines and their gaps, the months' labels and
  the point under the pointer, from `FeesChart.tsx`.
- `StakingYield` — pure functions: the current and trailing yields of `apr.ts`,
  `useTrailingApr.ts` and the pool page, beside what a reward period pays.
- `WebApp` — the page shown: the pool page, the card, the fees page or the yields.
- `ArithmeticTheorems` — what the sums of the community modules and the rounding of
  `\div` satisfy; `..._proofs` — the theorems about the component of that name.
- `MC...` — symmetry sets and the functions that configurations name.

Definitions marked `(mutant)` belong to no behaviour: each is a plausible mistake in
the definition it names, and shows that a property notices it.

## 4. What the runs check

| Run | Question | Answer |
|---|---|---|
| `sdiem_queue` | For both generations: does the DIEM add up, does the queue ever stall, is anything owed forgotten, can anyone restart a running cooldown? Is every step a step of the per-user ledger? Is a persistent user paid although others take liquid DIEM first? | `Backing`, `NeverStalled`, `CounterCovers`, `CooldownNotRestarted`, `ImplementsLedger` hold; `WithdrawalsPaid` holds under `DeployedFairSpec` |
| `sdiemv2_rewards` | Is the reward stream solvent and moved by time alone, with rounding in every division? | `TypeOK`, `Solvency`, `OnlyTimeEarns`, `OperatorNeverGains` hold |
| `keeper_flow` | With cron, RPC errors, transactions stuck in the mempool, kills and interfering admins: is USDC conserved through both contracts, does a distribution top up a running stream, can revenue get stuck, can a run leave work undone in silence? | `UsdcConserved`, `StreamToppedUp`, `SilentRunsServe` hold; `RevenueServed` holds under `FairKeeperSpec` |
| `csdiemv2_shares` | Does anybody ever pay for another's purchase, exit, gift or harvest, is every way of buying shares priced alike, is the floor kept? | `NobodyDiluted`, `FairPurchase`, `SoldAboveFloor` hold |
| `csdiemv1_shares` | Are all redemptions backed, at old prices, with cancellations and partial payouts; are those who stay diluted? | `RedemptionsBacked`, `NobodyDiluted` hold |
| `relay_accounts` | Is every handler one step of a prepaid account, and the copied balance right? Can a suspended borrower keep a session or reserve credit across an await? Can an hour or midnight within a handler sell or offer a day by another day's rules, or make waiting dearer? Do counters, totals and log of the use agree, around midnight and between a command's queries? | `TypeOK`, `BalanceInSync`, `ImplementsAccounts`, `SuspendedLockedOut`, `DaysSoldApart`, `UsageAgrees` hold |
| `relay_client` | Is a message charged once, retried or not, does the conversation stay whole, does a turn end, with sessions that run out, a shared limiter and broken connections? | `TurnChargedOnce`, `TurnsComplete`, `LoginsLimited`, `MarginHolds` hold; `TurnsEnd` holds under `FairSpec` |
| `watcher_credit` | Can a payment be credited twice, or credits exceed what the vault holds for borrowers; is every deposit that reaches the watcher credited? | `CreditedOnce`, `CreditsBacked` hold; `DeliveredCredited` holds under `FairSpec` |
| `web_app` | Is what the page and the card offer allowed by the contracts, sent once, and harmless when decided on an old snapshot; does a supply go through; do charts, table and yields show what they promise? | `StatusAgrees`, `OfferedCallsWork`, `DelayNotRestarted`, `FeesExact`, `ChartsDrawn`, `AprExact` hold; `SupplyGoesThrough` holds under `FairWebSpec` |

Three runs show a disagreement; the findings in `PROJECT.json` quote the lines.

| Run | Said | Done |
|---|---|---|
| `watcher_retry`: `NothingLost` | an event that failed is retried on the next poll | polls ask for new logs; the next success moves the saved block past it |
| `watcher_signature`: `PolledDepositsCredited` | the watcher picks up the vault's `Deposited` events and credits the relay account | the vault's event has four parameters, the watcher asks for one with three: it never sees any |
| `csdiemv1_stuck`: `RedemptionsPaid` | a redemption may be filled from partial sDIEM withdrawals and does not wait for ever | a redemption larger than the vault's pending sDIEM withdrawal reverts and takes the payout back with it, and while that withdrawal is pending nothing more is requested; the user has to cancel |

More were seen while modelling and have no run of their own.

On chain:

- sDIEM sends rounding dust back to the splitter within `distribute()`, so that the
  splitter's balance does not drop by exactly both cuts.
- sDIEM v1's counter can overshoot, although `cancelWithdraw` reconciles it
  (`contracts/src/sDIEM.sol:332`): request, cancel, and request again while the cooldown
  of the first request runs.  What is on its way from Venice would pay the second
  request, and the counter counts it once more, so that others' stake is unstaked for
  nobody; no payment suffers (`redeployExcess` brings it back).
- csDIEM v1's `canCompleteRedeem` (`contracts/src/csDIEM.sol:212-213`) counts on the whole
  pending sDIEM withdrawal, of which sDIEM may pay a part.
- A deficit of csDIEM v1 below `SDIEM_MIN_WITHDRAW` is never requested from sDIEM and
  waits for another redemption to enlarge it.
- `contracts/KNOWN_ISSUES.md:263` and `contracts/AUDIT.md:238` say that `protocolFees` is
  zero in the first phase; the vault's `deposit()` takes its default fee from the start.

Relay and watcher:

- A request that reserved before midnight and fails after it is refunded into a tranche
  of the new day (`src/db/index.ts:268`), although credits are valid on their date only.
- A crash between the two statements of the daily reset leaves the copied balance
  unsynced for the day, since the reset is not repeated; `BalanceInSync` excepts that day.
- Credits are keyed by transaction hash (`src/db/index.ts:70`), so that a second
  Deposited event of one transaction is taken for a replay and not credited.
- The daily spending limit (`src/config.ts:51`) is checked against what has settled
  (`src/metering.ts:73`): requests in flight together all pass before any of them counts.
- The proxy hands on no cached tokens (`src/index.ts:279`), so that the price for them is
  never charged.
- `watcher_credit` and `watcher_retry` ask what the watcher does with the events it gets,
  and so run it before a vault that emits the event of its ABI (`VaultEvent` is
  `AsDeclared`); `watcher_signature` runs it before this repository's (`AsEmitted`).
- A retried purchase is answered with the rate and the date of the retry, not with those
  of the credit that was recorded (`src/index.ts:146-169`).
- `GET /v1/balance` hands out `daily_spent` without the daily reset (`src/index.ts:320`):
  until the first request of a day it is an earlier day's.
- `watchFromBlock` is computed by the catch-up (`src/deposit-watcher.ts:228,262,267`) and
  never used: blocks mined between the catch-up's query and the first poll are looked at
  by neither.
- `admin.ts` calls `addCredit` with separate arguments (`src/admin.ts:55`), which takes one
  object (`src/db/index.ts:56`): `admin credit` always throws and credits nothing.  The
  HTTP handler for credits does not check that the amount is positive.
- `admin usage [days]` puts "Recent usage (last N days)" above the newest 20 requests
  whatever their age (`src/admin.ts:135-137`).
- `borrower-cli.ts:166` prints `discountRate` of an answer that does not carry it.

Web application:

- The pool page offers a supply into csDIEM while sDIEM is paused, and a request below
  sDIEM's minimum; both revert (`PoolPage!KnownGap`).  The card never compares what is
  typed with the balance (`SDiemCard!NotLookedAt`).
- Dismissing an error resets every hook of its status line
  (`app/src/components/SDiemCard.tsx:300,349,387,554,617`), so that a deposit or a request
  still open there is forgotten and can be sent again; a second request restarts the
  delay.  `SentOnce` excepts what was dismissed.
- The card's auto-compound box is disabled while csDIEM is paused: once on, it cannot be
  turned off, and staking into sDIEM, which works, is blocked with it.
- The card formats shares of csDIEM v2 with 18 decimals where the pool page uses 24
  (`app/src/app/page.tsx:36`): display only.
- `fees.ts:22-24` describes the window as (dayEnd − windowDays, dayEnd]; the code, and
  `ShowsFees`, take it closed on the left and open on the right.
- With the browser's clock behind the day of the first distribution the fees page has no
  point at all and `stats.current` is undefined (`app/src/app/fees/page.tsx:50-64`);
  `AddsUp` assumes that the clock is not.
- The trailing yield reads its numerator at a later block than its window ends
  (`app/src/hooks/useTrailingApr.ts:48,57`); `StakingYield` bounds what that can add.

### Bounds

- *sDIEM queue*: either generation with two users of 2 DIEM each, up to 4 in one hand
  after a transfer; amounts 1 and 2, `MIN_WITHDRAW` 2, gifts of 2, Venice's cooldown two
  units and the delay one.  Enough for an exit below the minimum, a partial payout, a
  second request while the first waits, a request that finds the cooldown running, a
  capped counter, a cancellation with DIEM pending, and Venice's cooldown running out
  before, with and after the delay.  The rewards are present with one unit of USDC, and
  staking is never paused: both are other runs' questions.  The run has a liveness
  property, so it uses no symmetry; `sdiemv2_rewards` uses `UserSymmetry`, since users
  are interchangeable in every action and property.
- *Rewards*: precision 3, a period of three units, a supply of 2 or 4, USDC 7 in
  notifications of 1 and 6.  Each of the three divisions has a remainder, a period is
  renotified at every point of the previous one, and a notification of 1 on top of a
  leftover of 4 has more dust than it brought, so that the cap of the refund bites.
- *Keeper*: one csDIEM v2 vault that can harvest once, revenue 10 in two payments of 5,
  shares 1:4, a day and a reward period of three units, a cooldown of two or one, a log
  that is stale after four.  The smallest distribution is 4, so that the stakers' cut is
  at least the reward duration, as the real minimum is against 86400 seconds: a smaller
  one would be refused with rate zero, which the deployed values do not allow.
  `MaxFaults` 2 is shared by RPC errors, lost receipts, kills, missed cron runs and the
  admins' acts: every pair of them meets a run.  Time stands still during a run (minutes
  against hours); `DRY_RUN` is off.
- *csDIEMv2*: two holders and the vault; deposits of 2 sDIEM or DIEM, gifts of 1, one
  reward, swaps that return 1 to 3 at quotes of 2 and 4 with half of it as slippage and a
  floor of 5 for two units of USDC, so that both the floor, rounded down, and the slippage
  decide.  Two virtual shares, so that
  every conversion has remainders.  sDIEM's own admin and pause are left to its runs.
- *csDIEM v1*: two holders with 3 DIEM, redemptions of 3 and 4 shares, two harvests of
  1: a request, a harvest and a cancellation meet at three prices.  For `csdiemv1_stuck` one
  user is enough, with sDIEM paying in full and on time, everybody calling
  `syncWithdrawals` and `redeployExcess`, and no minimum above one unit: nothing else
  can be blamed.
- *Relay*: two borrowers, two requests, one midnight, three tranches of 3 bought for
  any of the three days (refunds may add more), two hashes; two models, one listed at the smallest estimate of
  1, one at the default price with an estimate of 2; usages that cost 0, 1 and 3, so
  below, at and above an estimate.  A grant smaller than an estimate forces a reservation
  over two tranches and a refund that overflows the newest.  Requests are made at most
  once, hence `CHECK_DEADLOCK FALSE`: when the day, the tranches and the requests are used
  up the model may stop.  The process may die at awaits, inside a sweep, inside the
  daily reset and between the two statements of a suspension; `BalanceInSync` excepts the
  day on which a reset was cut short, `SuspendedLockedOut` the rows of `sessions` that a
  suspension cut short leaves, on which nothing can be done.
- *Auction*: two days of four hours of which the last is closed, rates from 4 down to 1,
  two payments, each sent any number of times; between the readings of one handler the
  clock goes on by an hour at most.
- *Reports*: two borrowers, two requests that cost 0 or 1, two days of two units, a
  summary of one day, a list of one row, one command at a time.
- *Relay client*: one client, as the REPL or as a one-shot command, with or without
  `--session`, and others behind its address who use up the limiter.  A session lives 3
  units, the margin is 1, the limiter's window 1 with 2 logins; costs 1 and 2 of a credit
  of 3, so that credit runs out mid-conversation; two broken connections, a suspension, a
  restart.  `LoginsLimited` counts within one life of the relay's process, whose restart
  clears the limiter (`src/index.ts:53`) and with it the history.  Client and relay read one clock, as the margin of 60 seconds is there for
  travel and not for clocks; the login when the REPL starts is treated like its balance
  query.
- *Watcher*: three deposits of 4 in four blocks, any number per block, the first two in
  one transaction, one stop, two calls of the vault's admin.  Enough for overlapping
  batches, a restart during a catch-up, a replay of what was credited, and a fee changed
  between two deposits.  One-shot: `CHECK_DEADLOCK FALSE`.
- *Pages*: a holder with 2 DIEM who types 1, and one act beside his (`MaxMoves`): a pause,
  a reward, a refusal to sign, or another holder's stake, which that holder then
  withdraws as he likes.  One move between a snapshot and its use makes it stale.
  `typed` stands for the page's three amounts, of which one panel uses one; the wallet is
  connected, on the right chain, and the page is not reloaded.  On the card three presses
  and two transactions open at once, which is what a doubled call takes; approvals are
  unlimited or cut down to the amount; what other holders do is represented by the
  admin's acts, which disturb more.  `CHECK_DEADLOCK FALSE`: the holder may stop.
- *Fees and yields*: days of two instants, windows of two and three days, timestamps 0 to
  7, up to two distributions of the first splitter and one of the second, up to two stake
  logs and prices: every order and every coincidence with midnight, with a day without
  events and with a price too old.  Charts of 7 pixels with labels of 3, months of two days:
  points closer together than pixels, an opening label that collides and one that does
  not.  One reward period at rates 1 and 3, stakes 0, 2 and 5,
  blocks 0 to 5, a later read 0 or 1 block after, a clock 0 or 1 second ahead.

### Fairness

- `SDiem!DeployedFairSpec`: time passes (weak), and a user whose `completeWithdraw` would
  succeed again and again gets it into a block (strong: others may take the liquid
  DIEM in between, so the call is not continuously enabled).  No keeper, operator or
  other user is assumed to do anything: `completeWithdraw` itself claims from Venice
  and initiates for the rest.  The property excludes a user who restarts the delay
  with new requests for ever.
- `Keeper!FairKeeperSpec`: time passes and cron starts the keeper, a run goes on (its
  calls end with an answer or an error, its wait with 90 seconds), and what was sent is
  mined.  All weak.  Nobody else need call `distribute()`.  Faults are bounded.
- `CSDiemV1!FairSpec`: time, each user's `completeRedeem` (strong), and somebody who calls
  `syncWithdrawals` and `redeployExcess`, which are open to anyone.  It is used to refute
  only, so it assumes more than the system has.
- `RelayClient!FairSpec`: the relay answers, Venice included, and answers arrive or the
  connection breaks.  That Venice answers is an assumption: the code sets no timeout.
- `DepositWatcher!FairSpec`: the poller's timer fires while the process is up, and
  each of its handlers goes on: the RPC and HTTP calls end with an answer or an error.
  Starting again after a stop is not assumed.
- `WebApp!FairWebSpec`: the page refetches its snapshot, transactions are mined, and the
  holder types the amount and presses the supply button again and again (strong, since
  snapshots come and go).  The property excepts a pause and an empty wallet.
- `Relay` assumes none, and no liveness is claimed: its call to Venice has no timeout.

## 5. What is proved

Eight modules hold theorems, each for every value of the constants that the named
assumptions of the component admit.  Those are as weak as the code justifies, and TLC
evaluates them on every run.  Beside the ranges of the parameters they say that the sets
of users, payers and requests are finite.  What of the safety properties is not proved is
listed at the end of the section; one theorem, `NotUnnoticed`, has a hypothesis on the
settings.

| Component | Theorems | Properties |
|---|---|---|
| sDIEMv2, queue | `BackingHolds`, `NeverStalledHolds`, `CooldownHolds`, `LedgerImplemented` | `Backing`, `NeverStalled`, `CooldownNotRestarted`, `ImplementsLedger` |
| sDIEMv2, rewards | `TypesHold`, `SolvencyHolds`, `OnlyTimeEarnsHolds`, `OperatorHolds` | `TypeOK`, `Solvency`, `OnlyTimeEarns`, `OperatorNeverGains` |
| sDIEM v1 | `CounterCoversHolds`, `V1BackingHolds`, `V1LedgerImplemented`, `V1SolvencyHolds` | `CounterCovers`, `Backing /\ NeverStalled`, `ImplementsLedger`, `Solvency` |
| csDIEM v1 | `Backed`, `Undiluted`, `BatchRuns` | `RedemptionsBacked`, `NobodyDiluted`; no run checks what `BatchRuns` says |
| csDIEMv2 | `CSUndiluted`, `PurchasesFair`, `FloorHolds` | `NobodyDiluted`, `FairPurchase`, `SoldAboveFloor` |
| pool page | `StatusHolds`, `DelayHolds` | `StatusAgrees`, `DelayNotRestarted` |
| fees page, yields | `FeesHold` by `ChartShowsFees`, `PageAddsUp`; `AprHolds` by `PageShowsApr`, `YieldsHold` | `FeesExact`, `AprExact` |
| splitter and keeper | `Conserved`, `ToppedUp`, `NotUnnoticed` | `UsdcConserved`, `StreamToppedUp`, `SilentRunsServe` |
| watcher and vault | `Credited`, `Backed` | `CreditedOnce`, `CreditsBacked` |
| relay | `Typed`, `Synced`, `LockedOut`, `Prepaid` | `TypeOK`, `BalanceInSync`, `SuspendedLockedOut`, `ImplementsAccounts` |
| relay client | `Limited`, `ChargedOnce`, `Complete`, `Margins` | `LoginsLimited`, `TurnChargedOnce`, `TurnsComplete`, `MarginHolds` |

### Sums: `ArithmeticTheorems`

Half of the properties speak of sums over a finite set.  The fold behind
`SumFunctionOnSet` picks its elements in an order of `CHOOSE`'s, and the library's
induction principles take the claim as an operator, which the provers cannot instantiate.
`ArithmeticTheorems` takes the least counterexample of a set of naturals instead: a set is
an ordinary parameter.  The sum is first shown to satisfy its equation for *every* element
taken out (`SumTakeOut`), and then what a step needs: one entry changed, an element added,
monotony, multiples, differences.  The module also holds the rounding of `\div`, down and
up, and what the two vaults need of prices.  `SumOfImage` carries a sum over to another set
of indices, as sorting does; `SameAtEveryTurn` is the induction a loop needs: a recursive
function that starts as another one and keeps to it from each turn to the next is that one.

The part of `SDiem_proofs` on the queue states that a total is a sum through a *tally*: a function that gives every set of users a natural, zero to the empty set and
`f[u]` more to a set with `u` than without.  A step that changes one entry changes the
tally of each set that holds it, which needs no induction.  `TalliedSum` shows that a
tallied total is the sum.

### sDIEMv2, the queue: `SDiem_proofs`

    DiemInv == /\ DiemTypeOK /\ Backing /\ NeverStalled
               /\ IsTotal(balanceOf, totalSupply)
               /\ IsTotal(Queued, totalPendingWithdrawals)

None of its parts is inductive alone.  `Backing` after a payout needs naturals, and
`totalPendingWithdrawals - payout` is one only because the total is at least each
entry.  `NeverStalled` after `completeWithdraw` needs `Backing`: when what is left
owed is not covered by liquid and pending DIEM, the pool's staked part is positive,
because holdings are at least the debt, and `TryInitiate` therefore moves some of it.
The step lemmas are organised by what a step does to the pool.

`LedgerImplemented` maps every step to an action of `StakeLedger` or to a stutter; the
payout of `completeWithdraw` is a payout of the ledger because it is at most what the
user has queued, and whatever it initiates at Venice is invisible there.

### sDIEMv2, the rewards: `SDiem_proofs`

`Solvency` is not inductive: rounding what a user has earned says nothing of the fraction
cut off, and time raises the accumulator by more in two halves than in one.  The invariant
is stated without rounding, in units of `1/Precision` of a USDC:

    Funded == Total(Settled) + Precision * ((sinceUpdate + periodLeft) * rewardRate)
                <= Precision * usdc
    RewardInv == DiemInv /\ RewardTypeOK /\ Funded

`Settled` is what each user has earned up to the last update, its part in the accumulator
unrounded, and the second term is the rate for every unit of time from there to the end of
the period.  Settling a user only rounds down; an accumulator brought up to date adds at
most what the elapsed time took from the second term, because the users' balances sum up
to the supply; a notification adds less than it brings, its dust given back.

`OnlyTimeEarns`: a step that checkpoints the users it touches leaves
`claimed + Earned` of each as it was, since the accumulator brought up to date twice at one
instant is the same, and one that does not checkpoint changes neither balance nor
accumulator.  `OperatorNeverGains`: the cap keeps the dust below the reward.

### sDIEM v1: `SDiem_proofs`

The invariant is `DiemInv /\ totalPendingNotInitiated \in Nat /\ CounterCovers`.  The three
depend on each other: a cancellation clamps the counter to what is staked, which still
covers the debt by `Backing`; and after a capped initiation either the counter is used up,
so that by `CounterCovers` liquid and pending DIEM cover the debt, or nothing is left
staked, so that by `Backing` they do.  The functions that never look at the counter, the
ledger and the whole reward side reuse the lemmas of v2: a v1 step changes sums, pool and
rewards in one of v2's ways.

### csDIEM v1: `CSDiemV1_proofs`

`RedemptionsBacked` is inductive beside the types by one fact of the rounding: existing
shares are worth no more than `totalAssets`, so that `requestRedeem` never promises more.
`NobodyDiluted` compares rounded values and follows from a relation without rounding that
every step keeps: unless nobody held a share, `(T + 1)(S' + V) <= (T' + 1)(S + V)` for
assets `T`, supply `S` and virtual shares `V`.

### csDIEMv2: `WebApp_proofs`

    VaultInv == DiemInv /\ RewardTypeOK /\ SharesOK

sDIEM's own invariant and types, and that the supply of shares is the sum of the holders'.
A redemption needs the latter for the supply left to be no less than nothing.  The sDIEM
the vault moves is covered by the lemmas of `SDiem_proofs` on transfers, stakes and claims;
each function is then one of three: shares issued for assets, shares retired for assets,
assets given for nothing, and keeps the unrounded price as in v1.  `FairPurchase` adds that
one share more, or one unit of sDIEM less, would have broken that price; `SoldAboveFloor`
that the floor is checked against what the router must pay and not against the quote; the
code rounds it down, hence the unit of DIEM in the property.

### The pool page: `WebApp_proofs`

The page runs against both contracts, so its invariant starts from theirs; in another
page's browser nothing is pressed here.

    OnThePage == VaultInv /\ PageTypeOK /\ SnapshotTrue /\ FirstRequest

`SnapshotTrue`: a snapshot that is said to be fresh is what the chain holds; whatever
happens on chain makes it stale, and typing an amount may drop it.  `FirstRequest`: a
withdrawal request that was decided on a snapshot true to this day finds the queue empty;
`DelayNotRestarted` is its contrapositive.  `StatusAgrees` compares two computations from
the same reads; that nobody who has queued is told to wait for liquidity is the contract's
`NeverStalled`, with the entry being part of the queue's total.  A reverted call leaves
everything as it was, so that its `ENABLED` guard need not be looked into.

### The fees page and the yields: `WebApp_proofs`

What these pages show is computed from a list of events, so nothing has to be kept by a
step.  The work is in four theorems about the functions, for any list: distributions and
stakes in any order, prices in the order of their times, a reward period announced at the
newest block or before (`FeesRead`, `AprRead`, `YieldRead`).  `FeesHold` and `AprHolds` follow,
since the inputs of the model are such lists whatever its bounds are.

- *Sorting.*  `ByTime` chooses an order; one exists, because an entry's place can be told by
  how many precede it, and so the sorted list holds the same entries (`SortedLog`).
- *Cursors.*  In a sorted list what happened before a limit are its first `Before(log, limit)`
  entries, and a cursor that starts no later ends right behind them (`AdvanceIs`).  Hence
  the loop's state after a day is a function of the day alone: `PointOf` for the fees,
  `CloseOf` for the stake, `PriceOn` for the prices.  One turn leads from a day's to the next
  one's, and `SameAtEveryTurn` closes the induction.
- *Sums.*  What passed between two cursors is the sum over the window's events, carried over
  to the unsorted list.  Windows a window apart neither overlap nor leave a gap, so that the
  rows of the table add up (`RowsAddUp`).
- *Prices.*  Once a later price is further from a close than an earlier one, it stays so for
  all after it: the walk's stopping place is the latest of the nearest, and never goes back.
- *The APR.*  Fees, stakes and prices are lists of the same days (`SeriesIs`); a point's
  window is then the same places in all three.
- *Yields.*  `rewardPerToken()` is what has accrued divided by the stake, rounded down; the
  difference of two such quotients, times the stake, misses the accrual in between by less
  than one stake (`QuotientsDiffer`).  The page's block arithmetic finds the window's start
  because a day is a number of whole blocks, which `YieldAssumption` states.

### Splitter and keeper: `Keeper_proofs`

`ContractSteps` sorts what cron, the run, the mempool and the admins do by its effect on the
contracts: sDIEM alone, the splitter's settings, a payment, a distribution, a harvest.

    MoneyInv == DiemInv /\ RewardTypeOK /\ SplitterOK /\ UsdcConserved

`UsdcConserved` follows step by step from the refund being at most what was notified and the
platform's part at most the balance.  `StreamToppedUp` follows from the types and the
remainder of one division.

`SilentRunsServe` rests on what a run knows of the jobs behind it (`RunOK`): one that was
possible ever since the run began and is behind it has left an error in the log; and the
transaction it waits for is the newest in the mempool.  A job that succeeded must not be
possible again at once, or it would count as undone: a harvest leaves the vault nothing to
claim, and a distribution leaves less than the minimum or a cooldown to wait.  The latter is
the hypothesis `Earnest`: no cooldown that may be set is 0, or no minimum that may be set is
below a unit of USDC per unit of the period, and `DRY_RUN` is off, which logs nothing of
what it leaves undone.  The code admits a cooldown of 0 together with such a minimum.  It
is then true that a distribution can be followed by another, of dust, that the run does not
make; the contracts' defaults (23 hours; 100 USDC against 0.09 of dust) are far from it.

### Vault and watcher: `DepositWatcher_proofs`

`CreditedOnce` needs beside the types that batches hold events of the log only and that an
event not yet in the log has no credit: the next event may come in an old transaction.
`CreditsBacked` says nothing of where a balance comes from; it is strengthened to `Booked`:
a borrower's balance is the sum of the amounts of the borrower's events, of each of which a
credit is a copy or nothing.

### Relay: `Relay_proofs`

    IInv == TablesOK /\ AccessOK /\ RequestsOK

Each operator of `db/index.ts` is first described by what it moves, today and in all, for
its borrower and for nobody else (`Moves`), whatever it does to the tranches: a reservation
takes its amount in a waterfall over the day's tranches, a refund fills the newest and adds
a tranche for what overflows.  The handlers are then followed through `Moves` alone.  No
tranche holds more than it was bought for, every tranche belongs to a registered borrower,
and the copied balance is right for whoever was reset today, unless that reset was torn;
together these make `BalanceInSync` survive the sweep and midnight.  A login in progress
holds the place of the session it may become, and who is suspended or not registered has no
session, but for the rows a suspension cut short has left, on which no request begins: that
is what `SuspendedLockedOut` rests on.  Only a request with Venice holds
credit (`RequestsOK`), so that held credit is a sum over requests, and each step changes
bought, held and spent as one action of `PrepaidAccounts` does.

### Relay client: `RelayClient_proofs`

The limiter counts in fixed windows that begin with a login, and the property looks at any
span of one window's length.  `WindowOK` splits the logins let in during the last window's
time into those of the window that is open, which its counter bounds, and those before it,
which were one window's.  `ClientOK` counts what a turn has been charged and may still be
charged by handlers whose client is gone: at most one, and nothing as long as the turn can
make another request.  For `MarginHolds` it keeps that a request under way carries a
session whose time when it was got exceeded the margin.

### What is only model-checked

- Everything under fairness, which this prover does not reach: `WithdrawalsPaid`,
  `RevenueServed`, `TurnsEnd`, `DeliveredCredited`, `SupplyGoesThrough`.
- `OfferedCallsWork` of the pages: it is about calls that are not `ENABLED`, which the
  prover does not expand.
- `ChartsDrawn`, `DaysSoldApart` and `UsageAgrees`.
- `DelayNotRestarted` says nothing of a request that was decided on a snapshot no longer
  true: there the code does restart the delay (`app/src/app/page.tsx:316`), and nothing
  but a newer snapshot would keep it from it.

## 6. What is not modelled

- The relay's lists of all borrowers and of a borrower's credits, and its aliases, which
  no modelled decision reads.  Negative amounts of `POST /admin/credit`.
- The daily limit's overshoot and the refund after midnight are in the model as the code
  has them (section 4), with no property: nothing in the repository promises otherwise.
- The setters of csDIEMv2's swap settings (its constants here) and of csDIEM v1's; the
  swap of csDIEM v1, whose harvests bring some DIEM or revert.  USDC sent straight to
  csDIEMv2, which its next harvest would sell with the claim.  The oracle's arithmetic,
  taken from Uniswap: its quote is an open input.
- `recoverERC20` and `rescueToken`, which move foreign tokens only; views; signature
  checks of ERC-1271.
- Vendored contracts (OpenZeppelin, forge-std) and their generator scripts, which are most
  of the repository's unmodelled JavaScript: balances as the contracts use them.
- The HTTP exchange with Venice beyond its outcome.  Of `src/admin.ts` the commands
  list and usage, which print rows, and credit, which always throws (section 4); and
  `src/test-e2e.ts`, a script of requests.
- In the web application: the card's branches for the first contracts (`isV2` is fixed to
  TRUE), `VaultCard`, `PortfolioSummary`, the charts' colours and texts, wallet connection,
  pages without state.
- Deploy scripts: what they set up is `Init`.
- 256-bit overflow: Solidity 0.8 reverts, and the amounts in circulation stay far
  below it.  Floating point in the relay: amounts are rounded to six digits after
  each operation, modelled as integers.
