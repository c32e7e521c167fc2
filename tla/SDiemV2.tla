------------------------------- MODULE SDiemV2 -------------------------------
(***************************************************************************)
(* contracts/src/sDIEMv2.sol: the transferable staked-DIEM token.          *)
(*                                                                         *)
(* Users stake DIEM and hold sDIEM one for one; the contract keeps the     *)
(* DIEM staked on Venice.  A withdrawal burns sDIEM, joins a per-address   *)
(* queue for WithdrawalDelay, and is paid from the DIEM that comes back    *)
(* from Venice's own cooldown.  The operator streams USDC to the holders   *)
(* of sDIEM over RewardsDuration.                                          *)
(*                                                                         *)
(* One action per external function; a transaction that reverts is no      *)
(* step, so every require is a conjunct.  Times count down: wait,          *)
(* pool.cooldown and periodLeft are what is left of requestedAt +          *)
(* WITHDRAWAL_DELAY, cooldownEndTimestamp and periodFinish, and            *)
(* sinceUpdate is lastTimeRewardApplicable() - lastUpdateTime.             *)
(***************************************************************************)
EXTENDS VeniceStaking, FiniteSets, Functions

CONSTANTS
  Users,              \* holders of DIEM and sDIEM
  Managers,           \* accounts that hold or are offered a role
  NoOne,              \* address(0)
  FirstAdmin,         \* the constructor's _admin
  FirstOperator,      \* the constructor's _operator
  Candidates,         \* BOUND: the roles offered to setOperator, transferAdmin
  Pauses,             \* BOUND: the values SetPaused may give to paused
  Amounts,            \* BOUND: the amounts passed to stake, requestWithdraw
                      \*        and transfer
  Donations,          \* BOUND: the amounts of DIEM sent to the contract
  RewardAmounts,      \* BOUND: the amounts passed to notifyRewardAmount
  InitialDiem,        \* BOUND: DIEM each user starts with
  InitialUsdc,        \* BOUND: USDC the operators can bring
  WithdrawalDelay,    \* WITHDRAWAL_DELAY
  RewardsDuration,    \* REWARDS_DURATION
  MinWithdraw,        \* MIN_WITHDRAW
  Precision           \* PRECISION

ASSUME UsersAssumption == IsFiniteSet(Users)

ASSUME RolesAssumption ==
  /\ FirstAdmin \in Managers /\ FirstOperator \in Managers
  /\ Candidates \subseteq Managers
  /\ Pauses \subseteq BOOLEAN
  /\ NoOne \notin Managers

ASSUME AmountsAssumption ==
  /\ Amounts \subseteq Nat \ {0}
  /\ Donations \subseteq Nat \ {0}
  /\ RewardAmounts \subseteq Nat \ {0}
  /\ InitialDiem \in Nat /\ InitialUsdc \in Nat

ASSUME ParametersAssumption ==
  /\ WithdrawalDelay \in Nat \ {0}
  /\ RewardsDuration \in Nat \ {0}
  /\ MinWithdraw \in Nat \ {0}
  /\ Precision \in Nat \ {0}

VARIABLES
  roles,                    \* [admin, pendingAdmin, operator]
  paused,
  wallet,                   \* user -> DIEM outside the contract
  pool,                     \* the contract's DIEM (see VeniceStaking)
  donated,                  \* history: DIEM sent to the contract unasked
  balanceOf, totalSupply,   \* sDIEM
  request,                  \* user -> [amount, wait]
  totalPendingWithdrawals,
  rewardRate, periodLeft, sinceUpdate, rewardPerTokenStored,
  userRewardPerTokenPaid,   \* user -> Nat
  rewards,                  \* user -> Nat
  usdc,                     \* usdc.balanceOf(contract)
  operatorUsdc,             \* USDC in the operators' hands
  claimed                   \* history: user -> USDC paid out for the user

roleVars    == <<roles, paused>>
diemVars    == <<wallet, pool, donated>>
shareVars   == <<balanceOf, totalSupply>>
queueVars   == <<request, totalPendingWithdrawals>>
globalVars  == <<rewardPerTokenStored, sinceUpdate>>
userVars    == <<userRewardPerTokenPaid, rewards>>
periodVars  == <<rewardRate, periodLeft>>
usdcVars    == <<usdc, operatorUsdc, claimed>>
rewardVars  == <<globalVars, userVars, periodVars>>
vars == <<roleVars, diemVars, shareVars, queueVars, rewardVars, usdcVars>>

Requests == [amount : Nat, wait : 0..WithdrawalDelay]
NoRequest == [amount |-> 0, wait |-> 0]

Min2(a, b) == IF a < b THEN a ELSE b
-----------------------------------------------------------------------------
(* Rewards: the Synthetix accumulator and its checkpoints.                 *)

RewardPerToken ==
  IF totalSupply = 0 THEN rewardPerTokenStored
  ELSE rewardPerTokenStored
         + (sinceUpdate * rewardRate * Precision) \div totalSupply

Earned(u) ==
  (balanceOf[u] * (RewardPerToken - userRewardPerTokenPaid[u])) \div Precision
    + rewards[u]

\* (mutant) lastUpdateTime stays where it was.
CheckpointStored ==
  /\ rewardPerTokenStored' = RewardPerToken
  /\ UNCHANGED sinceUpdate

\* lastUpdateTime moves even when totalSupply is 0: what accrued meanwhile
\* is credited to nobody.
CheckpointGlobal ==
  /\ rewardPerTokenStored' = RewardPerToken
  /\ sinceUpdate' = 0

\* (mutant) skips users who hold nothing: recipients of a transfer.
CheckpointHolders(S) ==
  /\ userRewardPerTokenPaid' =
       [u \in Users |-> IF u \in S /\ balanceOf[u] > 0 THEN RewardPerToken
                        ELSE userRewardPerTokenPaid[u]]
  /\ rewards' = [u \in Users |-> IF u \in S THEN Earned(u) ELSE rewards[u]]

CheckpointUsers(S) ==
  /\ userRewardPerTokenPaid' =
       [u \in Users |-> IF u \in S THEN RewardPerToken
                        ELSE userRewardPerTokenPaid[u]]
  /\ rewards' = [u \in Users |-> IF u \in S THEN Earned(u) ELSE rewards[u]]

\* _update: the checkpoint that precedes every change of a balance.
Mint(u, amount) ==
  /\ CheckpointGlobal /\ CheckpointUsers({u})
  /\ balanceOf' = [balanceOf EXCEPT ![u] = @ + amount]
  /\ totalSupply' = totalSupply + amount

\* The checkpoint of a burn is stated by its callers: exit pays in the same step.
BurnShares(u, amount) ==
  /\ amount <= balanceOf[u]
  /\ balanceOf' = [balanceOf EXCEPT ![u] = @ - amount]
  /\ totalSupply' = totalSupply - amount

\* The balance update of a transfer, to oneself included.
MoveShares(from, to, amount) ==
  LET lowered == [balanceOf EXCEPT ![from] = @ - amount]
  IN  balanceOf' = [lowered EXCEPT ![to] = @ + amount]

\* _claimReward: a transfer that fails (paid = FALSE, say a recipient USDC
\* refuses) leaves the reward claimable.
PayReward(u, paid) ==
  LET reward == Earned(u)
      out == IF paid THEN reward ELSE 0
  IN  /\ out <= usdc
      /\ userRewardPerTokenPaid' = [userRewardPerTokenPaid EXCEPT ![u] = RewardPerToken]
      /\ rewards' = [rewards EXCEPT ![u] = reward - out]
      /\ claimed' = [claimed EXCEPT ![u] = @ + out]
      /\ usdc' = usdc - out
      /\ UNCHANGED operatorUsdc
-----------------------------------------------------------------------------
(* Withdrawals: what the queue still needs from Venice.                    *)

\* totalPendingNotInitiated()
Uncovered(p, owed) ==
  LET covered == p.liquid + p.pending
  IN  IF covered >= owed THEN 0 ELSE Min2(owed - covered, p.staked)

\* (mutant) initiates whatever the cooldown is doing.
InitiateAnyway(p, owed) ==
  LET claimedPool == IF Matured(p) THEN Unstake(p) ELSE p
      needed == Uncovered(claimedPool, owed)
  IN  IF needed = 0 THEN claimedPool ELSE InitiateUnstake(claimedPool, needed)

\* _tryInitiateVeniceUnstake(): a running cooldown is left alone, because
\* InitiateUnstake would restart it for everybody already waiting on it.
TryInitiate(p, owed) ==
  LET claimedPool == IF Matured(p) THEN Unstake(p) ELSE p
      needed == Uncovered(claimedPool, owed)
  IN  IF Uncovered(p, owed) = 0 THEN p
      ELSE IF claimedPool.pending > 0 \/ needed = 0 THEN claimedPool
      ELSE InitiateUnstake(claimedPool, needed)

\* The end of completeWithdraw: the transfer, then the initiation for the rest.
PayAndInitiate(p, payout, owed) ==
  TryInitiate(PayOut(p, payout), owed - payout)

\* (mutant) a second request rides on the delay of the first.
EnqueueKeepDelay(u, amount) ==
  LET owed == totalPendingWithdrawals + amount
  IN  /\ request' = [request EXCEPT
                       ![u] = [amount |-> @.amount + amount,
                               wait |-> IF @.amount > 0 THEN @.wait ELSE WithdrawalDelay]]
      /\ totalPendingWithdrawals' = owed
      /\ pool' = TryInitiate(pool, owed)

\* (mutant) leaves the initiation to completeWithdraw.
EnqueueOnly(u, amount) ==
  LET owed == totalPendingWithdrawals + amount
  IN  /\ request' = [request EXCEPT ![u] = [amount |-> @.amount + amount,
                                            wait |-> WithdrawalDelay]]
      /\ totalPendingWithdrawals' = owed
      /\ UNCHANGED pool

\* A request joins the user's queue entry and restarts its delay.
Enqueue(u, amount) ==
  LET owed == totalPendingWithdrawals + amount
  IN  /\ request' = [request EXCEPT ![u] = [amount |-> @.amount + amount,
                                            wait |-> WithdrawalDelay]]
      /\ totalPendingWithdrawals' = owed
      /\ pool' = TryInitiate(pool, owed)

\* (mutant) forgets the total.
DequeueEntry(u, amount) ==
  /\ request' = [request EXCEPT ![u] = [amount |-> @.amount - amount, wait |-> 0]]
  /\ UNCHANGED totalPendingWithdrawals

\* A payout, whose delay is over, or a cancellation of the whole entry.
Dequeue(u, amount) ==
  /\ request' = [request EXCEPT ![u] = [amount |-> @.amount - amount, wait |-> 0]]
  /\ totalPendingWithdrawals' = totalPendingWithdrawals - amount
-----------------------------------------------------------------------------
Init ==
  /\ roles = [admin |-> FirstAdmin, pendingAdmin |-> NoOne, operator |-> FirstOperator]
  /\ paused = FALSE
  /\ wallet = [u \in Users |-> InitialDiem]
  /\ pool = EmptyPool
  /\ donated = 0
  /\ balanceOf = [u \in Users |-> 0]
  /\ totalSupply = 0
  /\ request = [u \in Users |-> NoRequest]
  /\ totalPendingWithdrawals = 0
  /\ rewardRate = 0 /\ periodLeft = 0 /\ sinceUpdate = 0
  /\ rewardPerTokenStored = 0
  /\ userRewardPerTokenPaid = [u \in Users |-> 0]
  /\ rewards = [u \in Users |-> 0]
  /\ usdc = 0 /\ operatorUsdc = InitialUsdc
  /\ claimed = [u \in Users |-> 0]

-----------------------------------------------------------------------------
(* Users.                                                                  *)

WhenNotPaused == ~paused

StakeDiem(u, amount) ==
  /\ WhenNotPaused
  /\ amount <= wallet[u]
  /\ wallet' = [wallet EXCEPT ![u] = @ - amount]
  /\ Mint(u, amount)
  /\ pool' = Stake(Receive(pool, amount), amount)
  /\ UNCHANGED <<roleVars, donated, queueVars, periodVars, usdcVars>>

RequestWithdraw(u, amount) ==
  /\ amount >= MinWithdraw
  /\ BurnShares(u, amount)
  /\ CheckpointGlobal /\ CheckpointUsers({u})
  /\ Enqueue(u, amount)
  /\ UNCHANGED <<roleVars, wallet, donated, periodVars, usdcVars>>

\* A call with nothing to pay reverts, and the revert undoes the initiation
\* made before it as well.
CompleteWithdraw(u) ==
  LET amount == request[u].amount
      initiated == TryInitiate(pool, totalPendingWithdrawals)
      funded == IF initiated.liquid < amount /\ Matured(initiated)
                THEN Unstake(initiated) ELSE initiated
      payout == Min2(amount, funded.liquid)
  IN  /\ amount > 0
      /\ request[u].wait = 0
      /\ payout > 0
      /\ Dequeue(u, payout)
      /\ wallet' = [wallet EXCEPT ![u] = @ + payout]
      /\ pool' = PayAndInitiate(funded, payout, totalPendingWithdrawals)
      /\ UNCHANGED <<roleVars, donated, shareVars, rewardVars, usdcVars>>

\* Venice is not told: the DIEM stays wherever it is.
CancelWithdraw(u) ==
  /\ request[u].amount > 0
  /\ Dequeue(u, request[u].amount)
  /\ Mint(u, request[u].amount)
  /\ UNCHANGED <<roleVars, diemVars, periodVars, usdcVars>>

ClaimReward(u) ==
  /\ CheckpointGlobal
  /\ \E paid \in BOOLEAN : PayReward(u, paid)
  /\ UNCHANGED <<roleVars, diemVars, shareVars, queueVars, periodVars>>

\* The recipient is not modelled: claimed counts for the user whose reward it
\* was.  Here a transfer that fails reverts.
ClaimRewardTo(u) ==
  /\ CheckpointGlobal
  /\ PayReward(u, TRUE)
  /\ UNCHANGED <<roleVars, diemVars, shareVars, queueVars, periodVars>>

\* exit(): withdraws the whole balance, below MinWithdraw too, and claims.
Exit(u) ==
  /\ CheckpointGlobal
  /\ \E paid \in BOOLEAN : PayReward(u, paid)
  /\ BurnShares(u, balanceOf[u])
  /\ IF balanceOf[u] > 0 THEN Enqueue(u, balanceOf[u])
                         ELSE UNCHANGED <<queueVars, pool>>
  /\ UNCHANGED <<roleVars, wallet, donated, periodVars>>

\* ERC-20 transfer and transferFrom; a pause does not stop them.
Transfer(from, to, amount) ==
  /\ amount <= balanceOf[from]
  /\ CheckpointGlobal /\ CheckpointUsers({from, to})
  /\ MoveShares(from, to, amount)
  /\ UNCHANGED <<roleVars, diemVars, totalSupply, queueVars, periodVars, usdcVars>>

\* Plain DIEM sent to the contract's address.
DonateDiem(u, amount) ==
  /\ amount <= wallet[u]
  /\ wallet' = [wallet EXCEPT ![u] = @ - amount]
  /\ pool' = Receive(pool, amount)
  /\ donated' = donated + amount
  /\ UNCHANGED <<roleVars, shareVars, queueVars, rewardVars, usdcVars>>
-----------------------------------------------------------------------------
(* Venice management, open to anyone.                                      *)

ClaimFromVenice ==
  /\ Matured(pool)
  /\ pool' = Unstake(pool)
  /\ UNCHANGED <<roleVars, wallet, donated, shareVars, queueVars, rewardVars, usdcVars>>

InitiateVeniceUnstake ==
  /\ Uncovered(pool, totalPendingWithdrawals) > 0
  /\ pool' = TryInitiate(pool, totalPendingWithdrawals)
  /\ UNCHANGED <<roleVars, wallet, donated, shareVars, queueVars, rewardVars, usdcVars>>

RedeployExcess ==
  /\ pool.liquid > totalPendingWithdrawals
  /\ pool' = Stake(pool, pool.liquid - totalPendingWithdrawals)
  /\ UNCHANGED <<roleVars, wallet, donated, shareVars, queueVars, rewardVars, usdcVars>>
-----------------------------------------------------------------------------
(* Operator and admin.                                                     *)

\* (mutant) the whole period's rewards instead of what is left of them.
WholePeriod == RewardsDuration * rewardRate
\* (mutant) a new period forgets the old one.
NoLeftover == 0
Leftover == periodLeft * rewardRate

\* (mutant) all of the dust, an earlier period's share included.
WholeDust(dust, reward) == dust
Refund(dust, reward) == Min2(dust, reward)

RateOf(total) == total \div RewardsDuration

RefundOf(reward) ==
  LET total == reward + Leftover
  IN  Refund(total - RateOf(total) * RewardsDuration, reward)

\* The new period and the USDC that stays; what RefundOf says goes back.
StartPeriod(reward) ==
  LET rate == RateOf(reward + Leftover)
  IN  /\ rate > 0
      /\ rate <= (usdc + reward) \div RewardsDuration
      /\ rewardRate' = rate
      /\ periodLeft' = RewardsDuration
      /\ CheckpointGlobal
      /\ usdc' = usdc + reward - RefundOf(reward)
      /\ UNCHANGED <<roleVars, diemVars, shareVars, queueVars, userVars, claimed>>

NotifyRewardAmount(caller, reward) ==
  /\ caller = roles.operator
  /\ reward <= operatorUsdc
  /\ StartPeriod(reward)
  /\ operatorUsdc' = operatorUsdc - reward + RefundOf(reward)

SetPaused(caller, value) ==
  /\ caller = roles.admin
  /\ paused' = value
  /\ UNCHANGED <<roles, diemVars, shareVars, queueVars, rewardVars, usdcVars>>

SetOperator(caller, to) ==
  /\ caller = roles.admin
  /\ roles' = [roles EXCEPT !.operator = to]
  /\ UNCHANGED <<paused, diemVars, shareVars, queueVars, rewardVars, usdcVars>>

TransferAdmin(caller, to) ==
  /\ caller = roles.admin
  /\ roles' = [roles EXCEPT !.pendingAdmin = to]
  /\ UNCHANGED <<paused, diemVars, shareVars, queueVars, rewardVars, usdcVars>>

AcceptAdmin(caller) ==
  /\ caller = roles.pendingAdmin
  /\ roles' = [roles EXCEPT !.admin = caller, !.pendingAdmin = NoOne]
  /\ UNCHANGED <<paused, diemVars, shareVars, queueVars, rewardVars, usdcVars>>
-----------------------------------------------------------------------------
CountDown(t) == IF t > 0 THEN t - 1 ELSE 0

\* One unit of time.  Steps that change nothing are left out.
Tick ==
  /\ request' = [u \in Users |-> [amount |-> request[u].amount,
                                  wait |-> CountDown(request[u].wait)]]
  /\ pool' = Elapse(pool)
  /\ periodLeft' = CountDown(periodLeft)
  /\ sinceUpdate' = sinceUpdate + (periodLeft - CountDown(periodLeft))
  /\ <<request, pool, periodLeft>>' # <<request, pool, periodLeft>>
  /\ UNCHANGED <<roleVars, wallet, donated, shareVars, totalPendingWithdrawals,
                 rewardRate, rewardPerTokenStored, userVars, usdcVars>>

UserStep(u) ==
  \/ \E amount \in Amounts :
       \/ StakeDiem(u, amount)
       \/ RequestWithdraw(u, amount)
       \/ \E to \in Users : Transfer(u, to, amount)
  \/ \E amount \in Donations : DonateDiem(u, amount)
  \/ CompleteWithdraw(u)
  \/ CancelWithdraw(u)
  \/ ClaimReward(u)
  \/ ClaimRewardTo(u)
  \/ Exit(u)

ManagerStep(m) ==
  \/ \E reward \in RewardAmounts : NotifyRewardAmount(m, reward)
  \/ \E value \in Pauses : SetPaused(m, value)
  \/ \E to \in Candidates : SetOperator(m, to) \/ TransferAdmin(m, to)
  \/ AcceptAdmin(m)

Next ==
  \/ Tick
  \/ \E u \in Users : UserStep(u)
  \/ ClaimFromVenice
  \/ InitiateVeniceUnstake
  \/ RedeployExcess
  \/ \E m \in Managers : ManagerStep(m)

Spec == Init /\ [][Next]_vars
-----------------------------------------------------------------------------
(* Properties: DIEM.                                                       *)

\* Every variable keeps its type; in particular no balance, queue entry or
\* pool component is ever driven below zero (MinWithdraw, balance and payout
\* checks of sDIEMv2.sol).
DiemTypeOK ==
  /\ wallet \in [Users -> Nat] /\ pool \in Pools /\ donated \in Nat
  /\ balanceOf \in [Users -> Nat] /\ totalSupply \in Nat
  /\ request \in [Users -> Requests] /\ totalPendingWithdrawals \in Nat

RewardTypeOK ==
  /\ rewardRate \in Nat /\ periodLeft \in 0..RewardsDuration
  /\ sinceUpdate \in 0..RewardsDuration - periodLeft
  /\ rewardPerTokenStored \in Nat
  /\ userRewardPerTokenPaid \in [Users -> 0..rewardPerTokenStored]
  /\ rewards \in [Users -> Nat] /\ claimed \in [Users -> Nat]
  /\ usdc \in Nat /\ operatorUsdc \in Nat

TypeOK ==
  /\ roles \in [admin : Managers, pendingAdmin : Managers \cup {NoOne},
                operator : Managers]
  /\ paused \in BOOLEAN
  /\ DiemTypeOK /\ RewardTypeOK

\* Whatever Venice and the queue are doing, the DIEM the contract controls is
\* what it owes, to holders and to the queue, plus what was sent unasked:
\* no path creates, loses or pays twice (stake, completeWithdraw with partial
\* payouts, cancelWithdraw, redeployExcess).
Backing == Holdings(pool) = totalSupply + totalPendingWithdrawals + donated

\* While anything is owed to the queue, some DIEM is liquid or on its way back
\* from Venice: _tryInitiateVeniceUnstake has run wherever it must, so no
\* completeWithdraw depends on an initiation that its own revert would undo.
NeverStalled ==
  totalPendingWithdrawals > 0 => pool.liquid + pool.pending > 0

\* A running Venice cooldown is left alone by every function: nobody can
\* postpone the DIEM others are waiting for.
CooldownNotRestarted ==
  [][pool.pending > 0 /\ pool.cooldown > 0
       => /\ pool'.pending = pool.pending
          /\ pool'.cooldown <= pool.cooldown]_vars

\* Users' positions follow StakeLedger, step by step.
Ledger == INSTANCE StakeLedger WITH staked <- balanceOf, queued <- request
ImplementsLedger == Ledger!Spec

\* A user who keeps trying to complete a withdrawal, and does not restart its
\* delay with new requests for ever, is paid in full, whoever else withdraws.
WithdrawalsPaid ==
  \A u \in Users :
    []<>(request[u].amount = 0 \/ request[u].wait = WithdrawalDelay)
-----------------------------------------------------------------------------
(* Properties: rewards.                                                    *)

TotalEarned == SumFunction([u \in Users |-> Earned(u)])

\* The USDC at hand covers everything already earned, and the rest of the
\* current period at its rate, after any mix of checkpoints, transfers,
\* renotifications and refunds.
Solvency == usdc >= TotalEarned + periodLeft * rewardRate

Entitlement(u) == claimed[u] + Earned(u)

\* Only the passing of time gives or takes rewards: staking, withdrawing,
\* transferring, claiming, a failed USDC transfer and a notification leave
\* what every user has earned so far exactly as it was.
OnlyTimeEarns ==
  [][IF Tick THEN \A u \in Users : Entitlement(u)' >= Entitlement(u)
             ELSE \A u \in Users : Entitlement(u)' = Entitlement(u)]_vars

\* The dust refund of notifyRewardAmount never returns more than the call
\* brought: the operator cannot take back an earlier period's leftover.
OperatorNeverGains == [][operatorUsdc' <= operatorUsdc]_vars
=============================================================================
