------------------------------- MODULE SDiemV1 -------------------------------
(***************************************************************************)
(* contracts/src/sDIEM.sol: the first staking contract, not transferable.  *)
(* Its rewards, roles and redeployment are those of sDIEMv2, line by line, *)
(* and are taken from SDiemV2.  It differs in the withdrawal queue: what   *)
(* Venice has still to be asked for is a stored counter, kept by hand      *)
(* through requests, cancellations and capped initiations, where sDIEMv2   *)
(* derives it from the balances.                                           *)
(***************************************************************************)
EXTENDS SDiemV2

VARIABLE totalPendingNotInitiated

v1Vars == <<vars, totalPendingNotInitiated>>

V1Init == Init /\ totalPendingNotInitiated = 0
-----------------------------------------------------------------------------
(* _tryInitiateVeniceUnstake(), for a counter of n.                        *)

CooldownRunning(p) == p.pending > 0 /\ p.cooldown > 0

\* What is initiated: nothing while a cooldown runs, never more than is staked.
Initiable(p, n) == IF CooldownRunning(p) THEN 0 ELSE Min2(n, p.staked)

\* What is matured is claimed first, even when nothing is staked any more.
AfterInitiate(p, n) ==
  LET claimedPool == IF n > 0 /\ Matured(p) THEN Unstake(p) ELSE p
  IN  IF Initiable(p, n) = 0 THEN claimedPool
      ELSE InitiateUnstake(claimedPool, Initiable(p, n))

\* (mutant) counts down before it looks at the cooldown.
LeftTooEarly(p, n) == n - Min2(n, p.staked)
LeftAfter(p, n) == n - Initiable(p, n)

\* (mutant) completeWithdraw as it was before it initiated anything.
InitiateNothing(p, n) == [pool |-> p, left |-> n]
\* What completeWithdraw does before its payout and once more after it.
InitiateOnComplete(p, n) == [pool |-> AfterInitiate(p, n), left |-> LeftAfter(p, n)]

\* (mutant) a second request rides on the delay of the first.
EnqueueV1KeepDelay(u, amount) ==
  LET n == totalPendingNotInitiated + amount
  IN  /\ request' = [request EXCEPT
                       ![u] = [amount |-> @.amount + amount,
                               wait |-> IF @.amount > 0 THEN @.wait ELSE WithdrawalDelay]]
      /\ totalPendingWithdrawals' = totalPendingWithdrawals + amount
      /\ pool' = AfterInitiate(pool, n)
      /\ totalPendingNotInitiated' = LeftAfter(pool, n)

EnqueueV1(u, amount) ==
  LET n == totalPendingNotInitiated + amount
  IN  /\ request' = [request EXCEPT ![u] = [amount |-> @.amount + amount,
                                            wait |-> WithdrawalDelay]]
      /\ totalPendingWithdrawals' = totalPendingWithdrawals + amount
      /\ pool' = AfterInitiate(pool, n)
      /\ totalPendingNotInitiated' = LeftAfter(pool, n)
-----------------------------------------------------------------------------
RequestWithdrawV1(u, amount) ==
  /\ amount >= MinWithdraw
  /\ BurnShares(u, amount)
  /\ CheckpointGlobal /\ CheckpointUsers({u})
  /\ EnqueueV1(u, amount)
  /\ UNCHANGED <<roleVars, wallet, donated, periodVars, usdcVars>>

\* A call with nothing to pay reverts, its initiation included.
CompleteWithdrawV1(u) ==
  LET amount == request[u].amount
      begin == InitiateOnComplete(pool, totalPendingNotInitiated)
      funded == IF begin.pool.liquid < amount /\ Matured(begin.pool)
                THEN Unstake(begin.pool) ELSE begin.pool
      payout == Min2(amount, funded.liquid)
      end == InitiateOnComplete(PayOut(funded, payout), begin.left)
  IN  /\ amount > 0
      /\ request[u].wait = 0
      /\ payout > 0
      /\ Dequeue(u, payout)
      /\ wallet' = [wallet EXCEPT ![u] = @ + payout]
      /\ pool' = end.pool
      /\ totalPendingNotInitiated' = end.left
      /\ UNCHANGED <<roleVars, donated, shareVars, rewardVars, usdcVars>>

\* The counter loses what this user may have had in it, and never exceeds what
\* is staked.
CancelWithdrawV1(u) ==
  LET amount == request[u].amount
      left == totalPendingNotInitiated - Min2(amount, totalPendingNotInitiated)
  IN  /\ amount > 0
      /\ Dequeue(u, amount)
      /\ totalPendingNotInitiated' = Min2(left, pool.staked)
      /\ Mint(u, amount)
      /\ UNCHANGED <<roleVars, diemVars, periodVars, usdcVars>>

ExitV1(u) ==
  /\ CheckpointGlobal
  /\ \E paid \in BOOLEAN : PayReward(u, paid)
  /\ BurnShares(u, balanceOf[u])
  /\ IF balanceOf[u] > 0
     THEN EnqueueV1(u, balanceOf[u])
     ELSE UNCHANGED <<queueVars, pool, totalPendingNotInitiated>>
  /\ UNCHANGED <<roleVars, wallet, donated, periodVars>>

InitiateVeniceUnstakeV1 ==
  /\ totalPendingNotInitiated > 0
  /\ pool' = AfterInitiate(pool, totalPendingNotInitiated)
  /\ totalPendingNotInitiated' = LeftAfter(pool, totalPendingNotInitiated)
  /\ UNCHANGED <<roleVars, wallet, donated, shareVars, queueVars, rewardVars, usdcVars>>

-----------------------------------------------------------------------------
(* The functions that never look at the counter, as in sDIEMv2.            *)

SameAsV2(A) == A /\ UNCHANGED totalPendingNotInitiated

StakeV1(u, amount) == SameAsV2(StakeDiem(u, amount))
ClaimRewardV1(u) == SameAsV2(ClaimReward(u))
ClaimRewardToV1(u) == SameAsV2(ClaimRewardTo(u))
DonateDiemV1(u, amount) == SameAsV2(DonateDiem(u, amount))
ClaimFromVeniceV1 == SameAsV2(ClaimFromVenice)
RedeployExcessV1 == SameAsV2(RedeployExcess)
NotifyRewardAmountV1(m, reward) == SameAsV2(NotifyRewardAmount(m, reward))
SetPausedV1(m, value) == SameAsV2(SetPaused(m, value))
SetOperatorV1(m, to) == SameAsV2(SetOperator(m, to))
TransferAdminV1(m, to) == SameAsV2(TransferAdmin(m, to))
AcceptAdminV1(m) == SameAsV2(AcceptAdmin(m))
TickV1 == SameAsV2(Tick)

V1UserStep(u) ==
  \/ \E amount \in Amounts : StakeV1(u, amount) \/ RequestWithdrawV1(u, amount)
  \/ \E amount \in Donations : DonateDiemV1(u, amount)
  \/ CompleteWithdrawV1(u)
  \/ CancelWithdrawV1(u)
  \/ ClaimRewardV1(u)
  \/ ClaimRewardToV1(u)
  \/ ExitV1(u)

V1ManagerStep(m) ==
  \/ \E reward \in RewardAmounts : NotifyRewardAmountV1(m, reward)
  \/ \E value \in Pauses : SetPausedV1(m, value)
  \/ \E to \in Candidates : SetOperatorV1(m, to) \/ TransferAdminV1(m, to)
  \/ AcceptAdminV1(m)

V1Next ==
  \/ TickV1
  \/ \E u \in Users : V1UserStep(u)
  \/ ClaimFromVeniceV1
  \/ InitiateVeniceUnstakeV1
  \/ RedeployExcessV1
  \/ \E m \in Managers : V1ManagerStep(m)

V1Spec == V1Init /\ [][V1Next]_v1Vars
-----------------------------------------------------------------------------
\* What is owed to the queue is liquid, on its way back, or still counted as to
\* be initiated: the counter may overshoot after a cancellation, but no sequence
\* of requests, capped initiations, cancellations and partial payouts makes it
\* forget DIEM that somebody waits for (_tryInitiateVeniceUnstake,
\* cancelWithdraw).
CounterCovers ==
  pool.liquid + pool.pending + totalPendingNotInitiated >= totalPendingWithdrawals
=============================================================================
