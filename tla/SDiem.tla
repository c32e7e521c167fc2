-------------------------------- MODULE SDiem --------------------------------
(***************************************************************************)
(* The two generations of the staking contract side by side: either sDIEM  *)
(* (SDiemV1) or sDIEMv2 (SDiemV2) is deployed, and it stays what it is.    *)
(* What is promised of the withdrawal queue is the same for both, and so   *)
(* are the instances it is checked on.                                     *)
(***************************************************************************)
EXTENDS SDiemV1

VARIABLE generation

deployedVars == <<v1Vars, generation>>

DeployedInit == V1Init /\ generation \in {1, 2}

AsV1(A) == generation = 1 /\ A /\ UNCHANGED generation

\* What v1 counts, v2 computes: totalPendingNotInitiated() is a view there.
AsV2(A) ==
  /\ generation = 2
  /\ A
  /\ totalPendingNotInitiated' = Uncovered(pool', totalPendingWithdrawals')
  /\ UNCHANGED generation

DeployedNext == AsV1(V1Next) \/ AsV2(Next)

DeployedTick == AsV1(TickV1) \/ AsV2(Tick)
DeployedCompleteWithdraw(u) == AsV1(CompleteWithdrawV1(u)) \/ AsV2(CompleteWithdraw(u))

DeployedSpec == DeployedInit /\ [][DeployedNext]_deployedVars

\* Time passes, and a user whose completeWithdraw would succeed again and
\* again (canCompleteWithdraw) gets it into a block at some point.  Nobody
\* else, keepers included, is assumed to do anything.
DeployedFairSpec ==
  /\ DeployedSpec
  /\ WF_deployedVars(DeployedTick)
  /\ \A u \in Users : SF_deployedVars(DeployedCompleteWithdraw(u))
=============================================================================
