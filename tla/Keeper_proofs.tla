---------------------------- MODULE Keeper_proofs ----------------------------
(***************************************************************************)
(* UsdcConserved, StreamToppedUp and SilentRunsServe of the keeper over    *)
(* RevenueSplitter and SDiemV2, for any vaults, payments, cuts, periods    *)
(* and faults.                                                             *)
(*                                                                         *)
(* The steps of the keeper, of cron and of the admins are first sorted by  *)
(* what they do to the contracts (ContractSteps).  UsdcConserved needs no  *)
(* more than the types and the sum of what was claimed.  SilentRunsServe   *)
(* rests on what a run knows of the jobs behind it (RunOK): one that was   *)
(* possible all along and was passed over has left an error in the log.    *)
(***************************************************************************)
EXTENDS Keeper, SDiem_proofs, SequenceTheorems

Accounts == Managers \cup SplitterAdmins \cup {NoOne}

Setups == [admin : Accounts, pendingAdmin : Accounts,
           receiver : Receivers \cup {FirstReceiver}, paused : BOOLEAN,
           minAmount : MinAmounts \cup {DefaultMinAmount},
           cooldown : Cooldowns \cup {DefaultCooldown}]

SplitterOK ==
  /\ setup \in Setups /\ splitterUsdc \in Nat
  /\ totalPlatformPaid \in Nat /\ totalStakerPaid \in Nat

MoneyInv == DiemInv /\ RewardTypeOK /\ SplitterOK /\ UsdcConserved

\* What happens to the contracts, of sDIEM and of the splitter.
SDiemOnly ==
  \/ \E u \in Users, amount \in Amounts : StakeDiem(u, amount)
  \/ \E m \in Managers : ManagerStep(m)
  \/ Tick
  \/ UNCHANGED vars

Configured == setup' \in Setups /\ UNCHANGED vars

ContractStep ==
  \/ SDiemOnly /\ UNCHANGED <<setup, splitterUsdc, totalPlatformPaid, totalStakerPaid>>
  \/ Configured /\ UNCHANGED <<splitterUsdc, totalPlatformPaid, totalStakerPaid>>
  \/ \E amount \in Payments : PayRevenue(amount)
  \/ Distribute
  \/ \E vault \in Users : Harvest(vault)
-----------------------------------------------------------------------------
(* The steps.                                                              *)

\* The splitter's admin sets one field to one of the values offered.
LEMMA ConfigureStep ==
  ASSUME SplitterOK, NEW m \in Managers, SplitterAdminStep(m)
  PROVE  Configured /\ UNCHANGED <<since, splitterUsdc, totalPlatformPaid, totalStakerPaid>>
<1>1. setup \in Setups
  BY DEF SplitterOK
<1>2. ASSUME NEW to \in Receivers, SetPlatformReceiver(m, to)
      PROVE  setup' \in Setups
  BY <1>1, <1>2 DEF SetPlatformReceiver, Configure, Setups
<1>3. ASSUME NEW amount \in MinAmounts, SetMinAmount(m, amount)
      PROVE  setup' \in Setups
  BY <1>1, <1>3 DEF SetMinAmount, Configure, Setups
<1>4. ASSUME NEW time \in Cooldowns, SetCooldown(m, time)
      PROVE  setup' \in Setups
  BY <1>1, <1>4 DEF SetCooldown, Configure, Setups
<1>5. ASSUME NEW value \in Pauses, PauseSplitter(m, value)
      PROVE  setup' \in Setups
  BY <1>1, <1>5, RolesAssumption DEF PauseSplitter, Configure, Setups
<1>6. ASSUME NEW to \in SplitterAdmins, TransferSplitter(m, to)
      PROVE  setup' \in Setups
  BY <1>1, <1>6 DEF TransferSplitter, Configure, Setups, Accounts
<1>7. ASSUME AcceptSplitter(m) PROVE setup' \in Setups
  BY <1>1, <1>7 DEF AcceptSplitter, Configure, Setups, Accounts
<1>8. setup' \in Setups
  BY <1>2, <1>3, <1>4, <1>5, <1>6, <1>7 DEF SplitterAdminStep
<1> QED
  BY <1>8 DEF SplitterAdminStep, SetPlatformReceiver, SetMinAmount, SetCooldown,
              PauseSplitter, TransferSplitter, AcceptSplitter, Configure, Configured

\* Every step is one of the kinds of ContractStep.
LEMMA ContractSteps ==
  ASSUME SplitterOK, [KeeperNext]_systemVars
  PROVE  ContractStep
<1>1. CASE UNCHANGED <<vars, splitterVars>>
  BY <1>1 DEF ContractStep, SDiemOnly, splitterVars
<1>2. CASE \/ RunStep \/ MissRun \/ SkipAll \/ MainThrows \/ JobErrs \/ Kill
           \/ UNCHANGED systemVars
  BY <1>1, <1>2 DEF RunStep, StartRun, GasAffordable, ReadState, Send, MissRun, SkipAll,
       MainThrows, PreflightEnds, JobErrs, Kill, KeeperOnly, allVars, systemVars
<1>3. CASE Mined
  <2>1. CASE KeeperOnly
    BY <1>1, <2>1 DEF KeeperOnly, allVars
  <2>2. ASSUME NEW job, Perform(job), Possible(job) PROVE ContractStep
    <3>1. CASE job = 3
      BY <2>2, <3>1 DEF Perform, ContractStep
    <3>2. CASE job # 3
      <4>1. VaultOf(job) \in Users /\ Harvest(VaultOf(job))
        BY <2>2, <3>2, KeeperAssumption DEF Perform, Possible, Harvestable, VaultOf
      <4> QED  BY <4>1 DEF ContractStep
    <3> QED  BY <3>1, <3>2
  <2> QED  BY <1>3, <2>1, <2>2 DEF Mined
<1>4. CASE ElapseKeeper
  <2>1. CASE UNCHANGED allVars
    BY <1>1, <2>1 DEF allVars
  <2>2. CASE PassTime
    BY <2>2 DEF PassTime, ContractStep, SDiemOnly
  <2> QED  BY <1>4, <2>1, <2>2 DEF ElapseKeeper
<1>5. CASE AdminStep
  <2>1. ASSUME NEW value \in VaultPauses, PauseVault(value) PROVE ContractStep
    BY <1>1, <2>1 DEF PauseVault, allVars
  <2>2. ASSUME NEW m \in Managers \ {Splitter}, SplitterAdminStep(m) PROVE ContractStep
    BY <2>2, ConfigureStep DEF ContractStep
  <2>3. ASSUME NEW m \in Managers \ {Splitter}, ManagerStep(m), UNCHANGED splitterVars
        PROVE  ContractStep
    BY <2>3 DEF ContractStep, SDiemOnly, splitterVars
  <2> QED  BY <1>5, <2>1, <2>2, <2>3 DEF AdminStep
<1>6. CASE Distribute \/ Deposit \/ \E amount \in Payments : PayRevenue(amount)
  BY <1>6 DEF Deposit, ContractStep, SDiemOnly, splitterVars
<1> QED  BY <1>2, <1>3, <1>4, <1>5, <1>6 DEF KeeperNext, WorldStep
-----------------------------------------------------------------------------
(* The money.                                                              *)

\* The platform's part of a balance.
LEMMA CutBounds ==
  ASSUME NEW bal \in Nat
  PROVE  PlatformCut(bal) \in Nat /\ PlatformCut(bal) <= bal
<1>1. PlatformBps \in Nat /\ BpsDenominator \in Nat \ {0} /\ PlatformBps < BpsDenominator
  BY SplitterAssumption
<1>2. bal * PlatformBps \in Nat /\ bal * PlatformBps <= bal * BpsDenominator
  <2>1. \A a, b, c \in Nat : b <= c => a * b \in Nat /\ a * b <= a * c
    OBVIOUS
  <2> QED  BY <1>1, <2>1
<1>3. PlatformCut(bal) \in Nat /\ PlatformCut(bal) * BpsDenominator <= bal * PlatformBps
  BY <1>1, <1>2, DivisionRoundsDown DEF PlatformCut
<1>4. \A q, b \in Nat, n \in Nat \ {0} : q * n <= b * n => q <= b
  OBVIOUS
<1>5. PlatformCut(bal) * BpsDenominator <= bal * BpsDenominator
  <2>1. PlatformCut(bal) * BpsDenominator \in Nat /\ bal * BpsDenominator \in Nat
    BY <1>1, <1>3, ProductNat
  <2> QED  BY <1>2, <1>3, <2>1
<1> QED  BY <1>1, <1>3, <1>4, <1>5

\* What has been claimed in all is a number.
LEMMA SumIsInt ==
  ASSUME NEW f \in [Users -> Nat]
  PROVE  SumFunction(f) \in Int
<1>1. \A u \in Users : f[u] \in Nat
  OBVIOUS
<1>2. SumFunctionOnSet(f, Users) \in Nat
  BY <1>1, UsersAssumption, SumIsNatural
<1> QED  BY <1>2, SumOfFunction

\* USDC that leaves the contract for a user is counted with the user.
LEMMA ClaimConserves ==
  ASSUME DiemInv, RewardTypeOK, NEW u \in Users, NEW paid \in BOOLEAN,
         PayReward(u, paid), RewardTypeOK'
  PROVE  usdc' + SumFunction(claimed)' = usdc + SumFunction(claimed) /\ operatorUsdc' = operatorUsdc
<1> DEFINE out == IF paid THEN Earned(u) ELSE 0
<1>1. out \in Nat
  BY EarnedNat DEF DiemInv
<1>2. /\ usdc' = usdc - out /\ claimed' = [claimed EXCEPT ![u] = @ + out]
      /\ operatorUsdc' = operatorUsdc
  BY DEF PayReward
<1> HIDE DEF out
<1>3. /\ claimed \in [Users -> Nat] /\ claimed' \in [Users -> Nat]
      /\ usdc \in Nat /\ IsFiniteSet(Users)
  BY UsersAssumption DEF RewardTypeOK
<1>4. claimed'[u] = claimed[u] + out /\ \A v \in Users \ {u} : claimed'[v] = claimed[v]
  BY <1>2, <1>3
<1>5. SumFunctionOnSet(claimed', Users)
        = SumFunctionOnSet(claimed, Users) + (claimed'[u] - claimed[u])
  BY <1>3, <1>4, SumOneChanged
<1>6. /\ SumFunction(claimed) = SumFunctionOnSet(claimed, Users)
      /\ SumFunction(claimed)' = SumFunctionOnSet(claimed', Users)
  BY <1>3, SumOfFunction
<1>7. SumFunctionOnSet(claimed, Users) \in Nat
  BY <1>3, SumIsNatural
<1> QED  BY <1>1, <1>2, <1>3, <1>4, <1>5, <1>6, <1>7

\* What is streamed, what is paid out and what comes back make up the reward.
LEMMA PeriodConserves ==
  ASSUME RewardTypeOK, NEW reward \in Nat, StartPeriod(reward)
  PROVE  /\ RefundOf(reward) \in Nat /\ RefundOf(reward) <= reward
         /\ usdc' = usdc + reward - RefundOf(reward) /\ claimed' = claimed
BY RefundBounds DEF StartPeriod

\* distribute() divides the splitter's balance.
LEMMA DistributeStep ==
  ASSUME MoneyInv, Distribute
  PROVE  MoneyInv'
<1> DEFINE cut == PlatformCut(splitterUsdc)
           rest == splitterUsdc - cut
<1>1. cut \in Nat /\ cut <= splitterUsdc /\ splitterUsdc \in Nat /\ rest \in Nat
  BY CutBounds DEF MoneyInv, SplitterOK
<1>2. /\ StartPeriod(rest)
      /\ totalPlatformPaid' = totalPlatformPaid + cut
      /\ totalStakerPaid' = totalStakerPaid + rest
      /\ splitterUsdc' = splitterUsdc - cut - rest + RefundOf(rest)
      /\ setup' = setup /\ operatorUsdc' = operatorUsdc
  BY DEF Distribute, LeftWithSplitter
<1> HIDE DEF rest, cut
<1>3. DiemInv' /\ RewardTypeOK'
  <2>1. DiemInv'
    BY <1>2, DiemUnchanged DEF StartPeriod, MoneyInv
  <2> QED  BY <1>1, <1>2, <2>1, PeriodTypes DEF MoneyInv, DiemInv, RewardTypeOK
<1>4. /\ RefundOf(rest) \in Nat /\ RefundOf(rest) <= rest
      /\ usdc' = usdc + rest - RefundOf(rest) /\ claimed' = claimed
  BY <1>1, <1>2, PeriodConserves DEF MoneyInv
<1>5. splitterUsdc' = RefundOf(rest)
  BY <1>1, <1>2, <1>4 DEF rest
<1>6. SplitterOK'
  BY <1>1, <1>2, <1>4, <1>5 DEF MoneyInv, SplitterOK
<1>7. SumFunction(claimed) \in Int
  BY SumIsInt DEF MoneyInv, RewardTypeOK
<1>8. UsdcConserved'
  <2>1. SumFunction(claimed)' = SumFunction(claimed)
    BY <1>4
  <2>2. /\ usdc \in Nat /\ operatorUsdc \in Nat /\ totalPlatformPaid \in Nat
        /\ UsdcConserved
    BY DEF MoneyInv, RewardTypeOK, SplitterOK
  <2> QED  BY <1>1, <1>2, <1>4, <1>5, <1>7, <2>1, <2>2 DEF UsdcConserved, rest
<1> QED  BY <1>3, <1>6, <1>8 DEF MoneyInv

\* harvest() claims for the vault and stakes what the swap returned.
LEMMA HarvestStep ==
  ASSUME MoneyInv, NEW vault \in Users, Harvest(vault)
  PROVE  MoneyInv'
<1>1. /\ CheckpointGlobal /\ PayReward(vault, TRUE)
      /\ balanceOf' = [balanceOf EXCEPT ![vault] = @ + DiemPerHarvest]
      /\ totalSupply' = totalSupply + DiemPerHarvest
      /\ pool' = Stake(Receive(pool, DiemPerHarvest), DiemPerHarvest)
      /\ UNCHANGED <<wallet, donated, queueVars, periodVars, splitterVars>>
  BY DEF Harvest
<1>2. DiemPerHarvest \in Nat /\ wallet' \in [Users -> Nat]
  BY <1>1, KeeperAssumption DEF MoneyInv, DiemInv, DiemTypeOK
<1>3. DiemInv'
  BY <1>1, <1>2, DiemStaked DEF MoneyInv
<1>4. RewardTypeOK'
  BY <1>1, ClaimTypes DEF MoneyInv, DiemInv
<1>5. usdc' + SumFunction(claimed)' = usdc + SumFunction(claimed) /\ operatorUsdc' = operatorUsdc
  BY <1>1, <1>4, ClaimConserves DEF MoneyInv
<1>6. SplitterOK'
  BY <1>1 DEF MoneyInv, SplitterOK, splitterVars
<1>7. UsdcConserved'
  <2>1. /\ SumFunction(claimed) \in Int /\ SumFunction(claimed)' \in Int
        /\ usdc \in Nat /\ usdc' \in Nat /\ operatorUsdc \in Nat
    BY <1>4, SumIsInt DEF MoneyInv, RewardTypeOK
  <2> QED  BY <1>1, <1>5, <2>1 DEF MoneyInv, SplitterOK, UsdcConserved, splitterVars
<1> QED  BY <1>3, <1>4, <1>6, <1>7 DEF MoneyInv

\* A customer pays the splitter.
LEMMA PayRevenueStep ==
  ASSUME MoneyInv, NEW amount \in Payments, PayRevenue(amount)
  PROVE  MoneyInv'
<1>1. amount \in Nat
  BY SplitterAssumption
<1>2. /\ amount <= operatorUsdc /\ operatorUsdc' = operatorUsdc - amount
      /\ splitterUsdc' = splitterUsdc + amount
      /\ UNCHANGED <<diemVars, shareVars, queueVars, rewardVars, usdc, claimed, setup,
                     totalPlatformPaid, totalStakerPaid>>
  BY DEF PayRevenue
<1>3. DiemInv'
  BY <1>2, DiemUnchanged DEF MoneyInv
<1>4. RewardTypeOK' /\ SplitterOK'
  BY <1>1, <1>2 DEF MoneyInv, RewardTypeOK, SplitterOK, rewardVars, globalVars, userVars,
                    periodVars
<1>5. UsdcConserved'
  <2>1. SumFunction(claimed)' = SumFunction(claimed) /\ SumFunction(claimed) \in Int
    BY <1>2, SumIsInt DEF MoneyInv, RewardTypeOK
  <2> QED  BY <1>1, <1>2, <2>1 DEF MoneyInv, RewardTypeOK, SplitterOK, UsdcConserved
<1> QED  BY <1>3, <1>4, <1>5 DEF MoneyInv

\* Staking, time and what sDIEM's roles do; a notification by an operator other
\* than the splitter gets its dust back too.
LEMMA SDiemOnlyStep ==
  ASSUME MoneyInv, SDiemOnly,
         UNCHANGED <<setup, splitterUsdc, totalPlatformPaid, totalStakerPaid>>
  PROVE  MoneyInv'
<1>1. [Next]_vars
  BY DEF SDiemOnly, Next, UserStep
<1>2. DiemInv' /\ RewardTypeOK' /\ SplitterOK'
  BY <1>1, DiemNext, RewardTypes DEF MoneyInv, DiemInv, SplitterOK
<1>3. usdc' + operatorUsdc' = usdc + operatorUsdc /\ claimed' = claimed
  <2>1. ASSUME NEW m \in Managers, NEW reward \in RewardAmounts, NotifyRewardAmount(m, reward)
        PROVE  usdc' + operatorUsdc' = usdc + operatorUsdc /\ claimed' = claimed
    <3>1. reward \in Nat
      BY AmountsAssumption
    <3>2. /\ RefundOf(reward) \in Nat /\ claimed' = claimed
          /\ usdc' = usdc + reward - RefundOf(reward)
          /\ operatorUsdc' = operatorUsdc - reward + RefundOf(reward)
      BY <2>1, <3>1, PeriodConserves DEF NotifyRewardAmount, MoneyInv
    <3> QED  BY <3>1, <3>2 DEF MoneyInv, RewardTypeOK
  <2>2. ASSUME \/ \E u \in Users, amount \in Amounts : StakeDiem(u, amount)
               \/ \E m \in Managers : \/ \E value \in Pauses : SetPaused(m, value)
                                      \/ \E to \in Candidates :
                                           SetOperator(m, to) \/ TransferAdmin(m, to)
                                      \/ AcceptAdmin(m)
               \/ Tick \/ UNCHANGED vars
        PROVE  usdc' + operatorUsdc' = usdc + operatorUsdc /\ claimed' = claimed
    BY <2>2 DEF StakeDiem, SetPaused, SetOperator, TransferAdmin, AcceptAdmin, Tick,
                vars, usdcVars
  <2> QED  BY <2>1, <2>2 DEF SDiemOnly, ManagerStep
<1>4. UsdcConserved'
  <2>1. SumFunction(claimed)' = SumFunction(claimed) /\ SumFunction(claimed) \in Int
    BY <1>3, SumIsInt DEF MoneyInv, RewardTypeOK
  <2>2. /\ usdc \in Nat /\ operatorUsdc \in Nat /\ usdc' \in Nat /\ operatorUsdc' \in Nat
        /\ splitterUsdc \in Nat /\ totalPlatformPaid \in Nat
        /\ splitterUsdc' = splitterUsdc /\ totalPlatformPaid' = totalPlatformPaid
    BY <1>2 DEF MoneyInv, RewardTypeOK, SplitterOK
  <2>3. operatorUsdc + splitterUsdc + totalPlatformPaid + usdc + SumFunction(claimed)
          = InitialUsdc
    BY DEF MoneyInv, UsdcConserved
  <2>4. operatorUsdc + splitterUsdc + totalPlatformPaid + usdc
          = (usdc + operatorUsdc) + (splitterUsdc + totalPlatformPaid)
    BY <2>2
  <2>5. operatorUsdc' + splitterUsdc + totalPlatformPaid + usdc'
          = (usdc' + operatorUsdc') + (splitterUsdc + totalPlatformPaid)
    BY <2>2
  <2> QED  BY <1>3, <2>1, <2>2, <2>3, <2>4, <2>5 DEF UsdcConserved
<1> QED  BY <1>2, <1>4 DEF MoneyInv

LEMMA MoneyStep ==
  ASSUME MoneyInv, [KeeperNext]_systemVars
  PROVE  MoneyInv'
<1>1. CASE Configured /\ UNCHANGED <<splitterUsdc, totalPlatformPaid, totalStakerPaid>>
  <2>1. DiemInv' /\ RewardTypeOK' /\ UsdcConserved'
    <3>1. UNCHANGED vars
      BY <1>1 DEF Configured
    <3>2. [Next]_vars /\ claimed' = claimed /\ usdc' = usdc /\ operatorUsdc' = operatorUsdc
      BY <3>1 DEF vars, usdcVars
    <3> QED  BY <1>1, <3>2, DiemNext, RewardTypes DEF MoneyInv, DiemInv, UsdcConserved
  <2> QED  BY <1>1, <2>1 DEF Configured, MoneyInv, SplitterOK
<1> QED
  BY <1>1, ContractSteps, SDiemOnlyStep, PayRevenueStep, DistributeStep, HarvestStep
  DEF ContractStep, MoneyInv

LEMMA MoneyInit == KeeperInit => MoneyInv
<1> SUFFICES ASSUME KeeperInit PROVE MoneyInv
  OBVIOUS
<1>1. Init /\ SplitterInit
  BY DEF KeeperInit, SplitterInit
<1>2. DiemInv /\ RewardTypeOK
  BY <1>1, DiemInit, ParametersAssumption, AmountsAssumption DEF Init, RewardTypeOK
<1>3. SplitterOK
  BY <1>1, RolesAssumption DEF SplitterInit, SplitterOK, Setups, Accounts
<1>4. UsdcConserved
  <2>1. claimed = [u \in Users |-> 0] /\ IsFiniteSet(Users)
    BY <1>1, UsersAssumption DEF Init
  <2>2. SumFunction(claimed) = SumFunctionOnSet(claimed, Users)
    BY <2>1, SumOfFunction
  <2>3. SumFunctionOnSet(claimed, Users) = 0
    BY <2>1, SumOfZeros
  <2> QED  BY <1>1, <2>2, <2>3, AmountsAssumption DEF Init, SplitterInit, UsdcConserved
<1> QED  BY <1>2, <1>3, <1>4 DEF MoneyInv

LEMMA MoneyInvariant == KeeperSpec => []MoneyInv
BY MoneyInit, MoneyStep, PTL DEF KeeperSpec

\* Conservation through both contracts: whatever distribute(), its refunds, the
\* harvests, the claims and other operators' notifications do, every USDC that
\* came in is with the customers, the splitter, the platform, sDIEM or a staker.
THEOREM Conserved == KeeperSpec => []UsdcConserved
BY MoneyInvariant, PTL DEF MoneyInv

\* A distribution leaves stakers with what they had to come and all of the cut,
\* but for less than one unit per time unit, whenever it comes.
THEOREM ToppedUp == KeeperSpec => StreamToppedUp
<1> DEFINE Kept == totalStakerPaid' > totalStakerPaid
                     => rewardRate' * periodLeft' + RewardsDuration
                          > rewardRate * periodLeft + (totalStakerPaid' - totalStakerPaid)
<1>1. ASSUME MoneyInv, [KeeperNext]_systemVars PROVE Kept
  <2>1. totalStakerPaid \in Nat /\ ContractStep
    BY <1>1, ContractSteps DEF MoneyInv, SplitterOK
  <2>2. CASE Distribute
    <3> DEFINE cut == PlatformCut(splitterUsdc)
               rest == splitterUsdc - cut
               total == rest + Leftover
    <3>1. rest \in Nat
      BY <1>1, CutBounds DEF MoneyInv, SplitterOK
    <3>2. Leftover \in Nat /\ Leftover = rewardRate * periodLeft
      <4>1. periodLeft \in Nat /\ rewardRate \in Nat
        BY <1>1, ParametersAssumption DEF MoneyInv, RewardTypeOK
      <4> QED  BY <4>1, ProductNat DEF Leftover
    <3>3. /\ totalStakerPaid' = totalStakerPaid + rest
          /\ rewardRate' = RateOf(total) /\ periodLeft' = RewardsDuration
      BY <2>2 DEF Distribute, StartPeriod
    <3>4. rewardRate' * RewardsDuration \in Nat /\ rewardRate' * RewardsDuration + RewardsDuration > total
      <4>1. total \in Nat
        BY <3>1, <3>2
      <4> HIDE DEF total
      <4> QED  BY <3>3, <4>1, RemainderBelow, ParametersAssumption DEF RateOf
    <3> HIDE DEF rest
    <3>5. RewardsDuration \in Nat /\ total \in Nat /\ total = rest + Leftover
      BY <3>1, <3>2, ParametersAssumption
    <3>6. totalStakerPaid' - totalStakerPaid = rest
      BY <2>1, <3>1, <3>3
    <3> QED  BY <3>1, <3>2, <3>3, <3>4, <3>5, <3>6
  <2>3. CASE totalStakerPaid' = totalStakerPaid
    BY <2>1, <2>3
  <2> QED  BY <2>1, <2>2, <2>3 DEF ContractStep, PayRevenue, Harvest, splitterVars
<1>2. KeeperSpec => [][Kept]_allVars
  BY <1>1, MoneyInvariant, PTL DEF KeeperSpec, systemVars
<1> QED  BY <1>2 DEF StreamToppedUp
-----------------------------------------------------------------------------
(***************************************************************************)
(* The health check.  A run that sends nothing in earnest (DRY_RUN) leaves *)
(* undone what it found, and with no cooldown and a minimum below the dust *)
(* of a period a distribution leaves another one to be made; the theorem   *)
(* speaks of neither.                                                      *)
(***************************************************************************)
Earnest ==
  /\ ~DryRun
  /\ \/ 0 \notin Cooldowns \cup {DefaultCooldown}
     \/ \A amount \in MinAmounts \cup {DefaultMinAmount} : amount >= RewardsDuration

Transactions == [job : 1..3, expired : BOOLEAN]

\* A job that is behind a run and was possible all along has failed, and the
\* log says so; a run waits for the transaction it sent last.
RunOK ==
  /\ keeper \in [job : 0..3, doing : {"gas", "read", "send", "wait"}]
  /\ mempool \in Seq(Transactions)
  /\ log \in [begun : BOOLEAN, error : BOOLEAN, done : BOOLEAN, age : Nat]
  /\ due \subseteq 1..3
  /\ keeper.doing # "gas" => keeper.job # Off
  /\ keeper.doing = "wait" =>
       /\ mempool # <<>> /\ mempool[Len(mempool)].job = keeper.job
  /\ keeper.job # Off =>
       /\ log.begun /\ ~log.done
       /\ \A job \in due : job < keeper.job => log.error

\* A run that ends with work undone that was possible all along raises an alert.
Noticed == keeper.job # Off /\ keeper'.job = Off /\ due' # {} => Alert'

\* What the keeper looks at is implied by what decides.
LEMMA PossibleIsWorth ==
  ASSUME NEW job \in 1..3, Possible(job)
  PROVE  WorthSending(job) /\ (job # 3 => VaultOf(job) # Unset)
BY DEF Possible, WorthSending, Distributable, WorthDistributing, Harvestable,
       WorthHarvesting

\* It depends on the contracts only.
LEMMA SamePossible ==
  ASSUME KeeperOnly, NEW job
  PROVE  Possible(job)' <=> Possible(job)
<1>1. UNCHANGED <<vars, splitterVars, marketVars>>
  BY DEF KeeperOnly, allVars
<1>2. Distributable' <=> Distributable
  BY <1>1 DEF Distributable, RateOf, PlatformCut, Leftover, vars, splitterVars, roleVars,
              rewardVars, periodVars
<1>3. ASSUME NEW vault PROVE Harvestable(vault)' <=> Harvestable(vault)
  BY <1>1 DEF Harvestable, Earned, RewardPerToken, vars, marketVars, roleVars, shareVars,
              rewardVars, globalVars, userVars, periodVars
<1> QED  BY <1>2, <1>3 DEF Possible, VaultOf

\* After a distribution there is none to be made at once.
LEMMA Distributed ==
  ASSUME Earnest, MoneyInv, MoneyInv', Distribute
  PROVE  ~ Distributable'
<1> DEFINE rest == splitterUsdc - PlatformCut(splitterUsdc)
           total == rest + Leftover
<1>1. rest \in Nat /\ splitterUsdc \in Nat /\ PlatformCut(splitterUsdc) \in Nat
  BY CutBounds DEF MoneyInv, SplitterOK
<1>2. /\ since' = 0 /\ setup' = setup
      /\ splitterUsdc' = splitterUsdc - PlatformCut(splitterUsdc) - rest + RefundOf(rest)
  BY DEF Distribute, LeftWithSplitter
<1>3. total \in Nat /\ RewardsDuration \in Nat \ {0}
  <2>1. periodLeft \in Nat /\ rewardRate \in Nat
    BY ParametersAssumption DEF MoneyInv, RewardTypeOK
  <2> QED  BY <1>1, <2>1, ProductNat, ParametersAssumption DEF Leftover
<1>4. RefundOf(rest) < RewardsDuration /\ RefundOf(rest) \in Nat
  <2> DEFINE kept == RateOf(total) * RewardsDuration
  <2> HIDE DEF total, rest
  <2>1. kept \in Nat /\ kept + RewardsDuration > total
    BY <1>3, RemainderBelow DEF RateOf
  <2>2. RefundOf(rest) = Min2(total - kept, rest)
    BY DEF RefundOf, Refund, total, rest
  <2>3. RefundOf(rest) \in Nat
    BY <1>1, RefundBounds DEF MoneyInv
  <2> HIDE DEF kept
  <2> QED  BY <1>1, <1>3, <2>1, <2>2, <2>3 DEF Min2
<1>5. splitterUsdc' = RefundOf(rest)
  <2>1. rest = splitterUsdc - PlatformCut(splitterUsdc)
    OBVIOUS
  <2> HIDE DEF rest
  <2> QED  BY <1>1, <1>2, <1>4, <2>1
<1>6. /\ setup.cooldown \in Cooldowns \cup {DefaultCooldown}
      /\ setup.minAmount \in MinAmounts \cup {DefaultMinAmount}
  BY DEF MoneyInv, SplitterOK, Setups
<1>7. setup.cooldown \in Nat /\ setup.minAmount \in Nat
  <2>1. /\ Cooldowns \cup {DefaultCooldown} \subseteq Nat
        /\ MinAmounts \cup {DefaultMinAmount} \subseteq Nat
    BY SplitterAssumption
  <2> QED  BY <1>6, <2>1
<1>8. CASE 0 \notin Cooldowns \cup {DefaultCooldown}
  BY <1>2, <1>6, <1>7, <1>8 DEF Distributable
<1>9. CASE \A amount \in MinAmounts \cup {DefaultMinAmount} : amount >= RewardsDuration
  <2>1. setup.minAmount >= RewardsDuration
    BY <1>6, <1>9
  <2>2. ~(splitterUsdc' >= setup'.minAmount)
    BY <1>2, <1>3, <1>4, <1>5, <1>7, <2>1
  <2> QED  BY <2>2 DEF Distributable
<1> QED  BY <1>8, <1>9 DEF Earnest

\* After a harvest the vault has nothing left to claim.
LEMMA Harvested ==
  ASSUME MoneyInv, MoneyInv', NEW vault \in Users, Harvest(vault)
  PROVE  ~ Harvestable(vault)'
<1>1. CheckpointGlobal /\ PayReward(vault, TRUE)
  BY DEF Harvest
<1>2. RewardPerToken' = RewardPerToken
  BY <1>1, SameRewardPerToken DEF MoneyInv, DiemInv
<1>3. /\ userRewardPerTokenPaid'[vault] = RewardPerToken
      /\ rewards'[vault] = Earned(vault) - Earned(vault)
  BY <1>1 DEF PayReward, MoneyInv, RewardTypeOK
<1>4. Earned(vault) \in Nat /\ RewardPerToken \in Nat
  BY EarnedNat, RewardPerTokenGrows DEF MoneyInv, DiemInv
<1>5. balanceOf'[vault] \in Nat /\ Precision \in Nat \ {0}
  BY ParametersAssumption DEF MoneyInv, DiemInv, DiemTypeOK
<1>6. Earned(vault)' = 0
  <2>1. \A b, r \in Nat, p \in Nat \ {0} : (b * (r - r)) \div p = 0
    OBVIOUS
  <2>2. Earned(vault)'
          = (balanceOf'[vault] * (RewardPerToken' - userRewardPerTokenPaid'[vault])) \div Precision
              + rewards'[vault]
    BY DEF Earned
  <2>3. (balanceOf'[vault] * (RewardPerToken - RewardPerToken)) \div Precision = 0
    BY <1>4, <1>5, <2>1
  <2> QED  BY <1>2, <1>3, <1>4, <2>2, <2>3
<1>7. ~(0 >= MinHarvest)
  BY KeeperAssumption
<1> QED  BY <1>6, <1>7 DEF Harvestable
-----------------------------------------------------------------------------
(* What a step of the run leaves of RunOK.                                 *)

LEMMA DueShrinks ==
  ASSUME RunOK, Track
  PROVE  /\ due' \subseteq 1..3
         /\ \A job \in due' : Possible(job)'
         /\ keeper.job # Off => due' \subseteq due
         /\ keeper.job = Off /\ keeper'.job = Off => due' = {}
<1>1. DOMAIN Jobs = 1..3
  BY DEF Jobs
<1> QED  BY <1>1 DEF RunOK, Track

\* A job ends whose failure is in the log, or that could not be done.
LEMMA JobEndsStep ==
  ASSUME RunOK, Track, keeper.job # Off, mempool' \in Seq(Transactions),
         NEW status, NEW logged \in BOOLEAN, JobEnds(status, logged),
         ~logged => keeper.job \notin due'
  PROVE  RunOK' /\ Noticed
<1> DEFINE last == keeper.job = 3
<1>1. keeper.job \in 1..3
  BY DEF RunOK, Off
<1>2. Len(Jobs) = 3
  BY DEF Jobs
<1>3. /\ keeper' = IF last THEN [job |-> Off, doing |-> "gas"]
                   ELSE [job |-> keeper.job + 1, doing |-> "read"]
      /\ log' = [log EXCEPT !.error = @ \/ logged, !.done = last]
  BY <1>2 DEF JobEnds
<1>4. /\ log' \in [begun : BOOLEAN, error : BOOLEAN, done : BOOLEAN, age : Nat]
      /\ log'.begun /\ (log'.error <=> log.error \/ logged) /\ (log'.done <=> last)
  BY <1>3 DEF RunOK
<1>5. keeper' \in [job : 0..3, doing : {"gas", "read", "send", "wait"}]
  BY <1>1, <1>3 DEF Off
<1>6. \A job \in due' : job <= keeper.job => log'.error
  <2> TAKE job \in due'
  <2>1. job \in due /\ job \in 1..3
    BY DueShrinks
  <2>2. CASE job = keeper.job
    BY <1>4, <2>2
  <2>3. CASE job < keeper.job
    BY <1>4, <2>1, <2>3 DEF RunOK
  <2> QED  BY <1>1, <2>1, <2>2, <2>3
<1>7. RunOK'
  <2>1. CASE last
    BY <1>3, <1>4, <1>5, <2>1, DueShrinks DEF RunOK, Off
  <2>2. CASE ~last
    <3>1. keeper'.job = keeper.job + 1 /\ keeper'.doing = "read"
      BY <1>3, <2>2
    <3>2. \A job \in due' : job < keeper'.job => job <= keeper.job
      BY <1>1, <3>1, DueShrinks
    <3> QED  BY <1>1, <1>4, <1>5, <1>6, <2>2, <3>1, <3>2, DueShrinks DEF RunOK, Off
  <2> QED  BY <2>1, <2>2
<1>8. Noticed
  <2>1. ASSUME keeper'.job = Off PROVE last
    BY <1>1, <1>3, <2>1 DEF Off
  <2>2. ASSUME last PROVE \A job \in due' : log'.error
    BY <1>6, <2>2, DueShrinks
  <2> QED  BY <2>1, <2>2 DEF Noticed, Alert
<1> QED  BY <1>7, <1>8

\* The run goes on with what it was at.
LEMMA RunGoesOn ==
  ASSUME RunOK, Track, keeper'.job = keeper.job, log' = log,
         keeper' \in [job : 0..3, doing : {"gas", "read", "send", "wait"}],
         mempool' \in Seq(Transactions),
         keeper'.doing # "gas" => keeper.job # Off,
         keeper'.doing = "wait" =>
           mempool' # <<>> /\ mempool'[Len(mempool')].job = keeper.job
  PROVE  RunOK' /\ Noticed
<1>1. keeper.job # Off => \A job \in due' : job < keeper.job => log.error
  BY DueShrinks DEF RunOK
<1> QED  BY <1>1, DueShrinks DEF RunOK, Noticed

\* The run stops before its summary line.
LEMMA RunStops ==
  ASSUME RunOK, Track, keeper.job # Off, keeper' = [job |-> Off, doing |-> "gas"],
         mempool' = mempool, log' = log \/ log' = [log EXCEPT !.error = TRUE]
  PROVE  RunOK' /\ Noticed
<1>1. /\ log' \in [begun : BOOLEAN, error : BOOLEAN, done : BOOLEAN, age : Nat]
      /\ ~log'.done
  BY DEF RunOK
<1> QED  BY <1>1, DueShrinks DEF RunOK, Noticed, Alert, Off

\* Nothing of the run moves.
LEMMA RunUnmoved ==
  ASSUME RunOK, Track, keeper' = keeper, log' = log, mempool' = mempool
  PROVE  RunOK' /\ Noticed
BY RunGoesOn DEF RunOK
-----------------------------------------------------------------------------
(* One lemma per action.                                                   *)

LEMMA ReadStateStep ==
  ASSUME Earnest, RunOK, Track, ReadState
  PROVE  RunOK' /\ Noticed
<1>1. keeper.job # Off /\ keeper.job \in 1..3 /\ mempool' \in Seq(Transactions)
  BY DEF ReadState, RunOK, Off
<1>3. CASE JobSkips /\ ~Possible(keeper.job)
  <2>1. ASSUME NEW job \in due', job = keeper.job PROVE FALSE
    <3>1. Possible(job)' <=> Possible(job)
      BY SamePossible DEF ReadState
    <3> QED  BY <1>3, <2>1, <3>1, DueShrinks
  <2> QED  BY <1>1, <1>3, <2>1, JobEndsStep DEF JobSkips
<1>4. CASE keeper' = [keeper EXCEPT !.doing = "send"] /\ UNCHANGED <<statuses, log, ping>>
  <2>1. /\ keeper' \in [job : 0..3, doing : {"gas", "read", "send", "wait"}]
        /\ keeper'.job = keeper.job /\ keeper'.doing = "send"
    BY <1>4 DEF RunOK
  <2> QED  BY <1>1, <1>4, <2>1, RunGoesOn DEF ReadState
<1>5. (JobSkips /\ ~Possible(keeper.job))
        \/ (keeper' = [keeper EXCEPT !.doing = "send"] /\ UNCHANGED <<statuses, log, ping>>)
  BY <1>1, PossibleIsWorth DEF ReadState, Earnest
<1> QED  BY <1>3, <1>4, <1>5

LEMMA SendStep ==
  ASSUME RunOK, Track, Send
  PROVE  RunOK' /\ Noticed
<1>1. keeper.job # Off /\ keeper.job \in 1..3
  BY DEF Send, RunOK, Off
<1>2. CASE Possible(keeper.job)
  <2> DEFINE tx == [job |-> keeper.job, expired |-> FALSE]
  <2>1. tx \in Transactions
    BY <1>1 DEF Transactions
  <2>2. mempool' = Append(mempool, tx) /\ mempool \in Seq(Transactions)
    BY <1>2 DEF Send, RunOK
  <2>3. /\ mempool' \in Seq(Transactions) /\ mempool' # <<>>
        /\ mempool'[Len(mempool')] = tx
    BY <2>1, <2>2, AppendProperties
  <2>4. /\ keeper' \in [job : 0..3, doing : {"gas", "read", "send", "wait"}]
        /\ keeper'.job = keeper.job /\ keeper'.doing = "wait" /\ log' = log
    BY <1>2 DEF Send, RunOK
  <2>5. mempool'[Len(mempool)'].job = keeper.job
    BY <2>3
  <2> QED  BY <1>1, <2>3, <2>4, <2>5, RunGoesOn
<1>3. CASE JobFails /\ mempool' = mempool
  BY <1>1, <1>3, JobEndsStep DEF JobFails, RunOK
<1> QED  BY <1>2, <1>3 DEF Send

\* What was performed cannot be performed again at once.
LEMMA Performed ==
  ASSUME Earnest, MoneyInv, MoneyInv', NEW job \in 1..3, Possible(job), Perform(job)
  PROVE  ~ Possible(job)'
<1>1. CASE job = 3
  BY <1>1, Distributed DEF Perform, Possible
<1>2. CASE job # 3
  <2>1. VaultOf(job) \in Users /\ Harvest(VaultOf(job))
    BY <1>2, KeeperAssumption DEF Perform, Possible, Harvestable, VaultOf
  <2>2. ~ Harvestable(VaultOf(job))'
    BY <2>1, Harvested
  <2> QED  BY <1>2, <2>2 DEF Possible, VaultOf
<1> QED  BY <1>1, <1>2

LEMMA MinedStep ==
  ASSUME Earnest, MoneyInv, MoneyInv', RunOK, Track, Mined
  PROVE  RunOK' /\ Noticed
<1> DEFINE tx == Head(mempool)
           succeeds == Possible(tx.job) /\ ~tx.expired
<1>1. /\ mempool \in Seq(Transactions) /\ mempool # <<>> /\ mempool' = Tail(mempool)
  BY DEF Mined, RunOK
<1>2. tx \in Transactions /\ mempool' \in Seq(Transactions) /\ tx = mempool[1]
  BY <1>1
<1>3. CASE Awaited
  <2>1. keeper.job # Off /\ tx.job = keeper.job /\ keeper.job \in 1..3
    BY <1>1, <1>2, <1>3 DEF Awaited, RunOK, Off
  <2>2. JobEnds(IF succeeds THEN "ok" ELSE "fail", ~succeeds)
    BY <1>3 DEF Mined
  <2>3. ASSUME succeeds PROVE keeper.job \notin due'
    <3>1. ASSUME NEW job \in 1..3, job = tx.job PROVE ~ Possible(job)'
      <4>1. Perform(job) /\ Possible(job)
        BY <2>3, <3>1 DEF Mined
      <4> QED  BY <4>1, Performed
    <3> QED  BY <2>1, <3>1, DueShrinks
  <2>4. (~succeeds) \in BOOLEAN
    OBVIOUS
  <2> HIDE DEF succeeds, tx
  <2> QED  BY <1>2, <2>1, <2>2, <2>3, <2>4, JobEndsStep
<1>4. CASE ~Awaited
  <2>1. keeper' = keeper /\ log' = log
    BY <1>4 DEF Mined
  <2>2. ASSUME keeper.doing = "wait"
        PROVE  mempool' # <<>> /\ mempool'[Len(mempool)'].job = keeper.job
    <3>1. /\ mempool[Len(mempool)].job = keeper.job
          /\ Len(mempool) \in Nat /\ Len(mempool) > 1
      <4>1. mempool[Len(mempool)].job = keeper.job /\ Len(mempool) # 1
        BY <1>4, <2>2 DEF Awaited, RunOK
      <4>2. Len(mempool) \in Nat /\ Len(mempool) # 0
        BY <1>1, EmptySeq
      <4>3. \A n \in Nat : n # 0 /\ n # 1 => n > 1
        OBVIOUS
      <4> QED  BY <4>1, <4>2, <4>3
    <3>2. Len(mempool') = Len(mempool) - 1
      BY <1>1
    <3>3. mempool'[Len(mempool) - 1] = mempool[Len(mempool)]
      BY <1>1, <3>1, <3>2
    <3>4. mempool'[Len(mempool')].job = keeper.job /\ Len(mempool') # 0
      BY <3>1, <3>2, <3>3
    <3> QED  BY <3>4, EmptySeq
  <2> QED  BY <1>2, <2>1, <2>2, RunGoesOn DEF RunOK
<1> QED  BY <1>3, <1>4

\* Time passes between runs; a transaction of the keeper may expire meanwhile.
LEMMA ElapseStep ==
  ASSUME RunOK, Track, ElapseKeeper
  PROVE  RunOK' /\ Noticed
<1>1. keeper.job = Off /\ keeper' = keeper /\ keeper.doing = "gas"
  BY DEF ElapseKeeper, RunOK
<1>2. log' \in [begun : BOOLEAN, error : BOOLEAN, done : BOOLEAN, age : Nat]
  <2>1. log' = [log EXCEPT !.age = Min2(log.age + 1, MaxAge + 1)]
    BY DEF ElapseKeeper
  <2>2. log.age \in Nat /\ Min2(log.age + 1, MaxAge + 1) \in Nat
    BY KeeperAssumption DEF RunOK, Min2
  <2> QED  BY <2>1, <2>2 DEF RunOK
<1>3. mempool' \in Seq(Transactions)
  <2> DEFINE expire(t) == [t EXCEPT !.expired = t.job # 3]
  <2>1. \A t \in Transactions : expire(t) \in Transactions
    BY DEF Transactions
  <2>2. mempool \in Seq(Transactions) /\ DOMAIN mempool = 1..Len(mempool)
    BY DEF RunOK
  <2>3. /\ \A i \in 1..Len(mempool) : mempool[i] \in Transactions
        /\ mempool' = [i \in 1..Len(mempool) |-> expire(mempool[i])]
    BY <2>2 DEF ElapseKeeper
  <2> HIDE DEF expire
  <2>4. mempool' \in [1..Len(mempool) -> Transactions] /\ Len(mempool) \in Nat
    BY <2>1, <2>2, <2>3
  <2> QED  BY <2>4 DEF Seq
<1> QED  BY <1>1, <1>2, <1>3, DueShrinks DEF RunOK, Noticed, Off

LEMMA RunStepOK ==
  ASSUME Earnest, MoneyInv, MoneyInv', RunOK, KeeperNext
  PROVE  RunOK' /\ Noticed
<1>1. Track
  BY DEF KeeperNext
<1>2. CASE StartRun
  BY <1>1, <1>2, DueShrinks DEF StartRun, RunOK, Noticed, Off
<1>3. CASE GasAffordable
  <2>1. /\ keeper' \in [job : 0..3, doing : {"gas", "read", "send", "wait"}]
        /\ keeper'.job = keeper.job /\ keeper'.doing = "read" /\ keeper.job # Off
        /\ log' = log /\ mempool' = mempool
    BY <1>3 DEF GasAffordable, AtPreflight, RunOK
  <2> QED  BY <1>1, <2>1, RunGoesOn DEF RunOK
<1>4. CASE ReadState
  BY <1>1, <1>4, ReadStateStep
<1>5. CASE Send
  BY <1>1, <1>5, SendStep
<1>6. CASE Mined
  BY <1>1, <1>6, MinedStep
<1>7. CASE JobErrs
  <2>1. keeper.job # Off /\ JobFails /\ mempool' = mempool
    BY <1>7 DEF JobErrs, RunOK
  <2> QED  BY <1>1, <2>1, JobEndsStep DEF JobFails, RunOK
<1>8. CASE SkipAll \/ MainThrows \/ Kill
  BY <1>1, <1>8, RunStops DEF SkipAll, MainThrows, PreflightEnds, AtPreflight, Kill
<1>9. CASE ElapseKeeper
  BY <1>1, <1>9, ElapseStep
<1>10. CASE \/ MissRun \/ AdminStep
            \/ /\ Distribute \/ Deposit \/ \E amount \in Payments : PayRevenue(amount)
               /\ UNCHANGED <<keeperVars, marketVars>>
  BY <1>1, <1>10, RunUnmoved DEF MissRun, AdminStep, keeperVars
<1> QED
  BY <1>2, <1>3, <1>4, <1>5, <1>6, <1>7, <1>8, <1>9, <1>10
  DEF KeeperNext, RunStep, WorldStep

\* A run that ends without an alert has done, or could not have done all along,
\* every job there is: whatever fails between its reads and its receipts, in
\* whatever order transactions are mined and whenever the run is killed, the log
\* that is left makes health-check.sh alert.
THEOREM NotUnnoticed ==
  ASSUME Earnest
  PROVE  KeeperSpec => SilentRunsServe
<1>1. KeeperInit => RunOK
  <2>1. <<>> \in Seq(Transactions)
    OBVIOUS
  <2>2. SUFFICES ASSUME KeeperInit PROVE RunOK
    OBVIOUS
  <2>3. mempool \in Seq(Transactions)
    BY <2>1, <2>2 DEF KeeperInit
  <2>4. /\ keeper = [job |-> 0, doing |-> "gas"] /\ due = {}
        /\ log = [begun |-> FALSE, error |-> FALSE, done |-> FALSE, age |-> 0]
    BY <2>2 DEF KeeperInit, Off
  <2> QED  BY <2>3, <2>4 DEF RunOK, Off
<1>2. ASSUME MoneyInv, RunOK, [KeeperNext]_systemVars
      PROVE  MoneyInv' /\ RunOK' /\ [Noticed]_systemVars
  <2>1. MoneyInv'
    BY <1>2, MoneyStep
  <2>2. CASE KeeperNext
    BY <1>2, <2>1, <2>2, RunStepOK
  <2>3. CASE UNCHANGED systemVars
    BY <1>2, <2>1, <2>3 DEF systemVars, keeperVars, RunOK
  <2> QED  BY <1>2, <2>2, <2>3, <2>1
<1>3. KeeperSpec => [](MoneyInv /\ RunOK)
  BY <1>1, <1>2, MoneyInit, PTL DEF KeeperSpec
<1>4. KeeperSpec => [][keeper.job # Off /\ keeper'.job = Off /\ due' # {} => Alert']_systemVars
  BY <1>2, <1>3, PTL DEF KeeperSpec, Noticed
<1> QED  BY <1>4 DEF SilentRunsServe
=============================================================================
