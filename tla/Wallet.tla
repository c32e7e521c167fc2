-------------------------------- MODULE Wallet --------------------------------
(***************************************************************************)
(* A holder's wallet between the web application and the contracts:        *)
(* allowances, the transactions the pages submit for Me and what each does *)
(* when it is mined, and everybody else who uses the contracts meanwhile.  *)
(***************************************************************************)
EXTENDS CSDiemV2

CONSTANTS
  Me,             \* address
  Others,         \* BOUND: the holders who act beside Me
  Unlimited,      \* maxUint256
  MaxMoves        \* BOUND: stakes of others, acts of admins and operator, refusals

ASSUME WalletAssumption ==
  Me \in Holders /\ Others \subseteq Holders \ {Me} /\ Unlimited \in Nat /\ MaxMoves \in Nat

VARIABLES
  allowance,      \* [stake, zap, wrap]: DIEM for sDIEM, DIEM for csDIEM, sDIEM for csDIEM
  moves

walletVars == <<csVars, allowance, moves>>

Uses == {"stake", "zap", "wrap"}
NoAllowance == [use \in Uses |-> 0]

WalletInit == CSInit /\ allowance = NoAllowance /\ moves = 0

\* canCompleteWithdraw(): nothing to pay or pay from, no.
CanComplete ==
  /\ request[Me].amount > 0 /\ request[Me].wait = 0
  /\ pool.liquid > 0 \/ Matured(pool)
-----------------------------------------------------------------------------
Approve(use, amount) ==
  allowance' = [allowance EXCEPT ![use] = amount] /\ UNCHANGED csVars

\* transferFrom(): an unlimited allowance is not used up.
SpendAllowance(use, amount) ==
  /\ allowance[use] >= amount
  /\ allowance' = IF allowance[use] = Unlimited THEN allowance
                  ELSE [allowance EXCEPT ![use] = @ - amount]

OnSDiem(step) == step /\ UNCHANGED vaultVars

\* What a call does, if it does not revert.
Does(call, amount) ==
  CASE call[1] = "approve" -> Approve(call[2], amount)
    [] call = <<"stake">> -> OnSDiem(StakeDiem(Me, amount)) /\ SpendAllowance("stake", amount)
    [] call = <<"zap">> -> DepositDIEM(Me, amount) /\ SpendAllowance("zap", amount)
    [] call = <<"wrap">> -> DepositSdiem(Me, amount) /\ SpendAllowance("wrap", amount)
    [] call = <<"redeem">> -> Redeem(Me, amount) /\ UNCHANGED allowance
    [] call = <<"requestWithdraw">> ->
         OnSDiem(RequestWithdraw(Me, amount)) /\ UNCHANGED allowance
    [] call = <<"completeWithdraw">> -> OnSDiem(CompleteWithdraw(Me)) /\ UNCHANGED allowance
    [] call = <<"cancelWithdraw">> -> OnSDiem(CancelWithdraw(Me)) /\ UNCHANGED allowance
    [] call = <<"claimReward">> -> OnSDiem(ClaimReward(Me)) /\ UNCHANGED allowance
    [] call = <<"exit">> -> OnSDiem(Exit(Me)) /\ UNCHANGED allowance

\* A holder who has staked asks for it and completes as he likes.
OthersMove ==
  \E u \in Others : OnSDiem(\/ \E amount \in Amounts : RequestWithdraw(u, amount)
                            \/ CompleteWithdraw(u))

Counted == moves < MaxMoves /\ moves' = moves + 1

\* These are counted: another holder's stake, a pause, a reward.
CountedMove ==
  /\ \/ \E u \in Others, amount \in Amounts : OnSDiem(StakeDiem(u, amount))
     \/ OnSDiem(\E m \in Managers : \/ \E value \in Pauses : SetPaused(m, value)
                                    \/ \E reward \in RewardAmounts : NotifyRewardAmount(m, reward))
     \/ \E m \in VaultAdmins, value \in Pauses : SetVaultPaused(m, value)
  /\ Counted

WorldStep ==
  /\ CountedMove \/ (OthersMove /\ UNCHANGED moves)
  /\ UNCHANGED allowance

TimeStep == OnSDiem(Tick) /\ UNCHANGED <<allowance, moves>>
=============================================================================
