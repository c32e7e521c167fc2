------------------------------ MODULE CSDiemV1 ------------------------------
(***************************************************************************)
(* contracts/src/csDIEM.sol: compounding shares over the first sDIEM.      *)
(*                                                                         *)
(* The vault stakes every deposit in sDIEM and leaves redemptions to a     *)
(* queue of its own: shares are burned at once, the DIEM they stand for is *)
(* fetched through one withdrawal request of the vault in sDIEM, and paid  *)
(* all at once after WithdrawalDelay.                                      *)
(*                                                                         *)
(* Of sDIEM the module keeps the vault's position, as StakeLedger promises *)
(* it: staked, queued, and the time until the queued part is payable,      *)
(* which then is paid whole or in parts (PartialPayouts).                  *)
(***************************************************************************)
EXTENDS VaultShares, FiniteSets, Functions

CONSTANTS
  Users,
  Managers, NoOne, FirstAdmin,
  Nominees,           \* BOUND: the addresses offered the admin role
  Pauses,             \* BOUND: the values SetPaused may give to paused
  Amounts,            \* BOUND: the amounts of DIEM deposited or given away
  ShareAmounts,       \* BOUND: the numbers of shares minted, redeemed or moved
  Yields,             \* BOUND: the DIEM one harvest can bring
  MaxYield,           \* BOUND: the DIEM all harvests can bring
  InitialDiem,        \* BOUND: DIEM each user starts with
  WithdrawalDelay,    \* WITHDRAWAL_DELAY, of the vault and of sDIEM
  MinRedeem,          \* MIN_REDEEM_ASSETS
  SdiemMinWithdraw,   \* SDIEM_MIN_WITHDRAW
  PartialPayouts      \* sDIEM may pay in parts, or nothing although it is time

ASSUME CSDiemV1Assumption ==
  /\ IsFiniteSet(Users)
  /\ FirstAdmin \in Managers /\ Nominees \subseteq Managers /\ NoOne \notin Managers
  /\ Pauses \subseteq BOOLEAN /\ PartialPayouts \in BOOLEAN
  /\ Amounts \subseteq Nat \ {0} /\ ShareAmounts \subseteq Nat \ {0}
  /\ Yields \subseteq Nat \ {0} /\ MaxYield \in Nat /\ InitialDiem \in Nat
  /\ WithdrawalDelay \in Nat \ {0}
  /\ MinRedeem \in Nat \ {0} /\ SdiemMinWithdraw \in Nat \ {0}

VARIABLES
  admin, pendingAdmin, paused,
  wallet,                     \* user -> DIEM
  shares, totalSupply,        \* csDIEM
  redemption,                 \* user -> [assets, shares, wait]
  totalPendingRedemptions,
  liquid,                     \* diem.balanceOf(vault)
  sdiem,                      \* the vault in sDIEM: [staked, queued, wait]
  yielded                     \* history: DIEM all harvests have brought

roleVars == <<admin, pendingAdmin, paused>>
shareVars == <<shares, totalSupply>>
redemptionVars == <<redemption, totalPendingRedemptions>>
vars == <<roleVars, wallet, shareVars, redemptionVars, liquid, sdiem, yielded>>

NoRedemption == [assets |-> 0, shares |-> 0, wait |-> 0]

Init ==
  /\ admin = FirstAdmin /\ pendingAdmin = NoOne /\ paused = FALSE
  /\ wallet = [u \in Users |-> InitialDiem]
  /\ shares = [u \in Users |-> 0] /\ totalSupply = 0
  /\ redemption = [u \in Users |-> NoRedemption] /\ totalPendingRedemptions = 0
  /\ liquid = 0
  /\ sdiem = [staked |-> 0, queued |-> 0, wait |-> 0]
  /\ yielded = 0

Min2(a, b) == IF a < b THEN a ELSE b

Gross == sdiem.staked + sdiem.queued + liquid

TotalAssets ==
  IF Gross > totalPendingRedemptions THEN Gross - totalPendingRedemptions ELSE 0

ToShares(assets) == SharesFor(assets, totalSupply, TotalAssets)
ToAssets(s) == AssetsFor(s, totalSupply, TotalAssets)

MintTo(u, s) ==
  /\ shares' = [shares EXCEPT ![u] = @ + s]
  /\ totalSupply' = totalSupply + s

StakedMore(amount) == [sdiem EXCEPT !.staked = @ + amount]

\* _tryWithdrawFromSdiem: what it asks sDIEM for.
ToRequest(needed, at) ==
  LET deficit == needed - (liquid + at.queued)
      toRequest == Min2(deficit, at.staked)
  IN  IF deficit <= 0 \/ at.queued > 0 \/ toRequest < SdiemMinWithdraw
      THEN 0 ELSE toRequest

\* sDIEM's requestWithdraw restarts its delay for everything queued there.
TryWithdrawFromSdiem(needed) ==
  LET amount == ToRequest(needed, sdiem)
  IN  sdiem' = IF amount = 0 THEN sdiem
               ELSE [staked |-> sdiem.staked - amount, queued |-> sdiem.queued + amount,
                     wait |-> WithdrawalDelay]
-----------------------------------------------------------------------------
(* Users.                                                                  *)

DepositDiem(u, assets, minted) ==
  /\ ~paused
  /\ assets > 0 /\ assets <= wallet[u]
  /\ wallet' = [wallet EXCEPT ![u] = @ - assets]
  /\ MintTo(u, minted)
  /\ sdiem' = StakedMore(assets)
  /\ UNCHANGED <<roleVars, redemptionVars, liquid, yielded>>

Deposit(u, assets) == DepositDiem(u, assets, ToShares(assets))
MintShares(u, s) == DepositDiem(u, AssetsForMint(s, totalSupply, TotalAssets), s)

Transfer(from, to, s) ==
  /\ from # to /\ s <= shares[from]
  /\ shares' = [[shares EXCEPT ![from] = @ - s] EXCEPT ![to] = @ + s]
  /\ UNCHANGED <<roleVars, wallet, totalSupply, redemptionVars, liquid, sdiem, yielded>>

\* Plain DIEM sent to the vault's address.
DonateDiem(u, amount) ==
  /\ amount <= wallet[u]
  /\ wallet' = [wallet EXCEPT ![u] = @ - amount]
  /\ liquid' = liquid + amount
  /\ UNCHANGED <<roleVars, shareVars, redemptionVars, sdiem, yielded>>

RequestRedeem(u, s) ==
  LET assets == ToAssets(s)
      owed == totalPendingRedemptions + assets
  IN  /\ s <= shares[u]
      /\ assets >= MinRedeem
      /\ shares' = [shares EXCEPT ![u] = @ - s]
      /\ totalSupply' = totalSupply - s
      /\ redemption' = [redemption EXCEPT
                          ![u] = [assets |-> @.assets + assets, shares |-> @.shares + s,
                                  wait |-> WithdrawalDelay]]
      /\ totalPendingRedemptions' = owed
      /\ TryWithdrawFromSdiem(owed)
      /\ UNCHANGED <<roleVars, wallet, liquid, yielded>>

\* What sdiem.completeWithdraw() may bring; 0 when it is not called or reverts.
Payouts(assets) ==
  IF liquid >= assets \/ sdiem.queued = 0 \/ sdiem.wait > 0 THEN {0}
  ELSE IF PartialPayouts THEN 0..sdiem.queued ELSE {sdiem.queued}

\* All or nothing: when the payout does not fill the gap the call reverts, and
\* the payout goes back to sDIEM's queue with it.
CompleteRedeem(u) ==
  LET assets == redemption[u].assets
  IN  /\ assets > 0 /\ redemption[u].wait = 0
      /\ \E payout \in Payouts(assets) :
           /\ liquid + payout >= assets
           /\ liquid' = liquid + payout - assets
           /\ sdiem' = [sdiem EXCEPT !.queued = @ - payout]
      /\ redemption' = [redemption EXCEPT ![u] = NoRedemption]
      /\ totalPendingRedemptions' = totalPendingRedemptions - assets
      /\ wallet' = [wallet EXCEPT ![u] = @ + assets]
      /\ UNCHANGED <<roleVars, shareVars, yielded>>

\* (mutant) gives back the shares that were burned.
SharesBurned(u) == redemption[u].shares

\* At the current rate, whose pending total no longer holds this request;
\* the burned shares when nobody else holds any.
SharesOnCancel(u) ==
  LET assets == redemption[u].assets
      total == IF Gross > totalPendingRedemptions - assets
               THEN Gross - (totalPendingRedemptions - assets) ELSE 0
  IN  IF totalSupply = 0 THEN redemption[u].shares
      ELSE SharesFor(assets, totalSupply, total)

\* (mutant) the request is cleared, the total is not.
CancelEntry(u) ==
  /\ redemption' = [redemption EXCEPT ![u] = NoRedemption]
  /\ UNCHANGED totalPendingRedemptions

ClearRedemption(u) ==
  /\ redemption' = [redemption EXCEPT ![u] = NoRedemption]
  /\ totalPendingRedemptions' = totalPendingRedemptions - redemption[u].assets

\* sDIEM is not told: what is queued there comes back and is redeployed.
CancelRedeem(u) ==
  /\ redemption[u].assets > 0
  /\ SharesOnCancel(u) > 0
  /\ ClearRedemption(u)
  /\ MintTo(u, SharesOnCancel(u))
  /\ UNCHANGED <<roleVars, wallet, liquid, sdiem, yielded>>
-----------------------------------------------------------------------------
(* Open to anyone.                                                         *)

\* The claimed USDC, the price and the slippage checks are left out: a harvest
\* that passes them brings some DIEM.
Harvest(received) ==
  /\ ~paused
  /\ yielded + received <= MaxYield
  /\ sdiem' = StakedMore(received)
  /\ yielded' = yielded + received
  /\ UNCHANGED <<roleVars, wallet, shareVars, redemptionVars, liquid>>

RedeployExcess ==
  /\ liquid > totalPendingRedemptions
  /\ liquid' = totalPendingRedemptions
  /\ sdiem' = StakedMore(liquid - totalPendingRedemptions)
  /\ UNCHANGED <<roleVars, wallet, shareVars, redemptionVars, yielded>>

SyncWithdrawals ==
  /\ TryWithdrawFromSdiem(totalPendingRedemptions)
  /\ UNCHANGED <<roleVars, wallet, shareVars, redemptionVars, liquid, yielded>>
-----------------------------------------------------------------------------
SetPaused(caller, value) ==
  /\ caller = admin
  /\ paused' = value
  /\ UNCHANGED <<admin, pendingAdmin, wallet, shareVars, redemptionVars, liquid, sdiem,
                 yielded>>

TransferAdmin(caller, to) ==
  /\ caller = admin
  /\ pendingAdmin' = to
  /\ UNCHANGED <<admin, paused, wallet, shareVars, redemptionVars, liquid, sdiem, yielded>>

AcceptAdmin(caller) ==
  /\ caller = pendingAdmin
  /\ admin' = caller /\ pendingAdmin' = NoOne
  /\ UNCHANGED <<paused, wallet, shareVars, redemptionVars, liquid, sdiem, yielded>>

CountDown(t) == IF t > 0 THEN t - 1 ELSE 0

\* One unit of time, while any timer runs.
Tick ==
  /\ sdiem' = [sdiem EXCEPT !.wait = CountDown(@)]
  /\ redemption' = [u \in Users |-> [redemption[u] EXCEPT !.wait = CountDown(@)]]
  /\ <<sdiem, redemption>>' # <<sdiem, redemption>>
  /\ UNCHANGED <<roleVars, wallet, shareVars, totalPendingRedemptions, liquid, yielded>>

UserStep(u) ==
  \/ \E amount \in Amounts : Deposit(u, amount) \/ DonateDiem(u, amount)
  \/ \E s \in ShareAmounts :
       MintShares(u, s) \/ RequestRedeem(u, s) \/ \E to \in Users : Transfer(u, to, s)
  \/ CompleteRedeem(u)
  \/ CancelRedeem(u)

ManagerStep(m) ==
  \/ \E value \in Pauses : SetPaused(m, value)
  \/ \E to \in Nominees : TransferAdmin(m, to)
  \/ AcceptAdmin(m)

Next ==
  \/ Tick
  \/ \E u \in Users : UserStep(u)
  \/ \E received \in Yields : Harvest(received)
  \/ RedeployExcess
  \/ SyncWithdrawals
  \/ \E m \in Managers : ManagerStep(m)

Spec == Init /\ [][Next]_vars

\* Time passes; somebody runs the two functions open to anyone; and a user whose
\* completeRedeem would succeed again and again gets it into a block.
FairSpec ==
  /\ Spec
  /\ WF_vars(Tick) /\ WF_vars(SyncWithdrawals) /\ WF_vars(RedeployExcess)
  /\ \A u \in Users : SF_vars(CompleteRedeem(u))
-----------------------------------------------------------------------------
Owed == [u \in Users |-> redemption[u].assets]

\* Everything promised to redeemers is in the vault, in sDIEM or in its queue,
\* and both hand-kept totals agree with their entries: totalAssets never has to
\* hide a shortfall behind its zero (csDIEM.sol totalAssets, requestRedeem
\* rounding, cancelRedeem).
RedemptionsBacked ==
  /\ totalPendingRedemptions = SumFunction(Owed)
  /\ totalSupply = SumFunction(shares)
  /\ Gross >= totalPendingRedemptions

Worth(u) == ToAssets(shares[u])

\* Whatever anyone does, and at whatever price their request was made, a user
\* who gives up no shares can redeem them for no less than before: deposits,
\* mints, requests, cancellations after a harvest and donations all round and
\* price in favour of the holders who stay.
NobodyDiluted ==
  [][\A u \in Users : shares'[u] >= shares[u] => Worth(u)' >= Worth(u)]_vars

\* While sDIEM works on a withdrawal for the vault, nothing makes it start
\* over: later redeemers cannot postpone earlier ones (_tryWithdrawFromSdiem).
BatchNotRestarted ==
  [][sdiem.queued > 0 => sdiem'.wait <= sdiem.wait]_vars

\* Every redemption is paid some time, unless its user restarts the delay for
\* ever: csDIEM.sol:292-294 has one user's unfunded portion block nobody, and
\* syncWithdrawals is there to request the difference from sDIEM.
RedemptionsPaid ==
  \A u \in Users :
    []<>(redemption[u].assets = 0 \/ redemption[u].wait = WithdrawalDelay)
=============================================================================
