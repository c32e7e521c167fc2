------------------------------ MODULE CSDiemV2 ------------------------------
(***************************************************************************)
(* contracts/src/csDIEMv2.sol: a standard ERC-4626 vault whose asset is    *)
(* the transferable sDIEM, composed with sDIEMv2 itself: the vault is one  *)
(* of its Users, every deposit and redemption is an sDIEM transfer with    *)
(* its reward checkpoints, and harvest and depositDIEM call both contracts *)
(* in one transaction.                                                     *)
(***************************************************************************)
EXTENDS SDiemV2, VaultShares

CONSTANTS
  Vault,              \* the vault's address, one of sDIEM's Users
  VaultAdmins,        \* BOUND: the accounts that hold or are offered the role
  FirstVaultAdmin,
  ShareAmounts,       \* BOUND: the numbers of shares minted, redeemed or moved
  Quotes,             \* BOUND: the DIEM the oracle can value the USDC at
  Yields,             \* BOUND: the DIEM a harvest's swap can return
  MinHarvest,         \* minHarvest
  MaxSlippageBps,     \* maxSlippageBps, out of BpsDenominator
  BpsDenominator,     \* BPS_DENOMINATOR
  MinDiemPerUsdc,     \* minDiemPerUsdc, per OneUsdc
  OneUsdc             \* 1e6, the units of one USDC

ASSUME VaultAssumption ==
  /\ Vault \in Users
  /\ FirstVaultAdmin \in VaultAdmins /\ NoOne \notin VaultAdmins
  /\ ShareAmounts \subseteq Nat \ {0}
  /\ Quotes \subseteq Nat /\ Yields \subseteq Nat \ {0}
  /\ MinHarvest \in Nat \ {0} /\ MinDiemPerUsdc \in Nat \ {0}
  /\ OneUsdc \in Nat \ {0}
  /\ BpsDenominator \in Nat \ {0} /\ MaxSlippageBps \in 0..BpsDenominator

VARIABLES
  vaultRoles,                 \* [admin, pendingAdmin]
  vaultPaused,
  shares, shareSupply         \* csDIEM

vaultVars == <<vaultRoles, vaultPaused, shares, shareSupply>>
csVars == <<vars, vaultVars>>

Holders == Users \ {Vault}

CSInit ==
  /\ Init
  /\ vaultRoles = [admin |-> FirstVaultAdmin, pendingAdmin |-> NoOne]
  /\ vaultPaused = FALSE
  /\ shares = [u \in Holders |-> 0] /\ shareSupply = 0

TotalAssets == balanceOf[Vault]

ToShares(assets) == SharesFor(assets, shareSupply, TotalAssets)
ToAssets(s) == AssetsFor(s, shareSupply, TotalAssets)

MintVaultShares(u, s) ==
  /\ shares' = [shares EXCEPT ![u] = @ + s]
  /\ shareSupply' = shareSupply + s
  /\ UNCHANGED <<vaultRoles, vaultPaused>>

BurnVaultShares(u, s) ==
  /\ s <= shares[u]
  /\ shares' = [shares EXCEPT ![u] = @ - s]
  /\ shareSupply' = shareSupply - s
  /\ UNCHANGED <<vaultRoles, vaultPaused>>
-----------------------------------------------------------------------------
(* ERC-4626: the asset moves by an ordinary sDIEM transfer.                *)

DepositSdiem(u, assets) ==
  /\ ~vaultPaused
  /\ Transfer(u, Vault, assets)
  /\ MintVaultShares(u, ToShares(assets))

MintForSdiem(u, s) ==
  /\ ~vaultPaused
  /\ Transfer(u, Vault, AssetsForMint(s, shareSupply, TotalAssets))
  /\ MintVaultShares(u, s)

\* A pause does not stop it.
Redeem(u, s) ==
  /\ Transfer(Vault, u, ToAssets(s))
  /\ BurnVaultShares(u, s)

\* Limited by maxWithdraw, what all shares of the owner would redeem for.
WithdrawSdiem(u, assets) ==
  /\ assets <= ToAssets(shares[u])
  /\ Transfer(Vault, u, assets)
  /\ BurnVaultShares(u, SharesForWithdraw(assets, shareSupply, TotalAssets))

TransferShares(from, to, s) ==
  /\ from # to /\ s <= shares[from]
  /\ shares' = [shares EXCEPT ![from] = @ - s, ![to] = @ + s]
  /\ UNCHANGED <<vars, vaultRoles, vaultPaused, shareSupply>>
-----------------------------------------------------------------------------
(* Two contracts in one transaction.                                       *)

\* sdiem.stake(amount) by the vault, of DIEM that it holds within the call.
StakeForVault(amount) ==
  /\ WhenNotPaused
  /\ balanceOf' = [balanceOf EXCEPT ![Vault] = @ + amount]
  /\ totalSupply' = totalSupply + amount
  /\ pool' = Stake(Receive(pool, amount), amount)

\* (mutant) priced after the vault's sDIEM has grown.
ZapSharesLate(amount) == SharesFor(amount, shareSupply, TotalAssets + amount)
\* (mutant) rounded in favour of the depositor.
ZapSharesUp(amount) == SharesForWithdraw(amount, shareSupply, TotalAssets)
\* depositDIEM: priced by the totals before the stake.
ZapShares(amount) == SharesFor(amount, shareSupply, TotalAssets)

DepositDIEM(u, amount) ==
  /\ ~vaultPaused
  /\ amount <= wallet[u]
  /\ ZapShares(amount) > 0
  /\ wallet' = [wallet EXCEPT ![u] = @ - amount]
  /\ CheckpointGlobal /\ CheckpointUsers({Vault})
  /\ StakeForVault(amount)
  /\ MintVaultShares(u, ZapShares(amount))
  /\ UNCHANGED <<roleVars, donated, queueVars, periodVars, usdcVars>>

AbsoluteMin(usdcIn) == (usdcIn * MinDiemPerUsdc) \div OneUsdc

\* (mutant) holds the oracle's price against the floor, not what may be taken.
QuoteAboveFloor(usdcIn, twapOut) == twapOut >= AbsoluteMin(usdcIn)

AmountOutMin(twapOut) == (twapOut * (BpsDenominator - MaxSlippageBps)) \div BpsDenominator

PriceAboveFloor(usdcIn, twapOut) == AmountOutMin(twapOut) >= AbsoluteMin(usdcIn)

\* _swapUsdcToDiem: what the oracle quotes and what the router pays are open.
SwapReturns(usdcIn, received) ==
  \E twapOut \in Quotes :
    PriceAboveFloor(usdcIn, twapOut) /\ received >= AmountOutMin(twapOut)

\* Claims, swaps and stakes.  A claim that fails leaves nothing to swap.
Harvest(received) ==
  /\ ~vaultPaused
  /\ Earned(Vault) >= MinHarvest
  /\ SwapReturns(Earned(Vault), received)
  /\ CheckpointGlobal /\ PayReward(Vault, TRUE)
  /\ StakeForVault(received)
  /\ UNCHANGED <<roleVars, wallet, donated, queueVars, periodVars, vaultVars>>
-----------------------------------------------------------------------------
SetVaultPaused(caller, value) ==
  /\ caller = vaultRoles.admin
  /\ vaultPaused' = value
  /\ UNCHANGED <<vars, vaultRoles, shares, shareSupply>>

TransferVaultAdmin(caller, to) ==
  /\ caller = vaultRoles.admin
  /\ vaultRoles' = [vaultRoles EXCEPT !.pendingAdmin = to]
  /\ UNCHANGED <<vars, vaultPaused, shares, shareSupply>>

AcceptVaultAdmin(caller) ==
  /\ caller = vaultRoles.pendingAdmin
  /\ vaultRoles' = [admin |-> caller, pendingAdmin |-> NoOne]
  /\ UNCHANGED <<vars, vaultPaused, shares, shareSupply>>

HolderStep(u) ==
  \/ \E amount \in Amounts :
       DepositSdiem(u, amount) \/ WithdrawSdiem(u, amount) \/ DepositDIEM(u, amount)
  \/ \E s \in ShareAmounts :
       \/ MintForSdiem(u, s) \/ Redeem(u, s)
       \/ \E to \in Holders : TransferShares(u, to, s)

VaultAdminStep(m) ==
  \/ \E value \in BOOLEAN : SetVaultPaused(m, value)
  \/ \E to \in VaultAdmins : TransferVaultAdmin(m, to)
  \/ AcceptVaultAdmin(m)

\* sDIEM used by everybody but the vault, sDIEM sent to the vault unasked
\* included; the steps of its admin are left to the runs of SDiemV2.
SDiemStep ==
  /\ \/ Tick
     \/ \E u \in Holders : UserStep(u)
     \/ \E m \in Managers, reward \in RewardAmounts : NotifyRewardAmount(m, reward)
  /\ UNCHANGED vaultVars

CSNext ==
  \/ SDiemStep
  \/ \E u \in Holders : HolderStep(u)
  \/ \E received \in Yields : Harvest(received)
  \/ \E m \in VaultAdmins : VaultAdminStep(m)

CSSpec == CSInit /\ [][CSNext]_csVars
-----------------------------------------------------------------------------
\* What u's shares redeem for.
Worth(u) == ToAssets(shares[u])

\* Whatever anyone does, a holder who gives up no shares can redeem them for no
\* less than before: deposits, mints, both ways out, zaps, harvests and gifts
\* all round in favour of the holders who stay.
NobodyDiluted ==
  [][\A u \in Holders : shares'[u] >= shares[u] => Worth(u)' >= Worth(u)]_csVars

\* Whoever gives DIEM or sDIEM for shares gets what it was worth, to within one
\* share or one unit of sDIEM, whichever of deposit, mint and depositDIEM is
\* taken: the zap prices its shares as deposit() would.
FairPurchase ==
  [][\A u \in Holders :
       LET spent == wallet[u] + balanceOf[u] - (wallet[u] + balanceOf[u])'
           bought == shares'[u] - shares[u]
           price(s) == s * (TotalAssets' + 1)
           value(a) == a * (shareSupply' + VirtualShares)
       IN  bought > 0 => \/ price(bought + 1) > value(spent)
                         \/ price(bought) > value(spent - 1)]_csVars

\* No harvest sells the holders' USDC below minDiemPerUsdc, to within one unit of
\* DIEM that the floor is rounded down by, whatever the oracle says and the
\* slippage setting would allow on top.
SoldAboveFloor ==
  [][claimed'[Vault] > claimed[Vault]
       => (TotalAssets' - TotalAssets + 1) * OneUsdc
            > (claimed'[Vault] - claimed[Vault]) * MinDiemPerUsdc]_csVars
=============================================================================
