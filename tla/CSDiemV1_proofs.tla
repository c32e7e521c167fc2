--------------------------- MODULE CSDiemV1_proofs ---------------------------
(***************************************************************************)
(* RedemptionsBacked, NobodyDiluted and BatchNotRestarted of the first     *)
(* csDIEM, for any number of holders and any amounts.                      *)
(*                                                                         *)
(* RedemptionsBacked is inductive beside the types, because of one fact of *)
(* the rounding: shares that exist are worth no more than the vault has,   *)
(* so that requestRedeem never promises more than totalAssets.             *)
(* NobodyDiluted compares rounded values; it follows from a relation       *)
(* without rounding that every step keeps: the price of a share, with its  *)
(* virtual part, does not fall (PriceKept).                                *)
(***************************************************************************)
EXTENDS CSDiemV1, ArithmeticTheorems

CSTypeOK ==
  /\ shares \in [Users -> Nat] /\ totalSupply \in Nat
  /\ redemption \in [Users -> [assets : Nat, shares : Nat, wait : Nat]]
  /\ totalPendingRedemptions \in Nat /\ liquid \in Nat
  /\ sdiem \in [staked : Nat, queued : Nat, wait : Nat]

IInv == CSTypeOK /\ RedemptionsBacked

\* The price (total + 1) / (supply + VirtualShares) has not fallen.
Dearer(total, supply, newTotal, newSupply) ==
  (total + 1) * (newSupply + VirtualShares) <= (newTotal + 1) * (supply + VirtualShares)

\* Or nobody held a share.
PriceKept == totalSupply = 0 \/ Dearer(TotalAssets, totalSupply, TotalAssets', totalSupply')
-----------------------------------------------------------------------------
(* The arithmetic of the shares.                                           *)

\* Shares that are paid for leave the price at least where it was.
LEMMA MintPrice ==
  ASSUME NEW T \in Nat, NEW S \in Nat, NEW assets \in Nat, NEW minted \in Nat,
         minted * (T + 1) <= assets * (S + VirtualShares)
  PROVE  Dearer(T, S, T + assets, S + minted)
<1>1. VirtualShares \in Nat
  BY VirtualSharesAssumption
<1>2. (T + 1) * (S + minted + VirtualShares)
        = (T + 1) * (S + VirtualShares) + minted * (T + 1)
  BY <1>1
<1>3. (T + assets + 1) * (S + VirtualShares)
        = (T + 1) * (S + VirtualShares) + assets * (S + VirtualShares)
  BY <1>1
<1> QED  BY <1>1, <1>2, <1>3 DEF Dearer

\* So do shares that are burned for no more than they are worth.
LEMMA BurnPrice ==
  ASSUME NEW T \in Nat, NEW S \in Nat, NEW assets \in Nat, NEW s \in Nat,
         assets * (S + VirtualShares) <= s * (T + 1)
  PROVE  Dearer(T, S, T - assets, S - s)
<1>1. VirtualShares \in Nat
  BY VirtualSharesAssumption
<1>2. (T + 1) * (S - s + VirtualShares)
        = (T + 1) * (S + VirtualShares) - s * (T + 1)
  BY <1>1
<1>3. (T - assets + 1) * (S + VirtualShares)
        = (T + 1) * (S + VirtualShares) - assets * (S + VirtualShares)
  BY <1>1
<1> QED  BY <1>1, <1>2, <1>3 DEF Dearer

\* convertToShares: no more shares than the assets pay for.
LEMMA SharesPaid ==
  ASSUME NEW T \in Nat, NEW S \in Nat, NEW assets \in Nat
  PROVE  /\ SharesFor(assets, S, T) \in Nat
         /\ SharesFor(assets, S, T) * (T + 1) <= assets * (S + VirtualShares)
<1>1. VirtualShares \in Nat
  BY VirtualSharesAssumption
<1>2. assets * (S + VirtualShares) \in Nat
  BY <1>1, ProductNat
<1>3. T + 1 \in Nat \ {0}
  OBVIOUS
<1> QED  BY <1>2, <1>3, DivisionRoundsDown DEF SharesFor

\* convertToAssets: no more assets than the shares are worth, and fewer than
\* one more than the vault has.
LEMMA AssetsPaid ==
  ASSUME NEW T \in Nat, NEW S \in Nat, NEW s \in Nat
  PROVE  /\ AssetsFor(s, S, T) \in Nat
         /\ AssetsFor(s, S, T) * (S + VirtualShares) <= s * (T + 1)
         /\ s <= S => AssetsFor(s, S, T) <= T
<1> DEFINE b == S + VirtualShares
           a == AssetsFor(s, S, T)
<1>1. b \in Nat \ {0} /\ S < b
  BY VirtualSharesAssumption
<1>2. s * (T + 1) \in Nat
  BY ProductNat
<1>3. a \in Nat /\ a * b <= s * (T + 1)
  BY <1>1, <1>2, DivisionRoundsDown DEF AssetsFor
<1> HIDE DEF a, b
<1>4. s <= S => a <= T
  BY <1>1, <1>3, PartOfWhole
<1> QED  BY <1>3, <1>4 DEF a, b

\* previewMint: what is taken pays for the shares.
LEMMA MintPaid ==
  ASSUME NEW T \in Nat, NEW S \in Nat, NEW s \in Nat
  PROVE  /\ AssetsForMint(s, S, T) \in Nat
         /\ s * (T + 1) <= AssetsForMint(s, S, T) * (S + VirtualShares)
<1> DEFINE b == S + VirtualShares
           n == s * (T + 1)
<1>1. b \in Nat \ {0}
  BY VirtualSharesAssumption
<1>2. n \in Nat
  BY ProductNat
<1> HIDE DEF b, n
<1>3. (n + b - 1) \div b \in Nat /\ n <= ((n + b - 1) \div b) * b
  BY <1>1, <1>2, DivisionRoundsUp
<1> QED  BY <1>3 DEF n, b, AssetsForMint, RoundUp
-----------------------------------------------------------------------------
(* The books.                                                              *)

\* The sum over the holders, when one entry changes.
LEMMA HolderSum ==
  ASSUME NEW f \in [Users -> Nat]
  PROVE  /\ SumFunction(f) \in Nat
         /\ \A u \in Users : f[u] <= SumFunction(f)
         /\ \A u \in Users, n \in Nat :
              SumFunction([f EXCEPT ![u] = n]) = SumFunction(f) + (n - f[u])
<1>1. IsFiniteSet(Users)
  BY CSDiemV1Assumption
<1>2. \A g \in [Users -> Nat] : SumFunction(g) = SumFunctionOnSet(g, Users)
  BY SumOfFunction
<1>3. SumFunction(f) \in Nat
  BY <1>1, <1>2, SumIsNatural
<1>4. \A u \in Users : f[u] <= SumFunction(f)
  BY <1>1, <1>2, EntryInSum
<1>5. ASSUME NEW u \in Users, NEW n \in Nat
      PROVE  SumFunction([f EXCEPT ![u] = n]) = SumFunction(f) + (n - f[u])
  <2> DEFINE g == [f EXCEPT ![u] = n]
  <2>1. g \in [Users -> Nat] /\ g[u] = n /\ \A v \in Users \ {u} : g[v] = f[v]
    OBVIOUS
  <2> HIDE DEF g
  <2>2. g[u] \in Int /\ \A v \in Users : f[v] \in Int
    BY <2>1
  <2>3. SumFunctionOnSet(g, Users) = SumFunctionOnSet(f, Users) + (g[u] - f[u])
    BY <1>1, <2>1, <2>2, SumOneChanged
  <2>4. SumFunction(g) = SumFunction(f) + (n - f[u])
    BY <1>2, <2>1, <2>3
  <2> QED  BY <2>4 DEF g
<1> QED  BY <1>3, <1>4, <1>5

\* What every step starts from: nothing is hidden behind totalAssets' zero.
LEMMA Facts ==
  ASSUME IInv
  PROVE  /\ CSTypeOK /\ Owed \in [Users -> Nat]
         /\ Gross \in Nat /\ TotalAssets \in Nat
         /\ TotalAssets = Gross - totalPendingRedemptions
         /\ totalPendingRedemptions = SumFunction(Owed)
         /\ totalSupply = SumFunction(shares)
         /\ \A u \in Users : /\ shares[u] <= totalSupply
                             /\ Owed[u] = redemption[u].assets
                             /\ Owed[u] <= totalPendingRedemptions
<1>1. CSTypeOK /\ RedemptionsBacked
  BY DEF IInv
<1>2. Owed \in [Users -> Nat] /\ \A u \in Users : Owed[u] = redemption[u].assets
  BY <1>1 DEF CSTypeOK, Owed
<1>3. Gross \in Nat /\ totalPendingRedemptions \in Nat /\ Gross >= totalPendingRedemptions
  BY <1>1 DEF CSTypeOK, Gross, RedemptionsBacked
<1>4. TotalAssets \in Nat /\ TotalAssets = Gross - totalPendingRedemptions
  BY <1>3 DEF TotalAssets
<1>5. shares \in [Users -> Nat]
  BY <1>1 DEF CSTypeOK
<1>6. totalPendingRedemptions = SumFunction(Owed) /\ totalSupply = SumFunction(shares)
  BY <1>1 DEF RedemptionsBacked
<1>7. \A u \in Users : shares[u] <= totalSupply /\ Owed[u] <= totalPendingRedemptions
  BY <1>2, <1>5, <1>6, HolderSum
<1> QED  BY <1>1, <1>2, <1>3, <1>4, <1>6, <1>7

\* From what a step does to the books to the invariant after it: the assets of
\* the vault and what it owes keep their distance.
LEMMA Successor ==
  ASSUME CSTypeOK', NEW T \in Nat,
         totalPendingRedemptions' = SumFunction(Owed'), totalSupply' = SumFunction(shares'),
         Gross' = totalPendingRedemptions' + T
  PROVE  IInv' /\ TotalAssets' = T
<1>1. totalPendingRedemptions' \in Nat
  BY DEF CSTypeOK
<1>2. Gross' >= totalPendingRedemptions'
  BY <1>1
<1>3. TotalAssets' = T
  BY <1>1 DEF TotalAssets
<1> QED  BY <1>2, <1>3 DEF IInv, RedemptionsBacked

\* Minting shares and burning them keep the books of the shares.
LEMMA SharesChanged ==
  ASSUME shares \in [Users -> Nat], totalSupply = SumFunction(shares),
         NEW u \in Users, NEW n \in Nat,
         shares' = [shares EXCEPT ![u] = n],
         totalSupply' = totalSupply + (n - shares[u])
  PROVE  /\ shares' \in [Users -> Nat] /\ totalSupply' \in Nat
         /\ totalSupply' = SumFunction(shares')
<1>1. shares' \in [Users -> Nat]
  OBVIOUS
<1>2. SumFunction(shares') = SumFunction(shares) + (n - shares[u])
  BY HolderSum
<1>3. SumFunction(shares') \in Nat
  BY <1>1, HolderSum
<1> QED  BY <1>1, <1>2, <1>3

\* The same for the redemptions.
LEMMA OwedChanged ==
  ASSUME IInv, NEW u \in Users, NEW r \in [assets : Nat, shares : Nat, wait : Nat],
         redemption' = [redemption EXCEPT ![u] = r],
         totalPendingRedemptions' = totalPendingRedemptions + (r.assets - redemption[u].assets)
  PROVE  /\ redemption' \in [Users -> [assets : Nat, shares : Nat, wait : Nat]]
         /\ totalPendingRedemptions' \in Nat
         /\ totalPendingRedemptions' = SumFunction(Owed')
<1>1. redemption \in [Users -> [assets : Nat, shares : Nat, wait : Nat]]
  BY DEF IInv, CSTypeOK
<1>2. redemption' \in [Users -> [assets : Nat, shares : Nat, wait : Nat]]
  BY <1>1
<1>3. Owed' = [Owed EXCEPT ![u] = r.assets]
  BY <1>1 DEF Owed
<1>4. r.assets \in Nat /\ Owed \in [Users -> Nat] /\ Owed[u] = redemption[u].assets
  BY Facts
<1>5. Owed' \in [Users -> Nat]
  BY <1>3, <1>4
<1>6. SumFunction(Owed') = SumFunction(Owed) + (r.assets - Owed[u])
  BY <1>3, <1>4, HolderSum
<1>7. SumFunction(Owed') \in Nat
  BY <1>5, HolderSum
<1> QED  BY <1>2, <1>4, <1>6, <1>7, Facts

\* Asking sDIEM for a withdrawal moves DIEM from staked to queued, and does
\* nothing while one is under way.
LEMMA TryWithdraw ==
  ASSUME CSTypeOK, NEW needed \in Nat, TryWithdrawFromSdiem(needed)
  PROVE  /\ sdiem' \in [staked : Nat, queued : Nat, wait : Nat]
         /\ sdiem'.staked + sdiem'.queued = sdiem.staked + sdiem.queued
         /\ sdiem.queued > 0 => sdiem' = sdiem
<1> DEFINE k == ToRequest(needed, sdiem)
<1>1. /\ liquid \in Nat /\ sdiem.staked \in Nat /\ sdiem.queued \in Nat /\ sdiem.wait \in Nat
      /\ sdiem \in [staked : Nat, queued : Nat, wait : Nat]
  BY DEF CSTypeOK
<1>2. /\ SdiemMinWithdraw \in Nat \ {0} /\ WithdrawalDelay \in Nat
  BY CSDiemV1Assumption
<1>3. k \in Nat /\ k <= sdiem.staked /\ (sdiem.queued > 0 => k = 0)
  BY <1>1, <1>2 DEF ToRequest, Min2
<1>4. sdiem' = IF k = 0 THEN sdiem
               ELSE [staked |-> sdiem.staked - k, queued |-> sdiem.queued + k,
                     wait |-> WithdrawalDelay]
  BY DEF TryWithdrawFromSdiem
<1> HIDE DEF k
<1>5. CASE k = 0
  BY <1>1, <1>4, <1>5
<1>6. CASE k # 0
  BY <1>1, <1>2, <1>3, <1>4, <1>6
<1> QED  BY <1>5, <1>6
-----------------------------------------------------------------------------
(* One lemma per function.                                                 *)

\* Assets that come in without shares for them raise the price.
LEMMA Dearest ==
  ASSUME NEW T \in Nat, NEW more \in Nat, NEW S \in Nat
  PROVE  Dearer(T, S, T + more, S)
<1>1. S + VirtualShares \in Nat
  BY VirtualSharesAssumption
<1>2. more * (S + VirtualShares) \in Nat /\ (T + 1) * (S + VirtualShares) \in Nat
  BY <1>1, ProductNat, T + 1 \in Nat
<1>3. (T + more + 1) * (S + VirtualShares)
        = (T + 1) * (S + VirtualShares) + more * (S + VirtualShares)
  BY <1>1
<1> QED  BY <1>2, <1>3 DEF Dearer

\* A step that leaves the shares and the redemptions alone.
LEMMA OnlyAssets ==
  ASSUME IInv, UNCHANGED <<totalSupply, totalPendingRedemptions>>, Owed' = Owed,
         shares' \in [Users -> Nat], SumFunction(shares') = SumFunction(shares),
         redemption' \in [Users -> [assets : Nat, shares : Nat, wait : Nat]],
         liquid' \in Nat, sdiem' \in [staked : Nat, queued : Nat, wait : Nat],
         NEW more \in Nat, Gross' = Gross + more
  PROVE  IInv' /\ PriceKept
<1>1. CSTypeOK' /\ totalSupply \in Nat /\ totalPendingRedemptions \in Nat
  BY DEF CSTypeOK, IInv
<1>2. Gross' = totalPendingRedemptions' + (TotalAssets + more) /\ TotalAssets + more \in Nat
  <2>1. Gross \in Nat /\ TotalAssets \in Nat /\ TotalAssets = Gross - totalPendingRedemptions
    BY Facts
  <2>2. totalPendingRedemptions' = totalPendingRedemptions /\ Gross' = Gross + more
    OBVIOUS
  <2> QED  BY <1>1, <2>1, <2>2
<1>3. totalPendingRedemptions' = SumFunction(Owed') /\ totalSupply' = SumFunction(shares')
  BY Facts
<1>4. IInv' /\ TotalAssets' = TotalAssets + more
  BY <1>1, <1>2, <1>3, Successor
<1> QED  BY <1>1, <1>4, Facts, Dearest DEF PriceKept

LEMMA DepositStep ==
  ASSUME IInv, NEW u \in Users, NEW assets \in Nat, NEW minted \in Nat,
         DepositDiem(u, assets, minted),
         minted * (TotalAssets + 1) <= assets * (totalSupply + VirtualShares)
  PROVE  IInv' /\ PriceKept
<1>1. /\ shares \in [Users -> Nat] /\ totalSupply \in Nat /\ totalPendingRedemptions \in Nat
      /\ sdiem \in [staked : Nat, queued : Nat, wait : Nat] /\ liquid \in Nat
  BY DEF IInv, CSTypeOK
<1>2. /\ shares' = [shares EXCEPT ![u] = shares[u] + minted]
      /\ totalSupply' = totalSupply + ((shares[u] + minted) - shares[u])
      /\ shares[u] + minted \in Nat
  BY <1>1 DEF DepositDiem, MintTo
<1>3. /\ shares' \in [Users -> Nat] /\ totalSupply' \in Nat
      /\ totalSupply' = SumFunction(shares')
  BY <1>1, <1>2, Facts, SharesChanged
<1>4. /\ sdiem' \in [staked : Nat, queued : Nat, wait : Nat]
      /\ sdiem'.staked = sdiem.staked + assets /\ sdiem'.queued = sdiem.queued
  BY <1>1 DEF DepositDiem, StakedMore
<1>5. UNCHANGED <<redemption, totalPendingRedemptions, liquid>>
  BY DEF DepositDiem, redemptionVars
<1>6. CSTypeOK'
  BY <1>3, <1>4, <1>5 DEF IInv, CSTypeOK
<1>7. Gross' = Gross + assets
  BY <1>1, <1>4, <1>5 DEF Gross
<1>8. Gross' = totalPendingRedemptions' + (TotalAssets + assets) /\ TotalAssets + assets \in Nat
  BY <1>1, <1>5, <1>7, Facts
<1>9. totalPendingRedemptions' = SumFunction(Owed')
  BY <1>5, Facts DEF Owed
<1>10. IInv' /\ TotalAssets' = TotalAssets + assets
  BY <1>3, <1>6, <1>8, <1>9, Successor
<1>11. totalSupply' = totalSupply + minted
  BY DEF DepositDiem, MintTo
<1> QED  BY <1>1, <1>10, <1>11, Facts, MintPrice DEF PriceKept

LEMMA TransferStep ==
  ASSUME IInv, NEW from \in Users, NEW to \in Users, NEW s \in Nat, Transfer(from, to, s)
  PROVE  IInv' /\ PriceKept
<1> DEFINE f == [shares EXCEPT ![from] = shares[from] - s]
<1>1. /\ shares \in [Users -> Nat] /\ liquid \in Nat
      /\ redemption \in [Users -> [assets : Nat, shares : Nat, wait : Nat]]
      /\ sdiem \in [staked : Nat, queued : Nat, wait : Nat]
  BY DEF IInv, CSTypeOK
<1>2. shares[from] - s \in Nat
  BY <1>1 DEF Transfer
<1>3. f \in [Users -> Nat] /\ SumFunction(f) = SumFunction(shares) + ((shares[from] - s) - shares[from])
  BY <1>1, <1>2, HolderSum
<1>4. shares' = [f EXCEPT ![to] = f[to] + s]
  BY DEF Transfer
<1> HIDE DEF f
<1>5. f[to] + s \in Nat
  BY <1>3
<1>6. shares' \in [Users -> Nat] /\ SumFunction(shares') = SumFunction(f) + ((f[to] + s) - f[to])
  BY <1>3, <1>4, <1>5, HolderSum
<1>7. SumFunction(shares) \in Nat /\ shares[from] \in Nat /\ f[to] \in Nat
  BY <1>1, <1>3, HolderSum
<1>8. SumFunction(shares') = SumFunction(shares)
  BY <1>3, <1>6, <1>7
<1>9. UNCHANGED <<totalSupply, redemption, totalPendingRedemptions, liquid, sdiem>>
  BY DEF Transfer, redemptionVars
<1>10. Gross' = Gross + 0 /\ Owed' = Owed
  BY <1>9, Facts DEF Gross, Owed
<1> QED  BY <1>1, <1>6, <1>8, <1>9, <1>10, OnlyAssets

LEMMA DonateStep ==
  ASSUME IInv, NEW u \in Users, NEW amount \in Nat, DonateDiem(u, amount)
  PROVE  IInv' /\ PriceKept
<1>1. /\ shares \in [Users -> Nat] /\ liquid \in Nat
      /\ redemption \in [Users -> [assets : Nat, shares : Nat, wait : Nat]]
      /\ sdiem \in [staked : Nat, queued : Nat, wait : Nat]
  BY DEF IInv, CSTypeOK
<1>2. /\ UNCHANGED <<shares, totalSupply, redemption, totalPendingRedemptions, sdiem>>
      /\ liquid' = liquid + amount
  BY DEF DonateDiem, shareVars, redemptionVars
<1>3. Gross' = Gross + amount /\ Owed' = Owed /\ liquid' \in Nat
  BY <1>1, <1>2 DEF Gross, Owed
<1> QED  BY <1>1, <1>2, <1>3, OnlyAssets

LEMMA RequestRedeemStep ==
  ASSUME IInv, NEW u \in Users, NEW s \in Nat, RequestRedeem(u, s)
  PROVE  IInv' /\ PriceKept
<1> DEFINE assets == ToAssets(s)
           r == [assets |-> redemption[u].assets + assets,
                 shares |-> redemption[u].shares + s, wait |-> WithdrawalDelay]
<1>1. /\ shares \in [Users -> Nat] /\ totalSupply \in Nat /\ totalPendingRedemptions \in Nat
      /\ redemption \in [Users -> [assets : Nat, shares : Nat, wait : Nat]]
      /\ sdiem \in [staked : Nat, queued : Nat, wait : Nat] /\ liquid \in Nat
      /\ WithdrawalDelay \in Nat
  BY CSDiemV1Assumption DEF IInv, CSTypeOK
<1>2. s <= shares[u] /\ s <= totalSupply
  BY <1>1, Facts DEF RequestRedeem
<1>3. /\ assets \in Nat /\ assets <= TotalAssets
      /\ assets * (totalSupply + VirtualShares) <= s * (TotalAssets + 1)
  BY <1>1, <1>2, Facts, AssetsPaid DEF ToAssets
<1>4. /\ totalSupply' = totalSupply - s
      /\ shares' = [shares EXCEPT ![u] = shares[u] - s]
      /\ redemption' = [redemption EXCEPT ![u] = r]
      /\ totalPendingRedemptions' = totalPendingRedemptions + assets
      /\ TryWithdrawFromSdiem(totalPendingRedemptions + assets)
      /\ liquid' = liquid
  BY DEF RequestRedeem
<1> HIDE DEF assets
<1>5. r \in [assets : Nat, shares : Nat, wait : Nat] /\ r.assets = redemption[u].assets + assets
  BY <1>1, <1>3
<1>6. totalPendingRedemptions' = totalPendingRedemptions + (r.assets - redemption[u].assets)
  BY <1>1, <1>3, <1>4, <1>5
<1> HIDE DEF r
<1>7. /\ redemption' \in [Users -> [assets : Nat, shares : Nat, wait : Nat]]
      /\ totalPendingRedemptions' \in Nat
      /\ totalPendingRedemptions' = SumFunction(Owed')
  BY <1>4, <1>5, <1>6, OwedChanged
<1>8. shares[u] - s \in Nat /\ totalSupply' = totalSupply + ((shares[u] - s) - shares[u])
  BY <1>1, <1>2, <1>4
<1>9. /\ shares' \in [Users -> Nat] /\ totalSupply' \in Nat
      /\ totalSupply' = SumFunction(shares')
  BY <1>1, <1>4, <1>8, Facts, SharesChanged
<1>10. /\ sdiem' \in [staked : Nat, queued : Nat, wait : Nat]
       /\ sdiem'.staked + sdiem'.queued = sdiem.staked + sdiem.queued
  BY <1>1, <1>3, <1>4, TryWithdraw, Facts
<1>11. CSTypeOK'
  BY <1>1, <1>4, <1>7, <1>9, <1>10 DEF CSTypeOK
<1>12. Gross' = Gross
  BY <1>1, <1>4, <1>10 DEF Gross
<1>13. TotalAssets - assets \in Nat /\ Gross' = totalPendingRedemptions' + (TotalAssets - assets)
  BY <1>1, <1>3, <1>4, <1>12, Facts
<1>14. IInv' /\ TotalAssets' = TotalAssets - assets
  BY <1>7, <1>9, <1>11, <1>13, Successor
<1>15. Dearer(TotalAssets, totalSupply, TotalAssets - assets, totalSupply - s)
  BY <1>1, <1>3, Facts, BurnPrice
<1> QED  BY <1>4, <1>14, <1>15 DEF PriceKept

LEMMA CompleteRedeemStep ==
  ASSUME IInv, NEW u \in Users, CompleteRedeem(u)
  PROVE  IInv' /\ PriceKept
<1> DEFINE assets == redemption[u].assets
<1>1. /\ shares \in [Users -> Nat] /\ totalSupply \in Nat /\ totalPendingRedemptions \in Nat
      /\ redemption \in [Users -> [assets : Nat, shares : Nat, wait : Nat]]
      /\ sdiem \in [staked : Nat, queued : Nat, wait : Nat] /\ liquid \in Nat
      /\ assets \in Nat
  BY DEF IInv, CSTypeOK
<1>2. PICK payout \in Payouts(assets) :
        /\ liquid + payout >= assets
        /\ liquid' = liquid + payout - assets
        /\ sdiem' = [sdiem EXCEPT !.queued = sdiem.queued - payout]
  BY DEF CompleteRedeem
<1>3. payout \in Nat /\ payout <= sdiem.queued
  BY <1>1, <1>2 DEF Payouts
<1>4. /\ redemption' = [redemption EXCEPT ![u] = NoRedemption]
      /\ totalPendingRedemptions' = totalPendingRedemptions - assets
      /\ UNCHANGED <<shares, totalSupply>>
  BY DEF CompleteRedeem, shareVars
<1>5. NoRedemption \in [assets : Nat, shares : Nat, wait : Nat] /\ NoRedemption.assets = 0
  BY DEF NoRedemption
<1>6. totalPendingRedemptions' = totalPendingRedemptions + (NoRedemption.assets - assets)
  BY <1>1, <1>4, <1>5
<1>7. /\ redemption' \in [Users -> [assets : Nat, shares : Nat, wait : Nat]]
      /\ totalPendingRedemptions' \in Nat
      /\ totalPendingRedemptions' = SumFunction(Owed')
  BY <1>4, <1>5, <1>6, OwedChanged
<1>8. /\ sdiem' \in [staked : Nat, queued : Nat, wait : Nat] /\ liquid' \in Nat
      /\ sdiem'.staked = sdiem.staked /\ sdiem'.queued = sdiem.queued - payout
  BY <1>1, <1>2, <1>3
<1>9. CSTypeOK'
  BY <1>1, <1>4, <1>7, <1>8 DEF CSTypeOK
<1>10. Gross' = Gross - assets
  BY <1>1, <1>2, <1>3, <1>8 DEF Gross
<1>11. Gross' = totalPendingRedemptions' + TotalAssets
  BY <1>1, <1>4, <1>10, Facts
<1>12. IInv' /\ TotalAssets' = TotalAssets
  BY <1>4, <1>7, <1>9, <1>11, Facts, Successor
<1>13. Dearer(TotalAssets, totalSupply, TotalAssets + 0, totalSupply)
  BY <1>1, Facts, Dearest
<1> QED  BY <1>4, <1>12, <1>13, Facts DEF PriceKept

LEMMA CancelRedeemStep ==
  ASSUME IInv, NEW u \in Users, CancelRedeem(u)
  PROVE  IInv' /\ PriceKept
<1> DEFINE assets == redemption[u].assets
           minted == SharesOnCancel(u)
<1>1. /\ shares \in [Users -> Nat] /\ totalSupply \in Nat /\ totalPendingRedemptions \in Nat
      /\ redemption \in [Users -> [assets : Nat, shares : Nat, wait : Nat]]
      /\ sdiem \in [staked : Nat, queued : Nat, wait : Nat] /\ liquid \in Nat
      /\ assets \in Nat /\ redemption[u].shares \in Nat
  BY DEF IInv, CSTypeOK
<1>2. /\ redemption' = [redemption EXCEPT ![u] = NoRedemption]
      /\ totalPendingRedemptions' = totalPendingRedemptions - assets
      /\ shares' = [shares EXCEPT ![u] = shares[u] + minted]
      /\ totalSupply' = totalSupply + minted
      /\ UNCHANGED <<liquid, sdiem>>
  BY DEF CancelRedeem, ClearRedemption, MintTo
<1>3. NoRedemption \in [assets : Nat, shares : Nat, wait : Nat] /\ NoRedemption.assets = 0
  BY DEF NoRedemption
<1>4. totalPendingRedemptions' = totalPendingRedemptions + (NoRedemption.assets - assets)
  BY <1>1, <1>2, <1>3
<1>5. /\ redemption' \in [Users -> [assets : Nat, shares : Nat, wait : Nat]]
      /\ totalPendingRedemptions' \in Nat
      /\ totalPendingRedemptions' = SumFunction(Owed')
  BY <1>2, <1>3, <1>4, OwedChanged
<1>6. TotalAssets + assets \in Nat /\ TotalAssets \in Nat
  BY <1>1, Facts
<1>7. totalSupply # 0 => minted = SharesFor(assets, totalSupply, TotalAssets + assets)
  <2>1. Gross - (totalPendingRedemptions - assets) = TotalAssets + assets
    BY <1>1, Facts
  <2>2. (IF Gross > totalPendingRedemptions - assets
         THEN Gross - (totalPendingRedemptions - assets) ELSE 0) = TotalAssets + assets
    BY <1>1, <1>6, <2>1, Facts
  <2> QED  BY <2>2 DEF SharesOnCancel
<1>8. /\ SharesFor(assets, totalSupply, TotalAssets + assets) \in Nat
      /\ SharesFor(assets, totalSupply, TotalAssets + assets) * (TotalAssets + assets + 1)
           <= assets * (totalSupply + VirtualShares)
  BY <1>1, <1>6, SharesPaid
<1>9. minted \in Nat
  BY <1>1, <1>7, <1>8 DEF SharesOnCancel
<1> HIDE DEF minted
<1>10. /\ shares[u] + minted \in Nat
       /\ totalSupply' = totalSupply + ((shares[u] + minted) - shares[u])
  BY <1>1, <1>2, <1>9
<1>11. /\ shares' \in [Users -> Nat] /\ totalSupply' \in Nat
       /\ totalSupply' = SumFunction(shares')
  BY <1>1, <1>2, <1>10, Facts, SharesChanged
<1>12. CSTypeOK'
  BY <1>1, <1>2, <1>5, <1>11 DEF CSTypeOK
<1>13. Gross' = Gross
  BY <1>2 DEF Gross
<1>14. Gross' = totalPendingRedemptions' + (TotalAssets + assets)
  BY <1>1, <1>2, <1>13, Facts
<1>15. IInv' /\ TotalAssets' = TotalAssets + assets
  BY <1>5, <1>6, <1>11, <1>12, <1>14, Successor
<1>16. ASSUME totalSupply # 0
       PROVE  minted * (TotalAssets + 1) <= assets * (totalSupply + VirtualShares)
  <2>1. minted * (TotalAssets + assets + 1) = minted * (TotalAssets + 1) + minted * assets
    BY <1>1, <1>6, <1>9
  <2>2. minted * assets \in Nat /\ minted * (TotalAssets + 1) \in Nat
    BY <1>1, <1>6, <1>9, ProductNat, TotalAssets + 1 \in Nat
  <2>3. assets * (totalSupply + VirtualShares) \in Nat
    BY <1>1, ProductNat, VirtualSharesAssumption, totalSupply + VirtualShares \in Nat
  <2> QED  BY <1>7, <1>8, <1>16, <2>1, <2>2, <2>3
<1>17. totalSupply # 0 => Dearer(TotalAssets, totalSupply, TotalAssets + assets, totalSupply + minted)
  BY <1>1, <1>6, <1>9, <1>16, MintPrice
<1> QED  BY <1>2, <1>15, <1>17 DEF PriceKept
LEMMA HarvestStep ==
  ASSUME IInv, NEW received \in Nat, Harvest(received)
  PROVE  IInv' /\ PriceKept
<1>1. /\ shares \in [Users -> Nat] /\ liquid \in Nat
      /\ redemption \in [Users -> [assets : Nat, shares : Nat, wait : Nat]]
      /\ sdiem \in [staked : Nat, queued : Nat, wait : Nat]
  BY DEF IInv, CSTypeOK
<1>2. /\ UNCHANGED <<shares, totalSupply, redemption, totalPendingRedemptions, liquid>>
      /\ sdiem' = [sdiem EXCEPT !.staked = sdiem.staked + received]
  BY DEF Harvest, shareVars, redemptionVars, StakedMore
<1>3. /\ sdiem' \in [staked : Nat, queued : Nat, wait : Nat]
      /\ Gross' = Gross + received /\ Owed' = Owed
  BY <1>1, <1>2 DEF Gross, Owed
<1> QED  BY <1>1, <1>2, <1>3, OnlyAssets

LEMMA RedeployStep ==
  ASSUME IInv, RedeployExcess
  PROVE  IInv' /\ PriceKept
<1>1. /\ shares \in [Users -> Nat] /\ liquid \in Nat /\ totalPendingRedemptions \in Nat
      /\ redemption \in [Users -> [assets : Nat, shares : Nat, wait : Nat]]
      /\ sdiem \in [staked : Nat, queued : Nat, wait : Nat]
  BY DEF IInv, CSTypeOK
<1>2. /\ UNCHANGED <<shares, totalSupply, redemption, totalPendingRedemptions>>
      /\ liquid > totalPendingRedemptions /\ liquid' = totalPendingRedemptions
      /\ sdiem' = [sdiem EXCEPT !.staked = sdiem.staked + (liquid - totalPendingRedemptions)]
  BY DEF RedeployExcess, shareVars, redemptionVars, StakedMore
<1>3. /\ sdiem' \in [staked : Nat, queued : Nat, wait : Nat]
      /\ Gross' = Gross + 0 /\ Owed' = Owed
  BY <1>1, <1>2 DEF Gross, Owed
<1> QED  BY <1>1, <1>2, <1>3, OnlyAssets

LEMMA SyncStep ==
  ASSUME IInv, SyncWithdrawals
  PROVE  IInv' /\ PriceKept
<1>1. /\ CSTypeOK /\ shares \in [Users -> Nat] /\ liquid \in Nat
      /\ totalPendingRedemptions \in Nat
      /\ redemption \in [Users -> [assets : Nat, shares : Nat, wait : Nat]]
      /\ sdiem \in [staked : Nat, queued : Nat, wait : Nat]
  BY DEF IInv, CSTypeOK
<1>2. /\ UNCHANGED <<shares, totalSupply, redemption, totalPendingRedemptions, liquid>>
      /\ TryWithdrawFromSdiem(totalPendingRedemptions)
  BY DEF SyncWithdrawals, shareVars, redemptionVars
<1>3. /\ sdiem' \in [staked : Nat, queued : Nat, wait : Nat]
      /\ sdiem'.staked + sdiem'.queued = sdiem.staked + sdiem.queued
  BY <1>1, <1>2, TryWithdraw
<1>4. Gross' = Gross + 0 /\ Owed' = Owed
  BY <1>1, <1>2, <1>3 DEF Gross, Owed
<1> QED  BY <1>1, <1>2, <1>3, <1>4, OnlyAssets

LEMMA TickStep ==
  ASSUME IInv, Tick
  PROVE  IInv' /\ PriceKept
<1>1. /\ shares \in [Users -> Nat] /\ liquid \in Nat
      /\ redemption \in [Users -> [assets : Nat, shares : Nat, wait : Nat]]
      /\ sdiem \in [staked : Nat, queued : Nat, wait : Nat]
  BY DEF IInv, CSTypeOK
<1>2. \A t \in Nat : CountDown(t) \in Nat
  BY DEF CountDown
<1>3. /\ UNCHANGED <<shares, totalSupply, totalPendingRedemptions, liquid>>
      /\ sdiem' = [sdiem EXCEPT !.wait = CountDown(sdiem.wait)]
      /\ redemption' = [u \in Users |->
                          [redemption[u] EXCEPT !.wait = CountDown(redemption[u].wait)]]
  BY DEF Tick, shareVars
<1>4. /\ sdiem' \in [staked : Nat, queued : Nat, wait : Nat]
      /\ sdiem'.staked = sdiem.staked /\ sdiem'.queued = sdiem.queued
  BY <1>1, <1>2, <1>3
<1>5. redemption' \in [Users -> [assets : Nat, shares : Nat, wait : Nat]]
  BY <1>1, <1>2, <1>3
<1>6. \A u \in Users : redemption'[u].assets = redemption[u].assets
  BY <1>1, <1>3
<1>7. Owed' = Owed
  BY <1>6 DEF Owed
<1>8. Gross' = Gross + 0
  BY <1>3, <1>4, Facts DEF Gross
<1> QED  BY <1>1, <1>3, <1>4, <1>5, <1>7, <1>8, OnlyAssets

\* The admin's functions, and a step that changes nothing.
LEMMA BooksUntouched ==
  ASSUME IInv, UNCHANGED <<shareVars, redemptionVars, liquid, sdiem>>
  PROVE  IInv' /\ PriceKept
<1>1. /\ shares \in [Users -> Nat] /\ liquid \in Nat
      /\ redemption \in [Users -> [assets : Nat, shares : Nat, wait : Nat]]
      /\ sdiem \in [staked : Nat, queued : Nat, wait : Nat]
  BY DEF IInv, CSTypeOK
<1>2. UNCHANGED <<shares, totalSupply, redemption, totalPendingRedemptions, liquid, sdiem>>
  BY DEF shareVars, redemptionVars
<1>3. Gross' = Gross + 0 /\ Owed' = Owed
  BY <1>2, Facts DEF Gross, Owed
<1> QED  BY <1>1, <1>2, <1>3, OnlyAssets

\* Every step keeps the invariant and the price.
LEMMA Step ==
  ASSUME IInv, [Next]_vars
  PROVE  IInv' /\ PriceKept
<1>1. /\ Amounts \subseteq Nat /\ ShareAmounts \subseteq Nat /\ Yields \subseteq Nat
      /\ totalSupply \in Nat /\ TotalAssets \in Nat
  BY CSDiemV1Assumption, Facts DEF IInv, CSTypeOK
<1>2. ASSUME NEW u \in Users, NEW amount \in Amounts, Deposit(u, amount)
      PROVE  IInv' /\ PriceKept
  <2>1. /\ ToShares(amount) \in Nat
        /\ ToShares(amount) * (TotalAssets + 1) <= amount * (totalSupply + VirtualShares)
    BY <1>1, SharesPaid DEF ToShares
  <2> QED  BY <1>1, <1>2, <2>1, DepositStep DEF Deposit
<1>3. ASSUME NEW u \in Users, NEW s \in ShareAmounts, MintShares(u, s)
      PROVE  IInv' /\ PriceKept
  <2>1. /\ AssetsForMint(s, totalSupply, TotalAssets) \in Nat
        /\ s * (TotalAssets + 1)
             <= AssetsForMint(s, totalSupply, TotalAssets) * (totalSupply + VirtualShares)
    BY <1>1, MintPaid
  <2> QED  BY <1>1, <1>3, <2>1, DepositStep DEF MintShares
<1>4. ASSUME NEW u \in Users, NEW amount \in Amounts, DonateDiem(u, amount)
      PROVE  IInv' /\ PriceKept
  BY <1>1, <1>4, DonateStep
<1>5. ASSUME NEW u \in Users, NEW s \in ShareAmounts, RequestRedeem(u, s)
      PROVE  IInv' /\ PriceKept
  BY <1>1, <1>5, RequestRedeemStep
<1>6. ASSUME NEW u \in Users, NEW s \in ShareAmounts, NEW to \in Users, Transfer(u, to, s)
      PROVE  IInv' /\ PriceKept
  BY <1>1, <1>6, TransferStep
<1>7. ASSUME NEW u \in Users, UserStep(u)
      PROVE  IInv' /\ PriceKept
  BY <1>2, <1>3, <1>4, <1>5, <1>6, <1>7, CompleteRedeemStep, CancelRedeemStep DEF UserStep
<1>8. ASSUME NEW received \in Yields, Harvest(received)
      PROVE  IInv' /\ PriceKept
  BY <1>1, <1>8, HarvestStep
<1>9. ASSUME NEW m \in Managers, ManagerStep(m)
      PROVE  IInv' /\ PriceKept
  BY <1>9, BooksUntouched DEF ManagerStep, SetPaused, TransferAdmin, AcceptAdmin
<1>10. CASE UNCHANGED vars
  BY <1>10, BooksUntouched DEF vars
<1> QED  BY <1>7, <1>8, <1>9, <1>10, TickStep, RedeployStep, SyncStep DEF Next

LEMMA Start == Init => IInv
<1> SUFFICES ASSUME Init PROVE IInv
  OBVIOUS
<1>1. CSTypeOK
  BY DEF Init, CSTypeOK, NoRedemption
<1>2. \A u \in Users : shares[u] = 0 /\ Owed[u] = 0
  BY DEF Init, Owed, NoRedemption
<1>3. shares \in [Users -> Nat] /\ Owed \in [Users -> Nat]
  BY <1>1 DEF CSTypeOK, Owed
<1>4. SumFunction(shares) = 0 /\ SumFunction(Owed) = 0
  BY <1>2, <1>3, SumOfFunction, SumOfZeros, CSDiemV1Assumption
<1> QED  BY <1>1, <1>4 DEF Init, IInv, RedemptionsBacked, Gross

LEMMA Invariant == Spec => []IInv
<1>1. IInv /\ [Next]_vars => IInv'
  BY Step
<1> QED  BY <1>1, Start, PTL DEF Spec
-----------------------------------------------------------------------------
(* The theorems.                                                           *)

\* Whatever the calls and their order, the DIEM of the vault, in sDIEM and out
\* of it, covers all redemptions that were promised, and the two totals kept by
\* hand are the sums of their entries.
THEOREM Backed == Spec => []RedemptionsBacked
<1>1. IInv => RedemptionsBacked
  BY DEF IInv
<1> QED  BY <1>1, Invariant, PTL

\* A price that has not fallen leaves the rounded worth of a position, too.
LEMMA WorthKept ==
  ASSUME IInv, IInv', PriceKept, NEW u \in Users, shares'[u] >= shares[u]
  PROVE  Worth(u)' >= Worth(u)
<1> DEFINE t == TotalAssets + 1
           b == totalSupply + VirtualShares
           w == TotalAssets' + 1
           d == totalSupply' + VirtualShares
<1>1. /\ totalSupply \in Nat /\ TotalAssets \in Nat /\ shares[u] \in Nat
      /\ shares[u] <= totalSupply
  BY Facts DEF IInv, CSTypeOK
<1>2. totalSupply' \in Nat /\ TotalAssets' \in Nat /\ shares'[u] \in Nat
  <2>1. totalSupply' \in Nat /\ shares' \in [Users -> Nat]
    BY DEF IInv, CSTypeOK
  <2>2. Gross' \in Nat /\ totalPendingRedemptions' \in Nat
    BY DEF IInv, CSTypeOK, Gross
  <2>3. \A g, p \in Nat : (IF g > p THEN g - p ELSE 0) \in Nat
    OBVIOUS
  <2>4. TotalAssets' \in Nat
    BY <2>2, <2>3 DEF TotalAssets
  <2> QED  BY <2>1, <2>4
<1>3. t \in Nat /\ w \in Nat /\ b \in Nat \ {0} /\ d \in Nat \ {0}
  <2>1. \A n \in Nat : n + 1 \in Nat /\ n + VirtualShares \in Nat \ {0}
    BY VirtualSharesAssumption
  <2> QED  BY <1>1, <1>2, <2>1
<1>4. Worth(u) = (shares[u] * t) \div b /\ Worth(u)' = (shares'[u] * w) \div d
  BY DEF Worth, ToAssets, AssetsFor
<1>5. t * d <= w * b \/ shares[u] = 0
  BY <1>1 DEF PriceKept, Dearer
<1> HIDE DEF t, w, b, d
<1>6. (shares[u] * t) \div b <= (shares'[u] * w) \div d
  <2>1. CASE t * d <= w * b
    BY <1>1, <1>2, <1>3, <2>1, ValueMonotone
  <2>2. CASE shares[u] = 0
    <3>1. shares[u] * t = 0 /\ 0 \div b = 0
      BY <1>3, <2>2
    <3>2. shares'[u] * w \in Nat
      BY <1>2, <1>3, ProductNat
    <3>3. (shares'[u] * w) \div d \in Nat
      BY <1>3, <3>2, DivisionRoundsDown
    <3> QED  BY <3>1, <3>3
  <2> QED  BY <1>5, <2>1, <2>2
<1>7. (shares[u] * t) \div b \in Nat /\ (shares'[u] * w) \div d \in Nat
  BY <1>1, <1>2, <1>3, ProductNat, DivisionRoundsDown
<1> QED  BY <1>4, <1>6, <1>7

\* No deposit, mint, redemption, cancellation, harvest or gift makes the shares
\* of a user who gives none up redeem for less.
THEOREM Undiluted == Spec => NobodyDiluted
<1>1. ASSUME IInv, IInv', [Next]_vars
      PROVE  [\A u \in Users : shares'[u] >= shares[u] => Worth(u)' >= Worth(u)]_vars
  BY <1>1, Step, WorthKept
<1> QED  BY <1>1, Invariant, PTL DEF Spec, NobodyDiluted

\* A withdrawal that sDIEM is working on for the vault never starts over.
THEOREM BatchRuns == Spec => BatchNotRestarted
<1>1. ASSUME IInv, [Next]_vars
      PROVE  [sdiem.queued > 0 => sdiem'.wait <= sdiem.wait]_vars
  <2> SUFFICES ASSUME Next, sdiem.queued > 0
               PROVE  sdiem'.wait <= sdiem.wait
    BY <1>1
  <2>1. /\ sdiem \in [staked : Nat, queued : Nat, wait : Nat] /\ CSTypeOK
        /\ totalPendingRedemptions \in Nat /\ totalSupply \in Nat
    BY <1>1 DEF IInv, CSTypeOK
  <2>2. sdiem' = sdiem => sdiem'.wait <= sdiem.wait
    BY <2>1
  <2>3. \A k : sdiem' = StakedMore(k) => sdiem'.wait <= sdiem.wait
    BY <2>1 DEF StakedMore
  <2>4. ASSUME NEW k \in Nat, TryWithdrawFromSdiem(k)
        PROVE  sdiem'.wait <= sdiem.wait
    BY <2>1, <2>2, <2>4, TryWithdraw
  <2>5. ASSUME Tick
        PROVE  sdiem'.wait <= sdiem.wait
    BY <2>1, <2>5 DEF Tick, CountDown
  <2>6. ASSUME NEW u \in Users, UserStep(u)
        PROVE  sdiem'.wait <= sdiem.wait
    <3>1. ASSUME NEW s \in ShareAmounts, RequestRedeem(u, s)
          PROVE  sdiem'.wait <= sdiem.wait
      <4>1. ToAssets(s) \in Nat
        BY <1>1, <2>1, Facts, AssetsPaid, CSDiemV1Assumption DEF ToAssets
      <4> QED  BY <2>1, <2>4, <3>1, <4>1 DEF RequestRedeem
    <3>2. ASSUME CompleteRedeem(u)
          PROVE  sdiem'.wait <= sdiem.wait
      BY <2>1, <3>2 DEF CompleteRedeem
    <3>3. ASSUME NEW amount, Deposit(u, amount) \/ DonateDiem(u, amount) \/ MintShares(u, amount)
          PROVE  sdiem'.wait <= sdiem.wait
      BY <2>2, <2>3, <3>3 DEF Deposit, MintShares, DepositDiem, DonateDiem
    <3>4. ASSUME NEW to, NEW s, Transfer(u, to, s) \/ CancelRedeem(u)
          PROVE  sdiem'.wait <= sdiem.wait
      BY <2>2, <3>4 DEF Transfer, CancelRedeem
    <3> QED  BY <2>6, <3>1, <3>2, <3>3, <3>4 DEF UserStep
  <2>7. ASSUME NEW received, Harvest(received) \/ RedeployExcess
        PROVE  sdiem'.wait <= sdiem.wait
    BY <2>3, <2>7 DEF Harvest, RedeployExcess
  <2>8. SyncWithdrawals => sdiem'.wait <= sdiem.wait
    BY <2>1, <2>4 DEF SyncWithdrawals
  <2>9. ASSUME NEW m \in Managers, ManagerStep(m)
        PROVE  sdiem'.wait <= sdiem.wait
    BY <2>2, <2>9 DEF ManagerStep, SetPaused, TransferAdmin, AcceptAdmin
  <2> QED  BY <2>5, <2>6, <2>7, <2>8, <2>9 DEF Next
<1> QED  BY <1>1, Invariant, PTL DEF Spec, BatchNotRestarted
=============================================================================
