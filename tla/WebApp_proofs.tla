--------------------------- MODULE WebApp_proofs -----------------------------
(***************************************************************************)
(* NobodyDiluted, FairPurchase and SoldAboveFloor of csDIEMv2 on top of    *)
(* sDIEMv2, for any holders, amounts, quotes and settings.                 *)
(*                                                                         *)
(* The invariant is sDIEM's own (DiemInv and the types of its rewards,     *)
(* from SDiem_proofs, whose lemmas on stake, transfer and claim also cover *)
(* the calls the vault makes) and the books of the shares.  NobodyDiluted  *)
(* follows, as for the first csDIEM, from the price of a share not falling *)
(* before it is rounded (PriceKept); FairPurchase from rounding losing     *)
(* less than one unit of what is divided by.                               *)
(*                                                                         *)
(* Then StatusAgrees and DelayNotRestarted of the pool page, which runs    *)
(* against these contracts, for any holders, amounts and delays.           *)
(*                                                                         *)
(* Last FeesExact and AprExact, of the fees page and the yields, for any   *)
(* lengths of day, window and block.  The theorems on the page's functions *)
(* are about any distributions, staking events, prices and reward periods: *)
(* a loop's state is given as a function of the day (PointOf, CloseOf,     *)
(* PriceOn), which the next turn preserves, and compared with the sum over *)
(* the events of the window; a yield is bounded by what is lost in each of *)
(* its divisions.                                                          *)
(***************************************************************************)
EXTENDS WebApp, SDiem_proofs

SharesOK ==
  /\ shares \in [Holders -> Nat] /\ shareSupply \in Nat
  /\ shareSupply = SumFunction(shares)

VaultInv == DiemInv /\ RewardTypeOK /\ SharesOK

\* The price (total + 1) / (supply + VirtualShares) has not fallen.
Dearer(total, supply, newTotal, newSupply) ==
  (total + 1) * (newSupply + VirtualShares) <= (newTotal + 1) * (supply + VirtualShares)

PriceKept == Dearer(TotalAssets, shareSupply, TotalAssets', shareSupply')

Spent(u) == wallet[u] + balanceOf[u] - (wallet[u] + balanceOf[u])'
Bought(u) == shares'[u] - shares[u]
Price(s) == s * (TotalAssets' + 1)
Value(a) == a * (shareSupply' + VirtualShares)

\* FairPurchase, of one holder and one step.
Fair(u) ==
  Bought(u) > 0 => \/ Price(Bought(u) + 1) > Value(Spent(u))
                   \/ Price(Bought(u)) > Value(Spent(u) - 1)

\* SoldAboveFloor, of one step.
Floored ==
  claimed'[Vault] > claimed[Vault]
    => (TotalAssets' - TotalAssets + 1) * OneUsdc
         > (claimed'[Vault] - claimed[Vault]) * MinDiemPerUsdc

\* What every step is shown to do.
Kept == VaultInv' /\ PriceKept /\ Floored /\ \A u \in Holders : Fair(u)
-----------------------------------------------------------------------------
(* The arithmetic of the shares.                                           *)

\* Shares that are paid for leave the price at least where it was.
LEMMA MintPrice ==
  ASSUME NEW T \in Nat, NEW S \in Nat, NEW assets \in Nat, NEW minted \in Nat,
         minted * (T + 1) <= assets * (S + VirtualShares)
  PROVE  Dearer(T, S, T + assets, S + minted)
<1>1. VirtualShares \in Nat
  BY VirtualSharesAssumption
<1>2. (T + 1) * (S + minted + VirtualShares)
        = (T + 1) * (S + VirtualShares) + minted * (T + 1)
  BY <1>1
<1>3. (T + assets + 1) * (S + VirtualShares)
        = (T + 1) * (S + VirtualShares) + assets * (S + VirtualShares)
  BY <1>1
<1> QED  BY <1>1, <1>2, <1>3 DEF Dearer

\* So do shares that are burned for no more than they are worth.
LEMMA BurnPrice ==
  ASSUME NEW T \in Nat, NEW S \in Nat, NEW assets \in Nat, NEW s \in Nat,
         assets * (S + VirtualShares) <= s * (T + 1)
  PROVE  Dearer(T, S, T - assets, S - s)
<1>1. VirtualShares \in Nat
  BY VirtualSharesAssumption
<1>2. (T + 1) * (S - s + VirtualShares)
        = (T + 1) * (S + VirtualShares) - s * (T + 1)
  BY <1>1
<1>3. (T - assets + 1) * (S + VirtualShares)
        = (T + 1) * (S + VirtualShares) - assets * (S + VirtualShares)
  BY <1>1
<1> QED  BY <1>1, <1>2, <1>3 DEF Dearer

\* deposit and depositDIEM: the shares are paid for, and one more would not be.
LEMMA DepositTerms ==
  ASSUME NEW T \in Nat, NEW S \in Nat, NEW a \in Nat, NEW s, s = SharesFor(a, S, T)
  PROVE  /\ s \in Nat /\ s * (T + 1) <= a * (S + VirtualShares)
         /\ (s + 1) * (T + a + 1) > a * (S + s + VirtualShares)
<1> DEFINE n == a * (S + VirtualShares)
           b == T + 1
<1>1. VirtualShares \in Nat /\ b \in Nat \ {0}
  BY VirtualSharesAssumption
<1>2. n \in Nat
  BY <1>1, ProductNat
<1> HIDE DEF n, b
<1>3. s \in Nat /\ s * b <= n /\ s * b \in Nat /\ s * b + b > n
  <2>1. s = n \div b
    BY DEF SharesFor, n, b
  <2> QED  BY <1>1, <1>2, <2>1, DivisionRoundsDown, RemainderBelow
<1>4. (s + 1) * (T + a + 1) = s * b + b + (a * s + a)
  BY <1>3 DEF b
<1>5. a * (S + s + VirtualShares) = n + a * s
  BY <1>1, <1>3 DEF n
<1>6. a * s \in Nat
  BY <1>3, ProductNat
<1>7. (s + 1) * (T + a + 1) > a * (S + s + VirtualShares)
  BY <1>1, <1>2, <1>3, <1>4, <1>5, <1>6
<1> QED  BY <1>3, <1>7 DEF n, b

\* mint: the shares are paid for, and one unit less would not do.
LEMMA MintTerms ==
  ASSUME NEW T \in Nat, NEW S \in Nat, NEW s \in Nat, NEW a, a = AssetsForMint(s, S, T)
  PROVE  /\ a \in Nat /\ s * (T + 1) <= a * (S + VirtualShares)
         /\ s > 0 => s * (T + a + 1) > (a - 1) * (S + s + VirtualShares)
<1> DEFINE n == s * (T + 1)
           b == S + VirtualShares
<1>1. VirtualShares \in Nat /\ b \in Nat \ {0}
  BY VirtualSharesAssumption
<1>2. n \in Nat
  BY ProductNat, T + 1 \in Nat
<1> HIDE DEF n, b
<1>3. a \in Nat /\ n <= a * b /\ a * b < n + b
  <2>1. a = (n + b - 1) \div b
    BY DEF AssetsForMint, RoundUp, n, b
  <2> QED  BY <1>1, <1>2, <2>1, DivisionRoundsUp
<1>4. s * (T + a + 1) = n + a * s
  BY <1>3 DEF n
<1>5. (a - 1) * (S + s + VirtualShares) = a * b - b + (a * s - s)
  BY <1>1, <1>3 DEF b
<1>6. a * s \in Nat /\ a * b \in Nat
  BY <1>1, <1>3, ProductNat
<1>7. s > 0 => s * (T + a + 1) > (a - 1) * (S + s + VirtualShares)
  BY <1>1, <1>2, <1>3, <1>4, <1>5, <1>6
<1> QED  BY <1>3, <1>7 DEF n, b

\* redeem: no more assets than the shares are worth.
LEMMA RedeemTerms ==
  ASSUME NEW T \in Nat, NEW S \in Nat, NEW s \in Nat, NEW a, a = AssetsFor(s, S, T)
  PROVE  a \in Nat /\ a * (S + VirtualShares) <= s * (T + 1)
<1>1. S + VirtualShares \in Nat \ {0}
  BY VirtualSharesAssumption
<1>2. s * (T + 1) \in Nat
  BY ProductNat, T + 1 \in Nat
<1> QED  BY <1>1, <1>2, DivisionRoundsDown DEF AssetsFor

\* withdraw: no fewer shares than the assets are worth.
LEMMA WithdrawTerms ==
  ASSUME NEW T \in Nat, NEW S \in Nat, NEW a \in Nat, NEW s, s = SharesForWithdraw(a, S, T)
  PROVE  s \in Nat /\ a * (S + VirtualShares) <= s * (T + 1)
<1>1. T + 1 \in Nat \ {0} /\ S + VirtualShares \in Nat
  BY VirtualSharesAssumption
<1>2. a * (S + VirtualShares) \in Nat
  BY <1>1, ProductNat
<1> QED  BY <1>1, <1>2, DivisionRoundsUp DEF SharesForWithdraw, RoundUp
-----------------------------------------------------------------------------
(* The books.                                                              *)

\* The sum over the holders, when one entry changes.
LEMMA HolderSum ==
  ASSUME NEW f \in [Holders -> Nat]
  PROVE  /\ SumFunction(f) \in Nat
         /\ \A u \in Holders : f[u] <= SumFunction(f)
         /\ \A u \in Holders, n \in Nat :
              SumFunction([f EXCEPT ![u] = n]) = SumFunction(f) + (n - f[u])
<1>1. IsFiniteSet(Holders)
  BY UsersAssumption, FS_Subset DEF Holders
<1>2. \A g \in [Holders -> Nat] : SumFunction(g) = SumFunctionOnSet(g, Holders)
  BY SumOfFunction
<1>3. SumFunction(f) \in Nat
  BY <1>1, <1>2, SumIsNatural
<1>4. \A u \in Holders : f[u] <= SumFunction(f)
  BY <1>1, <1>2, EntryInSum
<1>5. ASSUME NEW u \in Holders, NEW n \in Nat
      PROVE  SumFunction([f EXCEPT ![u] = n]) = SumFunction(f) + (n - f[u])
  <2> DEFINE g == [f EXCEPT ![u] = n]
  <2>1. g \in [Holders -> Nat] /\ g[u] = n /\ \A v \in Holders \ {u} : g[v] = f[v]
    OBVIOUS
  <2> HIDE DEF g
  <2>2. g[u] \in Int /\ \A v \in Holders : f[v] \in Int
    BY <2>1
  <2>3. SumFunctionOnSet(g, Holders) = SumFunctionOnSet(f, Holders) + (g[u] - f[u])
    BY <1>1, <2>1, <2>2, SumOneChanged
  <2>4. SumFunction(g) = SumFunction(f) + (n - f[u])
    BY <1>2, <2>1, <2>3
  <2> QED  BY <2>4 DEF g
<1> QED  BY <1>3, <1>4, <1>5

\* What every step starts from.
LEMMA Facts ==
  ASSUME VaultInv
  PROVE  /\ DiemInv /\ DiemTypeOK /\ RewardTypeOK
         /\ TotalAssets \in Nat /\ shareSupply \in Nat
         /\ shares \in [Holders -> Nat] /\ shareSupply = SumFunction(shares)
         /\ \A u \in Holders : shares[u] <= shareSupply
         /\ Vault \in Users /\ Holders \subseteq Users /\ Vault \notin Holders
<1>1. DiemInv /\ DiemTypeOK /\ RewardTypeOK /\ SharesOK
  BY DEF VaultInv, DiemInv
<1>2. Vault \in Users /\ Holders \subseteq Users /\ Vault \notin Holders
  BY VaultAssumption DEF Holders
<1>3. TotalAssets \in Nat
  BY <1>1, <1>2 DEF TotalAssets, DiemTypeOK
<1>4. \A u \in Holders : shares[u] <= shareSupply
  BY <1>1, HolderSum DEF SharesOK
<1> QED  BY <1>1, <1>2, <1>3, <1>4 DEF SharesOK

\* Minting and burning keep the books, and change one holder's entry.
LEMMA SharesChanged ==
  ASSUME VaultInv, NEW u \in Holders, NEW n \in Nat,
         shares' = [shares EXCEPT ![u] = n], shareSupply' = shareSupply + (n - shares[u])
  PROVE  /\ SharesOK' /\ shares'[u] = n
         /\ \A v \in Holders \ {u} : shares'[v] = shares[v]
<1>1. shares \in [Holders -> Nat] /\ shareSupply = SumFunction(shares)
  BY Facts
<1>2. shares' \in [Holders -> Nat]
  BY <1>1
<1>3. SumFunction(shares') = SumFunction(shares) + (n - shares[u])
  BY <1>1, HolderSum
<1>4. SumFunction(shares') \in Nat
  BY <1>2, HolderSum
<1> QED  BY <1>1, <1>2, <1>3, <1>4 DEF SharesOK

\* Nobody who got no shares has bought any.
LEMMA NothingBought ==
  ASSUME VaultInv, NEW u \in Holders, shares'[u] = shares[u]
  PROVE  Fair(u)
<1>1. Bought(u) = 0
  BY Facts DEF Bought
<1> QED  BY <1>1 DEF Fair

\* Shares issued for assets that come in.
LEMMA Issued ==
  ASSUME VaultInv, NEW u \in Holders, NEW a \in Nat, NEW s \in Nat,
         DiemInv', RewardTypeOK', MintVaultShares(u, s),
         TotalAssets' = TotalAssets + a, Spent(u) = a, claimed' = claimed,
         s * (TotalAssets + 1) <= a * (shareSupply + VirtualShares),
         \/ (s + 1) * (TotalAssets + a + 1) > a * (shareSupply + s + VirtualShares)
         \/ s > 0 => s * (TotalAssets + a + 1) > (a - 1) * (shareSupply + s + VirtualShares)
  PROVE  Kept
<1>1. /\ shareSupply \in Nat /\ TotalAssets \in Nat /\ shares \in [Holders -> Nat]
      /\ shares[u] \in Nat
  BY Facts
<1>2. /\ shares' = [shares EXCEPT ![u] = shares[u] + s]
      /\ shareSupply' = shareSupply + s
      /\ shares[u] + s \in Nat /\ s = (shares[u] + s) - shares[u]
  BY <1>1 DEF MintVaultShares
<1>3. /\ SharesOK' /\ shares'[u] = shares[u] + s
      /\ \A v \in Holders \ {u} : shares'[v] = shares[v]
  BY <1>2, SharesChanged
<1>4. PriceKept
  BY <1>1, <1>2, MintPrice DEF PriceKept
<1>5. Floored
  BY Facts, ProductNat DEF Floored, RewardTypeOK
<1>6. Fair(u)
  <2>1. Bought(u) = s
    BY <1>1, <1>3 DEF Bought
  <2> QED  BY <1>2, <2>1 DEF Fair, Price, Value
<1>7. \A v \in Holders : Fair(v)
  BY <1>3, <1>6, NothingBought
<1> QED  BY <1>3, <1>4, <1>5, <1>7 DEF Kept, VaultInv

\* Shares burned for assets that go out.
LEMMA Retired ==
  ASSUME VaultInv, NEW u \in Holders, NEW a \in Nat, NEW s \in Nat,
         DiemInv', RewardTypeOK', BurnVaultShares(u, s),
         TotalAssets' = TotalAssets - a, claimed' = claimed,
         a * (shareSupply + VirtualShares) <= s * (TotalAssets + 1)
  PROVE  Kept
<1>1. /\ shareSupply \in Nat /\ TotalAssets \in Nat /\ shares \in [Holders -> Nat]
      /\ shares[u] \in Nat
  BY Facts
<1>2. /\ shares' = [shares EXCEPT ![u] = shares[u] - s]
      /\ shareSupply' = shareSupply + ((shares[u] - s) - shares[u])
      /\ shareSupply' = shareSupply - s /\ shares[u] - s \in Nat
  BY <1>1 DEF BurnVaultShares
<1>3. /\ SharesOK' /\ shares'[u] = shares[u] - s
      /\ \A v \in Holders \ {u} : shares'[v] = shares[v]
  BY <1>2, SharesChanged
<1>4. PriceKept
  BY <1>1, <1>2, BurnPrice DEF PriceKept
<1>5. Floored
  BY Facts DEF Floored, RewardTypeOK
<1>6. Fair(u)
  BY <1>1, <1>3 DEF Fair, Bought
<1>7. \A v \in Holders : Fair(v)
  BY <1>3, <1>6, NothingBought
<1> QED  BY <1>3, <1>4, <1>5, <1>7 DEF Kept, VaultInv

\* Assets that come in for no shares at all.
LEMMA Given ==
  ASSUME VaultInv, NEW a \in Nat, DiemInv', RewardTypeOK',
         UNCHANGED <<shares, shareSupply>>, TotalAssets' = TotalAssets + a, Floored
  PROVE  Kept
<1>1. shareSupply \in Nat /\ TotalAssets \in Nat /\ SharesOK'
  BY Facts DEF VaultInv, SharesOK
<1>2. PriceKept
  <2>1. 0 * (TotalAssets + 1) <= a * (shareSupply + VirtualShares)
    BY <1>1, VirtualSharesAssumption, ProductNat
  <2>2. shareSupply' = shareSupply + 0
    BY <1>1
  <2> QED  BY <1>1, <2>1, <2>2, MintPrice DEF PriceKept
<1> QED  BY <1>1, <1>2, NothingBought DEF Kept, VaultInv
-----------------------------------------------------------------------------
(* One lemma per operation.                                                *)

\* An sDIEM transfer between a holder and the vault.
LEMMA TransferEffect ==
  ASSUME VaultInv, NEW from \in Users, NEW to \in Users, from # to, NEW a \in Nat,
         Transfer(from, to, a)
  PROVE  /\ DiemInv' /\ RewardTypeOK' /\ claimed' = claimed /\ wallet' = wallet
         /\ a <= balanceOf[from] /\ balanceOf'[from] = balanceOf[from] - a
         /\ balanceOf'[to] = balanceOf[to] + a
<1>1. DiemInv' /\ RewardTypeOK'
  <2>1. CheckpointGlobal /\ CheckpointUsers({from, to}) /\ UNCHANGED <<periodVars, usdcVars>>
    BY DEF Transfer
  <2> QED  BY <2>1, Facts, TransferStep, CheckpointTypes
<1>2. balanceOf \in [Users -> Nat]
  BY Facts DEF DiemTypeOK
<1>3. /\ balanceOf'[from] = balanceOf[from] - a /\ balanceOf'[to] = balanceOf[to] + a
      /\ a <= balanceOf[from]
  BY <1>2 DEF Transfer, MoveShares
<1> QED  BY <1>1, <1>3 DEF Transfer, diemVars, usdcVars

\* What a holder pays in.
LEMMA PaidIn ==
  ASSUME VaultInv, NEW u \in Holders, NEW a \in Nat, Transfer(u, Vault, a)
  PROVE  /\ DiemInv' /\ RewardTypeOK' /\ claimed' = claimed
         /\ TotalAssets' = TotalAssets + a /\ Spent(u) = a
<1>1. u \in Users /\ u # Vault /\ Vault \in Users
  BY Facts
<1>2. balanceOf \in [Users -> Nat] /\ wallet \in [Users -> Nat]
  BY Facts DEF DiemTypeOK
<1>3. /\ balanceOf'[u] = balanceOf[u] - a /\ wallet' = wallet
      /\ balanceOf'[Vault] = balanceOf[Vault] + a
      /\ DiemInv' /\ RewardTypeOK' /\ claimed' = claimed
  BY <1>1, TransferEffect
<1>4. wallet[u] + balanceOf[u] - (wallet[u] + (balanceOf[u] - a)) = a
  BY <1>1, <1>2
<1> QED  BY <1>3, <1>4 DEF TotalAssets, Spent

LEMMA DepositSdiemStep ==
  ASSUME VaultInv, NEW u \in Holders, NEW a \in Nat, DepositSdiem(u, a)
  PROVE  Kept
<1>1. TotalAssets \in Nat /\ shareSupply \in Nat
  BY Facts
<1>2. PICK s : s = ToShares(a)
  OBVIOUS
<1>3. /\ s \in Nat /\ s * (TotalAssets + 1) <= a * (shareSupply + VirtualShares)
      /\ (s + 1) * (TotalAssets + a + 1) > a * (shareSupply + s + VirtualShares)
  BY <1>1, <1>2, DepositTerms DEF ToShares
<1>4. Transfer(u, Vault, a) /\ MintVaultShares(u, s)
  BY <1>2 DEF DepositSdiem
<1> QED  BY <1>3, <1>4, PaidIn, Issued

LEMMA MintForSdiemStep ==
  ASSUME VaultInv, NEW u \in Holders, NEW s \in Nat, MintForSdiem(u, s)
  PROVE  Kept
<1>1. TotalAssets \in Nat /\ shareSupply \in Nat
  BY Facts
<1>2. PICK a : a = AssetsForMint(s, shareSupply, TotalAssets)
  OBVIOUS
<1>3. /\ a \in Nat /\ s * (TotalAssets + 1) <= a * (shareSupply + VirtualShares)
      /\ s > 0 => s * (TotalAssets + a + 1) > (a - 1) * (shareSupply + s + VirtualShares)
  BY <1>1, <1>2, MintTerms
<1>4. Transfer(u, Vault, a) /\ MintVaultShares(u, s)
  BY <1>2 DEF MintForSdiem
<1> QED  BY <1>3, <1>4, PaidIn, Issued

LEMMA RedeemStep ==
  ASSUME VaultInv, NEW u \in Holders, NEW s \in Nat, Redeem(u, s)
  PROVE  Kept
<1>1. TotalAssets \in Nat /\ shareSupply \in Nat /\ u \in Users /\ Vault \in Users /\ u # Vault
  BY Facts
<1>2. PICK a : a = ToAssets(s)
  OBVIOUS
<1>3. a \in Nat /\ a * (shareSupply + VirtualShares) <= s * (TotalAssets + 1)
  BY <1>1, <1>2, RedeemTerms DEF ToAssets
<1>4. Transfer(Vault, u, a) /\ BurnVaultShares(u, s)
  BY <1>2 DEF Redeem
<1>5. DiemInv' /\ RewardTypeOK' /\ claimed' = claimed /\ TotalAssets' = TotalAssets - a
  BY <1>1, <1>3, <1>4, TransferEffect DEF TotalAssets
<1> QED  BY <1>3, <1>4, <1>5, Retired

LEMMA WithdrawSdiemStep ==
  ASSUME VaultInv, NEW u \in Holders, NEW a \in Nat, WithdrawSdiem(u, a)
  PROVE  Kept
<1>1. TotalAssets \in Nat /\ shareSupply \in Nat /\ u \in Users /\ Vault \in Users /\ u # Vault
  BY Facts
<1>2. PICK s : s = SharesForWithdraw(a, shareSupply, TotalAssets)
  OBVIOUS
<1>3. s \in Nat /\ a * (shareSupply + VirtualShares) <= s * (TotalAssets + 1)
  BY <1>1, <1>2, WithdrawTerms
<1>4. Transfer(Vault, u, a) /\ BurnVaultShares(u, s)
  BY <1>2 DEF WithdrawSdiem
<1>5. DiemInv' /\ RewardTypeOK' /\ claimed' = claimed /\ TotalAssets' = TotalAssets - a
  BY <1>1, <1>4, TransferEffect DEF TotalAssets
<1> QED  BY <1>3, <1>4, <1>5, Retired

LEMMA TransferSharesStep ==
  ASSUME VaultInv, NEW from \in Holders, NEW to \in Holders, NEW s \in Nat,
         TransferShares(from, to, s)
  PROVE  Kept
<1> DEFINE f == [shares EXCEPT ![from] = shares[from] - s]
<1>1. /\ shares \in [Holders -> Nat] /\ shareSupply \in Nat /\ TotalAssets \in Nat
      /\ shareSupply = SumFunction(shares) /\ Holders \subseteq Users /\ DiemInv /\ RewardTypeOK
  BY Facts
<1>2. shares[from] - s \in Nat /\ from # to
  BY <1>1 DEF TransferShares
<1>3. f \in [Holders -> Nat] /\ SumFunction(f) = SumFunction(shares) + ((shares[from] - s) - shares[from])
  BY <1>1, <1>2, HolderSum
<1>4. shares' = [f EXCEPT ![to] = f[to] + s] /\ f[to] = shares[to]
  BY <1>1, <1>2 DEF TransferShares
<1>5. \A u \in Holders : shares'[u] = IF u = from THEN shares[from] - s
                                      ELSE IF u = to THEN shares[to] + s ELSE shares[u]
  BY <1>1, <1>2 DEF TransferShares
<1> HIDE DEF f
<1>6. f[to] + s \in Nat
  BY <1>3
<1>7. shares' \in [Holders -> Nat] /\ SumFunction(shares') = SumFunction(f) + ((f[to] + s) - f[to])
  BY <1>3, <1>4, <1>6, HolderSum
<1>8. shares[from] \in Nat /\ f[to] \in Nat /\ SumFunction(shares') = SumFunction(shares)
  BY <1>1, <1>3, <1>7, HolderSum
<1>9. UNCHANGED <<vars, shareSupply>>
  BY DEF TransferShares
<1>10. VaultInv'
  <2>1. DiemInv' /\ RewardTypeOK'
    BY <1>1, <1>9, DiemUnchanged, RewardUnchanged DEF vars
  <2> QED  BY <1>1, <1>7, <1>8, <1>9, <2>1 DEF VaultInv, SharesOK
<1>11. TotalAssets' = TotalAssets /\ claimed' = claimed /\ \A u \in Holders : Spent(u) = 0
  <2>1. balanceOf \in [Users -> Nat] /\ wallet \in [Users -> Nat]
    BY Facts DEF DiemTypeOK
  <2>2. balanceOf' = balanceOf /\ wallet' = wallet /\ claimed' = claimed
    BY <1>9 DEF vars, shareVars, diemVars, usdcVars
  <2>3. \A m, n \in Nat : m + n - (m + n) = 0
    OBVIOUS
  <2> QED  BY <1>1, <2>1, <2>2, <2>3 DEF TotalAssets, Spent
<1>12. PriceKept
  BY <1>1, <1>9, <1>11, VirtualSharesAssumption DEF PriceKept, Dearer
<1>13. Floored
  BY <1>11, Facts DEF Floored, RewardTypeOK
<1>14. ASSUME NEW u \in Holders PROVE Fair(u)
  <2>1. CASE Bought(u) > 0
    <3>1. Bought(u) \in Nat
      BY <1>1, <1>7, <2>1 DEF Bought
    <3>2. Price(Bought(u) + 1) > 0
      <4>1. \A m, n \in Nat : (m + 1) * (n + 1) > 0
        <5> SUFFICES ASSUME NEW m \in Nat, NEW n \in Nat PROVE (m + 1) * (n + 1) > 0
          OBVIOUS
        <5>1. (m + 1) * (n + 1) = m * n + m + n + 1 /\ m * n \in Nat
          BY ProductNat
        <5> QED  BY <5>1
      <4> QED  BY <1>1, <1>11, <3>1, <4>1 DEF Price
    <3>3. Value(Spent(u)) = 0
      BY <1>1, <1>9, <1>11, VirtualSharesAssumption DEF Value
    <3> QED  BY <3>2, <3>3 DEF Fair
  <2> QED  BY <2>1 DEF Fair
<1> QED  BY <1>10, <1>12, <1>13, <1>14 DEF Kept

\* depositDIEM: the holder's DIEM, staked by the vault.
LEMMA DepositDIEMStep ==
  ASSUME VaultInv, NEW u \in Holders, NEW a \in Nat, DepositDIEM(u, a)
  PROVE  Kept
<1>1. /\ TotalAssets \in Nat /\ shareSupply \in Nat
      /\ u \in Users /\ Vault \in Users /\ u # Vault /\ DiemInv /\ DiemTypeOK /\ RewardTypeOK
  BY Facts
<1>2. PICK s : s = ZapShares(a)
  OBVIOUS
<1>3. /\ s \in Nat /\ s * (TotalAssets + 1) <= a * (shareSupply + VirtualShares)
      /\ (s + 1) * (TotalAssets + a + 1) > a * (shareSupply + s + VirtualShares)
  BY <1>1, <1>2, DepositTerms DEF ZapShares
<1>4. /\ a <= wallet[u] /\ wallet' = [wallet EXCEPT ![u] = @ - a]
      /\ CheckpointGlobal /\ CheckpointUsers({Vault})
      /\ balanceOf' = [balanceOf EXCEPT ![Vault] = @ + a]
      /\ totalSupply' = totalSupply + a /\ pool' = Stake(Receive(pool, a), a)
      /\ MintVaultShares(u, s)
      /\ UNCHANGED <<donated, queueVars, periodVars, usdcVars>>
  BY <1>2 DEF DepositDIEM, StakeForVault
<1>5. balanceOf \in [Users -> Nat] /\ wallet \in [Users -> Nat]
  BY <1>1 DEF DiemTypeOK
<1>6. DiemInv'
  <2>1. wallet' \in [Users -> Nat]
    BY <1>1, <1>4, <1>5
  <2> QED  BY <1>1, <1>4, <2>1, DiemStaked
<1>7. RewardTypeOK' /\ claimed' = claimed
  BY <1>1, <1>4, CheckpointTypes DEF usdcVars
<1>8. /\ balanceOf'[Vault] = balanceOf[Vault] + a /\ balanceOf'[u] = balanceOf[u]
      /\ wallet'[u] = wallet[u] - a
  BY <1>1, <1>4, <1>5
<1>9. TotalAssets' = TotalAssets + a /\ Spent(u) = a
  BY <1>1, <1>5, <1>8 DEF TotalAssets, Spent
<1> QED  BY <1>3, <1>4, <1>6, <1>7, <1>9, Issued

\* harvest: the vault's USDC, sold at the floor or above it.
LEMMA HarvestStep ==
  ASSUME VaultInv, NEW received \in Nat, Harvest(received)
  PROVE  Kept
<1>1. TotalAssets \in Nat /\ Vault \in Users /\ DiemInv /\ DiemTypeOK /\ RewardTypeOK
  BY Facts
<1>2. /\ CheckpointGlobal /\ PayReward(Vault, TRUE)
      /\ balanceOf' = [balanceOf EXCEPT ![Vault] = @ + received]
      /\ totalSupply' = totalSupply + received
      /\ pool' = Stake(Receive(pool, received), received)
      /\ UNCHANGED <<wallet, donated, queueVars, periodVars, shares, shareSupply>>
  BY DEF Harvest, StakeForVault, vaultVars
<1>3. DiemInv'
  <2>1. wallet' \in [Users -> Nat]
    BY <1>1, <1>2 DEF DiemTypeOK
  <2> QED  BY <1>1, <1>2, <2>1, DiemStaked
<1>4. RewardTypeOK'
  BY <1>1, <1>2, ClaimTypes
<1>5. TotalAssets' = TotalAssets + received
  BY <1>1, <1>2 DEF TotalAssets, DiemTypeOK
<1>6. /\ Earned(Vault) \in Nat /\ claimed[Vault] \in Nat
      /\ claimed'[Vault] = claimed[Vault] + Earned(Vault)
  BY <1>1, <1>2, EarnedNat DEF PayReward, RewardTypeOK
<1>7. (received + 1) * OneUsdc > Earned(Vault) * MinDiemPerUsdc
  <2>. DEFINE least == AbsoluteMin(Earned(Vault))
  <2>1. PICK twapOut \in Quotes : /\ PriceAboveFloor(Earned(Vault), twapOut)
                                  /\ received >= AmountOutMin(twapOut)
    BY DEF Harvest, SwapReturns
  <2>2. AmountOutMin(twapOut) \in Int
    BY <2>1, VaultAssumption DEF AmountOutMin
  <2>3. Earned(Vault) * MinDiemPerUsdc \in Nat /\ OneUsdc \in Nat /\ OneUsdc > 0
    BY <1>6, VaultAssumption, ProductNat
  <2>4. /\ least \in Nat /\ least * OneUsdc \in Nat
        /\ least * OneUsdc + OneUsdc > Earned(Vault) * MinDiemPerUsdc
    BY <2>3, RemainderBelow DEF AbsoluteMin
  <2>5. received >= least
    <3>. HIDE DEF least
    <3>1. AmountOutMin(twapOut) >= least
      BY <2>1 DEF PriceAboveFloor, least
    <3> QED  BY <1>1, <2>1, <2>2, <2>4, <3>1
  <2>. HIDE DEF least
  <2>6. least * OneUsdc <= received * OneUsdc /\ received * OneUsdc \in Nat
    BY <1>1, <2>3, <2>4, <2>5, ProductMonotone, ProductNat
  <2>7. (received + 1) * OneUsdc = received * OneUsdc + OneUsdc
    BY <1>1, <2>3
  <2> QED  BY <2>3, <2>4, <2>6, <2>7
<1>8. Floored
  <2>1. claimed'[Vault] - claimed[Vault] = Earned(Vault) /\ TotalAssets' - TotalAssets = received
    BY <1>1, <1>5, <1>6
  <2> QED  BY <1>7, <2>1 DEF Floored
<1> QED  BY <1>2, <1>3, <1>4, <1>5, <1>8, Given

\* sDIEM used by others: the vault's own part of it only grows, by what is sent
\* to it, and only the vault claims for the vault.
LEMMA SDiemStepKept ==
  ASSUME VaultInv, SDiemStep
  PROVE  Kept
<1>1. TotalAssets \in Nat /\ DiemInv /\ DiemTypeOK /\ RewardTypeOK
  BY Facts
<1>2. DiemInv' /\ RewardTypeOK'
  <2>1. [Next]_vars
    BY Facts DEF SDiemStep, Next, ManagerStep
  <2> QED  BY <1>1, <2>1, DiemNext, RewardTypes
<1>3. \E a \in Nat : balanceOf'[Vault] = balanceOf[Vault] + a /\ claimed'[Vault] = claimed[Vault]
  <2> DEFINE Grown == \E a \in Nat : /\ balanceOf'[Vault] = balanceOf[Vault] + a
                                     /\ claimed'[Vault] = claimed[Vault]
  <2>1. /\ balanceOf \in [Users -> Nat] /\ claimed \in [Users -> Nat] /\ Vault \in Users
    BY Facts DEF DiemTypeOK, RewardTypeOK
  <2>2. ASSUME balanceOf'[Vault] = balanceOf[Vault], claimed'[Vault] = claimed[Vault]
        PROVE  Grown
    <3>1. balanceOf'[Vault] = balanceOf[Vault] + 0
      BY <2>1, <2>2
    <3> QED  BY <2>2, <3>1
  <2>3. ASSUME Tick PROVE Grown
    BY <2>2, <2>3 DEF Tick, shareVars, usdcVars
  <2>4. ASSUME NEW m, NEW reward, NotifyRewardAmount(m, reward) PROVE Grown
    BY <2>2, <2>4 DEF NotifyRewardAmount, StartPeriod, shareVars
  <2>5. ASSUME NEW u \in Holders, UserStep(u) PROVE Grown
    <3>1. u \in Users /\ u # Vault
      BY Facts
    <3>2. ASSUME NEW amount, StakeDiem(u, amount) \/ RequestWithdraw(u, amount)
          PROVE  Grown
      BY <2>1, <2>2, <3>1, <3>2 DEF StakeDiem, Mint, RequestWithdraw, BurnShares, usdcVars
    <3>3. ASSUME NEW amount \in Amounts, NEW to \in Users, Transfer(u, to, amount)
          PROVE  Grown
      <4>1. amount \in Nat /\ claimed' = claimed
        BY <3>3, AmountsAssumption DEF Transfer, usdcVars
      <4>2. balanceOf'[Vault] = IF to = Vault THEN balanceOf[Vault] + amount ELSE balanceOf[Vault]
        BY <2>1, <3>1, <3>3 DEF Transfer, MoveShares
      <4> QED  BY <2>2, <4>1, <4>2
    <3>4. ASSUME NEW amount, DonateDiem(u, amount) \/ CompleteWithdraw(u)
          PROVE  Grown
      BY <2>2, <3>4 DEF DonateDiem, CompleteWithdraw, shareVars, usdcVars
    <3>5. CASE CancelWithdraw(u)
      BY <2>1, <2>2, <3>1, <3>5 DEF CancelWithdraw, Mint, usdcVars
    <3>6. CASE ClaimReward(u) \/ ClaimRewardTo(u) \/ Exit(u)
      BY <2>1, <2>2, <3>1, <3>6
      DEF ClaimReward, ClaimRewardTo, Exit, PayReward, BurnShares, shareVars
    <3> HIDE DEF Grown
    <3> QED  BY <2>5, <3>2, <3>3, <3>4, <3>5, <3>6 DEF UserStep
  <2> HIDE DEF Grown
  <2>6. Grown
    BY <2>3, <2>4, <2>5 DEF SDiemStep
  <2> QED  BY <2>6 DEF Grown
<1>4. PICK a \in Nat : TotalAssets' = TotalAssets + a /\ claimed'[Vault] = claimed[Vault]
  BY <1>3 DEF TotalAssets
<1>5. Floored
  BY <1>1, <1>4, Facts DEF Floored, RewardTypeOK
<1> QED  BY <1>2, <1>4, <1>5, Given DEF SDiemStep, vaultVars

\* Who administers the vault, and whether it is paused, is nobody's money.
LEMMA BooksUntouched ==
  ASSUME VaultInv, UNCHANGED <<vars, shares, shareSupply>>
  PROVE  Kept
<1>1. TotalAssets \in Nat /\ DiemInv /\ RewardTypeOK
  BY Facts
<1>2. DiemInv' /\ RewardTypeOK'
  BY <1>1, DiemUnchanged, RewardUnchanged DEF vars
<1>3. TotalAssets' = TotalAssets + 0 /\ claimed' = claimed
  BY <1>1 DEF vars, shareVars, usdcVars, TotalAssets
<1>4. Floored
  BY <1>3, Facts DEF Floored, RewardTypeOK
<1> QED  BY <1>2, <1>3, <1>4, Given

LEMMA CSStep ==
  ASSUME VaultInv, [CSNext]_csVars
  PROVE  Kept
<1>1. Amounts \subseteq Nat /\ ShareAmounts \subseteq Nat /\ Yields \subseteq Nat
  BY AmountsAssumption, VaultAssumption
<1>2. ASSUME NEW u \in Holders, HolderStep(u) PROVE Kept
  BY <1>1, <1>2, DepositSdiemStep, WithdrawSdiemStep, DepositDIEMStep, MintForSdiemStep,
     RedeemStep, TransferSharesStep DEF HolderStep
<1>3. ASSUME NEW received \in Yields, Harvest(received) PROVE Kept
  BY <1>1, <1>3, HarvestStep
<1>4. ASSUME NEW m \in VaultAdmins, VaultAdminStep(m) PROVE Kept
  BY <1>4, BooksUntouched
  DEF VaultAdminStep, SetVaultPaused, TransferVaultAdmin, AcceptVaultAdmin
<1>5. CASE UNCHANGED csVars
  BY <1>5, BooksUntouched DEF csVars, vaultVars
<1> QED  BY <1>2, <1>3, <1>4, <1>5, SDiemStepKept DEF CSNext

LEMMA CSStart == CSInit => VaultInv
<1> SUFFICES ASSUME CSInit PROVE VaultInv
  OBVIOUS
<1>1. DiemInv /\ RewardTypeOK
  BY DiemInit, ParametersAssumption, AmountsAssumption DEF CSInit, Init, RewardTypeOK
<1>2. shares \in [Holders -> Nat] /\ IsFiniteSet(Holders)
  BY UsersAssumption, FS_Subset DEF CSInit, Holders
<1>3. SumFunction(shares) = SumFunctionOnSet(shares, Holders)
  BY <1>2, SumOfFunction
<1>4. SumFunctionOnSet(shares, Holders) = 0
  BY <1>2, SumOfZeros DEF CSInit
<1> QED  BY <1>1, <1>2, <1>3, <1>4 DEF CSInit, VaultInv, SharesOK

LEMMA CSInvariant == CSSpec => []VaultInv
<1>1. VaultInv /\ [CSNext]_csVars => VaultInv'
  BY CSStep DEF Kept
<1> QED  BY <1>1, CSStart, PTL DEF CSSpec
-----------------------------------------------------------------------------
(* The theorems.                                                           *)

\* A price that has not fallen leaves the rounded worth of a position, too.
LEMMA WorthKept ==
  ASSUME VaultInv, VaultInv', PriceKept, NEW u \in Holders, shares'[u] >= shares[u]
  PROVE  Worth(u)' >= Worth(u)
<1> DEFINE t == TotalAssets + 1
           b == shareSupply + VirtualShares
           w == TotalAssets' + 1
           d == shareSupply' + VirtualShares
<1>1. shareSupply \in Nat /\ TotalAssets \in Nat /\ shares[u] \in Nat
  BY Facts
<1>2. shareSupply' \in Nat /\ TotalAssets' \in Nat /\ shares'[u] \in Nat
  BY VaultAssumption DEF VaultInv, SharesOK, DiemInv, DiemTypeOK, TotalAssets
<1>3. t \in Nat /\ w \in Nat /\ b \in Nat \ {0} /\ d \in Nat \ {0}
  <2>1. \A n \in Nat : n + 1 \in Nat /\ n + VirtualShares \in Nat \ {0}
    BY VirtualSharesAssumption
  <2> QED  BY <1>1, <1>2, <2>1
<1>4. Worth(u) = (shares[u] * t) \div b /\ Worth(u)' = (shares'[u] * w) \div d
  BY DEF Worth, ToAssets, AssetsFor
<1>5. t * d <= w * b
  BY DEF PriceKept, Dearer
<1> HIDE DEF t, w, b, d
<1>6. (shares[u] * t) \div b <= (shares'[u] * w) \div d
  BY <1>1, <1>2, <1>3, <1>5, ValueMonotone
<1>7. (shares[u] * t) \div b \in Nat /\ (shares'[u] * w) \div d \in Nat
  BY <1>1, <1>2, <1>3, ProductNat, DivisionRoundsDown
<1> QED  BY <1>4, <1>6, <1>7

\* No deposit, mint, redemption, withdrawal, zap, harvest or gift makes the
\* shares of a holder who gives none up redeem for less.
THEOREM CSUndiluted == CSSpec => NobodyDiluted
<1>1. ASSUME VaultInv, VaultInv', [CSNext]_csVars
      PROVE  [\A u \in Holders : shares'[u] >= shares[u] => Worth(u)' >= Worth(u)]_csVars
  BY <1>1, CSStep, WorthKept DEF Kept
<1> QED  BY <1>1, CSInvariant, PTL DEF CSSpec, NobodyDiluted

\* deposit, mint and depositDIEM give what was paid for, to within one share or
\* one unit of sDIEM.
THEOREM PurchasesFair == CSSpec => FairPurchase
<1>1. ASSUME VaultInv, [CSNext]_csVars
      PROVE  [\A u \in Holders : Fair(u)]_csVars
  BY <1>1, CSStep DEF Kept
<1>2. CSSpec => [][\A u \in Holders : Fair(u)]_csVars
  BY <1>1, CSInvariant, PTL DEF CSSpec
<1> QED  BY <1>2 DEF FairPurchase, Fair, Spent, Bought, Price, Value

\* harvest keeps to minDiemPerUsdc whatever the oracle quotes, the slippage
\* setting allows and the router pays, and nothing else sells the vault's USDC.
THEOREM FloorHolds == CSSpec => SoldAboveFloor
<1>1. ASSUME VaultInv, [CSNext]_csVars PROVE [Floored]_csVars
  BY <1>1, CSStep DEF Kept
<1>2. CSSpec => [][Floored]_csVars
  BY <1>1, CSInvariant, PTL DEF CSSpec
<1> QED  BY <1>2 DEF SoldAboveFloor, Floored
-----------------------------------------------------------------------------
(* The pool page in front of the two contracts.  Its invariant is that of  *)
(* the contracts and what the page knows of them: a snapshot that is said  *)
(* to be fresh is what the chain holds, and a request decided on such a    *)
(* snapshot finds an empty queue.                                          *)

PageCalls ==
  {<<"approve", use>> : use \in Uses}
    \cup {<<"stake">>, <<"zap">>, <<"wrap">>, <<"redeem">>, <<"requestWithdraw">>,
          <<"completeWithdraw">>, <<"cancelWithdraw">>, <<"claimReward">>}

Transactions == [call : PageCalls, amount : Nat, fresh : BOOLEAN]

SnapshotTrue == fresh => view = Snapshot /\ view # NoView

FirstRequest ==
  isBusy /\ tx.fresh /\ tx.call = <<"requestWithdraw">> => request[Me].amount = 0

PageTypeOK ==
  typed \in Nat /\ fresh \in BOOLEAN /\ (isBusy => tx \in Transactions)

OnThePage == VaultInv /\ PageTypeOK /\ SnapshotTrue /\ FirstRequest

\* In another page's browser the pool page does nothing.
PageInv == IF page = "pool" THEN OnThePage ELSE ~fresh /\ ~isBusy

\* sDIEM used by anybody; the shares stay where they are.
LEMMA SDiemMove ==
  ASSUME VaultInv, [Next]_vars, UNCHANGED vaultVars
  PROVE  VaultInv'
<1>1. DiemInv' /\ RewardTypeOK'
  BY Facts, DiemNext, RewardTypes
<1> QED  BY <1>1 DEF VaultInv, SharesOK, vaultVars

LEMMA SameVault ==
  ASSUME VaultInv, UNCHANGED <<vars, shares, shareSupply>>
  PROVE  VaultInv'
BY BooksUntouched DEF Kept

\* Whatever transaction of the page is mined.
LEMMA EffectStep ==
  ASSUME VaultInv, NEW call \in PageCalls, NEW amount \in Nat, Does(call, amount)
  PROVE  VaultInv'
<1>1. Me \in Holders /\ Me \in Users
  BY WalletAssumption, Facts
<1>2. DiemInv /\ DiemTypeOK /\ RewardTypeOK /\ SharesOK
  BY Facts DEF VaultInv
<1>3. ASSUME NEW use \in Uses, call = <<"approve", use>> PROVE VaultInv'
  <2>1. Approve(use, amount)
    BY <1>3 DEF Does
  <2> QED  BY <2>1, SameVault DEF Approve, csVars, vaultVars
<1>4. CASE call = <<"stake">>
  <2>1. StakeDiem(Me, amount) /\ UNCHANGED vaultVars
    BY <1>4 DEF Does, OnSDiem
  <2>2. DiemInv'
    BY <1>1, <1>2, <2>1, StakeDiemStep
  <2>3. RewardTypeOK'
    BY <1>2, <2>1, CheckpointTypes DEF StakeDiem, Mint
  <2> QED  BY <1>2, <2>1, <2>2, <2>3 DEF VaultInv, SharesOK, vaultVars
<1>5. CASE call = <<"zap">>
  <2>1. DepositDIEM(Me, amount)
    BY <1>5 DEF Does
  <2> QED  BY <1>1, <2>1, DepositDIEMStep DEF Kept
<1>6. CASE call = <<"wrap">>
  <2>1. DepositSdiem(Me, amount)
    BY <1>6 DEF Does
  <2> QED  BY <1>1, <2>1, DepositSdiemStep DEF Kept
<1>7. CASE call = <<"redeem">>
  <2>1. Redeem(Me, amount)
    BY <1>7 DEF Does
  <2> QED  BY <1>1, <2>1, RedeemStep DEF Kept
<1>8. CASE call = <<"requestWithdraw">>
  <2>1. RequestWithdraw(Me, amount) /\ UNCHANGED vaultVars
    BY <1>8 DEF Does, OnSDiem
  <2>2. DiemInv'
    BY <1>1, <1>2, <2>1, EnqueueStep DEF RequestWithdraw
  <2>3. RewardTypeOK'
    BY <1>2, <2>1, CheckpointTypes DEF RequestWithdraw
  <2> QED  BY <1>2, <2>1, <2>2, <2>3 DEF VaultInv, SharesOK, vaultVars
<1>9. CASE call = <<"completeWithdraw">>
  <2>1. CompleteWithdraw(Me) /\ UNCHANGED vaultVars
    BY <1>9 DEF Does, OnSDiem
  <2> QED  BY <1>1, <2>1, SDiemMove DEF Next, UserStep
<1>10. CASE call = <<"cancelWithdraw">>
  <2>1. CancelWithdraw(Me) /\ UNCHANGED vaultVars
    BY <1>10 DEF Does, OnSDiem
  <2> QED  BY <1>1, <2>1, SDiemMove DEF Next, UserStep
<1>11. CASE call = <<"claimReward">>
  <2>1. ClaimReward(Me) /\ UNCHANGED vaultVars
    BY <1>11 DEF Does, OnSDiem
  <2> QED  BY <1>1, <2>1, SDiemMove DEF Next, UserStep
<1> QED
  BY <1>3, <1>4, <1>5, <1>6, <1>7, <1>8, <1>9, <1>10, <1>11 DEF PageCalls

\* What everybody else does, and time.
LEMMA WorldMovesStep ==
  ASSUME VaultInv, WorldStep \/ TimeStep
  PROVE  VaultInv'
<1>1. Others \subseteq Users
  BY WalletAssumption, Facts
<1>2. ASSUME NEW u \in Others, NEW amount \in Amounts,
             OnSDiem(RequestWithdraw(u, amount)) \/ OnSDiem(StakeDiem(u, amount))
      PROVE  VaultInv'
  BY <1>1, <1>2, SDiemMove DEF OnSDiem, Next, UserStep
<1>3. ASSUME NEW u \in Others, OnSDiem(CompleteWithdraw(u)) PROVE VaultInv'
  BY <1>1, <1>3, SDiemMove DEF OnSDiem, Next, UserStep
<1>4. ASSUME NEW m \in Managers, NEW value \in Pauses, OnSDiem(SetPaused(m, value))
      PROVE  VaultInv'
  BY <1>4, SDiemMove DEF OnSDiem, Next, ManagerStep
<1>5. ASSUME NEW m \in Managers, NEW reward \in RewardAmounts,
             OnSDiem(NotifyRewardAmount(m, reward))
      PROVE  VaultInv'
  BY <1>5, SDiemMove DEF OnSDiem, Next, ManagerStep
<1>6. ASSUME NEW m, NEW value, SetVaultPaused(m, value) PROVE VaultInv'
  BY <1>6, SameVault DEF SetVaultPaused
<1>7. CASE TimeStep
  BY <1>7, SDiemMove DEF TimeStep, OnSDiem, Next
<1>8. CASE CountedMove
  BY <1>2, <1>4, <1>5, <1>6, <1>8 DEF CountedMove, OnSDiem
<1>9. CASE OthersMove
  BY <1>2, <1>3, <1>9 DEF OthersMove, OnSDiem
<1> QED  BY <1>7, <1>8, <1>9 DEF WorldStep

\* What the snapshot would show depends on the contracts and the allowances only,
\* and it is never taken for the absence of one.
LEMMA SameSnapshot ==
  ASSUME UNCHANGED <<csVars, allowance>>
  PROVE  Snapshot' = Snapshot
BY DEF Snapshot, CanComplete, Earned, RewardPerToken, Matured, csVars, vars, vaultVars, roleVars,
       diemVars, shareVars, queueVars, rewardVars, globalVars, userVars, periodVars

LEMMA SnapshotSeen == Snapshot # NoView
<1>1. "can" \in DOMAIN Snapshot
  BY DEF Snapshot
<1>2. "can" \notin DOMAIN NoView
  BY DEF NoView
<1> QED  BY <1>1, <1>2

\* On a fresh snapshot the page sees what there is.
LEMMA SeenTrue ==
  ASSUME SnapshotTrue, fresh
  PROVE  Seen = Snapshot
BY DEF SnapshotTrue, Seen

LEMMA PageStart == WebInit => PageInv
<1> SUFFICES ASSUME WebInit PROVE PageInv
  OBVIOUS
<1>1. VaultInv
  BY CSStart DEF WebInit, WalletInit
<1> QED
  BY <1>1 DEF WebInit, PageInit, PageInv, OnThePage, PageTypeOK, SnapshotTrue, FirstRequest,
              isBusy

\* A button: its call is one of the page's, and the one that queues a withdrawal
\* was offered because the queue shown was empty.
LEMMA PressStep ==
  ASSUME OnThePage, NEW call \in PageCalls, Press(call),
         call = <<"requestWithdraw">> => Seen.queued = 0
  PROVE  OnThePage'
<1>1. /\ tx' = [call |-> call, amount |-> typed, fresh |-> fresh]
      /\ UNCHANGED <<csVars, allowance, view, typed, fresh>>
  BY DEF Press, walletVars
<1>2. VaultInv'
  BY <1>1, SameVault DEF OnThePage, csVars, vaultVars
<1>3. PageTypeOK'
  BY <1>1 DEF OnThePage, PageTypeOK, Transactions
<1>4. SnapshotTrue'
  BY <1>1, SameSnapshot DEF OnThePage, SnapshotTrue
<1>5. FirstRequest'
  <2> SUFFICES ASSUME fresh, call = <<"requestWithdraw">> PROVE request'[Me].amount = 0
    BY <1>1 DEF FirstRequest
  <2>1. Seen.queued = request[Me].amount
    BY SeenTrue DEF OnThePage, Snapshot
  <2> QED  BY <1>1, <2>1 DEF csVars, vars, queueVars
<1> QED  BY <1>2, <1>3, <1>4, <1>5 DEF OnThePage

LEMMA PressAnyStep ==
  ASSUME OnThePage, PressAny
  PROVE  OnThePage'
<1> DEFINE Pressed ==
      \E call \in PageCalls : Press(call) /\ (call = <<"requestWithdraw">> => Seen.queued = 0)
<1>1. ASSUME NEW mode \in Modes, PressSupply(mode) PROVE Pressed
  <2>1. /\ <<"approve", mode>> \in PageCalls /\ <<mode>> \in PageCalls
        /\ <<"approve", mode>> # <<"requestWithdraw">> /\ <<mode>> # <<"requestWithdraw">>
    BY DEF Modes, PageCalls, Uses
  <2> QED  BY <1>1, <2>1 DEF PressSupply
<1>2. ASSUME PressWrap PROVE Pressed
  <2>1. /\ <<"approve", "wrap">> \in PageCalls /\ <<"wrap">> \in PageCalls
        /\ <<"approve", "wrap">> # <<"requestWithdraw">> /\ <<"wrap">> # <<"requestWithdraw">>
    BY DEF PageCalls, Uses
  <2> QED  BY <1>2, <2>1 DEF PressWrap
<1>3. ASSUME PressRequest PROVE Pressed
  <2>1. <<"requestWithdraw">> \in PageCalls
    BY DEF PageCalls
  <2> QED  BY <1>3, <2>1 DEF PressRequest, RequestEnabled, QueueEmpty
<1>4. ASSUME PressRedeem PROVE Pressed
  <2>1. <<"redeem">> \in PageCalls /\ <<"redeem">> # <<"requestWithdraw">>
    BY DEF PageCalls
  <2> QED  BY <1>4, <2>1 DEF PressRedeem
<1>5. ASSUME PressQueued PROVE Pressed
  <2>1. /\ <<"completeWithdraw">> \in PageCalls /\ <<"cancelWithdraw">> \in PageCalls
        /\ <<"completeWithdraw">> # <<"requestWithdraw">>
        /\ <<"cancelWithdraw">> # <<"requestWithdraw">>
    BY DEF PageCalls
  <2> QED  BY <1>5, <2>1 DEF PressQueued
<1>6. ASSUME PressClaim PROVE Pressed
  <2>1. <<"claimReward">> \in PageCalls /\ <<"claimReward">> # <<"requestWithdraw">>
    BY DEF PageCalls
  <2> QED  BY <1>6, <2>1 DEF PressClaim
<1>7. Pressed
  BY <1>1, <1>2, <1>3, <1>4, <1>5, <1>6
  DEF PressAny, SupplyPanel, WithdrawPanel, ConvertPanel, PositionPanel,
      PressWithdraw, PressConvert
<1> QED  BY <1>7, PressStep

\* What happens on chain makes the snapshot, and what was decided on it, stale.
LEMMA OvertakenStep ==
  ASSUME OnThePage, VaultInv', tx' = Stale, fresh' = FALSE, UNCHANGED typed
  PROVE  OnThePage'
<1>1. PageTypeOK'
  BY DEF OnThePage, PageTypeOK, Stale, isBusy, Transactions
<1>2. SnapshotTrue'
  BY DEF SnapshotTrue
<1>3. FirstRequest'
  <2>1. CASE isBusy
    BY <2>1 DEF FirstRequest, Stale, OnThePage, PageTypeOK, Transactions
  <2>2. CASE ~isBusy
    BY <2>2 DEF FirstRequest, Stale, isBusy
  <2> QED  BY <2>1, <2>2
<1> QED  BY <1>1, <1>2, <1>3 DEF OnThePage

\* The end of a transaction.
LEMMA LeaveStep ==
  ASSUME OnThePage, Leave, VaultInv',
         fresh' = FALSE \/ UNCHANGED <<csVars, allowance, fresh>>
  PROVE  OnThePage'
<1>1. tx' = NoTx /\ UNCHANGED <<view, typed>>
  BY DEF Leave
<1>2. PageTypeOK' /\ FirstRequest'
  BY <1>1 DEF OnThePage, PageTypeOK, FirstRequest, isBusy
<1>3. SnapshotTrue'
  BY <1>1, SameSnapshot DEF OnThePage, SnapshotTrue
<1> QED  BY <1>2, <1>3 DEF OnThePage

LEMMA PageStep ==
  ASSUME OnThePage, PageNext
  PROVE  OnThePage'
<1>1. VaultInv /\ PageTypeOK /\ SnapshotTrue /\ FirstRequest
  BY DEF OnThePage
<1>2. ASSUME UNCHANGED csVars PROVE VaultInv'
  BY <1>1, <1>2, SameVault DEF csVars, vaultVars
<1>3. ASSUME NEW amount \in Amounts, Type(amount) PROVE OnThePage'
  <2>1. Typed(amount) /\ view' \in {view, NoView}
    BY <1>3 DEF Type, TypeSupply, TypeWithdraw, TypeConvert
  <2>2. /\ UNCHANGED <<csVars, allowance, tx>> /\ typed' = amount
        /\ view' \in {view, NoView} /\ fresh' = (fresh /\ view' # NoView)
    BY <2>1 DEF Typed, walletVars
  <2>3. PageTypeOK' /\ FirstRequest'
    BY <1>1, <2>2, AmountsAssumption
    DEF PageTypeOK, FirstRequest, isBusy, Transactions, csVars, vars, queueVars
  <2>4. SnapshotTrue'
    BY <1>1, <2>2, SameSnapshot DEF SnapshotTrue
  <2> QED  BY <1>2, <2>2, <2>3, <2>4 DEF OnThePage
<1>4. CASE Fetch
  <2>1. UNCHANGED <<csVars, allowance, typed, tx>> /\ view' = Snapshot /\ fresh' = TRUE
    BY <1>4 DEF Fetch, walletVars
  <2>2. PageTypeOK' /\ FirstRequest'
    BY <1>1, <2>1 DEF PageTypeOK, FirstRequest, isBusy, csVars, vars, queueVars
  <2>3. SnapshotTrue'
    BY <2>1, SameSnapshot, SnapshotSeen DEF SnapshotTrue
  <2> QED  BY <1>2, <2>1, <2>2, <2>3 DEF OnThePage
<1>5. CASE Mined
  <2>1. tx.call \in PageCalls /\ tx.amount \in Nat /\ Does(tx.call, tx.amount)
    BY <1>1, <1>5 DEF Mined, Leave, Effect, PageTypeOK, Transactions
  <2> QED  BY <1>1, <1>5, <2>1, EffectStep, LeaveStep DEF Mined
<1>6. CASE Reverted \/ Refused
  <2>1. Leave /\ UNCHANGED <<csVars, allowance, fresh>>
    BY <1>6 DEF Reverted, Refused, walletVars
  <2> QED  BY <1>2, <2>1, LeaveStep
<1>7. CASE WorldMoves
  BY <1>1, <1>7, WorldMovesStep, OvertakenStep DEF WorldMoves
<1>8. CASE TimePasses
  BY <1>1, <1>8, WorldMovesStep, OvertakenStep DEF TimePasses
<1> QED  BY <1>3, <1>4, <1>5, <1>6, <1>7, <1>8, PressAnyStep DEF PageNext

LEMMA PageInvariant == WebSpec => []PageInv
<1>1. ASSUME PageInv, [WebNext]_webVars PROVE PageInv'
  <2>1. CASE OnPool(PageNext)
    BY <1>1, <2>1, PageStep DEF OnPool, PageInv
  <2>2. CASE OnCard(CardNext)
    BY <1>1, <2>2 DEF OnCard, PageInv, pageVars, isBusy
  <2>3. CASE UNCHANGED webVars
    <3>1. UNCHANGED <<csVars, allowance, view, typed, tx, fresh, page>>
      BY <2>3 DEF webVars, walletVars, pageVars
    <3>2. VaultInv => VaultInv'
      BY <3>1, SameVault DEF csVars, vaultVars
    <3>3. SnapshotTrue => SnapshotTrue'
      BY <3>1, SameSnapshot DEF SnapshotTrue
    <3>4. PageTypeOK => PageTypeOK'
      BY <3>1 DEF PageTypeOK, isBusy
    <3>5. FirstRequest => FirstRequest'
      BY <3>1 DEF FirstRequest, isBusy, csVars, vars, queueVars
    <3> QED  BY <1>1, <3>1, <3>2, <3>3, <3>4, <3>5 DEF PageInv, OnThePage, isBusy
  <2> QED  BY <1>1, <2>1, <2>2, <2>3 DEF WebNext
<1> QED  BY <1>1, PageStart, PTL DEF WebSpec

\* What the page works out from a true snapshot is what the contract says, and a
\* queue that has nothing to wait for has something to pay it with.
LEMMA StatusFromSnapshot ==
  ASSUME VaultInv, Seen = Snapshot
  PROVE  /\ NextClaimable > 0 <=> CanComplete
         /\ request[Me].amount > 0 =>
              /\ WithdrawalStatus \in {"ready to claim", "claimable now"} <=> CanComplete
              /\ WithdrawalStatus # "waiting for vault liquidity"
<1> DEFINE q == request[Me].amount
           w == request[Me].wait
           back == IF pool.cooldown = 0 THEN pool.pending ELSE 0
           there == pool.liquid + back
<1>1. DiemTypeOK /\ DiemInv /\ Me \in Users
  BY Facts, WalletAssumption
<1>2. /\ q \in Nat /\ w \in Nat
      /\ pool.liquid \in Nat /\ pool.pending \in Nat /\ pool.cooldown \in Nat
  BY <1>1, ParametersAssumption, VeniceCooldownAssumption DEF DiemTypeOK, Requests, Pools
<1>3. q > 0 => pool.liquid + pool.pending > 0
  <2>1. Queued \in [Users -> Nat] /\ IsTotal(Queued, totalPendingWithdrawals) /\ Queued[Me] = q
    BY <1>1, <1>2 DEF Queued, DiemInv, DiemTypeOK, Requests
  <2>2. q <= totalPendingWithdrawals /\ totalPendingWithdrawals \in Nat
    BY <1>1, <2>1, EntryBelowTotal
  <2> QED  BY <1>1, <1>2, <2>2 DEF DiemInv, NeverStalled
<1>4. NextClaimable = IF w > 0 THEN 0 ELSE Min2(q, there)
  BY DEF NextClaimable, MaturedVeniceDiem, Snapshot
<1>5. CanComplete <=> q > 0 /\ w = 0 /\ there > 0
  BY <1>2 DEF CanComplete, Matured
<1>6. WithdrawalStatus =
        IF NextClaimable >= q /\ q > 0 THEN "ready to claim"
        ELSE IF NextClaimable > 0 THEN "claimable now"
        ELSE IF w > 0 THEN "request timer"
        ELSE IF pool.cooldown > 0 THEN "next batch unlocking"
        ELSE "waiting for vault liquidity"
  BY DEF WithdrawalStatus, Snapshot
<1>7. there \in Nat /\ (pool.cooldown = 0 => there = pool.liquid + pool.pending)
  BY <1>2
<1> HIDE DEF q, w, there
<1>8. NextClaimable \in Nat /\ (NextClaimable > 0 <=> q > 0 /\ w = 0 /\ there > 0)
  BY <1>2, <1>4, <1>7 DEF Min2
<1>9. ASSUME q > 0
      PROVE  /\ WithdrawalStatus \in {"ready to claim", "claimable now"} <=> NextClaimable > 0
             /\ WithdrawalStatus # "waiting for vault liquidity"
  <2>1. CASE NextClaimable > 0
    <3>1. WithdrawalStatus \in {"ready to claim", "claimable now"}
      BY <1>6, <2>1
    <3> QED  BY <2>1, <3>1
  <2>2. CASE ~(NextClaimable > 0)
    <3>1. ~(NextClaimable >= q) /\ (w > 0 \/ pool.cooldown > 0)
      BY <1>2, <1>3, <1>7, <1>8, <1>9, <2>2
    <3>2. WithdrawalStatus \in {"request timer", "next batch unlocking"}
      BY <1>6, <2>2, <3>1
    <3> QED  BY <2>2, <3>2
  <2> QED  BY <2>1, <2>2
<1>10. CanComplete <=> NextClaimable > 0
  BY <1>5, <1>8
<1>11. q = request[Me].amount
  BY DEF q
<1> QED  BY <1>9, <1>10, <1>11

\* The page's own arithmetic on queue, liquidity and cooldown says of a true
\* snapshot what canCompleteWithdraw says, and whoever has queued is told what
\* there is to wait for (app/src/app/page.tsx, withdrawalStatus).
THEOREM StatusHolds == WebSpec => []StatusAgrees
<1>1. PageInv => StatusAgrees
  <2> SUFFICES ASSUME PageInv, fresh, view # NoView PROVE StatusAgrees
    BY DEF StatusAgrees
  <2>1. VaultInv /\ SnapshotTrue
    BY DEF PageInv, OnThePage
  <2>2. Seen = Snapshot
    BY <2>1, SeenTrue
  <2>3. Seen.can = CanComplete /\ Seen.queued = request[Me].amount
    BY <2>2 DEF Snapshot
  <2> QED  BY <2>1, <2>2, <2>3, StatusFromSnapshot DEF StatusAgrees
<1> QED  BY <1>1, PageInvariant, PTL

\* Only a snapshot that has become false lets the page send a second request,
\* which would restart the delay of the first (app/src/app/page.tsx,
\* withdrawDisableReason; sDIEMv2.sol, requestWithdraw).
THEOREM DelayHolds == WebSpec => DelayNotRestarted
<1>1. PageInv => [Mined /\ tx.call = <<"requestWithdraw">> /\ request[Me].amount > 0
                    => ~tx.fresh]_poolVars
  <2> SUFFICES ASSUME PageInv, Mined, tx.call = <<"requestWithdraw">>, request[Me].amount > 0
               PROVE  ~tx.fresh
    OBVIOUS
  <2>1. isBusy
    BY DEF Mined, Leave
  <2> QED  BY <2>1 DEF PageInv, OnThePage, FirstRequest
<1> QED  BY <1>1, PageInvariant, PTL DEF DelayNotRestarted

-----------------------------------------------------------------------------
(* The charts of the fees page.  What a loop with two cursors leaves at each *)
(* turn is first written as a function of the day alone; that is then a sum  *)
(* over the distributions of a window, in whatever order they came.          *)

\* What sort() chooses.
TheOrder(log, p) ==
  /\ p \in [DOMAIN log -> DOMAIN log]
  /\ \A i, j \in DOMAIN log : i < j => Precedes(log, p[i], p[j])

\* A sequence whose elements have a time.
IsLog(log) ==
  /\ Len(log) \in Nat /\ DOMAIN log = 1..Len(log)
  /\ \A i \in DOMAIN log : log[i].timestamp \in Nat

\* Of two entries one goes first, and so on along the log.
LEMMA PrecedesOrders ==
  ASSUME NEW log, IsLog(log)
  PROVE  /\ \A i \in DOMAIN log : ~Precedes(log, i, i)
         /\ \A i, j \in DOMAIN log : i = j \/ Precedes(log, i, j) \/ Precedes(log, j, i)
         /\ \A i, j, k \in DOMAIN log :
              Precedes(log, i, j) /\ Precedes(log, j, k) => Precedes(log, i, k)
BY DEF IsLog, Precedes

\* Sorting is possible: an element's place is told by how many precede it.
LEMMA OrderExists ==
  ASSUME NEW log, IsLog(log)
  PROVE  \E p : TheOrder(log, p)
<1> DEFINE n == Len(log)
           D == 1..n
           Ahead(i) == {j \in D : j = i \/ Precedes(log, j, i)}
           rank == [i \in D |-> Cardinality(Ahead(i))]
<1>1. n \in Nat /\ DOMAIN log = D
  BY DEF IsLog
<1> HIDE DEF n
<1>2. IsFiniteSet(D) /\ Cardinality(D) = n
  BY <1>1, FS_Interval
<1>3. ASSUME NEW i \in D
      PROVE  IsFiniteSet(Ahead(i)) /\ Cardinality(Ahead(i)) \in 1..n
  <2>1. IsFiniteSet(Ahead(i)) /\ Cardinality(Ahead(i)) <= n
    BY <1>2, FS_Subset, Ahead(i) \in SUBSET D
  <2>2. Cardinality(Ahead(i)) \in Nat /\ Cardinality(Ahead(i)) # 0
    BY <2>1, FS_CardinalityType, FS_EmptySet, i \in Ahead(i)
  <2> QED  BY <2>1, <2>2
<1>4. ASSUME NEW i \in D, NEW j \in D, Precedes(log, i, j)
      PROVE  rank[i] < rank[j]
  <2>1. Ahead(i) \subseteq Ahead(j) /\ j \in Ahead(j) /\ j \notin Ahead(i)
    BY <1>1, <1>4, PrecedesOrders
  <2>2. Cardinality(Ahead(i)) <= Cardinality(Ahead(j))
        /\ Cardinality(Ahead(i)) # Cardinality(Ahead(j))
    BY <1>3, <2>1, FS_Subset, Ahead(i) \in SUBSET Ahead(j)
  <2>3. Cardinality(Ahead(i)) \in Int /\ Cardinality(Ahead(j)) \in Int
    BY <1>3
  <2> QED  BY <2>2, <2>3
<1>5. rank \in [D -> D]
  BY <1>3
<1> HIDE DEF rank
<1>6. rank \in Injection(D, D)
  <2>1. \A i, j \in D : i # j => rank[i] # rank[j]
    <3> SUFFICES ASSUME NEW i \in D, NEW j \in D, i # j
                 PROVE  rank[i] # rank[j]
      OBVIOUS
    <3>1. Precedes(log, i, j) \/ Precedes(log, j, i)
      BY <1>1, PrecedesOrders
    <3>2. rank[i] \in D /\ rank[j] \in D
      BY <1>5
    <3>3. rank[i] < rank[j] \/ rank[j] < rank[i]
      BY <1>4, <3>1
    <3> QED  BY <3>2, <3>3
  <2> QED  BY <1>5, <2>1 DEF Injection, IsInjective
<1>7. rank \in Surjection(D, D)
  BY <1>2, <1>6, FS_Injection
<1>8. \A k \in D : \E i \in D : rank[i] = k
  BY <1>7 DEF Surjection
<1> DEFINE p == [k \in D |-> CHOOSE i \in D : rank[i] = k]
<1>9. \A k \in D : p[k] \in D /\ rank[p[k]] = k
  BY <1>8
<1>10. p \in [D -> D]
  BY <1>9
<1> HIDE DEF p
<1>11. ASSUME NEW i \in D, NEW j \in D, i < j
       PROVE  Precedes(log, p[i], p[j])
  <2>1. rank[p[i]] < rank[p[j]] /\ p[i] \in D /\ p[j] \in D
    BY <1>9, <1>11
  <2>2. ~(rank[p[j]] < rank[p[i]]) /\ p[i] # p[j]
    BY <1>9, <1>11
  <2> QED  BY <1>1, <1>4, <2>1, <2>2, PrecedesOrders
<1> QED  BY <1>1, <1>10, <1>11 DEF TheOrder

\* In the order of time.
Sorted(log) == \A i, j \in DOMAIN log : i < j => log[i].timestamp <= log[j].timestamp

\* p says where each entry of the sorted log stood.
Reorders(p, log) ==
  /\ p \in [DOMAIN log -> DOMAIN log]
  /\ \A i, j \in DOMAIN log : i # j => p[i] # p[j]
  /\ {p[i] : i \in DOMAIN log} = DOMAIN log
  /\ ByTime(log) = [k \in DOMAIN log |-> log[p[k]]]

\* What sorting gives: the same entries, in the order of time.
LEMMA SortedLog ==
  ASSUME NEW log, IsLog(log)
  PROVE  /\ IsLog(ByTime(log)) /\ Len(ByTime(log)) = Len(log) /\ Sorted(ByTime(log))
         /\ \E p : Reorders(p, log)
<1> DEFINE n == Len(log)
<1>1. /\ n \in Nat /\ DOMAIN log = 1..n
      /\ \A i \in 1..n : log[i].timestamp \in Nat
  BY DEF IsLog
<1> HIDE DEF n
<1> DEFINE p == CHOOSE q \in [DOMAIN log -> DOMAIN log] :
                  \A i, j \in DOMAIN log : i < j => Precedes(log, q[i], q[j])
<1>2. TheOrder(log, p)
  BY OrderExists DEF TheOrder
<1>3. ByTime(log) = [k \in 1..n |-> log[p[k]]]
  BY <1>1 DEF ByTime
<1> HIDE DEF p
<1>4. p \in [1..n -> 1..n] /\ \A i, j \in 1..n : i < j => Precedes(log, p[i], p[j])
  BY <1>1, <1>2 DEF TheOrder
<1>5. \A i, j \in 1..n : i # j => p[i] # p[j]
  <2> SUFFICES ASSUME NEW i \in 1..n, NEW j \in 1..n, i < j
               PROVE  p[i] # p[j]
    OBVIOUS
  <2> QED  BY <1>1, <1>4, PrecedesOrders
<1>6. {p[i] : i \in 1..n} = 1..n
  <2>1. IsFiniteSet(1..n)
    BY <1>1, FS_Interval, 1 \in Int, n \in Int
  <2>2. p \in Injection(1..n, 1..n)
    BY <1>4, <1>5 DEF Injection, IsInjective
  <2>3. p \in Surjection(1..n, 1..n)
    BY <2>1, <2>2, FS_Injection
  <2> QED  BY <1>4, <2>3 DEF Surjection
<1>7. Sorted(ByTime(log))
  <2> SUFFICES ASSUME NEW i \in 1..n, NEW j \in 1..n, i < j
               PROVE  ByTime(log)[i].timestamp <= ByTime(log)[j].timestamp
    BY <1>1, <1>3 DEF Sorted
  <2>1. Precedes(log, p[i], p[j]) /\ p[i] \in 1..n /\ p[j] \in 1..n
    BY <1>4
  <2>2. log[p[i]].timestamp <= log[p[j]].timestamp
    BY <1>1, <2>1 DEF Precedes
  <2> QED  BY <1>3, <2>2
<1>8. Len(ByTime(log)) = n /\ IsLog(ByTime(log))
  BY <1>1, <1>3, <1>4 DEF IsLog
<1>9. Reorders(p, log)
  <2>1. /\ p \in [DOMAIN log -> DOMAIN log]
        /\ \A i, j \in DOMAIN log : i # j => p[i] # p[j]
    BY <1>1, <1>4, <1>5
  <2>2. {p[i] : i \in DOMAIN log} = DOMAIN log
    BY <1>1, <1>6
  <2>3. ByTime(log) = [k \in DOMAIN log |-> log[p[k]]]
    BY <1>1, <1>3
  <2> QED  BY <2>1, <2>2, <2>3 DEF Reorders
<1> QED  BY <1>7, <1>8, <1>9 DEF n

\* How many elements of a sorted log are of before a time: a cursor's place.
Before(log, limit) ==
  CHOOSE c \in 0..Len(log) : \A k \in 1..Len(log) : log[k].timestamp < limit <=> k <= c

\* In a sorted log, what happened before a time are its first entries.
LEMMA BeforeIs ==
  ASSUME NEW log, IsLog(log), Sorted(log), NEW limit \in Int
  PROVE  /\ Before(log, limit) \in 0..Len(log)
         /\ \A k \in DOMAIN log : log[k].timestamp < limit <=> k <= Before(log, limit)
<1> DEFINE n == Len(log)
           T == {k \in 1..n + 1 : k = n + 1 \/ log[k].timestamp >= limit}
<1>0. /\ n \in Nat /\ DOMAIN log = 1..n
      /\ \A i \in 1..n : log[i].timestamp \in Nat
  BY DEF IsLog
<1> HIDE DEF n
<1>1. PICK k \in T : \A m \in T : k <= m
  BY <1>0, LeastNatural, n + 1 \in T, T \in SUBSET Nat
<1>2. ASSUME NEW j \in 1..n PROVE log[j].timestamp < limit <=> j <= k - 1
  <2>1. CASE j < k
    <3>1. j \notin T
      BY <1>0, <1>1, <2>1
    <3> QED  BY <1>0, <1>1, <2>1, <3>1
  <2>2. CASE j = k
    BY <1>0, <1>1, <2>2
  <2>3. CASE j > k
    BY <1>0, <1>1, <2>3 DEF Sorted
  <2> QED  BY <1>0, <1>1, <2>1, <2>2, <2>3
<1>3. \E c \in 0..n : \A j \in 1..n : log[j].timestamp < limit <=> j <= c
  BY <1>0, <1>1, <1>2, k - 1 \in 0..n
<1> QED  BY <1>0, <1>3 DEF Before, n

\* A later limit is no earlier place.
LEMMA BeforeMonotone ==
  ASSUME NEW log, IsLog(log), Sorted(log),
         NEW t \in Int, NEW u \in Int, t <= u
  PROVE  Before(log, t) <= Before(log, u)
<1> DEFINE n == Len(log)
           b == Before(log, t)
           c == Before(log, u)
<1>0. n \in Nat /\ DOMAIN log = 1..n /\ \A i \in 1..n : log[i].timestamp \in Nat
  BY DEF IsLog
<1>1. b \in 0..n /\ \A k \in 1..n : log[k].timestamp < t <=> k <= b
  BY <1>0, BeforeIs
<1>2. c \in 0..n /\ \A k \in 1..n : log[k].timestamp < u <=> k <= c
  BY <1>0, BeforeIs
<1> HIDE DEF n, b, c
<1>3. SUFFICES ASSUME b > c PROVE FALSE
  BY <1>0, <1>1, <1>2 DEF b, c
<1>4. b \in 1..n /\ log[b].timestamp < t
  BY <1>0, <1>1, <1>2, <1>3
<1> QED  BY <1>0, <1>2, <1>3, <1>4

\* Where the code's while leaves the cursor.
LEMMA AdvanceIs ==
  ASSUME NEW log, IsLog(log), Sorted(log), NEW limit \in Int,
         NEW from \in 1..Before(log, limit) + 1,
         NEW end \in Before(log, limit) + 1..Len(log) + 1
  PROVE  Advance(log, from, end, limit) = Before(log, limit) + 1
<1> DEFINE n == Len(log)
           c == Before(log, limit)
           Stops(i) == /\ i = end \/ log[i].timestamp >= limit
                       /\ \A j \in from..i - 1 : log[j].timestamp < limit
<1>0. n \in Nat /\ DOMAIN log = 1..n /\ \A i \in 1..n : log[i].timestamp \in Nat
  BY DEF IsLog
<1>1. c \in 0..n /\ \A k \in 1..n : log[k].timestamp < limit <=> k <= c
  BY <1>0, BeforeIs
<1> HIDE DEF n, c
<1>2. from \in 1..c + 1 /\ end \in c + 1..n + 1
  BY DEF c, n
<1>3. c + 1 \in from..end /\ Stops(c + 1)
  BY <1>0, <1>1, <1>2
<1>4. ASSUME NEW i \in from..end, Stops(i) PROVE i = c + 1
  <2>1. CASE i <= c
    BY <1>0, <1>1, <1>2, <1>4, <2>1
  <2>2. CASE i > c + 1
    <3>1. c + 1 \in from..i - 1 /\ c + 1 \in 1..n
      BY <1>0, <1>1, <1>2, <2>2
    <3>2. log[c + 1].timestamp < limit
      BY <1>4, <3>1
    <3> QED  BY <1>0, <1>1, <3>1, <3>2
  <2> QED  BY <1>0, <1>1, <1>2, <2>1, <2>2
<1>5. Advance(log, from, end, limit) = CHOOSE i \in from..end : Stops(i)
  BY DEF Advance
<1> HIDE DEF Stops
<1>6. (CHOOSE i \in from..end : Stops(i)) = c + 1
  BY <1>3, <1>4
<1> QED  BY <1>5, <1>6 DEF c

-----------------------------------------------------------------------------
(* The loop of rollingFees().                                              *)

\* What passed between two places of a cursor.
Passed(f, a, b) == SumFunctionOnSet(f, a..b - 1)

\* It is a number.
LEMMA PassedIs ==
  ASSUME NEW f, NEW a \in Int, NEW b \in Int, \A k \in a..b - 1 : f[k] \in Int
  PROVE  IsFiniteSet(a..b - 1) /\ Passed(f, a, b) \in Int
<1>1. IsFiniteSet(a..b - 1)
  BY FS_Interval, b - 1 \in Int
<1> QED  BY <1>1, SumEquation DEF Passed

\* What passes in two steps adds up.
LEMMA PassedOn ==
  ASSUME NEW f, NEW a \in Int, NEW b \in Int, NEW c \in Int, a <= b, b <= c,
         \A k \in a..c - 1 : f[k] \in Int
  PROVE  Passed(f, a, c) = Passed(f, a, b) + Passed(f, b, c)
<1>1. IsFiniteSet(a..b - 1) /\ IsFiniteSet(b..c - 1)
  BY FS_Interval, b - 1 \in Int, c - 1 \in Int
<1>2. /\ (a..b - 1) \cap (b..c - 1) = {}
      /\ (a..b - 1) \cup (b..c - 1) = a..c - 1
  OBVIOUS
<1> QED  BY <1>1, <1>2, SumOfUnion DEF Passed

\* Both parts of a distribution are amounts.
IsFees(log) ==
  IsLog(log) /\ \A i \in DOMAIN log : log[i].staker \in Nat /\ log[i].platform \in Nat

\* The two parts, and where the two cursors stand at the end of a day.
Stakers(log) == [i \in DOMAIN log |-> log[i].staker]
Platforms(log) == [i \in DOMAIN log |-> log[i].platform]

Lo(log, day) == Before(log, WindowStart(day + DAY)) + 1
Hi(log, day) == Before(log, day + DAY) + 1

\* The loop's state at the end of a day, without the days before.
PointOf(log, day) ==
  [lo |-> Lo(log, day), hi |-> Hi(log, day), day |-> day,
   staker |-> Passed(Stakers(log), Lo(log, day), Hi(log, day)),
   platform |-> Passed(Platforms(log), Lo(log, day), Hi(log, day))]

\* The cursors never go back, and never cross.
PlacesAre(log, day) ==
  /\ day + DAY \in Int /\ WindowStart(day + DAY) \in Int
  /\ Lo(log, day) \in 1..Hi(log, day) /\ Hi(log, day) \in 1..Len(log) + 1
  /\ Lo(log, day) <= Lo(log, day + DAY) /\ Hi(log, day) <= Hi(log, day + DAY)

\* Later limits are later places.
LEMMA PlacesInOrder ==
  ASSUME NEW log, IsLog(log), Sorted(log), NEW day \in Int
  PROVE  PlacesAre(log, day)
<1> DEFINE next == day + DAY
<1>1. Len(log) \in Nat /\ next \in Int /\ day <= next
  BY FeeAssumption DEF IsLog
<1>2. ASSUME NEW t \in Int
      PROVE  /\ WindowStart(t) \in Int /\ WindowStart(t) <= t
             /\ t + DAY \in Int /\ t <= t + DAY /\ WindowStart(t) <= WindowStart(t + DAY)
  <2>1. windowDays * DAY \in Nat /\ DAY \in Nat
    BY FeeAssumption, ProductNat
  <2> QED  BY <2>1 DEF WindowStart
<1>3. \A t \in Int : Before(log, t) \in 0..Len(log)
  BY BeforeIs
<1>4. \A t, u \in Int : t <= u => Before(log, t) <= Before(log, u)
  BY BeforeMonotone
<1>5. /\ Lo(log, day) = Before(log, WindowStart(next)) + 1
      /\ Lo(log, next) = Before(log, WindowStart(next + DAY)) + 1
      /\ Hi(log, day) = Before(log, next) + 1
      /\ Hi(log, next) = Before(log, next + DAY) + 1
  BY DEF Lo, Hi
<1> HIDE DEF next
<1>6. /\ WindowStart(next) \in Int /\ WindowStart(next) <= next
      /\ next + DAY \in Int /\ next <= next + DAY
      /\ WindowStart(next + DAY) \in Int /\ WindowStart(next) <= WindowStart(next + DAY)
  BY <1>1, <1>2
<1>7. /\ Lo(log, day) \in 1..Hi(log, day) /\ Hi(log, day) \in 1..Len(log) + 1
      /\ Lo(log, day) <= Lo(log, next) /\ Hi(log, day) <= Hi(log, next)
  <2>1. /\ Before(log, WindowStart(next)) \in 0..Len(log)
        /\ Before(log, WindowStart(next + DAY)) \in 0..Len(log)
        /\ Before(log, next) \in 0..Len(log) /\ Before(log, next + DAY) \in 0..Len(log)
    BY <1>1, <1>3, <1>6
  <2>2. /\ Before(log, WindowStart(next)) <= Before(log, next)
        /\ Before(log, WindowStart(next)) <= Before(log, WindowStart(next + DAY))
        /\ Before(log, next) <= Before(log, next + DAY)
    BY <1>1, <1>4, <1>6
  <2> QED  BY <1>1, <1>5, <2>1, <2>2
<1> QED  BY <1>1, <1>6, <1>7 DEF PlacesAre, next

\* One turn of the loop goes on from the point of a day to that of the next.
LEMMA TurnOfLoop ==
  ASSUME NEW log, IsFees(log), Sorted(log), NEW day \in Int
  PROVE  NextPoint(log, PointOf(log, day), day + DAY) = PointOf(log, day + DAY)
<1> DEFINE next == day + DAY
           lo0 == Lo(log, day)
           hi0 == Hi(log, day)
           lo1 == Lo(log, next)
           hi1 == Hi(log, next)
           s == Stakers(log)
           f == Platforms(log)
<1>1. /\ IsLog(log) /\ Len(log) \in Nat /\ DOMAIN log = 1..Len(log) /\ next \in Int
      /\ DAY \in Nat \ {0}
  BY FeeAssumption DEF IsFees, IsLog
<1>2. /\ lo0 \in 1..hi0 /\ hi0 \in 1..Len(log) + 1 /\ lo0 <= lo1 /\ hi0 <= hi1
      /\ lo1 \in 1..hi1 /\ hi1 \in 1..Len(log) + 1
      /\ next + DAY \in Int /\ WindowStart(next + DAY) \in Int
  <2> HIDE DEF next
  <2>1. PlacesAre(log, day) /\ PlacesAre(log, next)
    BY <1>1, PlacesInOrder
  <2> QED  BY <2>1 DEF PlacesAre, next
<1>3. Advance(log, hi0, Len(log) + 1, next + DAY) = hi1
  <2>1. hi1 = Before(log, next + DAY) + 1
    BY DEF Hi
  <2> HIDE DEF hi0, hi1, next
  <2>2. /\ hi0 \in 1..Before(log, next + DAY) + 1
        /\ Len(log) + 1 \in Before(log, next + DAY) + 1..Len(log) + 1
    BY <1>1, <1>2, <2>1, BeforeIs
  <2> QED  BY <1>1, <1>2, <2>1, <2>2, AdvanceIs DEF IsFees
<1>4. Advance(log, lo0, hi1, WindowStart(next + DAY)) = lo1
  <2>1. lo1 = Before(log, WindowStart(next + DAY)) + 1
    BY DEF Lo
  <2> HIDE DEF lo0, lo1, hi1, next
  <2>2. /\ lo0 \in 1..Before(log, WindowStart(next + DAY)) + 1
        /\ hi1 \in Before(log, WindowStart(next + DAY)) + 1..Len(log) + 1
    BY <1>1, <1>2, <2>1, BeforeIs
  <2> QED  BY <1>1, <1>2, <2>1, <2>2, AdvanceIs DEF IsFees
<1>5. NextPoint(log, PointOf(log, day), next)
        = [lo |-> lo1, hi |-> hi1, day |-> next,
           staker |-> Passed(s, lo0, hi0)
                        + (SumFunctionOnSet([i \in hi0..hi1 - 1 |-> log[i].staker], hi0..hi1 - 1)
                        - SumFunctionOnSet([i \in lo0..lo1 - 1 |-> log[i].staker], lo0..lo1 - 1)),
           platform |-> Passed(f, lo0, hi0)
                        + (SumFunctionOnSet([i \in hi0..hi1 - 1 |-> log[i].platform], hi0..hi1 - 1)
                        - SumFunctionOnSet([i \in lo0..lo1 - 1 |-> log[i].platform], lo0..lo1 - 1))]
  BY <1>3, <1>4 DEF NextPoint, PointOf, SumOver
<1> HIDE DEF lo0, hi0, lo1, hi1, next
<1>6. ASSUME NEW g, \A i \in DOMAIN log : g[i] \in Nat,
             NEW mine, mine = [i \in hi0..hi1 - 1 |-> g[i]],
             NEW gone, gone = [i \in lo0..lo1 - 1 |-> g[i]]
      PROVE  Passed(g, lo0, hi0) + (SumFunctionOnSet(mine, hi0..hi1 - 1)
                                      - SumFunctionOnSet(gone, lo0..lo1 - 1))
               = Passed(g, lo1, hi1)
  <2>1. \A i \in lo0..hi1 - 1 : g[i] \in Int
    BY <1>1, <1>2, <1>6
  <2>2. SumFunctionOnSet(mine, hi0..hi1 - 1) = Passed(g, hi0, hi1)
    <3>1. \A i \in hi0..hi1 - 1 : mine[i] = g[i] /\ mine[i] \in Int
      BY <1>2, <1>6, <2>1
    <3>2. IsFiniteSet(hi0..hi1 - 1)
      BY <1>2, FS_Interval, hi0 \in Int, hi1 - 1 \in Int
    <3> QED  BY <3>1, <3>2, SumAgrees DEF Passed
  <2>3. SumFunctionOnSet(gone, lo0..lo1 - 1) = Passed(g, lo0, lo1)
    <3>1. \A i \in lo0..lo1 - 1 : gone[i] = g[i] /\ gone[i] \in Int
      BY <1>2, <1>6, <2>1
    <3>2. IsFiniteSet(lo0..lo1 - 1)
      BY <1>2, FS_Interval, lo0 \in Int, lo1 - 1 \in Int
    <3> QED  BY <3>1, <3>2, SumAgrees DEF Passed
  <2>4. /\ Passed(g, lo0, hi1) = Passed(g, lo0, hi0) + Passed(g, hi0, hi1)
        /\ Passed(g, lo0, hi1) = Passed(g, lo0, lo1) + Passed(g, lo1, hi1)
    BY <1>2, <2>1, PassedOn
  <2>5. /\ Passed(g, lo0, hi0) \in Int /\ Passed(g, hi0, hi1) \in Int
        /\ Passed(g, lo0, lo1) \in Int /\ Passed(g, lo1, hi1) \in Int
    BY <1>2, <2>1, PassedIs
  <2> QED  BY <2>2, <2>3, <2>4, <2>5
<1>7. /\ \A i \in DOMAIN log : s[i] \in Nat /\ f[i] \in Nat
      /\ \A i \in DOMAIN log : s[i] = log[i].staker /\ f[i] = log[i].platform
  BY DEF IsFees, Stakers, Platforms
<1>8. /\ [i \in hi0..hi1 - 1 |-> log[i].staker] = [i \in hi0..hi1 - 1 |-> s[i]]
      /\ [i \in lo0..lo1 - 1 |-> log[i].staker] = [i \in lo0..lo1 - 1 |-> s[i]]
      /\ [i \in hi0..hi1 - 1 |-> log[i].platform] = [i \in hi0..hi1 - 1 |-> f[i]]
      /\ [i \in lo0..lo1 - 1 |-> log[i].platform] = [i \in lo0..lo1 - 1 |-> f[i]]
  BY <1>1, <1>2, <1>7
<1> HIDE DEF s, f
<1>9. NextPoint(log, PointOf(log, day), next)
        = [lo |-> lo1, hi |-> hi1, day |-> next,
           staker |-> Passed(s, lo1, hi1), platform |-> Passed(f, lo1, hi1)]
  <2>1. Passed(s, lo0, hi0)
          + (SumFunctionOnSet([i \in hi0..hi1 - 1 |-> log[i].staker], hi0..hi1 - 1)
             - SumFunctionOnSet([i \in lo0..lo1 - 1 |-> log[i].staker], lo0..lo1 - 1))
          = Passed(s, lo1, hi1)
    BY <1>6, <1>7, <1>8
  <2>2. Passed(f, lo0, hi0)
          + (SumFunctionOnSet([i \in hi0..hi1 - 1 |-> log[i].platform], hi0..hi1 - 1)
             - SumFunctionOnSet([i \in lo0..lo1 - 1 |-> log[i].platform], lo0..lo1 - 1))
          = Passed(f, lo1, hi1)
    BY <1>6, <1>7, <1>8
  <2> QED  BY <1>5, <2>1, <2>2
<1> QED  BY <1>9 DEF PointOf, lo1, hi1, next, s, f

\* Midnights.
LEMMA DayIs ==
  ASSUME NEW t \in Nat
  PROVE  /\ t \div DAY \in Nat /\ DayOf(t) = (t \div DAY) * DAY /\ DayOf(t) \in Nat
         /\ DayOf(t) <= t /\ t < DayOf(t) + DAY
BY FeeAssumption, DivisionRoundsDown, RemainderBelow DEF DayOf

\* A later time is on no earlier day.
LEMMA DayMonotone ==
  ASSUME NEW t \in Nat, NEW u \in Nat, t <= u
  PROVE  DayOf(t) <= DayOf(u)
<1>1. DAY \in Nat \ {0}
  BY FeeAssumption
<1>2. t \div DAY \in Nat /\ u \div DAY \in Nat /\ t \div DAY <= u \div DAY
  BY <1>1, DivisionRoundsDown, DivisionMonotone
<1> QED  BY <1>1, <1>2, ProductMonotone DEF DayOf

\* How many days the chart has.
LEMMA DaysBetween ==
  ASSUME NEW t \in Nat, NEW u \in Nat
  PROVE  (DayOf(u) - DayOf(t)) \div DAY = (u \div DAY) - (t \div DAY)
<1> DEFINE q == u \div DAY
           r == t \div DAY
<1>1. DAY \in Nat \ {0} /\ q \in Nat /\ r \in Nat
  BY FeeAssumption, DayIs
<1>2. DayOf(u) = q * DAY /\ DayOf(t) = r * DAY
  BY DayIs
<1> HIDE DEF q, r
<1>3. DayOf(u) - DayOf(t) = (q - r) * DAY
  BY <1>1, <1>2
<1> QED  BY <1>1, <1>3, WholeQuotient, q - r \in Int DEF q, r

\* The first distribution, the number of points, and the day of each.
FirstTime(log) == ByTime(log)[1].timestamp
DaysOf(log, now) == (DayOf(now) - DayOf(FirstTime(log))) \div DAY + 1
NthDay(log, k) == DayOf(FirstTime(log)) + (k - 1) * DAY

\* Sorting keeps the amounts.
LEMMA SortedFees ==
  ASSUME NEW log, IsFees(log)
  PROVE  /\ IsFees(ByTime(log)) /\ Sorted(ByTime(log)) /\ Len(ByTime(log)) = Len(log)
         /\ Len(log) > 0 => FirstTime(log) \in Nat
<1>1. IsLog(log)
  BY DEF IsFees
<1>2. PICK p : Reorders(p, log)
  BY <1>1, SortedLog
<1>3. IsLog(ByTime(log)) /\ Len(ByTime(log)) = Len(log) /\ Sorted(ByTime(log))
  BY <1>1, SortedLog
<1>4. \A k \in DOMAIN ByTime(log) :
        ByTime(log)[k].staker \in Nat /\ ByTime(log)[k].platform \in Nat
  BY <1>2 DEF IsFees, Reorders
<1>5. Len(log) > 0 => 1 \in DOMAIN ByTime(log)
  BY <1>1, <1>3 DEF IsLog
<1> QED  BY <1>3, <1>4, <1>5 DEF IsFees, IsLog, FirstTime

\* Each turn of the loop adds the point of its day.
LEMMA RollingFeesAre ==
  ASSUME NEW log, IsFees(log), Len(log) > 0, NEW now \in Nat
  PROVE  RollingFees(log, now)
           = [k \in 1..DaysOf(log, now) |-> PointOf(ByTime(log), NthDay(log, k))]
<1> DEFINE sorted == ByTime(log)
           first == DayOf(FirstTime(log))
           days == DaysOf(log, now)
           before == [lo |-> 1, hi |-> 1, day |-> first - DAY, staker |-> 0, platform |-> 0]
           Turns(g) == [k \in 0..days |-> IF k = 0 THEN before
                                          ELSE NextPoint(sorted, g[k - 1], first + (k - 1) * DAY)]
           found == [k \in 0..days |-> PointOf(sorted, first + (k - 1) * DAY)]
<1>1. /\ IsFees(sorted) /\ IsLog(sorted) /\ Sorted(sorted)
      /\ FirstTime(log) \in Nat /\ first \in Nat /\ DAY \in Nat \ {0}
      /\ FirstTime(log) >= first
      /\ Len(sorted) \in Nat \ {0} /\ DOMAIN sorted = 1..Len(sorted)
  <2>1. /\ IsFees(sorted) /\ Sorted(sorted) /\ Len(sorted) = Len(log)
        /\ FirstTime(log) \in Nat /\ DAY \in Nat \ {0}
    BY SortedFees, FeeAssumption
  <2>2. IsLog(sorted) /\ Len(sorted) \in Nat \ {0} /\ DOMAIN sorted = 1..Len(sorted)
    BY <2>1 DEF IsFees, IsLog
  <2> QED  BY <2>1, <2>2, DayIs
<1>2. days \in Int
  <2>1. now \div DAY \in Nat /\ FirstTime(log) \div DAY \in Nat
    BY <1>1, DayIs
  <2>2. (DayOf(now) - DayOf(FirstTime(log))) \div DAY
          = (now \div DAY) - (FirstTime(log) \div DAY)
    BY <1>1, DaysBetween
  <2>3. days = (now \div DAY) - (FirstTime(log) \div DAY) + 1
    BY <2>2 DEF DaysOf
  <2> QED  BY <2>1, <2>3
<1>3. PointOf(sorted, first - DAY) = before
  <2> DEFINE day == first - DAY
  <2>1. day \in Int /\ day + DAY = first
    BY <1>1
  <2> HIDE DEF day
  <2>2. ASSUME NEW t \in Int, t <= first PROVE Before(sorted, t) = 0
    <3>1. /\ Before(sorted, t) \in 0..Len(sorted)
          /\ \A k \in DOMAIN sorted : sorted[k].timestamp < t <=> k <= Before(sorted, t)
      BY <1>1, BeforeIs
    <3>2. ~(sorted[1].timestamp < t)
      BY <1>1, <2>2 DEF FirstTime
    <3> QED  BY <1>1, <3>1, <3>2
  <2>3. WindowStart(first) \in Int /\ WindowStart(first) <= first
    <3>1. windowDays * DAY \in Nat
      BY FeeAssumption, ProductNat
    <3> QED  BY <1>1, <3>1 DEF WindowStart
  <2>4. Lo(sorted, day) = 1 /\ Hi(sorted, day) = 1
    BY <1>1, <2>1, <2>2, <2>3 DEF Lo, Hi
  <2>5. \A f : Passed(f, 1, 1) = 0
    BY SumOfNothing, 1..1 - 1 = {} DEF Passed
  <2> QED  BY <2>4, <2>5 DEF PointOf, day
<1>4. found = Turns(found)
  <2>1. ASSUME NEW k \in 1..days
        PROVE  NextPoint(sorted, PointOf(sorted, first + (k - 2) * DAY), first + (k - 1) * DAY)
                 = PointOf(sorted, first + (k - 1) * DAY)
    <3> DEFINE day == first + (k - 2) * DAY
    <3>1. day \in Int /\ day + DAY = first + (k - 1) * DAY
      BY <1>1, <1>2
    <3> HIDE DEF day
    <3>2. NextPoint(sorted, PointOf(sorted, day), day + DAY) = PointOf(sorted, day + DAY)
      BY <1>1, <3>1, TurnOfLoop
    <3> QED  BY <3>1, <3>2 DEF day
  <2>2. ASSUME NEW k \in 0..days
        PROVE  found[k] = IF k = 0 THEN before
                          ELSE NextPoint(sorted, found[k - 1], first + (k - 1) * DAY)
    <3>1. CASE k = 0
      BY <1>1, <1>3, <3>1
    <3>2. CASE k # 0
      <4>1. k \in 1..days /\ k - 1 \in 0..days /\ k - 1 - 1 = k - 2
        BY <1>2, <3>2
      <4>2. found[k - 1] = PointOf(sorted, first + (k - 2) * DAY)
        BY <4>1
      <4> QED  BY <2>1, <3>2, <4>1, <4>2
    <3> QED  BY <3>1, <3>2
  <2> QED  BY <2>2
<1>5. ASSUME NEW g, g = Turns(g)
      PROVE  g = found
  <2>1. ASSUME NEW k \in 0..days, k > 0 => g[k - 1] = found[k - 1]
        PROVE  g[k] = found[k]
    <3>1. g[k] = Turns(g)[k] /\ found[k] = Turns(found)[k]
      BY <1>4, <1>5
    <3> HIDE DEF found
    <3> QED  BY <2>1, <3>1
  <2>2. \A k \in 0..days : g[k] = found[k]
    <3>1. days \in Int
      BY <1>2
    <3>2. \A k \in 0..days : (k > 0 => g[k - 1] = found[k - 1]) => g[k] = found[k]
      BY <2>1
    <3> HIDE DEF found, days
    <3> QED  BY <3>1, <3>2, SameAtEveryTurn
  <2>3. DOMAIN g = 0..days /\ g = [k \in 0..days |-> g[k]]
    BY <1>5
  <2> QED  BY <2>2, <2>3
<1>6. RollingFees(log, now) = [k \in 1..days |-> (CHOOSE g : g = Turns(g))[k]]
  BY DEF RollingFees, FirstTime, DaysOf
<1>7. (CHOOSE g : g = Turns(g)) = found
  <2> HIDE DEF Turns
  <2> QED  BY <1>4, <1>5
<1>8. RollingFees(log, now) = [k \in 1..days |-> found[k]]
  BY <1>6, <1>7
<1>9. \A k \in 1..days : found[k] = PointOf(sorted, NthDay(log, k))
  BY <1>2 DEF NthDay
<1> HIDE DEF found, days
<1> QED  BY <1>8, <1>9 DEF days

-----------------------------------------------------------------------------
(* What the chart of the fees shows.                                       *)

\* The distributions of the days up to one.
InWindow(log, day) ==
  {i \in DOMAIN log : /\ log[i].timestamp >= day - (windowDays - 1) * DAY
                      /\ log[i].timestamp < day + DAY}

\* What passed between the two cursors is what was distributed in the window.
LEMMA PassedInWindow ==
  ASSUME NEW log, IsFees(log), NEW day \in Int, NEW p, Reorders(p, log),
         NEW part, \A i \in DOMAIN log : part[i] \in Nat,
         NEW moved, \A k \in DOMAIN log : moved[k] = part[p[k]]
  PROVE  Passed(moved, Lo(ByTime(log), day), Hi(ByTime(log), day))
           = SumFunctionOnSet(part, InWindow(log, day))
<1> DEFINE sorted == ByTime(log)
           n == Len(log)
           lo == Lo(sorted, day)
           hi == Hi(sorted, day)
           start == WindowStart(day + DAY)
           window == {i \in DOMAIN log : log[i].timestamp >= start /\ log[i].timestamp < day + DAY}
<1>1. /\ IsFees(sorted) /\ Sorted(sorted) /\ Len(sorted) = n /\ IsLog(sorted)
      /\ n \in Nat /\ DOMAIN log = 1..n /\ DOMAIN sorted = 1..n
  BY SortedFees DEF IsFees, IsLog
<1>2. day - (windowDays - 1) * DAY = start
  BY FeeAssumption DEF WindowStart
<1>3. PlacesAre(sorted, day)
  BY <1>1, PlacesInOrder
<1>4. lo \in 1..hi /\ hi \in 1..n + 1 /\ start \in Int /\ day + DAY \in Int
  BY <1>1, <1>3 DEF PlacesAre
<1>5. \A k \in 1..n : /\ sorted[k].timestamp < start <=> k <= lo - 1
                      /\ sorted[k].timestamp < day + DAY <=> k <= hi - 1
  <2>1. /\ Before(sorted, start) = lo - 1
        /\ Before(sorted, day + DAY) = hi - 1
    <3>1. Before(sorted, start) \in 0..n /\ Before(sorted, day + DAY) \in 0..n
      BY <1>1, <1>4, BeforeIs
    <3> QED  BY <3>1 DEF Lo, Hi
  <2>2. /\ \A k \in DOMAIN sorted : sorted[k].timestamp < start <=> k <= Before(sorted, start)
        /\ \A k \in DOMAIN sorted :
             sorted[k].timestamp < day + DAY <=> k <= Before(sorted, day + DAY)
    BY <1>1, <1>4, BeforeIs
  <2> QED  BY <1>1, <2>1, <2>2
<1>6. /\ \A k \in 1..n : p[k] \in 1..n /\ sorted[k] = log[p[k]]
      /\ \A i \in 1..n : \E k \in 1..n : p[k] = i
      /\ \A i, j \in 1..n : i # j => p[i] # p[j]
  BY <1>1 DEF Reorders
<1>7. /\ \A i \in 1..n : log[i].timestamp \in Nat /\ part[i] \in Nat
      /\ \A i \in 1..n : moved[i] = part[p[i]]
  BY <1>1 DEF IsFees, IsLog
<1>8. \A i \in 1..n : i \in window <=> /\ ~(log[i].timestamp < start)
                                     /\ log[i].timestamp < day + DAY
  BY <1>1, <1>4, <1>7
<1>9. window \subseteq 1..n
  BY <1>1
<1> HIDE DEF n, lo, hi, sorted, start, window
<1>10. lo..hi - 1 \subseteq 1..n
  BY <1>1, <1>4
<1>11. \A k \in 1..n : k \in lo..hi - 1 <=> p[k] \in window
  <2> SUFFICES ASSUME NEW k \in 1..n PROVE k \in lo..hi - 1 <=> p[k] \in window
    OBVIOUS
  <2>1. p[k] \in 1..n /\ sorted[k] = log[p[k]]
    BY <1>6
  <2>2. p[k] \in window <=> ~(sorted[k].timestamp < start) /\ sorted[k].timestamp < day + DAY
    BY <1>8, <2>1
  <2>3. k \in lo..hi - 1 <=> ~(k <= lo - 1) /\ k <= hi - 1
    BY <1>4
  <2> QED  BY <1>5, <2>2, <2>3
<1>12. Pairs(p, lo..hi - 1, window)
  BY <1>6, <1>9, <1>10, <1>11 DEF Pairs
<1>13. SumFunctionOnSet(part, window) = SumFunctionOnSet(moved, lo..hi - 1)
  <2> DEFINE S == lo..hi - 1
  <2>1. IsFiniteSet(S)
    BY <1>4, FS_Interval, lo \in Int, hi - 1 \in Int
  <2>2. \A k \in S : moved[k] \in Int /\ part[p[k]] = moved[k]
    BY <1>6, <1>7, <1>10
  <2>3. Pairs(p, S, window)
    BY <1>12
  <2> HIDE DEF S
  <2>4. SumFunctionOnSet(part, window) = SumFunctionOnSet(moved, S)
    BY <2>1, <2>2, <2>3, SumOfImage
  <2> QED  BY <2>4 DEF S
<1>14. window = InWindow(log, day)
  BY <1>2 DEF window, InWindow
<1>15. Passed(moved, lo, hi) = SumFunctionOnSet(part, window)
  BY <1>13 DEF Passed
<1> QED  BY <1>14, <1>15 DEF lo, hi, sorted

\* Both parts together.
AllParts(log) == [i \in DOMAIN log |-> log[i].staker + log[i].platform]

\* A window is finite.
LEMMA WindowFinite ==
  ASSUME NEW log, IsLog(log), NEW day
  PROVE  IsFiniteSet(DOMAIN log) /\ IsFiniteSet(InWindow(log, day))
<1>1. IsFiniteSet(DOMAIN log)
  BY FS_Interval, 1 \in Int DEF IsLog
<1>2. InWindow(log, day) \in SUBSET DOMAIN log
  BY DEF InWindow
<1> QED  BY <1>1, <1>2, FS_Subset

\* What a point holds are the sums over its window.
LEMMA PointSums ==
  ASSUME NEW log, IsFees(log), NEW day \in Int
  PROVE  LET point == PointOf(ByTime(log), day)
             window == InWindow(log, day)
         IN  /\ point.day = day
             /\ point.staker = SumFunctionOnSet(Stakers(log), window)
             /\ point.platform = SumFunctionOnSet(Platforms(log), window)
             /\ point.staker \in Nat /\ point.platform \in Nat
             /\ point.staker + point.platform = SumFunctionOnSet(AllParts(log), window)
<1> DEFINE sorted == ByTime(log)
           point == PointOf(sorted, day)
           window == InWindow(log, day)
           lo == Lo(sorted, day)
           hi == Hi(sorted, day)
<1>1. IsLog(log) /\ IsFiniteSet(window) /\ window \subseteq DOMAIN log
  BY WindowFinite DEF IsFees, InWindow
<1>2. PICK p : Reorders(p, log)
  BY <1>1, SortedLog
<1>3. /\ DOMAIN sorted = DOMAIN log
      /\ \A k \in DOMAIN log : p[k] \in DOMAIN log /\ sorted[k] = log[p[k]]
  BY <1>2 DEF Reorders
<1>4. \A i \in DOMAIN log : log[i].staker \in Nat /\ log[i].platform \in Nat
  BY DEF IsFees
<1>5. Passed(Stakers(sorted), lo, hi) = SumFunctionOnSet(Stakers(log), window)
  <2>1. /\ \A i \in DOMAIN log : Stakers(log)[i] \in Nat
        /\ \A k \in DOMAIN log : Stakers(sorted)[k] = Stakers(log)[p[k]]
    BY <1>3, <1>4 DEF Stakers
  <2> QED  BY <1>2, <2>1, PassedInWindow
<1>6. Passed(Platforms(sorted), lo, hi) = SumFunctionOnSet(Platforms(log), window)
  <2>1. /\ \A i \in DOMAIN log : Platforms(log)[i] \in Nat
        /\ \A k \in DOMAIN log : Platforms(sorted)[k] = Platforms(log)[p[k]]
    BY <1>3, <1>4 DEF Platforms
  <2> QED  BY <1>2, <2>1, PassedInWindow
<1>7. \A i \in window : /\ Stakers(log)[i] \in Nat /\ Platforms(log)[i] \in Nat
                        /\ AllParts(log)[i] = Stakers(log)[i] + 1 * Platforms(log)[i]
  BY <1>1, <1>4 DEF Stakers, Platforms, AllParts
<1> HIDE DEF window
<1>8. /\ SumFunctionOnSet(Stakers(log), window) \in Nat
      /\ SumFunctionOnSet(Platforms(log), window) \in Nat
  BY <1>1, <1>7, SumIsNatural
<1>9. SumFunctionOnSet(AllParts(log), window)
        = SumFunctionOnSet(Stakers(log), window) + 1 * SumFunctionOnSet(Platforms(log), window)
  BY <1>1, <1>7, SumOfMultiple, 1 \in Int
<1>10. /\ point.day = day /\ point.staker = Passed(Stakers(sorted), lo, hi)
       /\ point.platform = Passed(Platforms(sorted), lo, hi)
  BY DEF PointOf
<1> HIDE DEF point, sorted
<1>11. point.staker + point.platform = SumFunctionOnSet(AllParts(log), window)
  BY <1>5, <1>6, <1>8, <1>9, <1>10
<1> QED  BY <1>5, <1>6, <1>8, <1>10, <1>11 DEF point, sorted, window

\* The first in time, and its day.
LEMMA FirstIs ==
  ASSUME NEW log, IsFees(log), Len(log) > 0
  PROVE  /\ FirstTime(log) \in Nat
         /\ \A i \in DOMAIN log : log[i].timestamp \in Nat /\ FirstTime(log) <= log[i].timestamp
         /\ Min({DayOf(d.timestamp) : d \in Range(log)}) = DayOf(FirstTime(log))
<1> DEFINE sorted == ByTime(log)
           days == {DayOf(d.timestamp) : d \in Range(log)}
           first == DayOf(FirstTime(log))
<1>1. /\ IsLog(log) /\ IsFees(sorted) /\ Sorted(sorted) /\ Len(sorted) = Len(log)
      /\ FirstTime(log) \in Nat
  BY SortedFees DEF IsFees
<1>2. PICK p : Reorders(p, log)
  BY <1>1, SortedLog
<1>3. /\ DOMAIN log = 1..Len(log) /\ Len(log) \in Nat \ {0} /\ DOMAIN sorted = 1..Len(log)
      /\ \A i \in DOMAIN log : log[i].timestamp \in Nat
  BY <1>1 DEF IsLog, IsFees
<1>4. /\ \A k \in DOMAIN log : p[k] \in DOMAIN log /\ sorted[k] = log[p[k]]
      /\ \A i \in DOMAIN log : \E k \in DOMAIN log : p[k] = i
  BY <1>2 DEF Reorders
<1>5. p[1] \in DOMAIN log /\ FirstTime(log) = log[p[1]].timestamp
  BY <1>3, <1>4 DEF FirstTime
<1>6. ASSUME NEW i \in DOMAIN log
      PROVE  FirstTime(log) <= log[i].timestamp
  <2>1. PICK k \in DOMAIN log : p[k] = i
    BY <1>4
  <2>2. sorted[k] = log[i] /\ FirstTime(log) = sorted[1].timestamp
    BY <1>4, <2>1 DEF FirstTime
  <2>3. CASE k = 1
    BY <1>1, <2>2, <2>3
  <2>4. CASE k > 1
    <3>1. sorted[1].timestamp <= sorted[k].timestamp
      BY <1>1, <1>3, <2>4 DEF Sorted
    <3> QED  BY <2>2, <3>1
  <2> QED  BY <1>3, <2>3, <2>4
<1>7. first \in days
  BY <1>5 DEF Range
<1>8. ASSUME NEW day \in days PROVE first <= day
  <2>1. PICK i \in DOMAIN log : day = DayOf(log[i].timestamp)
    BY DEF Range
  <2> QED  BY <1>1, <1>3, <1>6, <2>1, DayMonotone
<1>9. days \subseteq Int
  <2> SUFFICES ASSUME NEW day \in days PROVE day \in Int
    OBVIOUS
  <2>1. PICK i \in DOMAIN log : day = DayOf(log[i].timestamp)
    BY DEF Range
  <2> QED  BY <1>3, <2>1, DayIs
<1> HIDE DEF first, days
<1>10. Min(days) = first
  <2>1. \E m \in days : \A day \in days : m <= day
    BY <1>7, <1>8
  <2>2. Min(days) \in days /\ \A day \in days : Min(days) <= day
    BY <2>1 DEF Min
  <2>3. Min(days) <= first /\ first <= Min(days) /\ first \in Int /\ Min(days) \in Int
    BY <1>7, <1>8, <1>9, <2>2
  <2> QED  BY <2>3
<1> QED  BY <1>1, <1>3, <1>6, <1>10 DEF first, days

\* What the page reads: distributions, and the browser's clock.
FeesRead(data) == IsFees(DistributionsOf(data)) /\ data.now \in Nat

\* A figure of the chart is the sum it is meant to be.
LEMMA FeesOfIs ==
  ASSUME NEW data, FeesRead(data), NEW day
  PROVE  LET log == DistributionsOf(data)
         IN  /\ FeesOf(data, day, LAMBDA d : d.staker)
                   = SumFunctionOnSet(Stakers(log), InWindow(log, day))
             /\ FeesOf(data, day, LAMBDA d : d.platform)
                   = SumFunctionOnSet(Platforms(log), InWindow(log, day))
             /\ FeesOf(data, day, LAMBDA d : d.staker + d.platform)
                   = SumFunctionOnSet(AllParts(log), InWindow(log, day))
<1> DEFINE log == DistributionsOf(data)
           window == InWindow(log, day)
<1>1. /\ IsFiniteSet(window) /\ window \subseteq DOMAIN log
      /\ \A i \in DOMAIN log : log[i].staker \in Nat /\ log[i].platform \in Nat
  BY WindowFinite DEF FeesRead, IsFees, InWindow
<1>2. /\ FeesOf(data, day, LAMBDA d : d.staker)
           = SumFunctionOnSet([i \in window |-> log[i].staker], window)
      /\ FeesOf(data, day, LAMBDA d : d.platform)
           = SumFunctionOnSet([i \in window |-> log[i].platform], window)
      /\ FeesOf(data, day, LAMBDA d : d.staker + d.platform)
           = SumFunctionOnSet([i \in window |-> log[i].staker + log[i].platform], window)
  BY DEF FeesOf, SumOver, InWindow
<1> HIDE DEF window, log
<1>3. ASSUME NEW f, \A i \in window : f[i] \in Int
      PROVE  SumFunctionOnSet([i \in window |-> f[i]], window) = SumFunctionOnSet(f, window)
  <2> DEFINE g == [i \in window |-> f[i]]
  <2>1. \A i \in window : g[i] = f[i] /\ g[i] \in Int
    BY <1>3
  <2> HIDE DEF g
  <2>2. SumFunctionOnSet(g, window) = SumFunctionOnSet(f, window)
    BY <1>1, <2>1, SumAgrees
  <2> QED  BY <2>2 DEF g
<1>4. /\ [i \in window |-> log[i].staker] = [i \in window |-> Stakers(log)[i]]
      /\ [i \in window |-> log[i].platform] = [i \in window |-> Platforms(log)[i]]
      /\ [i \in window |-> log[i].staker + log[i].platform] = [i \in window |-> AllParts(log)[i]]
      /\ \A i \in window : /\ Stakers(log)[i] \in Int /\ Platforms(log)[i] \in Int
                            /\ AllParts(log)[i] \in Int
  BY <1>1 DEF Stakers, Platforms, AllParts
<1> QED  BY <1>2, <1>3, <1>4 DEF window, log

\* The points of the chart, and their number.
LEMMA ChartIs ==
  ASSUME NEW log, IsFees(log), Len(log) > 0, NEW now \in Nat
  PROVE  LET points == RollingFees(log, now)
         IN  /\ DaysOf(log, now) \in Int
             /\ DaysOf(log, now) = (now \div DAY) - (FirstTime(log) \div DAY) + 1
             /\ DOMAIN points = 1..DaysOf(log, now)
             /\ Len(points) = IF DaysOf(log, now) < 0 THEN 0 ELSE DaysOf(log, now)
             /\ \A k \in DOMAIN points :
                  /\ NthDay(log, k) \in Int
                  /\ points[k] = PointOf(ByTime(log), NthDay(log, k))
<1> DEFINE points == RollingFees(log, now)
           days == DaysOf(log, now)
<1>1. /\ FirstTime(log) \in Nat /\ DAY \in Nat \ {0} /\ DayOf(FirstTime(log)) \in Nat
      /\ now \div DAY \in Nat /\ FirstTime(log) \div DAY \in Nat
  BY FirstIs, DayIs, FeeAssumption
<1>2. days = (now \div DAY) - (FirstTime(log) \div DAY) + 1
  <2>1. (DayOf(now) - DayOf(FirstTime(log))) \div DAY
          = (now \div DAY) - (FirstTime(log) \div DAY)
    BY <1>1, DaysBetween
  <2> QED  BY <2>1 DEF DaysOf
<1>3. days \in Int
  BY <1>1, <1>2
<1>4. points = [k \in 1..days |-> PointOf(ByTime(log), NthDay(log, k))]
  BY RollingFeesAre
<1> HIDE DEF days, points
<1>5. \A k \in 1..days : NthDay(log, k) \in Int
  BY <1>1, <1>3 DEF NthDay
<1>6. Len(points) = IF days < 0 THEN 0 ELSE days
  <2>1. CASE days < 0
    <3>1. points = <<>>
      BY <1>3, <1>4, <2>1
    <3> QED  BY <2>1, <3>1
  <2>2. CASE ~(days < 0)
    BY <1>3, <1>4, <2>2
  <2> QED  BY <2>1, <2>2
<1> QED  BY <1>2, <1>3, <1>4, <1>5, <1>6 DEF days, points

\* Every point of the chart is the sum over its window.
THEOREM ChartShowsFees ==
  ASSUME NEW data, FeesRead(data)
  PROVE  ShowsFees(data)
<1> DEFINE log == DistributionsOf(data)
           points == RollingFees(log, data.now)
           days == DaysOf(log, data.now)
<1> SUFFICES ASSUME log # <<>>
             PROVE  /\ Len(points) = Max({0, (DayOf(data.now) - FirstDay(data)) \div DAY + 1})
                    /\ \A k \in DOMAIN points :
                         /\ points[k].day = DayNumber(data, k)
                         /\ points[k].staker = StakerFees(data, points[k].day)
                         /\ Total(points[k])
                              = FeesOf(data, points[k].day, LAMBDA d : d.staker + d.platform)
  BY DEF ShowsFees
<1>1. IsFees(log) /\ data.now \in Nat /\ Len(log) > 0
  BY DEF FeesRead, IsFees, IsLog
<1>2. /\ FirstDay(data) = DayOf(FirstTime(log))
      /\ (DayOf(data.now) - FirstDay(data)) \div DAY + 1 = days
      /\ \A k : DayNumber(data, k) = NthDay(log, k)
  BY <1>1, FirstIs DEF FirstDay, DaysOf, DayNumber, NthDay
<1>3. /\ days \in Int /\ DOMAIN points = 1..days
      /\ Len(points) = IF days < 0 THEN 0 ELSE days
      /\ \A k \in DOMAIN points : /\ NthDay(log, k) \in Int
                                  /\ points[k] = PointOf(ByTime(log), NthDay(log, k))
  BY <1>1, ChartIs
<1>4. Max({0, days}) = IF days < 0 THEN 0 ELSE days
  BY <1>3 DEF Max
<1>5. ASSUME NEW k \in DOMAIN points
      PROVE  /\ points[k].day = DayNumber(data, k)
             /\ points[k].staker = StakerFees(data, points[k].day)
             /\ Total(points[k]) = FeesOf(data, points[k].day, LAMBDA d : d.staker + d.platform)
  <2> DEFINE day == NthDay(log, k)
  <2>1. day \in Int /\ points[k] = PointOf(ByTime(log), day)
    BY <1>3
  <2> HIDE DEF day, points, log
  <2>2. /\ points[k].day = day
        /\ points[k].staker = SumFunctionOnSet(Stakers(log), InWindow(log, day))
        /\ points[k].staker + points[k].platform
             = SumFunctionOnSet(AllParts(log), InWindow(log, day))
    BY <1>1, <2>1, PointSums
  <2>3. /\ StakerFees(data, day) = SumFunctionOnSet(Stakers(log), InWindow(log, day))
        /\ FeesOf(data, day, LAMBDA d : d.staker + d.platform)
             = SumFunctionOnSet(AllParts(log), InWindow(log, day))
    BY FeesOfIs DEF StakerFees, log
  <2>4. day = DayNumber(data, k)
    BY <1>2 DEF day
  <2> QED  BY <2>2, <2>3, <2>4 DEF Total
<1> QED  BY <1>2, <1>3, <1>4, <1>5

-----------------------------------------------------------------------------
(* What the page adds up.                                                  *)

\* The first of the largest exists.
LEMMA PeakIs ==
  ASSUME NEW points, NEW n \in Nat \ {0}, DOMAIN points = 1..n, NEW bound \in Int,
         \A i \in 1..n : Total(points[i]) \in Int /\ Total(points[i]) <= bound
  PROVE  /\ Peak(points) \in 1..n
         /\ \A i \in 1..n : Total(points[i]) <= Total(points[Peak(points)])
<1> DEFINE T == {Total(points[i]) : i \in 1..n}
<1>1. PICK most \in T : \A m \in T : m <= most
  <2>1. T \in SUBSET Int /\ T # {} /\ \A m \in T : m <= bound
    <3>1. Total(points[1]) \in T
      OBVIOUS
    <3> QED  BY <3>1
  <2> HIDE DEF T
  <2> QED  BY <2>1, GreatestInteger
<1> DEFINE I == {i \in 1..n : Total(points[i]) = most}
<1>2. PICK first \in I : \A i \in I : first <= i
  <2>1. I \in SUBSET Nat /\ I # {}
    BY <1>1
  <2> HIDE DEF I
  <2> QED  BY <2>1, LeastNatural
<1>3. first \in 1..n /\ Total(points[first]) = most
  BY <1>2
<1>4. ASSUME NEW j \in 1..n
      PROVE  /\ Total(points[j]) <= Total(points[first])
             /\ j < first => Total(points[j]) < Total(points[first])
  <2>1. Total(points[j]) <= most /\ Total(points[j]) \in Int /\ most \in Int
    BY <1>1, <1>3
  <2>2. j < first => Total(points[j]) # most
    BY <1>2, <1>3
  <2> QED  BY <1>3, <2>1, <2>2
<1>5. \E i \in DOMAIN points : \A j \in DOMAIN points :
        Total(points[j]) <= Total(points[i]) /\ (j < i => Total(points[j]) < Total(points[i]))
  BY <1>3, <1>4
<1>6. /\ Peak(points) \in DOMAIN points
      /\ \A j \in DOMAIN points : Total(points[j]) <= Total(points[Peak(points)])
  BY <1>5 DEF Peak
<1> QED  BY <1>6

\* What was distributed at a time or later.
Since(log, t) == {i \in DOMAIN log : log[i].timestamp >= t}

\* Each of m rows is the sum over a window, the first over the one up to today.
IsColumn(column, m, f, log, today) ==
  \A r \in 1..m : column[r]
                   = SumFunctionOnSet(f, InWindow(log, today - (r - 1) * (windowDays * DAY)))

\* Windows that end a window apart leave no gap and do not overlap.
LEMMA RowsAddUp ==
  ASSUME NEW log, IsLog(log), NEW f, \A i \in DOMAIN log : f[i] \in Nat,
         NEW today \in Int, \A i \in DOMAIN log : log[i].timestamp < today + DAY,
         NEW m \in Nat, NEW column, IsColumn(column, m, f, log, today)
  PROVE  SumFunctionOnSet(column, 1..m)
           = SumFunctionOnSet(f, Since(log, today + DAY - m * (windowDays * DAY)))
<1> DEFINE W == windowDays * DAY
           end(r) == today + DAY - r * W
           Wrong == {r \in 0..m : SumFunctionOnSet(column, 1..r) # SumFunctionOnSet(f, Since(log, end(r)))}
<1>1. W \in Nat /\ DAY \in Nat \ {0} /\ W = windowDays * DAY /\ windowDays \in Nat
  BY FeeAssumption, ProductNat
<1>2. ASSUME NEW t PROVE IsFiniteSet(Since(log, t)) /\ Since(log, t) \subseteq DOMAIN log
  BY WindowFinite, FS_Subset, Since(log, t) \in SUBSET DOMAIN log DEF Since
<1>3. \A i \in DOMAIN log : log[i].timestamp \in Nat
  BY DEF IsLog
<1>4. ASSUME NEW r \in 1..m
      PROVE  /\ end(r) \in Int /\ end(r - 1) \in Int /\ end(r) <= end(r - 1)
             /\ Since(log, end(r)) = Since(log, end(r - 1)) \cup InWindow(log, today - (r - 1) * W)
             /\ Since(log, end(r - 1)) \cap InWindow(log, today - (r - 1) * W) = {}
  <2> DEFINE day == today - (r - 1) * W
             new == end(r)
             old == end(r - 1)
  <2>1. (r - 1) * W \in Int /\ r * W = (r - 1) * W + W
    BY <1>1
  <2>2. (windowDays - 1) * DAY = W - DAY
    BY <1>1
  <2>3. /\ day \in Int /\ new \in Int /\ old \in Int /\ new <= old
        /\ old = day + DAY /\ new = day - (windowDays - 1) * DAY
    BY <1>1, <2>1, <2>2
  <2> HIDE DEF day, new, old, W
  <2>4. InWindow(log, day) = {i \in DOMAIN log : log[i].timestamp >= new /\ log[i].timestamp < old}
    BY <2>3 DEF InWindow
  <2>5. /\ Since(log, new) = Since(log, old) \cup InWindow(log, day)
        /\ Since(log, old) \cap InWindow(log, day) = {}
    BY <1>3, <2>3, <2>4 DEF Since
  <2> QED  BY <2>3, <2>5 DEF day, new, old
<1>5. \A r \in 1..m : column[r] \in Int
  <2> SUFFICES ASSUME NEW r \in 1..m PROVE column[r] \in Int
    OBVIOUS
  <2> DEFINE window == InWindow(log, today - (r - 1) * W)
  <2>1. IsFiniteSet(window) /\ \A i \in window : f[i] \in Int
    BY WindowFinite DEF InWindow
  <2>2. column[r] = SumFunctionOnSet(f, window)
    BY DEF IsColumn
  <2> HIDE DEF window
  <2> QED  BY <2>1, <2>2, SumEquation
<1>6. Wrong = {}
  <2> SUFFICES ASSUME Wrong # {} PROVE FALSE
    OBVIOUS
  <2>1. PICK r \in Wrong : \A q \in Wrong : r <= q
    BY LeastNatural, Wrong \in SUBSET Nat
  <2>2. r \in 0..m /\ SumFunctionOnSet(column, 1..r) # SumFunctionOnSet(f, Since(log, end(r)))
    OBVIOUS
  <2>3. CASE r = 0
    <3>1. end(0) = today + DAY
      BY <1>1
    <3>2. Since(log, end(0)) = {} /\ 1..0 = {}
      BY <1>1, <1>3, <3>1 DEF Since
    <3> QED  BY <2>2, <2>3, <3>2, SumOfNothing
  <2>4. CASE r # 0
    <3>1. r \in 1..m /\ r - 1 \in 0..m /\ r - 1 \notin Wrong
      BY <2>1, <2>2, <2>4
    <3>2. SumFunctionOnSet(column, 1..r - 1) = SumFunctionOnSet(f, Since(log, end(r - 1)))
      BY <3>1
    <3>3. SumFunctionOnSet(column, 1..r) = SumFunctionOnSet(column, 1..r - 1) + column[r]
      <4> DEFINE S == 1..r - 1
      <4>1. 1..r = S \cup {r} /\ r \notin S /\ S \cup {r} \subseteq 1..m
        BY <3>1
      <4>2. IsFiniteSet(S)
        BY <3>1, FS_Interval, 1 \in Int, r - 1 \in Int
      <4> HIDE DEF S
      <4>3. \A q \in S \cup {r} : column[q] \in Int
        BY <1>5, <4>1
      <4>4. SumFunctionOnSet(column, S \cup {r}) = SumFunctionOnSet(column, S) + column[r]
        BY <4>1, <4>2, <4>3, SumAdded
      <4> QED  BY <4>1, <4>4 DEF S
    <3>4. SumFunctionOnSet(f, Since(log, end(r)))
            = SumFunctionOnSet(f, Since(log, end(r - 1))) + column[r]
      <4> DEFINE A == Since(log, end(r - 1))
                 B == InWindow(log, today - (r - 1) * W)
      <4>1. IsFiniteSet(A) /\ A \subseteq DOMAIN log /\ A \cap B = {}
        BY <1>2, <1>4, <3>1
      <4>5. IsFiniteSet(B) /\ B \subseteq DOMAIN log
        BY WindowFinite DEF InWindow
      <4>2. Since(log, end(r)) = A \cup B /\ column[r] = SumFunctionOnSet(f, B)
        BY <1>4, <3>1 DEF IsColumn
      <4> HIDE DEF A, B
      <4>3. SumFunctionOnSet(f, A \cup B) = SumFunctionOnSet(f, A) + SumFunctionOnSet(f, B)
        BY <4>1, <4>5, SumOfUnion
      <4> QED  BY <4>2, <4>3 DEF A
    <3> QED  BY <2>2, <3>2, <3>3, <3>4
  <2> QED  BY <2>3, <2>4
<1> QED  BY <1>6, m \in 0..m

\* The last point is today's, and every distribution is of today or before.
LEMMA LastDayIs ==
  ASSUME NEW data, FeesRead(data), DistributionsOf(data) # <<>>, ClockRight(data)
  PROVE  LET log == DistributionsOf(data)
             today == DayOf(data.now)
             days == DaysOf(log, data.now)
         IN  /\ days \in Nat \ {0} /\ today \in Int
             /\ \A i \in DOMAIN log : log[i].timestamp < today + DAY
             /\ \A i \in DOMAIN log : today - (days - 1) * DAY <= log[i].timestamp
             /\ \A j \in Int : NthDay(log, days - j) = today - j * DAY
<1> DEFINE log == DistributionsOf(data)
           today == DayOf(data.now)
           days == DaysOf(log, data.now)
           first == DayOf(FirstTime(log))
           q == data.now \div DAY
           q0 == FirstTime(log) \div DAY
<1>1. /\ IsFees(log) /\ data.now \in Nat /\ Len(log) > 0 /\ Len(log) \in Nat
      /\ DOMAIN log = 1..Len(log)
  BY DEF FeesRead, IsFees, IsLog
<1>2. /\ FirstTime(log) \in Nat
      /\ \A i \in DOMAIN log : log[i].timestamp \in Nat /\ FirstTime(log) <= log[i].timestamp
  BY <1>1, FirstIs
<1>3. days \in Int /\ days = q - q0 + 1
  BY <1>1, ChartIs
<1>4. /\ q \in Nat /\ today = q * DAY /\ today \in Nat /\ DAY \in Nat \ {0}
      /\ q0 \in Nat /\ first = q0 * DAY /\ first \in Nat /\ first <= FirstTime(log)
  BY <1>1, <1>2, DayIs, FeeAssumption
<1>5. ASSUME NEW i \in DOMAIN log
      PROVE  log[i].timestamp < today + DAY /\ q0 <= q
  <2> DEFINE t == log[i].timestamp
             n == t \div DAY
  <2>1. t \in Nat /\ FirstTime(log) <= t
    BY <1>2
  <2>2. DayOf(t) <= data.now
    BY DEF ClockRight, Range
  <2> HIDE DEF t
  <2>3. n \in Nat /\ DayOf(t) = n * DAY /\ t < DayOf(t) + DAY
    BY <2>1, DayIs
  <2>4. n <= q
    BY <1>1, <1>4, <2>2, <2>3, DivisionAtLeast
  <2>5. DayOf(t) <= today
    BY <1>4, <2>3, <2>4, ProductMonotone
  <2>6. q0 <= n
    BY <1>2, <1>4, <2>1, DivisionMonotone
  <2>7. t < today + DAY
    BY <1>4, <2>1, <2>3, <2>5
  <2> QED  BY <1>4, <2>3, <2>4, <2>6, <2>7 DEF t
<1>6. q0 <= q
  BY <1>1, <1>5, 1 \in 1..Len(log)
<1> HIDE DEF days, log, q, q0, today, first
<1>7. days \in Nat \ {0}
  BY <1>3, <1>4, <1>6
<1>8. today - (days - 1) * DAY = first
  BY <1>3, <1>4
<1>9. \A i \in DOMAIN log : today - (days - 1) * DAY <= log[i].timestamp
  BY <1>2, <1>4, <1>8
<1>10. ASSUME NEW j \in Int PROVE NthDay(log, days - j) = today - j * DAY
  <2>1. NthDay(log, days - j) = first + (days - j - 1) * DAY
    BY DEF NthDay, first
  <2>2. (days - j - 1) * DAY = (days - 1) * DAY - j * DAY
    BY <1>3, <1>4
  <2>3. (days - 1) * DAY \in Int /\ j * DAY \in Int
    BY <1>3, <1>4
  <2> QED  BY <1>4, <1>8, <2>1, <2>2, <2>3
<1> QED  BY <1>4, <1>5, <1>7, <1>9, <1>10 DEF days, log, today

\* The rows of the table are points of the chart.
LEMMA RowsInChart ==
  ASSUME NEW n \in Nat, NEW r \in 1..(n + windowDays - 1) \div windowDays
  PROVE  n - (r - 1) * windowDays \in 1..n
<1> DEFINE w == windowDays
           m == (n + w - 1) \div w
           back == (r - 1) * w
           all == m * w
<1>1. w \in Nat \ {0}
  BY FeeAssumption
<1> HIDE DEF w
<1>2. m \in Nat /\ n <= m * w /\ m * w < n + w
  BY <1>1, DivisionRoundsUp
<1>3. r \in 1..m
  BY DEF w
<1> HIDE DEF m
<1>4. r - 1 \in Nat /\ m - 1 \in Nat /\ r - 1 <= m - 1
  BY <1>2, <1>3
<1>5. back <= (m - 1) * w /\ back \in Nat
  BY <1>1, <1>4, ProductMonotone, ProductNat
<1>6. (m - 1) * w = all - w
  BY <1>1, <1>2
<1>7. all \in Nat /\ all < n + w
  BY <1>1, <1>2, ProductNat
<1> HIDE DEF back, all
<1>8. n - back \in 1..n
  BY <1>1, <1>5, <1>6, <1>7
<1> QED  BY <1>8 DEF back, w

\* The rows of the table: which points, of which days, and that they reach back
\* to the first distribution.
LEMMA RowsAre ==
  ASSUME NEW data, FeesRead(data), DistributionsOf(data) # <<>>, ClockRight(data)
  PROVE  LET log == DistributionsOf(data)
             today == DayOf(data.now)
             days == DaysOf(log, data.now)
             m == (days + windowDays - 1) \div windowDays
         IN  /\ m \in Nat \ {0}
             /\ \A r \in 1..m :
                  /\ days - (r - 1) * windowDays \in 1..days
                  /\ NthDay(log, days - (r - 1) * windowDays)
                       = today - (r - 1) * (windowDays * DAY)
             /\ Since(log, today + DAY - m * (windowDays * DAY)) = DOMAIN log
<1> DEFINE log == DistributionsOf(data)
           today == DayOf(data.now)
           days == DaysOf(log, data.now)
           w == windowDays
           m == (days + w - 1) \div w
<1>1. /\ days \in Nat \ {0} /\ today \in Int
      /\ \A i \in DOMAIN log : today - (days - 1) * DAY <= log[i].timestamp
      /\ \A j \in Int : NthDay(log, days - j) = today - j * DAY
  BY LastDayIs
<1>2. w \in Nat \ {0} /\ DAY \in Nat \ {0}
  BY FeeAssumption
<1> HIDE DEF log, today, days, w
<1>3. m \in Nat /\ days <= m * w /\ m * w < days + w
  BY <1>1, <1>2, DivisionRoundsUp
<1> HIDE DEF m
<1>4. m # 0
  <2>1. m = 0 => m * w = 0
    BY <1>2
  <2> QED  BY <1>1, <1>3, <2>1
<1>5. ASSUME NEW r \in 1..m
      PROVE  /\ days - (r - 1) * w \in 1..days
             /\ NthDay(log, days - (r - 1) * w) = today - (r - 1) * (w * DAY)
  <2>1. days - (r - 1) * w \in 1..days
    BY <1>1, RowsInChart DEF m, w
  <2>2. (r - 1) * w \in Nat /\ ((r - 1) * w) * DAY = (r - 1) * (w * DAY)
    <3>1. r - 1 \in Nat
      BY <1>3
    <3> QED  BY <1>2, <3>1, ProductNat
  <2> QED  BY <1>1, <2>1, <2>2
<1>6. Since(log, today + DAY - m * (w * DAY)) = DOMAIN log
  <2>1. days * DAY <= (m * w) * DAY /\ days * DAY \in Nat /\ (m * w) * DAY \in Nat
    BY <1>1, <1>2, <1>3, ProductMonotone, ProductNat
  <2>2. (m * w) * DAY = m * (w * DAY) /\ (days - 1) * DAY = days * DAY - DAY
    BY <1>1, <1>2, <1>3
  <2> DEFINE start == today + DAY - m * (w * DAY)
             first == today - (days - 1) * DAY
  <2>3. start \in Int /\ first \in Int /\ start <= first
    BY <1>1, <1>2, <2>1, <2>2
  <2>4. \A i \in DOMAIN log : first <= log[i].timestamp /\ log[i].timestamp \in Nat
    BY <1>1 DEF log, FeesRead, IsFees, IsLog
  <2> HIDE DEF start, first
  <2>5. \A i \in DOMAIN log : log[i].timestamp >= start
    BY <2>3, <2>4
  <2>6. Since(log, start) = DOMAIN log
    BY <2>5 DEF Since
  <2> QED  BY <2>6 DEF start
<1> QED  BY <1>3, <1>4, <1>5, <1>6 DEF m, w, days, today, log

\* Every figure the page adds up is the sum it stands for.
THEOREM PageAddsUp ==
  ASSUME NEW data, FeesRead(data)
  PROVE  AddsUp(data)
<1> DEFINE log == DistributionsOf(data)
           today == DayOf(data.now)
           days == DaysOf(log, data.now)
           w == windowDays
           W == windowDays * DAY
           m == (days + w - 1) \div w
           stats == FeeStats(data)
           points == stats.points
           totals == Totals(stats)
           chart == UsdPoints(stats)
           table == Table(stats.points, NoValue)
           Row(r) == days - (r - 1) * w
           Window(r) == InWindow(log, today - (r - 1) * W)
<1> SUFFICES ASSUME log # <<>>, ClockRight(data)
             PROVE  /\ totals.allTime = SumFunctionOnSet([r \in DOMAIN table |-> table[r].total], DOMAIN table)
                    /\ totals.stakers = SumFunctionOnSet([r \in DOMAIN table |-> table[r].staker], DOMAIN table)
                    /\ totals.allTime = totals.stakers
                         + SumFunctionOnSet([r \in DOMAIN table |-> table[r].platform], DOMAIN table)
                    /\ table[1].total = Total(stats.current)
                    /\ \A i \in DOMAIN chart : chart[i].value <= totals.peak
                    /\ totals.peak <= totals.allTime
  BY DEF AddsUp, SumOver
<1>1. /\ IsFees(log) /\ IsLog(log) /\ data.now \in Nat /\ Len(log) > 0
      /\ IsFiniteSet(DOMAIN log)
      /\ \A i \in DOMAIN log : log[i].staker \in Nat /\ log[i].platform \in Nat
  <2>1. /\ IsFees(log) /\ IsLog(log) /\ data.now \in Nat
        /\ \A i \in DOMAIN log : log[i].staker \in Nat /\ log[i].platform \in Nat
    BY DEF FeesRead, IsFees
  <2>2. Len(log) > 0
    BY DEF FeesRead, IsFees, IsLog
  <2> QED  BY <2>1, <2>2, WindowFinite
<1>2. /\ days \in Nat \ {0} /\ today \in Int
      /\ \A i \in DOMAIN log : log[i].timestamp < today + DAY
  BY LastDayIs
<1>3. /\ m \in Nat \ {0}
      /\ \A r \in 1..m : Row(r) \in 1..days /\ NthDay(log, Row(r)) = today - (r - 1) * W
      /\ Since(log, today + DAY - m * W) = DOMAIN log
  BY RowsAre
<1>4. points = RollingFees(log, data.now) /\ stats.current = Last(points)
      /\ stats.peak = points[Peak(points)]
  BY DEF FeeStats
<1>5. /\ DOMAIN points = 1..days /\ Len(points) = days
      /\ \A k \in 1..days : NthDay(log, k) \in Int /\ points[k] = PointOf(ByTime(log), NthDay(log, k))
  BY <1>1, <1>2, <1>4, ChartIs
<1>6. /\ totals.allTime = SumFunctionOnSet([i \in DOMAIN log |-> Total(log[i])], DOMAIN log)
      /\ totals.stakers = SumFunctionOnSet([i \in DOMAIN log |-> log[i].staker], DOMAIN log)
      /\ totals.peak = Total(stats.peak)
  BY DEF Totals, FeeStats, SumOver
<1>7. DOMAIN table = 1..m
  BY <1>5 DEF Table, WeeklyRows
<1>8. \A r \in 1..m : /\ table[r].total = Total(points[Row(r)])
                      /\ table[r].staker = points[Row(r)].staker
                      /\ table[r].platform = points[Row(r)].platform
  BY <1>5, <1>7 DEF Table, WeeklyRows
<1>9. /\ chart = [i \in 1..days |-> [day |-> points[i].day, value |-> Total(points[i]),
                                    stakers |-> points[i].staker, platform |-> points[i].platform]]
  BY <1>5 DEF UsdPoints
<1> HIDE DEF log, today, days, m, stats, points, totals, chart, table
<1>10. ASSUME NEW k \in 1..days
       PROVE  LET window == InWindow(log, NthDay(log, k))
              IN  /\ points[k].staker = SumFunctionOnSet(Stakers(log), window)
                  /\ points[k].platform = SumFunctionOnSet(Platforms(log), window)
                  /\ Total(points[k]) = SumFunctionOnSet(AllParts(log), window)
  BY <1>1, <1>5, PointSums DEF Total
<1>11. \A i \in DOMAIN log : /\ Stakers(log)[i] \in Nat /\ Platforms(log)[i] \in Nat
                             /\ AllParts(log)[i] \in Nat
                             /\ AllParts(log)[i] = Stakers(log)[i] + 1 * Platforms(log)[i]
  BY <1>1 DEF Stakers, Platforms, AllParts
<1>12. ASSUME NEW f, \A i \in DOMAIN log : f[i] \in Nat,
              NEW column, \A r \in 1..m : column[r] = SumFunctionOnSet(f, Window(r))
       PROVE  SumFunctionOnSet(column, 1..m) = SumFunctionOnSet(f, DOMAIN log)
  <2>1. IsColumn(column, m, f, log, today)
    BY <1>12 DEF IsColumn
  <2>2. SumFunctionOnSet(column, 1..m)
          = SumFunctionOnSet(f, Since(log, today + DAY - m * (windowDays * DAY)))
    <3>1. /\ IsLog(log) /\ today \in Int /\ m \in Nat
          /\ \A i \in DOMAIN log : f[i] \in Nat
          /\ \A i \in DOMAIN log : log[i].timestamp < today + DAY
      BY <1>1, <1>2, <1>3, <1>12
    <3> QED  BY <2>1, <3>1, RowsAddUp
  <2> QED  BY <1>3, <2>2
<1>13. /\ Stakers(log) = [i \in DOMAIN log |-> log[i].staker]
       /\ AllParts(log) = [i \in DOMAIN log |-> Total(log[i])]
  BY DEF Stakers, AllParts, Total
<1>14. totals.allTime = SumFunctionOnSet([r \in DOMAIN table |-> table[r].total], DOMAIN table)
  <2> DEFINE column == [r \in DOMAIN table |-> table[r].total]
  <2>1. \A r \in 1..m : column[r] = SumFunctionOnSet(AllParts(log), Window(r))
    BY <1>3, <1>7, <1>8, <1>10
  <2> HIDE DEF column
  <2>2. SumFunctionOnSet(column, 1..m) = SumFunctionOnSet(AllParts(log), DOMAIN log)
    BY <1>11, <1>12, <2>1
  <2> QED  BY <1>6, <1>7, <1>13, <2>2 DEF column
<1>15. totals.stakers = SumFunctionOnSet([r \in DOMAIN table |-> table[r].staker], DOMAIN table)
  <2> DEFINE column == [r \in DOMAIN table |-> table[r].staker]
  <2>1. \A r \in 1..m : column[r] = SumFunctionOnSet(Stakers(log), Window(r))
    BY <1>3, <1>7, <1>8, <1>10
  <2> HIDE DEF column
  <2>2. SumFunctionOnSet(column, 1..m) = SumFunctionOnSet(Stakers(log), DOMAIN log)
    BY <1>11, <1>12, <2>1
  <2> QED  BY <1>6, <1>7, <1>13, <2>2 DEF column
<1>16. SumFunctionOnSet([r \in DOMAIN table |-> table[r].platform], DOMAIN table)
         = SumFunctionOnSet(Platforms(log), DOMAIN log)
  <2> DEFINE column == [r \in DOMAIN table |-> table[r].platform]
  <2>1. \A r \in 1..m : column[r] = SumFunctionOnSet(Platforms(log), Window(r))
    BY <1>3, <1>7, <1>8, <1>10
  <2> HIDE DEF column
  <2>2. SumFunctionOnSet(column, 1..m) = SumFunctionOnSet(Platforms(log), DOMAIN log)
    BY <1>11, <1>12, <2>1
  <2> QED  BY <1>7, <2>2 DEF column
<1>17. totals.allTime = totals.stakers
         + SumFunctionOnSet([r \in DOMAIN table |-> table[r].platform], DOMAIN table)
  <2>1. SumFunctionOnSet(AllParts(log), DOMAIN log)
          = SumFunctionOnSet(Stakers(log), DOMAIN log)
              + 1 * SumFunctionOnSet(Platforms(log), DOMAIN log)
    BY <1>1, <1>11, SumOfMultiple, 1 \in Int
  <2>2. SumFunctionOnSet(Platforms(log), DOMAIN log) \in Nat
    BY <1>1, <1>11, SumIsNatural
  <2> QED  BY <1>6, <1>13, <1>16, <2>1, <2>2
<1>18. table[1].total = Total(stats.current)
  <2>1. 1 \in 1..m /\ Row(1) = days
    BY <1>2, <1>3, FeeAssumption
  <2> QED  BY <1>4, <1>5, <1>8, <2>1 DEF Last
<1>19. \A k \in 1..days : Total(points[k]) \in Int /\ Total(points[k]) <= totals.allTime
  <2> SUFFICES ASSUME NEW k \in 1..days
               PROVE  Total(points[k]) \in Int /\ Total(points[k]) <= totals.allTime
    OBVIOUS
  <2> DEFINE window == InWindow(log, NthDay(log, k))
  <2>1. window \in SUBSET DOMAIN log /\ IsFiniteSet(window)
    BY <1>1, WindowFinite DEF InWindow
  <2>2. Total(points[k]) = SumFunctionOnSet(AllParts(log), window)
    BY <1>10
  <2> HIDE DEF window
  <2>3. SumFunctionOnSet(AllParts(log), window) \in Nat
    BY <1>11, <2>1, SumIsNatural
  <2>4. SumFunctionOnSet(AllParts(log), window) <= SumFunctionOnSet(AllParts(log), DOMAIN log)
    BY <1>1, <1>11, <2>1, SumOfPart
  <2> QED  BY <1>6, <1>13, <2>2, <2>3, <2>4
<1>20. totals.allTime \in Int
  BY <1>1, <1>6, <1>11, <1>13, SumIsNatural
<1>21. /\ Peak(points) \in 1..days
       /\ \A i \in 1..days : Total(points[i]) <= Total(points[Peak(points)])
  BY <1>2, <1>5, <1>19, <1>20, PeakIs
<1>22. /\ \A i \in DOMAIN chart : chart[i].value <= totals.peak
       /\ totals.peak <= totals.allTime
  BY <1>4, <1>6, <1>9, <1>19, <1>21
<1> QED  BY <1>14, <1>15, <1>17, <1>18, <1>22

-----------------------------------------------------------------------------
(* The inputs of the pages.                                                *)

\* One splitter's events, or those of two after each other.
LEMMA FlattenIs ==
  ASSUME NEW a, NEW b
  PROVE  FlattenSeq(<<a>>) = a /\ FlattenSeq(<<a, b>>) = a \o b
<1>1. FlattenSeq(<<a>>) = a
  <2> DEFINE Unfolded(g) == [i \in 1..1 |-> IF i = 1 THEN <<a>>[i] ELSE g[i - 1] \o <<a>>[i]]
             found == [i \in 1..1 |-> a]
  <2>1. found = Unfolded(found)
    OBVIOUS
  <2>2. ASSUME NEW g, g = Unfolded(g) PROVE g[1] = a
    BY <2>2
  <2>3. FlattenSeq(<<a>>) = (CHOOSE g : g = Unfolded(g))[1]
    BY DEF FlattenSeq
  <2> HIDE DEF Unfolded
  <2> QED  BY <2>1, <2>2, <2>3
<1>2. FlattenSeq(<<a, b>>) = a \o b
  <2> DEFINE s == <<a, b>>
             Unfolded(g) == [i \in 1..2 |-> IF i = 1 THEN s[i] ELSE g[i - 1] \o s[i]]
             found == [i \in 1..2 |-> IF i = 1 THEN a ELSE a \o b]
  <2>1. found = Unfolded(found)
    OBVIOUS
  <2>2. ASSUME NEW g, g = Unfolded(g) PROVE g[2] = a \o b
    <3>1. g[1] = Unfolded(g)[1] /\ g[2] = Unfolded(g)[2]
      BY <2>2
    <3>2. Unfolded(g)[1] = a /\ Unfolded(g)[2] = g[1] \o b
      OBVIOUS
    <3> QED  BY <3>1, <3>2
  <2>3. FlattenSeq(<<a, b>>) = (CHOOSE g : g = Unfolded(g))[2]
    BY DEF FlattenSeq
  <2> HIDE DEF Unfolded
  <2> QED  BY <2>1, <2>2, <2>3
<1> QED  BY <1>1, <1>2

\* The bounded sequences are sequences.
LEMMA LogsAre ==
  ASSUME NEW S, NEW n \in Nat, NEW log \in Logs(S, n)
  PROVE  log \in Seq(S)
BY DEF Logs

\* The inputs of the runs are such distributions.
LEMMA DistributionsRead ==
  ASSUME NEW data \in FeeInputs
  PROVE  /\ FeesRead(data)
         /\ DistributionsOf(data) \in Seq(Distributions)
<1>1. Instants \in Nat /\ MaxLog \in Nat
  BY FeeAssumption
<1>2. data.now \in Nat
  BY <1>1 DEF FeeInputs
<1>3. \A d \in Distributions : d.timestamp \in Nat /\ d.staker \in Nat /\ d.platform \in Nat
  BY <1>1 DEF Distributions, Parts
<1>4. DistributionsOf(data) \in Seq(Distributions)
  <2>1. CASE \E a, b \in Seq(Distributions) : data.batches = <<a, b>>
    <3>1. PICK a \in Seq(Distributions), b \in Seq(Distributions) : data.batches = <<a, b>>
      BY <2>1
    <3>2. DistributionsOf(data) = a \o b
      BY <3>1, FlattenIs DEF DistributionsOf
    <3> QED  BY <3>2
  <2>2. CASE \E a \in Seq(Distributions) : data.batches = <<a>>
    <3>1. PICK a \in Seq(Distributions) : data.batches = <<a>>
      BY <2>2
    <3>2. DistributionsOf(data) = a
      BY <3>1, FlattenIs DEF DistributionsOf
    <3> QED  BY <3>2
  <2>3. CASE data.batches \in Batches
    <3>1. PICK a \in Logs(Distributions, MaxLog), b \in Logs(Distributions, 1) :
            data.batches = <<a, b>>
      BY <2>3 DEF Batches
    <3>2. a \in Seq(Distributions) /\ b \in Seq(Distributions)
      BY <1>1, LogsAre
    <3> QED  BY <2>1, <3>1, <3>2
  <2>4. CASE data.batches \in {<<l>> : l \in Logs({d \in Distributions : d.platform = 0}, 1)}
    <3>1. PICK a \in Logs({d \in Distributions : d.platform = 0}, 1) : data.batches = <<a>>
      BY <2>4
    <3>2. a \in Seq({d \in Distributions : d.platform = 0})
      BY LogsAre
    <3>3. a \in Seq(Distributions)
      BY <3>2
    <3> QED  BY <2>2, <3>1, <3>3
  <2>5. data.batches \in Batches
        \/ data.batches \in {<<l>> : l \in Logs({d \in Distributions : d.platform = 0}, 1)}
    BY DEF FeeInputs
  <2> QED  BY <2>3, <2>4, <2>5
<1>5. ASSUME NEW log \in Seq(Distributions) PROVE IsFees(log)
  BY <1>3 DEF IsFees, IsLog
<1> QED  BY <1>2, <1>4, <1>5 DEF FeesRead

-----------------------------------------------------------------------------
(* stakedAtClose(): the stake at the close of each day.                    *)

\* What happened before a time.
Until(log, t) == {i \in DOMAIN log : log[i].timestamp < t}

\* What the cursor has passed is what happened before.
LEMMA PassedUntil ==
  ASSUME NEW log, IsLog(log), NEW t \in Int, NEW p, Reorders(p, log),
         NEW part, \A i \in DOMAIN log : part[i] \in Int,
         NEW moved, \A k \in DOMAIN log : moved[k] = part[p[k]]
  PROVE  Passed(moved, 1, Before(ByTime(log), t) + 1) = SumFunctionOnSet(part, Until(log, t))
<1> DEFINE sorted == ByTime(log)
           n == Len(log)
           c == Before(sorted, t)
           S == 1..c
<1>1. /\ IsLog(sorted) /\ Sorted(sorted) /\ Len(sorted) = n
      /\ n \in Nat /\ DOMAIN log = 1..n /\ DOMAIN sorted = 1..n
  BY SortedLog DEF IsLog
<1>2. c \in 0..n /\ \A k \in 1..n : sorted[k].timestamp < t <=> k <= c
  BY <1>1, BeforeIs
<1>3. /\ \A k \in 1..n : p[k] \in 1..n /\ sorted[k] = log[p[k]]
      /\ \A i \in 1..n : \E k \in 1..n : p[k] = i
      /\ \A i, j \in 1..n : i # j => p[i] # p[j]
  BY <1>1 DEF Reorders
<1>4. Until(log, t) \subseteq 1..n /\ \A i \in 1..n : i \in Until(log, t) <=> log[i].timestamp < t
  BY <1>1 DEF Until
<1> HIDE DEF n, c, sorted
<1>5. /\ IsFiniteSet(S)
      /\ S \subseteq 1..n
      /\ \A k \in 1..n : k \in S <=> k <= c
  <2>1. IsFiniteSet(S)
    BY <1>1, <1>2, FS_Interval, 1 \in Int, c \in Int
  <2> QED  BY <1>1, <1>2, <2>1
<1>6. Passed(moved, 1, c + 1) = SumFunctionOnSet(moved, S)
  BY <1>2, c + 1 - 1 = c DEF Passed
<1> HIDE DEF S
<1>7. \A k \in 1..n : k \in S <=> p[k] \in Until(log, t)
  BY <1>2, <1>3, <1>4, <1>5
<1>8. Pairs(p, S, Until(log, t))
  BY <1>3, <1>4, <1>5, <1>7 DEF Pairs
<1>9. \A k \in S : moved[k] \in Int /\ part[p[k]] = moved[k]
  <2> SUFFICES ASSUME NEW k \in S PROVE moved[k] \in Int /\ part[p[k]] = moved[k]
    OBVIOUS
  <2>1. k \in DOMAIN log /\ p[k] \in DOMAIN log
    BY <1>1, <1>3, <1>5
  <2>2. moved[k] = part[p[k]] /\ part[p[k]] \in Int
    BY <2>1
  <2> QED  BY <2>2
<1>10. SumFunctionOnSet(part, Until(log, t)) = SumFunctionOnSet(moved, S)
  <2>1. IsFiniteSet(S)
    BY <1>5
  <2> QED  BY <1>8, <1>9, <2>1, SumOfImage
<1> QED  BY <1>6, <1>10 DEF c, sorted

\* Every entry changes the stake by an integer.
IsChanges(log) == IsLog(log) /\ \A i \in DOMAIN log : log[i].delta \in Int

\* Days in their order.
IsDays(days) ==
  /\ Len(days) \in Nat /\ DOMAIN days = 1..Len(days)
  /\ \A k \in DOMAIN days : days[k] \in Int
  /\ \A k \in DOMAIN days : k > 1 => days[k - 1] <= days[k]

\* By how much each entry changes the stake.
Deltas(log) == [i \in DOMAIN log |-> log[i].delta]

\* The loop's state at the close of a day, without the days before.
CloseOf(log, day) == [i |-> Hi(log, day), staked |-> Passed(Deltas(log), 1, Hi(log, day))]

\* One turn of the loop goes on to the close of its day.
LEMMA TurnOfCloses ==
  ASSUME NEW log, IsChanges(log), Sorted(log), NEW at, NEW day \in Int,
         at.i \in 1..Hi(log, day), at.staked = Passed(Deltas(log), 1, at.i)
  PROVE  NextClose(log, at, day) = CloseOf(log, day)
<1> DEFINE hi == Hi(log, day)
           f == Deltas(log)
           mine == [j \in at.i..hi - 1 |-> log[j].delta]
           limit == day + DAY
<1>1. /\ IsLog(log) /\ Len(log) \in Nat /\ DOMAIN log = 1..Len(log) /\ limit \in Int
      /\ \A i \in DOMAIN log : log[i].delta \in Int
  BY FeeAssumption DEF IsChanges, IsLog
<1>2. hi = Before(log, limit) + 1 /\ Before(log, limit) \in 0..Len(log)
  BY <1>1, BeforeIs DEF Hi
<1>3. at.i \in 1..hi /\ hi \in 1..Len(log) + 1
  BY <1>1, <1>2
<1>4. Advance(log, at.i, Len(log) + 1, limit) = hi
  <2> HIDE DEF hi, limit
  <2>1. /\ at.i \in 1..Before(log, limit) + 1
        /\ Len(log) + 1 \in Before(log, limit) + 1..Len(log) + 1
    BY <1>1, <1>2, <1>3
  <2> QED  BY <1>1, <1>2, <2>1, AdvanceIs
<1>5. NextClose(log, at, day)
        = [i |-> hi, staked |-> at.staked + SumFunctionOnSet(mine, at.i..hi - 1)]
  BY <1>4 DEF NextClose, SumOver
<1> HIDE DEF hi
<1>6. \A k \in 1..hi - 1 : f[k] = log[k].delta /\ f[k] \in Int
  BY <1>1, <1>3 DEF Deltas
<1>7. SumFunctionOnSet(mine, at.i..hi - 1) = Passed(f, at.i, hi)
  <2> DEFINE S == at.i..hi - 1
  <2>1. \A j \in S : mine[j] = f[j] /\ mine[j] \in Int
    BY <1>3, <1>6
  <2>2. IsFiniteSet(S)
    BY <1>3, FS_Interval, at.i \in Int, hi - 1 \in Int
  <2> HIDE DEF mine, f, S
  <2>3. SumFunctionOnSet(mine, S) = SumFunctionOnSet(f, S)
    BY <2>1, <2>2, SumAgrees
  <2> QED  BY <2>3 DEF Passed, S
<1> HIDE DEF mine, f
<1>8. Passed(f, 1, hi) = Passed(f, 1, at.i) + Passed(f, at.i, hi)
  BY <1>3, <1>6, PassedOn, 1 \in Int
<1> QED  BY <1>5, <1>7, <1>8 DEF CloseOf, hi, f

\* Each turn of the loop reaches the close of its day.
LEMMA StakedAtCloseIs ==
  ASSUME NEW changes, IsChanges(changes), NEW days, IsDays(days)
  PROVE  StakedAtClose(changes, days)
           = [k \in DOMAIN days |-> CloseOf(ByTime(changes), days[k]).staked]
<1> DEFINE sorted == ByTime(changes)
           n == Len(days)
           start == [i |-> 1, staked |-> 0]
           Turns(g) == [k \in 0..n |-> IF k = 0 THEN start ELSE NextClose(sorted, g[k - 1], days[k])]
           found == [k \in 0..n |-> IF k = 0 THEN start ELSE CloseOf(sorted, days[k])]
<1>1. IsLog(changes) /\ IsLog(sorted) /\ Sorted(sorted) /\ Len(sorted) \in Nat
  BY SortedLog DEF IsChanges, IsLog
<1>2. IsChanges(sorted)
  <2>1. PICK p : Reorders(p, changes)
    BY <1>1, SortedLog
  <2> QED  BY <1>1, <2>1 DEF IsChanges, Reorders
<1>3. /\ n \in Nat /\ DOMAIN days = 1..n /\ \A k \in 1..n : days[k] \in Int
      /\ \A k \in 1..n : k > 1 => days[k - 1] <= days[k]
  BY DEF IsDays
<1>4. ASSUME NEW k \in 1..n
      PROVE  /\ Hi(sorted, days[k]) \in Nat \ {0}
             /\ k > 1 => Hi(sorted, days[k - 1]) <= Hi(sorted, days[k])
  <2>1. DAY \in Nat
    BY FeeAssumption
  <2>2. Hi(sorted, days[k]) \in Nat \ {0}
    <3> DEFINE t == days[k] + DAY
    <3>1. t \in Int
      BY <1>3, <2>1
    <3> HIDE DEF t
    <3>2. Before(sorted, t) \in 0..Len(sorted)
      BY <1>1, <3>1, BeforeIs
    <3> QED  BY <1>1, <3>2 DEF Hi, t
  <2>3. ASSUME k > 1 PROVE Hi(sorted, days[k - 1]) <= Hi(sorted, days[k])
    <3> DEFINE t == days[k - 1] + DAY
               u == days[k] + DAY
    <3>1. t \in Int /\ u \in Int /\ t <= u
      BY <1>3, <2>1, <2>3
    <3> HIDE DEF t, u
    <3>2. /\ Before(sorted, t) <= Before(sorted, u)
          /\ Before(sorted, t) \in 0..Len(sorted) /\ Before(sorted, u) \in 0..Len(sorted)
      BY <1>1, <3>1, BeforeIs, BeforeMonotone
    <3>3. Before(sorted, t) + 1 <= Before(sorted, u) + 1
      BY <1>1, <3>2
    <3> QED  BY <3>3 DEF Hi, t, u
  <2> QED  BY <2>2, <2>3
<1>5. \A f : Passed(f, 1, 1) = 0
  BY SumOfNothing, 1..1 - 1 = {} DEF Passed
<1>6. ASSUME NEW k \in 1..n
      PROVE  NextClose(sorted, found[k - 1], days[k]) = CloseOf(sorted, days[k])
  <2> DEFINE at == found[k - 1]
  <2>1. at.i \in 1..Hi(sorted, days[k]) /\ at.staked = Passed(Deltas(sorted), 1, at.i)
    <3>1. CASE k = 1
      <4>1. at = start
        BY <1>3, <3>1
      <4> QED  BY <1>4, <1>5, <4>1
    <3>2. CASE k > 1
      <4>1. k - 1 \in 1..n
        BY <1>3, <3>2
      <4>2. at = CloseOf(sorted, days[k - 1])
        BY <4>1
      <4>3. at.i = Hi(sorted, days[k - 1]) /\ at.staked = Passed(Deltas(sorted), 1, at.i)
        BY <4>2 DEF CloseOf
      <4>4. /\ Hi(sorted, days[k - 1]) \in Nat \ {0} /\ Hi(sorted, days[k]) \in Nat \ {0}
            /\ Hi(sorted, days[k - 1]) <= Hi(sorted, days[k])
        BY <1>4, <3>2, <4>1
      <4> QED  BY <4>3, <4>4
    <3> QED  BY <1>3, <3>1, <3>2
  <2> HIDE DEF at
  <2>2. days[k] \in Int
    BY <1>3
  <2>3. NextClose(sorted, at, days[k]) = CloseOf(sorted, days[k])
    BY <1>1, <1>2, <2>1, <2>2, TurnOfCloses
  <2> QED  BY <2>3 DEF at
<1>7. found = Turns(found)
  BY <1>3, <1>6
<1>8. ASSUME NEW g, g = Turns(g)
      PROVE  g = found
  <2>1. ASSUME NEW k \in 0..n, k > 0 => g[k - 1] = found[k - 1]
        PROVE  g[k] = found[k]
    <3>1. g[k] = Turns(g)[k] /\ found[k] = Turns(found)[k]
      BY <1>7, <1>8
    <3> HIDE DEF found
    <3> QED  BY <2>1, <3>1
  <2>2. \A k \in 0..n : g[k] = found[k]
    <3>1. n \in Int
      BY <1>3
    <3>2. \A k \in 0..n : (k > 0 => g[k - 1] = found[k - 1]) => g[k] = found[k]
      BY <2>1
    <3> HIDE DEF found, n
    <3> QED  BY <3>1, <3>2, SameAtEveryTurn
  <2>3. g = [k \in 0..n |-> g[k]]
    BY <1>8
  <2> QED  BY <2>2, <2>3
<1>9. (CHOOSE g : g = Turns(g)) = found
  <2> HIDE DEF Turns, found
  <2> QED  BY <1>7, <1>8
<1>10. StakedAtClose(changes, days)
         = [k \in DOMAIN days |-> (CHOOSE g : g = Turns(g))[k].staked]
  BY DEF StakedAtClose
<1>11. StakedAtClose(changes, days) = [k \in DOMAIN days |-> found[k].staked]
  BY <1>9, <1>10
<1>12. \A k \in DOMAIN days : found[k] = CloseOf(sorted, days[k])
  BY <1>3
<1> HIDE DEF found
<1> QED  BY <1>11, <1>12

-----------------------------------------------------------------------------
(* pricesAtClose(): the price nearest to the close of each day.            *)

\* Prices in the order of their times, no two of one time.
IsPriceList(prices) ==
  /\ Len(prices) \in Nat /\ DOMAIN prices = 1..Len(prices)
  /\ \A i \in DOMAIN prices : prices[i].timestamp \in Nat /\ prices[i].price \in Nat
  /\ \A i, j \in DOMAIN prices : i < j => prices[i].timestamp < prices[j].timestamp

\* Of two times, the later one is no further from c when c is no nearer to the earlier.
LEMMA DistanceIs ==
  ASSUME NEW t \in Int, NEW u \in Int, t < u, NEW c \in Int
  PROVE  /\ Distance(t, c) \in Nat /\ Distance(u, c) \in Nat
         /\ Distance(u, c) <= Distance(t, c) <=> t + u <= c + c
BY DEF Distance

\* The place from which the next price is further from c.
ClosestOf(prices, c) ==
  CHOOSE m \in 1..Len(prices) : \A j \in 1..Len(prices) - 1 : Nearer(prices, j, c) <=> j < m

\* What Nearer says of a list.
LEMMA NearerIs ==
  ASSUME NEW prices, IsPriceList(prices), NEW c \in Int, NEW j \in 1..Len(prices) - 1
  PROVE  Nearer(prices, j, c)
           <=> prices[j].timestamp + prices[j + 1].timestamp <= c + c
<1> DEFINE t == prices[j].timestamp
           u == prices[j + 1].timestamp
<1>1. t \in Int /\ u \in Int /\ t < u
  BY DEF IsPriceList
<1>2. Nearer(prices, j, c) <=> Distance(u, c) <= Distance(t, c)
  BY DEF Nearer
<1> HIDE DEF t, u
<1>3. Nearer(prices, j, c) <=> t + u <= c + c
  BY <1>1, <1>2, DistanceIs
<1> QED  BY <1>3 DEF t, u

\* The prices come nearer up to one place, and then go away.
LEMMA ClosestIs ==
  ASSUME NEW prices, IsPriceList(prices), Len(prices) > 0, NEW c \in Int
  PROVE  /\ ClosestOf(prices, c) \in 1..Len(prices)
         /\ \A j \in 1..Len(prices) - 1 : Nearer(prices, j, c) <=> j < ClosestOf(prices, c)
<1> DEFINE n == Len(prices)
           Near(j) == Nearer(prices, j, c)
           T == {k \in 1..n : k = n \/ ~Near(k)}
<1>0. /\ n \in Nat \ {0} /\ DOMAIN prices = 1..n
      /\ \A i \in 1..n : prices[i].timestamp \in Nat
      /\ \A i, j \in 1..n : i < j => prices[i].timestamp < prices[j].timestamp
  BY DEF IsPriceList
<1>1. \A j \in 1..n - 1 : Near(j) <=> prices[j].timestamp + prices[j + 1].timestamp <= c + c
  BY NearerIs
<1> HIDE DEF n, Near
<1>2. PICK m \in T : \A k \in T : m <= k
  BY <1>0, LeastNatural, n \in T, T \in SUBSET Nat
<1>3. ASSUME NEW j \in 1..n - 1 PROVE Near(j) <=> j < m
  <2>1. CASE j < m
    <3>1. j \notin T
      BY <1>0, <1>2, <2>1
    <3> QED  BY <1>0, <1>2, <2>1, <3>1
  <2>2. CASE j = m
    BY <1>0, <1>2, <2>2
  <2>3. CASE j > m
    <3>1. m \in 1..n - 1 /\ ~Near(m)
      BY <1>0, <1>2, <2>3
    <3>2. /\ prices[m].timestamp < prices[j].timestamp
          /\ m + 1 <= j
          /\ m + 1 < j + 1 /\ prices[m + 1].timestamp < prices[j + 1].timestamp
      BY <1>0, <2>3, <3>1
    <3>3. /\ prices[m].timestamp \in Nat /\ prices[j].timestamp \in Nat
          /\ prices[m + 1].timestamp \in Nat /\ prices[j + 1].timestamp \in Nat
      BY <1>0, <3>1
    <3>4. ~(prices[m].timestamp + prices[m + 1].timestamp <= c + c)
      BY <1>1, <3>1
    <3>5. ~(prices[j].timestamp + prices[j + 1].timestamp <= c + c)
      BY <3>2, <3>3, <3>4
    <3>6. ~Near(j)
      BY <1>1, <3>5
    <3> QED  BY <1>0, <1>2, <2>3, <3>6
  <2> QED  BY <1>0, <1>2, <2>1, <2>2, <2>3
<1>4. \E k \in 1..n : \A j \in 1..n - 1 : Near(j) <=> j < k
  BY <1>2, <1>3
<1> QED  BY <1>4 DEF ClosestOf, n, Near

\* A later close has no earlier price.
LEMMA ClosestMonotone ==
  ASSUME NEW prices, IsPriceList(prices), Len(prices) > 0,
         NEW c \in Int, NEW d \in Int, c <= d
  PROVE  ClosestOf(prices, c) <= ClosestOf(prices, d)
<1> DEFINE n == Len(prices)
           l == ClosestOf(prices, c)
           m == ClosestOf(prices, d)
<1>0. n \in Nat \ {0} /\ \A i \in 1..n : prices[i].timestamp \in Nat
  BY DEF IsPriceList
<1>1. l \in 1..n /\ \A j \in 1..n - 1 : Nearer(prices, j, c) <=> j < l
  BY ClosestIs
<1>2. m \in 1..n /\ \A j \in 1..n - 1 : Nearer(prices, j, d) <=> j < m
  BY ClosestIs
<1>3. \A j \in 1..n - 1 :
        /\ Nearer(prices, j, c) <=> prices[j].timestamp + prices[j + 1].timestamp <= c + c
        /\ Nearer(prices, j, d) <=> prices[j].timestamp + prices[j + 1].timestamp <= d + d
  BY NearerIs
<1> HIDE DEF n, l, m
<1>4. SUFFICES ASSUME m < l PROVE FALSE
  BY <1>0, <1>1, <1>2 DEF l, m
<1>5. m \in 1..n - 1 /\ Nearer(prices, m, c) /\ ~Nearer(prices, m, d)
  BY <1>0, <1>1, <1>2, <1>4
<1>6. prices[m].timestamp \in Nat /\ prices[m + 1].timestamp \in Nat
  BY <1>0, <1>5
<1> QED  BY <1>3, <1>5, <1>6

\* Where the code's while leaves the cursor.
LEMMA NearestIs ==
  ASSUME NEW prices, IsPriceList(prices), Len(prices) > 0, NEW c \in Int,
         NEW from \in 1..ClosestOf(prices, c)
  PROVE  Nearest(prices, from, c) = ClosestOf(prices, c)
<1> DEFINE n == Len(prices)
           m == ClosestOf(prices, c)
           Near(j) == Nearer(prices, j, c)
           Stops(j) == /\ j = n \/ ~Near(j)
                       /\ \A i \in from..j - 1 : Near(i)
<1>1. n \in Nat \ {0}
  BY DEF IsPriceList
<1>2. m \in 1..n /\ \A j \in 1..n - 1 : Near(j) <=> j < m
  BY ClosestIs
<1>3. Nearest(prices, from, c) = CHOOSE j \in from..n : Stops(j)
  BY DEF Nearest
<1> HIDE DEF n, m, Near
<1>4. from \in 1..m
  BY DEF m
<1>5. m \in from..n /\ Stops(m)
  BY <1>1, <1>2, <1>4
<1>6. ASSUME NEW j \in from..n, Stops(j) PROVE j = m
  <2>1. CASE j < m
    BY <1>1, <1>2, <1>4, <1>6, <2>1
  <2>2. CASE j > m
    <3>1. m \in from..j - 1 /\ m \in 1..n - 1
      BY <1>1, <1>2, <1>4, <2>2
    <3> QED  BY <1>2, <1>6, <3>1
  <2> QED  BY <1>1, <1>2, <1>4, <2>1, <2>2
<1> HIDE DEF Stops
<1>7. (CHOOSE j \in from..n : Stops(j)) = m
  BY <1>5, <1>6
<1> QED  BY <1>3, <1>7 DEF m

\* No price is nearer than that one, and of two that are equally near it is the later.
LEMMA ClosestIsNearest ==
  ASSUME NEW data, IsPriceList(data.prices), Len(data.prices) > 0,
         NEW day, Close(day, data.now) \in Int
  PROVE  LET m == ClosestOf(data.prices, Close(day, data.now))
         IN  m \in NearestPrices(data, day) /\ \A i \in NearestPrices(data, day) : i <= m
<1> DEFINE prices == data.prices
           c == Close(day, data.now)
           n == Len(prices)
           m == ClosestOf(prices, c)
           time(i) == prices[i].timestamp
<1>1. /\ n \in Nat \ {0} /\ DOMAIN prices = 1..n
      /\ \A i \in 1..n : time(i) \in Nat
      /\ \A i, j \in 1..n : i < j => time(i) < time(j)
  BY DEF IsPriceList
<1>2. m \in 1..n /\ \A j \in 1..n - 1 : Nearer(prices, j, c) <=> j < m
  BY ClosestIs
<1>3. \A j \in 1..n - 1 : Nearer(prices, j, c) <=> time(j) + time(j + 1) <= c + c
  BY NearerIs
<1>4. \A i \in 1..n : Gap(data, day, i) = Distance(time(i), c)
  BY DEF Gap
<1>5. NearestPrices(data, day)
        = {i \in 1..n : \A j \in 1..n : Gap(data, day, i) <= Gap(data, day, j)}
  BY <1>1 DEF NearestPrices
<1> HIDE DEF prices, c, n, m, time
<1>6. c \in Int
  BY DEF c
<1>7. ASSUME NEW j \in 1..n, j < m PROVE Distance(time(m), c) <= Distance(time(j), c)
  <2>1. m - 1 \in 1..n - 1 /\ j <= m - 1 /\ m - 1 + 1 = m /\ m - 1 < m
    BY <1>1, <1>2, <1>7
  <2>2. time(m - 1) + time(m) <= c + c
    BY <1>2, <1>3, <2>1
  <2>3. time(j) <= time(m - 1) /\ time(j) < time(m)
    BY <1>1, <1>2, <1>7, <2>1
  <2>4. time(j) \in Int /\ time(m) \in Int /\ time(m - 1) \in Int
    BY <1>1, <1>2, <2>1
  <2>5. time(j) + time(m) <= c + c
    BY <1>6, <2>2, <2>3, <2>4
  <2> QED  BY <1>6, <2>3, <2>4, <2>5, DistanceIs
<1>8. ASSUME NEW j \in 1..n, m < j PROVE ~(Distance(time(j), c) <= Distance(time(m), c))
  <2>1. m \in 1..n - 1 /\ m + 1 <= j /\ m + 1 \in 1..n
    BY <1>1, <1>2, <1>8
  <2>2. ~(time(m) + time(m + 1) <= c + c)
    BY <1>2, <1>3, <2>1
  <2>3. time(m + 1) <= time(j) /\ time(m) < time(j)
    BY <1>1, <1>2, <1>8, <2>1
  <2>4. time(j) \in Int /\ time(m) \in Int /\ time(m + 1) \in Int
    BY <1>1, <1>2, <2>1
  <2>5. ~(time(m) + time(j) <= c + c)
    BY <1>6, <2>2, <2>3, <2>4
  <2> QED  BY <1>6, <2>3, <2>4, <2>5, DistanceIs
<1>9. \A i \in 1..n : Distance(time(i), c) \in Nat
  BY <1>1, <1>6 DEF Distance
<1>10. \A j \in 1..n : Distance(time(m), c) <= Distance(time(j), c)
  BY <1>1, <1>2, <1>7, <1>8, <1>9
<1>11. m \in NearestPrices(data, day)
  BY <1>2, <1>4, <1>5, <1>10
<1>12. ASSUME NEW i \in NearestPrices(data, day) PROVE i <= m
  <2>1. i \in 1..n /\ Distance(time(i), c) <= Distance(time(m), c)
    BY <1>2, <1>4, <1>5
  <2> QED  BY <1>1, <1>2, <1>8, <2>1
<1> QED  BY <1>11, <1>12 DEF m, prices, c

\* The price the code takes of a close.
PriceOn(prices, c) ==
  IF prices # <<>> /\ Distance(prices[ClosestOf(prices, c)].timestamp, c) <= MAX_PRICE_GAP
  THEN <<prices[ClosestOf(prices, c)].price>> ELSE NoValue

\* It is the price the definition asks for, where there is one near enough.
LEMMA PriceIs ==
  ASSUME NEW data, IsPriceList(data.prices), NEW day, Close(day, data.now) \in Int
  PROVE  /\ PriceOn(data.prices, Close(day, data.now))
              = IF PriceKnown(data, day) THEN <<PriceAt(data, day)>> ELSE NoValue
         /\ PriceKnown(data, day) => PriceAt(data, day) \in Nat
<1> DEFINE prices == data.prices
           c == Close(day, data.now)
           m == ClosestOf(prices, c)
           Near == NearestPrices(data, day)
<1>1. /\ Len(prices) \in Nat /\ DOMAIN prices = 1..Len(prices)
      /\ \A i \in DOMAIN prices : prices[i].timestamp \in Nat /\ prices[i].price \in Nat
  BY DEF IsPriceList
<1>2. CASE prices = <<>>
  <2>1. DOMAIN prices = {}
    BY <1>2
  <2>2. Near = {}
    BY <2>1 DEF NearestPrices
  <2> QED  BY <1>2, <2>2 DEF PriceOn, PriceKnown
<1>3. CASE prices # <<>>
  <2>1. Len(prices) > 0
    <3>1. ASSUME Len(prices) = 0 PROVE prices = <<>>
      BY <1>1, <3>1
    <3> QED  BY <1>1, <1>3, <3>1
  <2>2. m \in Near /\ \A i \in Near : i <= m
    BY <2>1, ClosestIsNearest
  <2>3. Near \subseteq 1..Len(prices)
    BY <1>1 DEF NearestPrices
  <2>4. Max(Near) = m
    <3> HIDE DEF m, Near
    <3>1. \A i \in Near : i >= m => i = m
      BY <1>1, <2>2, <2>3
    <3>2. m \in Near /\ \A i \in Near : m >= i
      BY <1>1, <2>2, <2>3
    <3> QED  BY <3>1, <3>2 DEF Max
  <2>5. Gap(data, day, m) = Distance(prices[m].timestamp, c)
    BY DEF Gap
  <2>6. \A i \in Near : Gap(data, day, i) = Gap(data, day, m)
    <3>1. \A i \in Near : /\ Gap(data, day, i) <= Gap(data, day, m)
                          /\ Gap(data, day, m) <= Gap(data, day, i)
      BY <2>2 DEF NearestPrices
    <3>2. \A i \in 1..Len(prices) : Gap(data, day, i) \in Nat
      BY <1>1 DEF Gap, Distance
    <3> HIDE DEF Near, m, prices
    <3> QED  BY <2>2, <2>3, <3>1, <3>2
  <2>7. PriceKnown(data, day) <=> Distance(prices[m].timestamp, c) <= MAX_PRICE_GAP
    <3> HIDE DEF m
    <3> QED  BY <2>2, <2>5, <2>6 DEF PriceKnown
  <2>8. PriceAt(data, day) = prices[m].price
    BY <2>4 DEF PriceAt
  <2>9. prices[m].price \in Nat
    BY <1>1, <2>2, <2>3
  <2> HIDE DEF m
  <2>10. PriceOn(prices, c)
           = IF Distance(prices[m].timestamp, c) <= MAX_PRICE_GAP THEN <<prices[m].price>>
             ELSE NoValue
    BY <1>3 DEF PriceOn, m
  <2> QED  BY <2>7, <2>8, <2>9, <2>10
<1> QED  BY <1>2, <1>3

\* Each turn of the loop reaches the nearest price of its day.
LEMMA PricesAtCloseIs ==
  ASSUME NEW prices, IsPriceList(prices), NEW days, IsDays(days), NEW now \in Int
  PROVE  PricesAtClose(prices, days, now)
           = [k \in DOMAIN days |-> PriceOn(prices, Close(days[k], now))]
<1> DEFINE n == Len(days)
           close(k) == Close(days[k], now)
           Turns(g) == [k \in 0..n |-> IF k = 0 THEN 1 ELSE Nearest(prices, g[k - 1], close(k))]
           found == [k \in 0..n |-> IF k = 0 THEN 1 ELSE ClosestOf(prices, close(k))]
           near == CHOOSE g : g = Turns(g)
<1>1. PricesAtClose(prices, days, now)
        = [k \in DOMAIN days |->
             IF /\ prices # <<>>
                /\ Distance(prices[near[k]].timestamp, close(k)) <= MAX_PRICE_GAP
             THEN <<prices[near[k]].price>> ELSE NoValue]
  BY DEF PricesAtClose
<1>2. CASE prices = <<>>
  BY <1>1, <1>2 DEF PriceOn
<1>3. CASE prices # <<>>
  <2>1. Len(prices) \in Nat \ {0}
    <3>1. Len(prices) \in Nat /\ DOMAIN prices = 1..Len(prices)
      BY DEF IsPriceList
    <3>2. \A i \in DOMAIN prices : prices[i].timestamp \in Nat
      BY DEF IsPriceList
    <3>3. ASSUME Len(prices) = 0 PROVE prices = <<>>
      BY <3>1, <3>3
    <3> QED  BY <1>3, <3>1, <3>3
  <2>2. /\ n \in Nat /\ DOMAIN days = 1..n /\ \A k \in 1..n : days[k] \in Int
        /\ \A k \in 1..n : k > 1 => days[k - 1] <= days[k]
    BY DEF IsDays
  <2>3. \A k \in 1..n : close(k) \in Int /\ (k > 1 => close(k - 1) <= close(k))
    <3>1. DAY \in Nat
      BY FeeAssumption
    <3>2. \A k \in 1..n : k > 1 => k - 1 \in 1..n
      BY <2>2
    <3> QED  BY <2>2, <3>1, <3>2 DEF Close
  <2> HIDE DEF n, close
  <2>4. ASSUME NEW k \in 1..n
        PROVE  /\ ClosestOf(prices, close(k)) \in 1..Len(prices)
               /\ k > 1 => ClosestOf(prices, close(k - 1)) <= ClosestOf(prices, close(k))
    <3>1. close(k) \in Int
      BY <2>3
    <3>2. ClosestOf(prices, close(k)) \in 1..Len(prices)
      BY <2>1, <3>1, ClosestIs
    <3>3. ASSUME k > 1 PROVE ClosestOf(prices, close(k - 1)) <= ClosestOf(prices, close(k))
      <4>1. close(k - 1) \in Int /\ close(k - 1) <= close(k)
        BY <2>2, <2>3, <3>3, k - 1 \in 1..n
      <4> QED  BY <2>1, <3>1, <4>1, ClosestMonotone
    <3> QED  BY <3>2, <3>3
  <2>5. ASSUME NEW k \in 1..n
        PROVE  Nearest(prices, found[k - 1], close(k)) = ClosestOf(prices, close(k))
    <3>1. found[k - 1] \in 1..ClosestOf(prices, close(k))
      <4>1. CASE k = 1
        BY <2>1, <2>2, <2>4, <4>1
      <4>2. CASE k > 1
        <5>1. k - 1 \in 1..n
          BY <2>2, <4>2
        <5>2. found[k - 1] = ClosestOf(prices, close(k - 1))
          BY <5>1
        <5> QED  BY <2>1, <2>4, <4>2, <5>1, <5>2
      <4> QED  BY <2>2, <4>1, <4>2
    <3>2. close(k) \in Int
      BY <2>3
    <3> HIDE DEF found
    <3> QED  BY <2>1, <3>1, <3>2, NearestIs
  <2>6. found = Turns(found)
    <3>1. ASSUME NEW k \in 0..n
          PROVE  found[k] = IF k = 0 THEN 1 ELSE Nearest(prices, found[k - 1], close(k))
      <4>1. CASE k = 0
        BY <4>1
      <4>2. CASE k # 0
        <5>1. k \in 1..n
          BY <2>2, <4>2
        <5>2. found[k] = ClosestOf(prices, close(k))
          BY <4>2
        <5> HIDE DEF found
        <5> QED  BY <2>5, <4>2, <5>1, <5>2
      <4> QED  BY <4>1, <4>2
    <3> QED  BY <3>1
  <2>7. ASSUME NEW g, g = Turns(g)
        PROVE  g = found
    <3>1. ASSUME NEW k \in 0..n, k > 0 => g[k - 1] = found[k - 1]
          PROVE  g[k] = found[k]
      <4>1. g[k] = Turns(g)[k] /\ found[k] = Turns(found)[k]
        BY <2>6, <2>7
      <4> HIDE DEF found
      <4> QED  BY <3>1, <4>1
    <3>2. \A k \in 0..n : g[k] = found[k]
      <4>1. n \in Int
        BY <2>2
      <4>2. \A k \in 0..n : (k > 0 => g[k - 1] = found[k - 1]) => g[k] = found[k]
        BY <3>1
      <4> HIDE DEF found, n
      <4> QED  BY <4>1, <4>2, SameAtEveryTurn
    <3>3. g = [k \in 0..n |-> g[k]]
      BY <2>7
    <3> QED  BY <3>2, <3>3
  <2>8. near = found
    <3> HIDE DEF Turns, found
    <3> QED  BY <2>6, <2>7
  <2>9. \A k \in DOMAIN days : found[k] = ClosestOf(prices, close(k))
    BY <2>2
  <2>10. \A k \in DOMAIN days :
           PriceOn(prices, close(k))
             = IF /\ prices # <<>>
                  /\ Distance(prices[near[k]].timestamp, close(k)) <= MAX_PRICE_GAP
               THEN <<prices[near[k]].price>> ELSE NoValue
    <3> HIDE DEF near, found
    <3> QED  BY <2>8, <2>9 DEF PriceOn
  <2> HIDE DEF near
  <2> QED  BY <1>1, <2>10 DEF close
<1> QED  BY <1>2, <1>3

\* Staking events: the block and the amount of each are numbers.
IsStakeLogs(logs) ==
  /\ Len(logs) \in Nat /\ DOMAIN logs = 1..Len(logs)
  /\ \A i \in DOMAIN logs : logs[i].block \in Nat /\ logs[i].amount \in Nat

\* What the page reads for the APR.
AprRead(data) == FeesRead(data) /\ IsStakeLogs(data.logs) /\ IsPriceList(data.prices)

\* The newest block.
Latest(data) == [timestamp |-> data.now, number |-> data.now \div BASE_BLOCK_SECONDS]

\* A log's time, reckoned back from the newest block, is that of its own block.
LEMMA ChangesAre ==
  ASSUME NEW data, AprRead(data)
  PROVE  LET changes == Changes(data.logs, Latest(data))
         IN  /\ IsChanges(changes) /\ DOMAIN changes = DOMAIN data.logs
             /\ \A i \in DOMAIN changes :
                  /\ changes[i].timestamp = TimeOf(data, data.logs[i])
                  /\ changes[i].delta = IF data.logs[i].kind \in {"requested", "burned"}
                                        THEN -data.logs[i].amount ELSE data.logs[i].amount
<1> DEFINE logs == data.logs
           n == Len(logs)
           now == data.now
           B == BASE_BLOCK_SECONDS
           q == now \div B
           r == now % B
           changes == Changes(logs, Latest(data))
<1>1. /\ now \in Nat /\ B \in Nat \ {0} /\ n \in Nat /\ DOMAIN logs = 1..n
      /\ \A i \in 1..n : logs[i].block \in Nat /\ logs[i].amount \in Nat
  BY FeeAssumption DEF AprRead, FeesRead, IsStakeLogs
<1>2. q \in Nat /\ r \in Nat /\ now = q * B + r
  <2> HIDE DEF now, B
  <2>1. q \in Int /\ r \in 0..B - 1 /\ now = B * q + r
    BY <1>1
  <2>2. q \in Nat
    BY <1>1, DivisionRoundsDown
  <2> QED  BY <1>1, <2>1, <2>2
<1>3. changes = [i \in 1..n |->
                   [timestamp |-> now - (q - logs[i].block) * B,
                    delta |-> IF logs[i].kind \in {"requested", "burned"}
                              THEN -logs[i].amount ELSE logs[i].amount]]
  BY <1>1 DEF Changes, Latest, Leaving
<1>4. ASSUME NEW i \in 1..n
      PROVE  /\ now - (q - logs[i].block) * B = TimeOf(data, logs[i])
             /\ TimeOf(data, logs[i]) \in Nat
  <2> DEFINE b == logs[i].block
  <2>1. TimeOf(data, logs[i]) = b * B + r
    BY DEF TimeOf
  <2>2. b \in Nat
    BY <1>1
  <2> HIDE DEF b, B, q, r, now
  <2>3. (q - b) * B = q * B - b * B
    BY <1>1, <1>2, <2>2
  <2>4. b * B \in Nat /\ q * B \in Nat
    BY <1>1, <1>2, <2>2, ProductNat
  <2>5. now - (q - b) * B = b * B + r
    BY <1>1, <1>2, <2>3, <2>4
  <2>6. now - (q - b) * B = TimeOf(data, logs[i]) /\ TimeOf(data, logs[i]) \in Nat
    BY <1>2, <2>1, <2>4, <2>5
  <2> QED  BY <2>6 DEF b
<1> HIDE DEF logs, n, now, B, q
<1>5. Len(changes) = n /\ DOMAIN changes = 1..n
  BY <1>1, <1>3
<1>6. \A i \in 1..n : /\ changes[i].timestamp = TimeOf(data, logs[i])
                      /\ changes[i].timestamp \in Nat
                      /\ changes[i].delta = IF logs[i].kind \in {"requested", "burned"}
                                            THEN -logs[i].amount ELSE logs[i].amount
                      /\ changes[i].delta \in Int
  BY <1>1, <1>3, <1>4
<1> HIDE DEF changes
<1>7. IsChanges(changes)
  BY <1>1, <1>5, <1>6 DEF IsChanges, IsLog
<1> QED  BY <1>1, <1>5, <1>6, <1>7 DEF changes, logs

\* The stake at a day's close is what came until then, less what left.
LEMMA StakedIs ==
  ASSUME NEW data, AprRead(data), NEW day \in Int
  PROVE  /\ CloseOf(ByTime(Changes(data.logs, Latest(data))), day).staked = StakedAt(data, day)
         /\ StakedAt(data, day) \in Int
<1> DEFINE changes == Changes(data.logs, Latest(data))
           sorted == ByTime(changes)
           t == day + DAY
           S == Until(changes, t)
           mine == [i \in S |-> IF data.logs[i].kind \in {"requested", "burned"}
                                THEN -data.logs[i].amount ELSE data.logs[i].amount]
<1>1. /\ IsChanges(changes) /\ DOMAIN changes = DOMAIN data.logs
      /\ \A i \in DOMAIN changes :
           /\ changes[i].timestamp = TimeOf(data, data.logs[i])
           /\ changes[i].delta = IF data.logs[i].kind \in {"requested", "burned"}
                                 THEN -data.logs[i].amount ELSE data.logs[i].amount
  BY ChangesAre
<1>2. S = {i \in DOMAIN data.logs : TimeOf(data, data.logs[i]) < day + DAY}
  BY <1>1 DEF Until
<1>3. StakedAt(data, day) = SumFunctionOnSet(mine, S)
  BY <1>2 DEF StakedAt, SumOver
<1> HIDE DEF changes
<1>4. IsLog(changes) /\ t \in Int
  BY <1>1, FeeAssumption DEF IsChanges
<1>5. PICK p : Reorders(p, changes)
  BY <1>4, SortedLog
<1>6. /\ \A i \in DOMAIN changes : Deltas(changes)[i] = changes[i].delta /\ changes[i].delta \in Int
      /\ \A k \in DOMAIN changes : Deltas(sorted)[k] = Deltas(changes)[p[k]]
  BY <1>1, <1>5 DEF Deltas, IsChanges, Reorders
<1>7. Passed(Deltas(sorted), 1, Before(sorted, t) + 1) = SumFunctionOnSet(Deltas(changes), S)
  <2>1. \A i \in DOMAIN changes : Deltas(changes)[i] \in Int
    BY <1>6
  <2>2. \A k \in DOMAIN changes : Deltas(sorted)[k] = Deltas(changes)[p[k]]
    BY <1>6
  <2> HIDE DEF t
  <2> QED  BY <1>4, <1>5, <2>1, <2>2, PassedUntil
<1>8. CloseOf(sorted, day).staked = SumFunctionOnSet(Deltas(changes), S)
  BY <1>7 DEF CloseOf, Hi
<1>9. IsFiniteSet(S)
  <2>1. IsFiniteSet(DOMAIN changes)
    BY <1>4, FS_Interval, 1 \in Int DEF IsLog
  <2>2. S \in SUBSET DOMAIN changes
    BY DEF Until
  <2> QED  BY <2>1, <2>2, FS_Subset
<1>10. \A i \in S : mine[i] = Deltas(changes)[i] /\ mine[i] \in Int
  BY <1>1, <1>6 DEF Until
<1> HIDE DEF mine, S, sorted
<1>11. SumFunctionOnSet(mine, S) = SumFunctionOnSet(Deltas(changes), S)
  BY <1>9, <1>10, SumAgrees
<1>12. SumFunctionOnSet(mine, S) \in Int
  BY <1>9, <1>10, SumEquation
<1> QED  BY <1>3, <1>8, <1>11, <1>12 DEF changes, sorted

\* One point a day.
IsPoints(points) ==
  /\ Len(points) \in Nat /\ DOMAIN points = 1..Len(points)
  /\ \A k \in DOMAIN points : points[k].day \in Int
  /\ \A k \in DOMAIN points : k > 1 => points[k - 1].day <= points[k].day

\* The three lists are of the same days.
LEMMA SeriesIs ==
  ASSUME NEW data, AprRead(data), NEW points, IsPoints(points)
  PROVE  LET series == AprSeries(data, points)
         IN  /\ series.staked = [k \in DOMAIN points |-> StakedAt(data, points[k].day)]
             /\ series.prices = [k \in DOMAIN points |->
                                   IF PriceKnown(data, points[k].day)
                                   THEN <<PriceAt(data, points[k].day)>> ELSE NoValue]
             /\ series.apr = RollingApr(points, series.staked, series.prices)
<1> DEFINE days == [i \in DOMAIN points |-> points[i].day]
           changes == Changes(data.logs, Latest(data))
           series == AprSeries(data, points)
<1>1. /\ series.staked = StakedAtClose(changes, days)
      /\ series.prices = PricesAtClose(data.prices, days, data.now)
      /\ series.apr = RollingApr(points, series.staked, series.prices)
  BY DEF AprSeries, Latest
<1>2. /\ Len(points) \in Nat /\ DOMAIN points = 1..Len(points)
      /\ \A k \in DOMAIN points : points[k].day \in Int
      /\ \A k \in DOMAIN points : k > 1 => points[k - 1].day <= points[k].day
  BY DEF IsPoints
<1>3. DOMAIN days = DOMAIN points /\ Len(days) = Len(points)
  BY <1>2
<1>4. IsDays(days)
  <2>1. \A k \in DOMAIN points : k > 1 => k - 1 \in DOMAIN points
    BY <1>2
  <2>2. \A k \in DOMAIN points : days[k] = points[k].day
    OBVIOUS
  <2> HIDE DEF days
  <2> QED  BY <1>2, <1>3, <2>1, <2>2 DEF IsDays
<1>5. IsChanges(changes) /\ IsPriceList(data.prices) /\ data.now \in Int
  BY ChangesAre DEF AprRead, FeesRead
<1>6. /\ StakedAtClose(changes, days)
           = [k \in DOMAIN days |-> CloseOf(ByTime(changes), days[k]).staked]
      /\ PricesAtClose(data.prices, days, data.now)
           = [k \in DOMAIN days |-> PriceOn(data.prices, Close(days[k], data.now))]
  <2> HIDE DEF days, changes
  <2> QED  BY <1>4, <1>5, StakedAtCloseIs, PricesAtCloseIs
<1>7. ASSUME NEW k \in DOMAIN points
      PROVE  /\ CloseOf(ByTime(changes), days[k]).staked = StakedAt(data, points[k].day)
             /\ PriceOn(data.prices, Close(days[k], data.now))
                  = IF PriceKnown(data, points[k].day)
                    THEN <<PriceAt(data, points[k].day)>> ELSE NoValue
  <2>1. points[k].day \in Int /\ days[k] = points[k].day
    BY <1>2
  <2>2. Close(points[k].day, data.now) \in Int
    BY <1>5, <2>1, FeeAssumption DEF Close
  <2> HIDE DEF days
  <2> QED  BY <1>5, <2>1, <2>2, StakedIs, PriceIs
<1> HIDE DEF days, changes, series
<1> QED  BY <1>1, <1>3, <1>6, <1>7 DEF series

\* The points are one a day from that of the first distribution, each with what
\* the stakers got in its window.
LEMMA PointsAre ==
  ASSUME NEW data, FeesRead(data)
  PROVE  LET points == RollingFees(DistributionsOf(data), data.now)
         IN  /\ IsPoints(points)
             /\ \A k \in DOMAIN points :
                  /\ points[k].day = DayNumber(data, k)
                  /\ points[k].staker = StakerFees(data, DayNumber(data, k))
             /\ \A k \in DOMAIN points : \A j \in 1..k :
                  /\ DayNumber(data, j) \in Int
                  /\ \A i \in 1..k : i # j => DayNumber(data, i) # DayNumber(data, j)
<1> DEFINE log == DistributionsOf(data)
           points == RollingFees(log, data.now)
<1>1. CASE log = <<>>
  <2>1. points = <<>>
    BY <1>1 DEF RollingFees
  <2>2. Len(points) = 0 /\ DOMAIN points = {} /\ DOMAIN points = 1..0
    BY <2>1
  <2> HIDE DEF points
  <2> QED  BY <2>2 DEF IsPoints, points
<1>2. CASE log # <<>>
  <2> DEFINE n == DaysOf(log, data.now)
             first == DayOf(FirstTime(log))
  <2>1. IsFees(log) /\ data.now \in Nat /\ Len(log) > 0
    BY <1>2 DEF FeesRead, IsFees, IsLog
  <2>2. /\ n \in Int /\ DOMAIN points = 1..n
        /\ Len(points) = IF n < 0 THEN 0 ELSE n
    BY <2>1, ChartIs
  <2>3. \A k \in DOMAIN points : /\ points[k].day = DayNumber(data, k)
                                 /\ points[k].staker = StakerFees(data, points[k].day)
    BY <1>2, ChartShowsFees DEF ShowsFees
  <2>4. FirstDay(data) = first /\ first \in Nat /\ DAY \in Nat \ {0}
    BY <2>1, FirstIs, DayIs, FeeAssumption DEF FirstDay
  <2>5. \A k : DayNumber(data, k) = first + (k - 1) * DAY
    BY <2>4 DEF DayNumber
  <2> HIDE DEF points, n, first
  <2>6. Len(points) \in Nat /\ DOMAIN points = 1..Len(points)
    BY <2>2
  <2>7. ASSUME NEW k \in Int
        PROVE  DayNumber(data, k) \in Int /\ DayNumber(data, k - 1) <= DayNumber(data, k)
    <3>1. (k - 1) * DAY \in Int /\ (k - 1 - 1) * DAY = (k - 1) * DAY - DAY
      BY <2>4
    <3> QED  BY <2>4, <2>5, <3>1
  <2>8. ASSUME NEW i \in Int, NEW j \in Int, i < j
        PROVE  DayNumber(data, i) # DayNumber(data, j)
    <3>1. (j - 1) * DAY = (i - 1) * DAY + (j - i) * DAY
      BY <2>4
    <3>2. (j - i) * DAY >= 1
      BY <2>4, <2>8, ProductMonotone
    <3>3. (j - 1) * DAY \in Int /\ (i - 1) * DAY \in Int /\ (j - i) * DAY \in Int
      BY <2>4
    <3> QED  BY <2>4, <2>5, <3>1, <3>2, <3>3
  <2>9. IsPoints(points)
    <3>1. \A k \in DOMAIN points : k \in Int /\ (k > 1 => k - 1 \in DOMAIN points)
      BY <2>6
    <3>2. \A k \in DOMAIN points : points[k].day \in Int
      BY <2>3, <2>7, <3>1
    <3>3. \A k \in DOMAIN points : k > 1 => points[k - 1].day <= points[k].day
      BY <2>3, <2>7, <3>1
    <3> QED  BY <2>6, <3>2, <3>3 DEF IsPoints
  <2>10. ASSUME NEW k \in DOMAIN points, NEW j \in 1..k
         PROVE  /\ DayNumber(data, j) \in Int
                /\ \A i \in 1..k : i # j => DayNumber(data, i) # DayNumber(data, j)
    <3>1. j \in Int /\ \A i \in 1..k : i \in Int /\ (i # j => i < j \/ j < i)
      BY <2>6
    <3> QED  BY <2>7, <2>8, <3>1
  <2> QED  BY <2>3, <2>9, <2>10 DEF points
<1> QED  BY <1>1, <1>2

\* The window of a point, as places of the list and as days.
WindowOf(k) == {j \in 1..k : j > k - windowDays}
WindowDaysOf(data, k) == {DayNumber(data, i) : i \in {j \in 1..k : j > k - windowDays}}

\* The value staked at the closes of some days.
ValueOf(data, days) == SumOver(days, LAMBDA day : StakedAt(data, day) * PriceAt(data, day))

\* Each value of the chart of the APR is that of the window's days.
LEMMA AprOfPoint ==
  ASSUME NEW data, AprRead(data), NEW points, points = RollingFees(DistributionsOf(data), data.now),
         NEW k \in DOMAIN points
  PROVE  LET days == WindowDaysOf(data, k)
         IN  AprSeries(data, points).apr[k]
               = AprOfDay(data, ValueOf(data, days), DayNumber(data, k), days)
<1> DEFINE series == AprSeries(data, points)
           staked == series.staked
           prices == series.prices
           W == WindowOf(k)
           days == WindowDaysOf(data, k)
           day(j) == DayNumber(data, j)
           p == [j \in W |-> day(j)]
           f == [j \in W |-> staked[j] * prices[j][1]]
           value(d) == StakedAt(data, d) * PriceAt(data, d)
           g == [d \in days |-> value(d)]
           sum == SumFunctionOnSet(f, W)
<1>1. FeesRead(data) /\ IsPoints(points)
  BY PointsAre DEF AprRead
<1>2. /\ Len(points) \in Nat /\ DOMAIN points = 1..Len(points)
      /\ \A j \in DOMAIN points : points[j].day = day(j) /\ points[j].day \in Int
      /\ points[k].staker = StakerFees(data, day(k))
      /\ \A j \in 1..k : /\ day(j) \in Int
                         /\ \A i \in 1..k : i # j => day(i) # day(j)
  BY <1>1, PointsAre DEF IsPoints
<1>3. k \in 1..Len(points) /\ windowDays \in Nat \ {0}
  BY <1>2, FeeAssumption
<1>4. /\ staked = [j \in DOMAIN points |-> StakedAt(data, points[j].day)]
      /\ prices = [j \in DOMAIN points |->
                     IF PriceKnown(data, points[j].day) THEN <<PriceAt(data, points[j].day)>>
                     ELSE NoValue]
      /\ series.apr = RollingApr(points, staked, prices)
  BY <1>1, SeriesIs
<1>5. /\ W \subseteq 1..k /\ W \subseteq DOMAIN points
      /\ {j \in DOMAIN points : j > k - windowDays /\ j <= k} = W
  BY <1>2, <1>3 DEF WindowOf
<1>6. series.apr[k]
        = IF (\E j \in W : prices[j] = NoValue) \/ sum <= 0 THEN NoValue
          ELSE <<points[k].staker * Cardinality(W), windowDays * sum>>
  <2> DEFINE win == {j \in DOMAIN points : j > k - windowDays /\ j <= k}
  <2> HIDE DEF staked, prices
  <2>1. RollingApr(points, staked, prices)[k]
          = IF \/ \E j \in win : prices[j] = NoValue
               \/ SumFunctionOnSet([j \in win |-> staked[j] * prices[j][1]], win) <= 0
            THEN NoValue
            ELSE <<points[k].staker * Cardinality(win),
                   windowDays * SumFunctionOnSet([j \in win |-> staked[j] * prices[j][1]], win)>>
    BY DEF RollingApr, SumOver
  <2>2. win = W
    BY <1>5
  <2> HIDE DEF win, W
  <2>3. series.apr = RollingApr(points, staked, prices)
    BY <1>4
  <2> HIDE DEF series
  <2> QED  BY <2>1, <2>2, <2>3
<1> HIDE DEF series, staked, prices
<1>7. ASSUME NEW j \in W
      PROVE  /\ day(j) \in days /\ day(j) \in Int
             /\ staked[j] = StakedAt(data, day(j))
             /\ prices[j] = IF PriceKnown(data, day(j)) THEN <<PriceAt(data, day(j))>>
                            ELSE NoValue
  <2>1. j \in 1..k /\ j \in DOMAIN points /\ points[j].day = day(j)
    BY <1>2, <1>5
  <2>2. day(j) \in days
    BY DEF WindowOf, WindowDaysOf
  <2> QED  BY <1>2, <1>4, <2>1, <2>2
<1>8. \A d \in days : \E j \in W : d = day(j)
  BY DEF WindowDaysOf, WindowOf
<1>9. IsFiniteSet(W)
  <2>1. IsFiniteSet(1..k)
    BY <1>2, <1>3, FS_Interval, 1 \in Int, k \in Int
  <2> QED  BY <1>5, <2>1, FS_Subset
<1>10. Pairs(p, W, days)
  <2>1. \A i, j \in W : i # j => p[i] # p[j]
    BY <1>2, <1>5
  <2>2. \A j \in W : p[j] \in days
    BY <1>7
  <2>3. \A d \in days : \E j \in W : p[j] = d
    BY <1>8
  <2> HIDE DEF p, W, days
  <2> QED  BY <2>1, <2>2, <2>3 DEF Pairs
<1>11. (\E j \in W : prices[j] = NoValue) <=> (\E d \in days : ~PriceKnown(data, d))
  <2>1. ASSUME NEW j \in W PROVE prices[j] = NoValue <=> ~PriceKnown(data, day(j))
    <3>1. <<PriceAt(data, day(j))>> # NoValue
      BY DEF NoValue
    <3> QED  BY <1>7, <3>1
  <2> HIDE DEF W, days, day
  <2> QED  BY <1>7, <1>8, <2>1
<1>12. ValueOf(data, days) = SumFunctionOnSet(g, days)
  BY DEF ValueOf, SumOver
<1>13. points[k].staker = StakerFees(data, day(k))
  BY <1>2
<1>14. ASSUME \A d \in days : PriceKnown(data, d)
       PROVE  sum = ValueOf(data, days) /\ Cardinality(W) = Cardinality(days)
  <2>1. ASSUME NEW j \in W PROVE f[j] \in Int /\ g[p[j]] = f[j]
    <3>1. /\ day(j) \in days /\ day(j) \in Int /\ staked[j] = StakedAt(data, day(j))
          /\ prices[j] = <<PriceAt(data, day(j))>>
      BY <1>7, <1>14
    <3>2. prices[j][1] = PriceAt(data, day(j)) /\ p[j] = day(j)
      BY <3>1
    <3>3. f[j] = StakedAt(data, day(j)) * PriceAt(data, day(j))
      BY <3>1, <3>2
    <3>4. g[p[j]] = StakedAt(data, day(j)) * PriceAt(data, day(j))
      BY <3>1, <3>2
    <3>5. StakedAt(data, day(j)) \in Int
      BY <3>1, StakedIs
    <3>6. PriceAt(data, day(j)) \in Nat
      <4>1. Close(day(j), data.now) \in Int
        BY <1>1, <3>1, FeeAssumption DEF Close, FeesRead
      <4> QED  BY <1>14, <3>1, <4>1, PriceIs DEF AprRead
    <3> QED  BY <3>3, <3>4, <3>5, <3>6
  <2>2. \A j \in W : f[j] \in Int /\ g[p[j]] = f[j]
    BY <2>1
  <2> HIDE DEF f, g, p, W, days
  <2>3. Cardinality(days) = Cardinality(W) /\ SumFunctionOnSet(g, days) = SumFunctionOnSet(f, W)
    BY <1>9, <1>10, <2>2, SumOfImage
  <2> QED  BY <1>12, <2>3
<1>15. AprOfDay(data, ValueOf(data, days), day(k), days)
         = IF (\E d \in days : ~PriceKnown(data, d)) \/ ValueOf(data, days) <= 0 THEN NoValue
           ELSE <<StakerFees(data, day(k)) * Cardinality(days),
                  windowDays * ValueOf(data, days)>>
  BY DEF AprOfDay
<1> HIDE DEF sum, W, days, day
<1>16. series.apr[k] = AprOfDay(data, ValueOf(data, days), day(k), days)
  <2>1. CASE \E d \in days : ~PriceKnown(data, d)
    BY <1>6, <1>11, <1>15, <2>1
  <2>2. CASE \A d \in days : PriceKnown(data, d)
    BY <1>6, <1>11, <1>13, <1>14, <1>15, <2>2
  <2> QED  BY <2>1, <2>2
<1> QED  BY <1>16 DEF days, day, series

\* The chart, the table and the current figure of the APR agree with the definition.
THEOREM PageShowsApr ==
  ASSUME NEW data, AprRead(data)
  PROVE  ShowsApr(data)
<1> DEFINE points == RollingFees(DistributionsOf(data), data.now)
           series == AprSeries(data, points)
           n == Len(points)
           chart == AprPoints(points, series)
           table == Table(points, series.apr)
           current == CurrentApr(series)
<1>1. FeesRead(data) /\ IsPoints(points)
  BY PointsAre DEF AprRead
<1>2. /\ n \in Nat /\ DOMAIN points = 1..n
      /\ \A k \in 1..n : /\ points[k].day = DayNumber(data, k) /\ points[k].day \in Int
                         /\ points[k].staker = StakerFees(data, DayNumber(data, k))
  BY <1>1, PointsAre DEF IsPoints
<1>3. /\ series.staked = [k \in DOMAIN points |-> StakedAt(data, points[k].day)]
      /\ series.prices = [k \in DOMAIN points |->
                            IF PriceKnown(data, points[k].day)
                            THEN <<PriceAt(data, points[k].day)>> ELSE NoValue]
  BY <1>1, SeriesIs
<1>4. \A k \in 1..n :
        series.apr[k] = AprOfDay(data, ValueOf(data, WindowDaysOf(data, k)), DayNumber(data, k),
                                 WindowDaysOf(data, k))
  BY <1>2, AprOfPoint
<1>5. series.apr = [i \in DOMAIN points |-> series.apr[i]]
  <2>1. series.apr = RollingApr(points, series.staked, series.prices)
    BY <1>1, SeriesIs
  <2> HIDE DEF points, series
  <2> QED  BY <2>1 DEF RollingApr
<1> HIDE DEF points, series
<1>6. chart = [i \in 1..n |-> [day |-> points[i].day, value |-> series.apr[i],
                               stakers |-> points[i].staker, staked |-> series.staked[i],
                               price |-> series.prices[i]]]
  BY <1>2 DEF AprPoints
<1>7. ASSUME NEW k \in DOMAIN chart
      PROVE  chart[k] = PointOfDay(data, DayNumber(data, k),
                                   {DayNumber(data, i) : i \in {j \in 1..k : j > k - windowDays}})
  <2> DEFINE today == DayNumber(data, k)
             days == WindowDaysOf(data, k)
  <2>1. k \in 1..n
    BY <1>6
  <2>2. PointOfDay(data, today, days)
          = [day |-> today, stakers |-> StakerFees(data, today), staked |-> StakedAt(data, today),
             price |-> IF PriceKnown(data, today) THEN <<PriceAt(data, today)>> ELSE NoValue,
             value |-> AprOfDay(data, ValueOf(data, days), today, days)]
    BY DEF PointOfDay, ValueOf
  <2>3. /\ points[k].day = today /\ points[k].staker = StakerFees(data, today)
        /\ series.staked[k] = StakedAt(data, today)
        /\ series.prices[k] = IF PriceKnown(data, today) THEN <<PriceAt(data, today)>> ELSE NoValue
        /\ series.apr[k] = AprOfDay(data, ValueOf(data, days), today, days)
    BY <1>2, <1>3, <1>4, <2>1
  <2> HIDE DEF days, today
  <2>4. chart[k] = PointOfDay(data, today, days)
    BY <1>6, <2>1, <2>2, <2>3
  <2> QED  BY <2>4 DEF days, today, WindowDaysOf
<1>8. ASSUME NEW r \in DOMAIN table
      PROVE  \E k \in DOMAIN chart : chart[k].day = table[r].day /\ chart[k].value = table[r].apr
  <2> DEFINE rows == WeeklyRows(points)
             k == rows[r]
  <2>1. /\ DOMAIN rows = 1..(n + windowDays - 1) \div windowDays
        /\ \A i \in DOMAIN rows : rows[i] = n - (i - 1) * windowDays
    BY DEF WeeklyRows
  <2>2. r \in DOMAIN rows /\ DOMAIN table = DOMAIN rows
    BY DEF Table
  <2>3. k \in 1..n
    BY <1>2, <2>1, <2>2, RowsInChart
  <2>4. series.apr # NoValue
    <3>1. DOMAIN series.apr = 1..n
      BY <1>2, <1>5
    <3>2. DOMAIN NoValue = {}
      BY DEF NoValue
    <3> QED  BY <2>3, <3>1, <3>2
  <2>5. table[r].day = points[k].day /\ table[r].apr = series.apr[k]
    BY <2>2, <2>4 DEF Table
  <2> HIDE DEF rows, k, table
  <2>6. k \in DOMAIN chart /\ chart[k].day = points[k].day /\ chart[k].value = series.apr[k]
    BY <1>6, <2>3
  <2> QED  BY <2>5, <2>6
<1>9. ASSUME chart # <<>> PROVE current = Last(chart).value
  <2>1. Len(chart) = n /\ Len(series.apr) = n
    BY <1>2, <1>5, <1>6
  <2>2. n \in 1..n
    <3>1. ASSUME n = 0 PROVE chart = <<>>
      BY <1>6, <3>1
    <3> QED  BY <1>2, <1>9, <3>1
  <2>3. Last(chart).value = series.apr[n]
    BY <1>6, <2>1, <2>2 DEF Last
  <2> QED  BY <2>1, <2>3 DEF CurrentApr, Last
<1> HIDE DEF chart, table, current
<1>10. AprAgrees(data, chart, table, current)
  BY <1>7, <1>8, <1>9 DEF AprAgrees
<1> QED  BY <1>10 DEF ShowsApr, chart, table, current, points, series

\* The inputs the page is run on are such that it reads.
LEMMA AprInputsRead ==
  ASSUME NEW data \in FeeInputs
  PROVE  AprRead(data)
<1>1. FeesRead(data)
  BY DistributionsRead
<1>2. Instants \in Nat /\ BASE_BLOCK_SECONDS \in Nat \ {0}
  BY FeeAssumption
<1>3. /\ data.logs \in {<<>>} \cup Logs(StakeLogs, 2)
      /\ data.prices \in {<<>>} \cup PriceLists
  BY DEF FeeInputs
<1>4. IsStakeLogs(data.logs)
  <2>1. data.logs \in Seq(StakeLogs)
    <3>1. CASE data.logs = <<>>
      BY <3>1
    <3>2. CASE data.logs \in Logs(StakeLogs, 2)
      BY <3>2, LogsAre, 2 \in Nat
    <3> QED  BY <1>3, <3>1, <3>2
  <2>2. \A l \in StakeLogs : l.block \in Nat /\ l.amount \in Nat
    BY <1>2 DEF StakeLogs
  <2> QED  BY <2>1, <2>2 DEF IsStakeLogs
<1>5. IsPriceList(data.prices)
  <2>1. CASE data.prices = <<>>
    BY <2>1 DEF IsPriceList
  <2>2. CASE data.prices \in PriceLists
    <3>1. PICK times \in Logs(0..Instants, 2) :
            /\ \A i, j \in DOMAIN times : i < j => times[i] < times[j]
            /\ data.prices = [i \in DOMAIN times |-> [timestamp |-> times[i], price |-> times[i] + 1]]
      BY <2>2 DEF PriceLists
    <3>2. times \in Seq(0..Instants)
      BY LogsAre, 2 \in Nat
    <3>3. /\ Len(times) \in Nat /\ DOMAIN times = 1..Len(times)
          /\ \A i \in DOMAIN times : times[i] \in Nat
      BY <1>2, <3>2
    <3>4. Len(data.prices) = Len(times) /\ DOMAIN data.prices = DOMAIN times
      BY <3>1, <3>3
    <3>5. \A i \in DOMAIN times : /\ data.prices[i].timestamp = times[i]
                                  /\ data.prices[i].price = times[i] + 1
      BY <3>1
    <3> QED  BY <3>1, <3>3, <3>4, <3>5 DEF IsPriceList
  <2> QED  BY <1>3, <2>1, <2>2
<1> QED  BY <1>1, <1>4, <1>5 DEF AprRead

-----------------------------------------------------------------------------
(* The yields of the pool page and of the card.                            *)

\* What the page reads for the yields: a reward period that was announced at the
\* newest block or before it, and a clock that is not behind that block.
YieldRead(data) ==
  /\ {data.rewardRate, data.totalStaked, data.deployed, data.start, data.periodFinish,
      data.latest, data.later, data.now} \subseteq Nat
  /\ data.coin = NoValue \/ \E n \in Nat : data.coin = <<n>>
  /\ data.start < data.periodFinish
  /\ data.start <= TimeOfBlock(data.latest) /\ TimeOfBlock(data.latest) <= data.now

\* The smaller of two.
LEMMA MinOfTwo ==
  ASSUME NEW a \in Int, NEW b \in Int
  PROVE  Min({a, b}) = IF a <= b THEN a ELSE b
<1>1. CASE a <= b
  BY <1>1 DEF Min
<1>2. CASE ~(a <= b)
  BY <1>2 DEF Min
<1> QED  BY <1>1, <1>2

\* The larger of two.
LEMMA MaxOfTwo ==
  ASSUME NEW a \in Int, NEW b \in Int
  PROVE  Max({a, b}) = IF a >= b THEN a ELSE b
<1>1. CASE a >= b
  BY <1>1 DEF Max
<1>2. CASE ~(a >= b)
  BY <1>2 DEF Max
<1> QED  BY <1>1, <1>2

\* A price is positive.
LEMMA PriceOfIs ==
  ASSUME NEW data, YieldRead(data), PriceOf(data) # NoValue
  PROVE  PriceOf(data)[1] \in Nat \ {0}
<1>1. PICK n \in Nat : data.coin = <<n>>
  BY DEF PriceOf, YieldRead
<1>2. data.coin[1] = n
  BY <1>1
<1> QED  BY <1>1, <1>2 DEF PriceOf

\* How long the period has streamed at a time.
Elapsed(data, t) ==
  IF t <= data.start THEN 0
  ELSE IF t <= data.periodFinish THEN t - data.start ELSE data.periodFinish - data.start

\* The seconds of the period between two times.
LEMMA StreamingIs ==
  ASSUME NEW data, YieldRead(data), NEW a \in Int, NEW b \in Int, a <= b
  PROVE  /\ Cardinality({t \in a..b - 1 : Streaming(data, t)}) = Elapsed(data, b) - Elapsed(data, a)
         /\ Elapsed(data, a) \in Nat /\ Elapsed(data, b) \in Nat
         /\ Elapsed(data, a) <= Elapsed(data, b)
<1> DEFINE s == data.start
           f == data.periodFinish
           lo == IF a < s THEN s ELSE a
           hi == IF b < f THEN b ELSE f
           last == hi - 1
<1>1. s \in Nat /\ f \in Nat /\ s < f
  BY DEF YieldRead
<1>2. {t \in a..b - 1 : Streaming(data, t)} = {t \in a..b - 1 : s <= t /\ t < f}
  BY DEF Streaming
<1>3. /\ Elapsed(data, a) = IF a <= s THEN 0 ELSE IF a <= f THEN a - s ELSE f - s
      /\ Elapsed(data, b) = IF b <= s THEN 0 ELSE IF b <= f THEN b - s ELSE f - s
  BY DEF Elapsed
<1> HIDE DEF s, f
<1>4. lo \in Int /\ last \in Int
  BY <1>1
<1>5. {t \in a..b - 1 : s <= t /\ t < f} = lo..last
  BY <1>1
<1>6. Cardinality(lo..last) = IF lo > last THEN 0 ELSE last - lo + 1
  <2> HIDE DEF lo, last
  <2> QED  BY <1>4, FS_Interval
<1>7. (IF lo > last THEN 0 ELSE last - lo + 1) = Elapsed(data, b) - Elapsed(data, a)
  BY <1>1, <1>3
<1>8. /\ Elapsed(data, a) \in Nat /\ Elapsed(data, b) \in Nat
      /\ Elapsed(data, a) <= Elapsed(data, b)
  BY <1>1, <1>3
<1> QED  BY <1>2, <1>5, <1>6, <1>7, <1>8

\* What the contract has counted at a time, times the stake.
Accrued(data, t) == Elapsed(data, t) * data.rewardRate * ONE

\* rewardPerToken() divides what has accrued by the stake.
LEMMA RptIs ==
  ASSUME NEW data, YieldRead(data), NEW n \in Int
  PROVE  RptAt(data, n) = IF data.totalStaked = 0 THEN 0
                          ELSE Accrued(data, TimeOfBlock(n)) \div data.totalStaked
<1> DEFINE t == TimeOfBlock(n)
           s == data.start
           f == data.periodFinish
           S == data.totalStaked
<1>1. s \in Nat /\ f \in Nat /\ s < f /\ S \in Nat /\ data.rewardRate \in Nat /\ ONE \in Nat
  BY YieldAssumption DEF YieldRead
<1>2. t \in Int
  BY FeeAssumption DEF TimeOfBlock
<1>3. RptAt(data, n)
        = IF (IF t <= f THEN t ELSE f) <= s \/ S = 0 THEN 0
          ELSE (((IF t <= f THEN t ELSE f) - s) * data.rewardRate * ONE) \div S
  BY <1>1, <1>2, MinOfTwo DEF RptAt
<1>4. Accrued(data, t)
        = (IF t <= s THEN 0 ELSE IF t <= f THEN t - s ELSE f - s) * data.rewardRate * ONE
  BY DEF Accrued, Elapsed
<1> HIDE DEF t, s, f, S
<1>5. CASE S = 0
  BY <1>3, <1>5 DEF S, t
<1>6. CASE S # 0
  <2>1. CASE t <= s
    <3>1. Accrued(data, t) = 0
      BY <1>1, <1>4, <2>1
    <3>2. 0 \div S = 0
      BY <1>1, <1>6
    <3> QED  BY <1>1, <1>2, <1>3, <1>6, <2>1, <3>1, <3>2 DEF S, t
  <2>2. CASE ~(t <= s)
    <3>1. ~((IF t <= f THEN t ELSE f) <= s)
      BY <1>1, <1>2, <2>2
    <3>2. (IF t <= f THEN t ELSE f) - s
            = IF t <= s THEN 0 ELSE IF t <= f THEN t - s ELSE f - s
      BY <2>2
    <3> QED  BY <1>3, <1>4, <1>6, <3>1, <3>2 DEF S, t
  <2> QED  BY <2>1, <2>2
<1> QED  BY <1>5, <1>6

\* What comes between two times is what has accrued in between.
LEMMA EarnedIs ==
  ASSUME NEW data, YieldRead(data), NEW a \in Int, NEW b \in Int, a <= b
  PROVE  /\ Accrued(data, a) \in Nat /\ Accrued(data, b) \in Nat
         /\ EarnedIn(data, a, b) = Accrued(data, b) - Accrued(data, a)
         /\ Accrued(data, a) <= Accrued(data, b)
<1> DEFINE x == Elapsed(data, a)
           y == Elapsed(data, b)
           c == data.rewardRate * ONE
<1>1. /\ Cardinality({t \in a..b - 1 : Streaming(data, t)}) = y - x
      /\ x \in Nat /\ y \in Nat /\ x <= y
  BY StreamingIs
<1>2. data.rewardRate \in Nat /\ ONE \in Nat /\ c \in Nat
  BY YieldAssumption, ProductNat DEF YieldRead
<1>3. EarnedIn(data, a, b) = c * (y - x)
  BY <1>1 DEF EarnedIn
<1>4. Accrued(data, a) = x * data.rewardRate * ONE /\ Accrued(data, b) = y * data.rewardRate * ONE
  BY DEF Accrued
<1> HIDE DEF x, y
<1>5. x * data.rewardRate * ONE = x * c /\ y * data.rewardRate * ONE = y * c
  BY <1>1, <1>2
<1> HIDE DEF c
<1>6. x * c \in Nat /\ y * c \in Nat /\ x * c <= y * c
  BY <1>1, <1>2, ProductNat, ProductMonotone
<1>7. c * (y - x) = y * c - x * c
  BY <1>1, <1>2
<1> QED  BY <1>3, <1>4, <1>5, <1>6, <1>7

\* The quotient of two accruals, and what it says of their difference.
LEMMA QuotientsDiffer ==
  ASSUME NEW x \in Nat, NEW y \in Nat, NEW z \in Nat, NEW s \in Nat \ {0},
         z <= x, x <= y
  PROVE  /\ (y \div s) - (z \div s) \in Nat
         /\ ((y \div s) - (z \div s)) * s > x - z - s
         /\ ((y \div s) - (z \div s)) * s < y - z + s
<1> DEFINE q == y \div s
           r == z \div s
<1>1. /\ q \in Nat /\ q * s \in Nat /\ q * s <= y /\ q * s + s > y
      /\ r \in Nat /\ r * s \in Nat /\ r * s <= z /\ r * s + s > z
  BY DivisionRoundsDown, RemainderBelow
<1>2. r <= q
  BY DivisionMonotone
<1> HIDE DEF q, r
<1>3. (q - r) * s = q * s - r * s
  BY <1>1
<1>4. q - r \in Nat
  BY <1>1, <1>2
<1>5. (q - r) * s > x - z - s /\ (q - r) * s < y - z + s
  BY <1>1, <1>3
<1> QED  BY <1>4, <1>5 DEF q, r

\* Whole days are whole blocks.
LEMMA WindowBlocks ==
  ASSUME NEW data, YieldRead(data), NEW days \in Nat \ {0}
  PROVE  LET past == data.latest - days * BLOCKS_PER_DAY
         IN  /\ past \in Int /\ days * DAY \in Nat \ {0}
             /\ TimeOfBlock(past) = TimeOfBlock(data.latest) - days * DAY
             /\ TimeOfBlock(data.latest) \in Nat
             /\ TimeOfBlock(data.latest + data.later) \in Nat
             /\ TimeOfBlock(data.latest) <= TimeOfBlock(data.latest + data.later)
             /\ OldEnough(data, days) <=> ~(past <= 0 \/ past < data.deployed)
<1> DEFINE B == BASE_BLOCK_SECONDS
           n == BLOCKS_PER_DAY
           l == data.latest
           past == l - days * n
<1>1. /\ B \in Nat \ {0} /\ DAY \in Nat \ {0} /\ l \in Nat /\ data.later \in Nat
      /\ data.deployed \in Nat
  BY FeeAssumption DEF YieldRead
<1>2. n \in Nat /\ n * B = DAY
  <2> HIDE DEF B
  <2>1. n = DAY \div B /\ DAY % B = 0
    BY YieldAssumption DEF BLOCKS_PER_DAY, B
  <2>2. DAY \div B \in Int /\ DAY = B * (DAY \div B) + (DAY % B)
    BY <1>1
  <2>3. DAY \div B \in Nat
    BY <1>1, DivisionRoundsDown
  <2> HIDE DEF n
  <2> QED  BY <1>1, <2>1, <2>2, <2>3
<1>3. \A k : TimeOfBlock(k) = k * B
  BY DEF TimeOfBlock
<1> HIDE DEF B, n, l
<1>4. days * n \in Nat /\ (days * n) * B = days * DAY
  BY <1>1, <1>2
<1>5. past \in Int
  BY <1>1, <1>4
<1>6. days * DAY \in Nat \ {0}
  BY <1>1
<1>7. past * B = l * B - days * DAY
  <2>1. past * B = l * B - (days * n) * B
    BY <1>1, <1>4
  <2> QED  BY <1>4, <2>1
<1>8. l * B \in Nat /\ (l + data.later) * B \in Nat /\ l * B <= (l + data.later) * B
  <2>1. l + data.later \in Nat /\ l <= l + data.later
    BY <1>1
  <2> QED  BY <1>1, <2>1, ProductNat, ProductMonotone
<1>9. OldEnough(data, days) <=> l * B - days * DAY >= 1 /\ l * B - days * DAY >= data.deployed * B
  <2>1. data.deployed * B \in Nat
    BY <1>1, ProductNat
  <2>2. OldEnough(data, days) <=> l * B - days * DAY >= Max({1, data.deployed * B})
    BY <1>3 DEF OldEnough, l
  <2>3. Max({1, data.deployed * B}) = IF 1 >= data.deployed * B THEN 1 ELSE data.deployed * B
    BY <2>1, MaxOfTwo, 1 \in Int
  <2> DEFINE f == l * B - days * DAY
             d == data.deployed * B
  <2>4. f \in Int /\ d \in Nat
    BY <1>6, <1>8, <2>1
  <2> HIDE DEF f, d
  <2>5. OldEnough(data, days) <=> f >= (IF 1 >= d THEN 1 ELSE d)
    BY <2>2, <2>3 DEF f, d
  <2>6. OldEnough(data, days) <=> f >= 1 /\ f >= d
    BY <2>4, <2>5
  <2> QED  BY <2>6 DEF f, d
<1> HIDE DEF past
<1>10. past * B >= 1 <=> past >= 1
  <2>1. CASE past >= 1
    BY <1>1, <1>5, <2>1
  <2>2. CASE ~(past >= 1)
    <3>1. past <= 0
      BY <1>5, <2>2
    <3>2. past * B <= 0
      BY <1>1, <1>5, <3>1
    <3> QED  BY <1>1, <1>5, <2>2, <3>2
  <2> QED  BY <2>1, <2>2
<1>11. past * B >= data.deployed * B <=> past >= data.deployed
  <2>1. (past - data.deployed) * B = past * B - data.deployed * B
    BY <1>1, <1>5
  <2>2. past - data.deployed >= 0 => (past - data.deployed) * B >= 0
    BY <1>1, <1>5
  <2>3. past - data.deployed < 0 => (past - data.deployed) * B < 0
    BY <1>1, <1>5
  <2>4. past * B \in Int /\ data.deployed * B \in Int
    BY <1>1, <1>5
  <2> QED  BY <1>1, <1>5, <2>1, <2>2, <2>3, <2>4
<1>12. OldEnough(data, days) <=> ~(past <= 0 \/ past < data.deployed)
  BY <1>1, <1>5, <1>7, <1>9, <1>10, <1>11
<1> QED  BY <1>3, <1>5, <1>6, <1>7, <1>8, <1>12 DEF past, l, n

\* A trailing yield is what a DIEM staked all through the window has earned.
LEMMA TrailingHolds ==
  ASSUME NEW data, YieldRead(data), NEW days \in Nat \ {0}
  PROVE  ShowsTrailing(data, days)
<1> DEFINE past == data.latest - days * BLOCKS_PER_DAY
           end == TimeOfBlock(data.latest)
           late == TimeOfBlock(data.latest + data.later)
           from == end - days * DAY
           S == data.totalStaked
           price == PriceOf(data)
           window == TrailingWindow(data, days)
           apr == TrailingApy(data, days)
           x == Accrued(data, end)
           y == Accrued(data, late)
           z == Accrued(data, from)
           gain == RptAt(data, data.latest + data.later) - RptAt(data, past)
           seconds == days * DAY
<1>1. /\ past \in Int /\ seconds \in Nat \ {0} /\ TimeOfBlock(past) = from
      /\ end \in Nat /\ late \in Nat /\ end <= late
      /\ OldEnough(data, days) <=> ~(past <= 0 \/ past < data.deployed)
  BY WindowBlocks
<1>2. S \in Nat /\ data.latest \in Nat /\ data.later \in Nat /\ data.latest + data.later \in Int
  BY DEF YieldRead
<1>3. from \in Int /\ from <= end /\ end - from = seconds
  BY <1>1
<1>4. /\ x \in Nat /\ y \in Nat /\ z \in Nat /\ z <= x /\ x <= y
      /\ EarnedIn(data, from, end) = x - z /\ EarnedIn(data, from, late) = y - z
  <2> HIDE DEF from, end, late
  <2>1. from \in Int /\ end \in Int /\ late \in Int /\ from <= end /\ end <= late /\ from <= late
    BY <1>1, <1>3
  <2> QED  BY <2>1, EarnedIs
<1>5. /\ RptAt(data, data.latest + data.later) = IF S = 0 THEN 0 ELSE y \div S
      /\ RptAt(data, past) = IF S = 0 THEN 0 ELSE z \div S
  BY <1>1, <1>2, RptIs
<1>6. /\ gain \in Nat
      /\ S = 0 => gain = 0
      /\ S > 0 => gain * S > x - z - S /\ gain * S < y - z + S
  <2> HIDE DEF x, y, z, S, past
  <2>1. CASE S = 0
    BY <1>5, <2>1
  <2>2. CASE S # 0
    <3>1. gain = (y \div S) - (z \div S)
      BY <1>5, <2>2
    <3> QED  BY <1>2, <1>4, <2>2, <3>1, QuotientsDiffer
  <2> QED  BY <2>1, <2>2
<1>7. window = IF OldEnough(data, days) THEN <<gain, seconds>> ELSE NoValue
  <2>1. window = IF past <= 0 \/ past < data.deployed THEN NoValue
                 ELSE <<gain, end - TimeOfBlock(past)>>
    BY DEF TrailingWindow
  <2> HIDE DEF past, gain, end, from, seconds, window
  <2> QED  BY <1>1, <1>3, <2>1
<1>8. apr = IF OldEnough(data, days) /\ price # NoValue THEN <<gain * Year, seconds * price[1]>>
            ELSE NoValue
  <2>1. apr = IF window = NoValue THEN NoValue
              ELSE CalcTrailingApr(window[1], window[2], price)
    BY DEF TrailingApy
  <2> HIDE DEF window, apr, gain, seconds, price
  <2>2. <<gain, seconds>> # NoValue
    BY DEF NoValue
  <2>3. CASE OldEnough(data, days)
    <3>1. apr = CalcTrailingApr(gain, seconds, price)
      BY <1>7, <2>1, <2>2, <2>3
    <3>2. ~(seconds <= 0) /\ ~(gain < 0)
      BY <1>1, <1>6
    <3> QED  BY <2>3, <3>1, <3>2 DEF CalcTrailingApr
  <2>4. CASE ~OldEnough(data, days)
    BY <1>7, <2>1, <2>4
  <2> QED  BY <2>3, <2>4
<1>9. apr # NoValue <=> price # NoValue /\ OldEnough(data, days)
  <2> HIDE DEF apr, gain, seconds, price
  <2>1. <<gain * Year, seconds * price[1]>> # NoValue
    BY DEF NoValue
  <2> QED  BY <1>8, <2>1
<1>10. ASSUME apr # NoValue
       PROVE  apr[1] \div Year = gain /\ apr[2] \div price[1] = seconds
  <2>1. price # NoValue /\ OldEnough(data, days)
    BY <1>9, <1>10
  <2>2. price[1] \in Nat \ {0}
    BY <2>1, PriceOfIs
  <2>3. Year \in Nat \ {0}
    BY FeeAssumption DEF Year
  <2> HIDE DEF apr, gain, seconds, price
  <2>4. apr[1] = gain * Year /\ apr[2] = seconds * price[1]
    BY <1>8, <2>1
  <2>5. (gain * Year) \div Year = gain
    BY <1>6, <2>3, WholeQuotient
  <2>6. (seconds * price[1]) \div price[1] = seconds
    BY <1>1, <2>2, WholeQuotient
  <2> QED  BY <2>4, <2>5, <2>6
<1>11. ShowsTrailing(data, days)
         <=> /\ apr # NoValue <=> price # NoValue /\ OldEnough(data, days)
             /\ apr # NoValue =>
                  /\ apr[2] \div price[1] = seconds
                  /\ S = 0 => apr[1] \div Year = 0
                  /\ S > 0 => /\ (apr[1] \div Year) * S > EarnedIn(data, from, end) - S
                              /\ (apr[1] \div Year) * S < EarnedIn(data, from, late) + S
  BY DEF ShowsTrailing
<1> HIDE DEF apr, gain, seconds, price, S, from, end, late, x, y, z
<1> QED  BY <1>4, <1>6, <1>9, <1>10, <1>11

\* There is a trailing yield when there is one of the shorter window.
LEMMA TrailingShownIs ==
  ASSUME NEW data, YieldRead(data)
  PROVE  TrailingShown(data) <=> PriceOf(data) # NoValue /\ OldEnough(data, windowDays)
<1>1. windowDays \in Nat \ {0} /\ monthDays \in Nat \ {0} /\ windowDays <= monthDays /\ DAY \in Nat
  BY FeeAssumption, YieldAssumption
<1>2. ASSUME NEW days \in Nat \ {0}
      PROVE  TrailingApy(data, days) # NoValue <=> PriceOf(data) # NoValue /\ OldEnough(data, days)
  BY TrailingHolds DEF ShowsTrailing
<1>3. OldEnough(data, monthDays) => OldEnough(data, windowDays)
  <2> DEFINE f == TimeOfBlock(data.latest)
             m == Max({1, TimeOfBlock(data.deployed)})
  <2>1. windowDays * DAY <= monthDays * DAY /\ windowDays * DAY \in Nat /\ monthDays * DAY \in Nat
    BY <1>1, ProductMonotone, ProductNat
  <2>2. f \in Int /\ TimeOfBlock(data.deployed) \in Int
    BY FeeAssumption DEF TimeOfBlock, YieldRead
  <2>3. m \in Int
    BY <2>2, MaxOfTwo, 1 \in Int
  <2> HIDE DEF f, m
  <2>4. f - monthDays * DAY >= m => f - windowDays * DAY >= m
    BY <2>1, <2>2, <2>3
  <2> QED  BY <2>4 DEF OldEnough, f, m
<1> QED  BY <1>1, <1>2, <1>3 DEF TrailingShown

\* The current yields of the page and of the card.
LEMMA CurrentHolds ==
  ASSUME NEW data, YieldRead(data)
  PROVE  ShowsCurrent(data)
<1> DEFINE onPage == CurrentApy(data)
           card == CalcSDiemApr(data)
           price == PriceOf(data)
           R == data.rewardRate
           S == data.totalStaked
           streamed == R * DAY * ONE
           q == streamed \div S
           p == price[1]
           over == data.now >= data.periodFinish
<1>1. /\ R \in Nat /\ S \in Nat /\ DAY \in Nat \ {0} /\ ONE \in Nat \ {0}
      /\ data.now \in Nat /\ data.periodFinish \in Nat /\ data.start \in Nat
      /\ data.start <= TimeOfBlock(data.latest) /\ TimeOfBlock(data.latest) <= data.now
      /\ TimeOfBlock(data.latest) \in Int
  BY FeeAssumption, YieldAssumption DEF YieldRead, TimeOfBlock
<1>2. streamed \in Nat /\ R * DAY \in Nat
  BY <1>1, ProductNat
<1>3. RewardStreamActive(data) <=> R * DAY > 0 /\ S > 0 /\ ~over
  <2>1. SecondsUntil(data.periodFinish, data.now) > 0 <=> ~over
    BY <1>1 DEF SecondsUntil
  <2> QED  BY <2>1 DEF RewardStreamActive
<1>4. card = IF over \/ S = 0 \/ price = NoValue THEN NoValue
             ELSE <<R * Year * ONE, S * p>>
  BY DEF CalcSDiemApr
<1>5. onPage = IF RewardStreamActive(data)
             THEN IF price = NoValue THEN NoValue ELSE <<q * 365, p>>
             ELSE <<0, 1>>
  BY DEF CurrentApy, FormatApy, UsdcPerDiemDay, RewardStreamActive, Nothing
<1>6. \A a, b : <<a, b>> # NoValue
  BY DEF NoValue
<1>7. onPage # NoValue /\ onPage[1] > 0 => card # NoValue
  <2> SUFFICES ASSUME onPage # NoValue, onPage[1] > 0 PROVE card # NoValue
    OBVIOUS
  <2> HIDE DEF onPage, card, price, q, streamed, over
  <2>1. RewardStreamActive(data) /\ price # NoValue
    <3>1. ~RewardStreamActive(data) => onPage[1] = 0
      BY <1>5
    <3> QED  BY <1>5, <3>1
  <2> QED  BY <1>3, <1>4, <1>6, <2>1
<1>8. ASSUME card # NoValue
      PROVE  /\ Streaming(data, data.now)
             /\ card[1] * S * p = 365 * streamed * card[2]
             /\ onPage # NoValue
             /\ (onPage[1] \div 365) * S <= streamed /\ streamed < (onPage[1] \div 365 + 1) * S
             /\ onPage[1] * card[2] <= card[1] * onPage[2]
  <2>1. /\ ~over /\ S # 0 /\ price # NoValue
        /\ card = <<R * Year * ONE, S * p>>
    <3> HIDE DEF card, price, over
    <3> QED  BY <1>4, <1>8
  <2>2. p \in Nat \ {0} /\ S \in Nat \ {0}
    BY <1>1, <2>1, PriceOfIs
  <2>3. Streaming(data, data.now)
    BY <1>1, <2>1 DEF Streaming
  <2>4. card[1] = R * Year * ONE /\ card[2] = S * p
    <3> HIDE DEF card
    <3> QED  BY <2>1
  <2>5. R * Year * ONE = 365 * streamed
    BY <1>1 DEF Year
  <2> HIDE DEF R, price, p, S, onPage, card, over, streamed
  <2>6. card[1] * S * p = 365 * streamed * card[2]
    BY <1>2, <2>2, <2>4, <2>5
  <2>7. CASE RewardStreamActive(data)
    <3>1. onPage # NoValue /\ onPage[1] = q * 365 /\ onPage[2] = p
      BY <1>5, <1>6, <2>1, <2>7
    <3>2. q \in Nat /\ q * S <= streamed /\ q * S + S > streamed /\ q * S \in Nat
      BY <1>2, <2>2, DivisionRoundsDown, RemainderBelow
    <3> HIDE DEF q
    <3>3. onPage[1] \div 365 = q
      BY <3>1, <3>2, WholeQuotient, 365 \in Nat \ {0}
    <3>4. (q + 1) * S = q * S + S
      BY <2>2, <3>2
    <3>5. onPage[1] * card[2] <= card[1] * onPage[2]
      <4>1. (q * 365) * (S * p) = (365 * p) * (q * S)
        BY <2>2, <3>2
      <4>2. (365 * streamed) * p = (365 * p) * streamed
        BY <1>2, <2>2
      <4>3. 365 * p \in Nat
        BY <2>2
      <4>4. (365 * p) * (q * S) <= (365 * p) * streamed
        BY <1>2, <3>2, <4>3, ProductMonotone
      <4> QED  BY <2>4, <2>5, <3>1, <4>1, <4>2, <4>4
    <3> QED  BY <1>2, <2>2, <2>3, <2>6, <3>1, <3>2, <3>3, <3>4, <3>5
  <2>8. CASE ~RewardStreamActive(data)
    <3>1. onPage # NoValue /\ onPage[1] = 0 /\ onPage[2] = 1
      BY <1>5, <1>6, <2>8
    <3>2. R * DAY = 0
      BY <1>2, <1>3, <2>1, <2>2, <2>8
    <3>3. streamed = 0
      BY <1>1, <3>2 DEF streamed
    <3>4. 0 \div 365 = 0
      OBVIOUS
    <3>5. card[1] = 0 /\ card[2] \in Nat
      BY <2>2, <2>4, <2>5, <3>3
    <3>6. (onPage[1] \div 365) * S = 0 /\ (onPage[1] \div 365 + 1) * S = S
      BY <2>2, <3>1, <3>4
    <3> QED  BY <2>2, <2>3, <2>6, <3>1, <3>3, <3>5, <3>6
  <2> QED  BY <2>7, <2>8
<1>9. ShowsCurrent(data)
        <=> /\ card # NoValue => /\ Streaming(data, data.now)
                                 /\ card[1] * S * p = 365 * streamed * card[2]
            /\ onPage # NoValue /\ onPage[1] > 0 => card # NoValue
            /\ card # NoValue => /\ onPage # NoValue
                                 /\ (onPage[1] \div 365) * S <= streamed
                                 /\ streamed < (onPage[1] \div 365 + 1) * S
                                 /\ onPage[1] * card[2] <= card[1] * onPage[2]
  BY DEF ShowsCurrent
<1> HIDE DEF onPage, card, S, p, streamed
<1> QED  BY <1>7, <1>8, <1>9

\* Every yield shown of a period is what the period pays and has paid.
THEOREM YieldsHold ==
  ASSUME NEW data, YieldRead(data)
  PROVE  ShowsYield(data)
<1>1. {windowDays, monthDays} \subseteq Nat \ {0}
  BY FeeAssumption, YieldAssumption
<1> QED  BY <1>1, CurrentHolds, TrailingHolds, TrailingShownIs DEF ShowsYield

\* The inputs the page is run on are such periods.
LEMMA YieldInputsRead ==
  ASSUME NEW data \in YieldInputs
  PROVE  YieldRead(data)
<1>1. Blocks \in Nat /\ BASE_BLOCK_SECONDS \in Nat
  BY FeeAssumption, YieldAssumption
<1>2. /\ data.rewardRate \in {1, 3} /\ data.totalStaked \in {0, 2, 5} /\ data.deployed \in 0..1
      /\ data.start \in {2, 4} /\ data.periodFinish \in {4, 6, 10} /\ data.latest \in 2..Blocks
      /\ data.later \in 0..1 /\ data.now \in 0..2 * Blocks + 1
      /\ data.coin \in {NoValue, <<0>>, <<2>>}
      /\ data.start < data.periodFinish /\ data.start <= TimeOfBlock(data.latest)
      /\ data.now - TimeOfBlock(data.latest) \in 0..1
  BY DEF YieldInputs
<1>3. TimeOfBlock(data.latest) \in Int
  BY <1>1, <1>2 DEF TimeOfBlock
<1> QED  BY <1>1, <1>2, <1>3 DEF YieldRead

-----------------------------------------------------------------------------
(* What is shown does not change while a page runs.                        *)

DataRead == (page = "fees" => shown \in FeeInputs) /\ (page = "yields" => shown \in YieldInputs)

\* Neither page reads again.
LEMMA DataInvariant == WebSpec => []DataRead
<1>1. WebInit => DataRead
  BY DEF WebInit, DataRead
<1>2. DataRead /\ [WebNext]_webVars => DataRead'
  <2> SUFFICES ASSUME DataRead, [WebNext]_webVars PROVE DataRead'
    OBVIOUS
  <2>1. page' = page /\ shown' = shown
    BY DEF WebNext, OnPool, OnCard, webVars
  <2> QED  BY <2>1 DEF DataRead
<1> QED  BY <1>1, <1>2, PTL DEF WebSpec

\* Every point of the fee chart is the sum over its own window, and the table, the
\* current figure, the peak and the totals add up to what was ever distributed, for
\* any lengths of a day and a window (rollingFees, FeesPage).
THEOREM FeesHold == WebSpec => []FeesExact
<1>1. DataRead => FeesExact
  <2> SUFFICES ASSUME DataRead, page = "fees" PROVE ShowsFees(shown) /\ AddsUp(shown)
    BY DEF FeesExact
  <2>1. FeesRead(shown)
    BY DistributionsRead DEF DataRead
  <2> QED  BY <2>1, ChartShowsFees, PageAddsUp
<1> QED  BY <1>1, DataInvariant, PTL

\* The APR of every point divides the fees by the stake and the prices of its own
\* window, on the chart, in the table and in the current figure; and the yields are
\* what the reward period pays and has paid (stakedAtClose, pricesAtClose, rollingApr,
\* calcSDiemApr, useTrailingApr, calcTrailingApr).
THEOREM AprHolds == WebSpec => []AprExact
<1>1. DataRead => AprExact
  <2> SUFFICES ASSUME DataRead
               PROVE  /\ page = "fees" => ShowsApr(shown)
                      /\ page = "yields" => ShowsYield(shown)
    BY DEF AprExact
  <2>1. page = "fees" => AprRead(shown)
    BY AprInputsRead DEF DataRead
  <2>2. page = "yields" => YieldRead(shown)
    BY YieldInputsRead DEF DataRead
  <2> QED  BY <2>1, <2>2, PageShowsApr, YieldsHold
<1> QED  BY <1>1, DataInvariant, PTL
=============================================================================
