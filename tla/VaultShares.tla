---------------------------- MODULE VaultShares ----------------------------
(***************************************************************************)
(* The share arithmetic of OpenZeppelin's ERC4626, as both csDIEM vaults   *)
(* use it (vendored under contracts/lib/openzeppelin-contracts): with      *)
(* virtual shares and one virtual asset, and rounding always in favour of  *)
(* the vault.                                                              *)
(***************************************************************************)
EXTENDS Integers

CONSTANT VirtualShares      \* 10 ** _decimalsOffset()

ASSUME VirtualSharesAssumption == VirtualShares \in Nat \ {0}

\* _convertToShares and _convertToAssets, rounding down.
SharesFor(assets, supply, total) == (assets * (supply + VirtualShares)) \div (total + 1)
AssetsFor(shares, supply, total) == (shares * (total + 1)) \div (supply + VirtualShares)

\* The same, rounding up: what mint() takes and withdraw() burns.
RoundUp(dividend, divisor) == (dividend + divisor - 1) \div divisor
AssetsForMint(shares, supply, total) ==
  RoundUp(shares * (total + 1), supply + VirtualShares)
SharesForWithdraw(assets, supply, total) ==
  RoundUp(assets * (supply + VirtualShares), total + 1)
=============================================================================
