------------------------------ MODULE DIEMVault ------------------------------
(***************************************************************************)
(* contracts/src/DIEMVault.sol: borrowers pay USDC in, a fee is split off, *)
(* and an event tells the relay what is left to credit.                    *)
(***************************************************************************)
EXTENDS Integers, Sequences, FiniteSets

CONSTANTS
  Payers,             \* borrowers' addresses
  Admins, FirstAdmin, \* addresses that may be admin
  NoAdmin,            \* address(0)
  Payments,           \* BOUND: the amounts deposit() is called with
  MinDeposits,        \* BOUND: the arguments of setMinDeposit
  FeeRates,           \* BOUND: the arguments of setFeeBps
  DEFAULT_MIN_DEPOSIT, DEFAULT_FEE_BPS, MAX_FEE_BPS, BPS_DENOMINATOR,
  MaxAdminCalls       \* BOUND: calls of the admin functions

ASSUME VaultAssumption ==
  /\ IsFiniteSet(Payers)
  /\ FirstAdmin \in Admins /\ NoAdmin \notin Admins
  /\ Payments \subseteq Nat /\ MinDeposits \subseteq Nat /\ FeeRates \subseteq Nat
  /\ DEFAULT_MIN_DEPOSIT \in Nat /\ DEFAULT_FEE_BPS \in Nat /\ MAX_FEE_BPS \in Nat
  /\ BPS_DENOMINATOR \in Nat \ {0}
  /\ DEFAULT_FEE_BPS <= MAX_FEE_BPS /\ MAX_FEE_BPS <= BPS_DENOMINATOR
  /\ MaxAdminCalls \in Nat

VARIABLES
  admin, pendingAdmin, paused, minDeposit, feeBps,
  totalDeposits, protocolFees, borrowerBalance,
  usdc,           \* depositToken.balanceOf(vault)
  adminCalls

terms == <<admin, pendingAdmin, paused, minDeposit, feeBps>>
books == <<totalDeposits, protocolFees, borrowerBalance, usdc>>
vaultVars == <<terms, books, adminCalls>>

VaultInit ==
  /\ admin = FirstAdmin /\ pendingAdmin = NoAdmin /\ paused = FALSE
  /\ minDeposit = DEFAULT_MIN_DEPOSIT /\ feeBps = DEFAULT_FEE_BPS
  /\ totalDeposits = 0 /\ protocolFees = 0 /\ usdc = 0
  /\ borrowerBalance = [u \in Payers |-> 0]
  /\ adminCalls = 0

Fee(amount) == (amount * feeBps) \div BPS_DENOMINATOR

\* (mutant) the event and the books tell the gross amount.
GrossDeposit(amount) == amount
NetDeposit(amount) == amount - Fee(amount)

\* The parameters of the event Deposited: borrower, amount, fee, newBalance.
DepositedParameters == <<"address", "uint256", "uint256", "uint256">>

\* The token is USDC: it takes no fee of its own.
Deposit(u, amount) ==
  /\ ~paused /\ amount >= minDeposit
  /\ borrowerBalance' = [borrowerBalance EXCEPT ![u] = @ + NetDeposit(amount)]
  /\ totalDeposits' = totalDeposits + NetDeposit(amount)
  /\ protocolFees' = protocolFees + Fee(amount)
  /\ usdc' = usdc + amount
  /\ UNCHANGED <<terms, adminCalls>>

WithdrawProtocolFees(amount) ==
  /\ amount > 0 /\ amount <= protocolFees
  /\ protocolFees' = protocolFees - amount /\ usdc' = usdc - amount
  /\ UNCHANGED <<terms, totalDeposits, borrowerBalance>>

SetPaused(value) ==
  paused' = value /\ UNCHANGED <<admin, pendingAdmin, minDeposit, feeBps, books>>

SetMinDeposit(new) ==
  minDeposit' = new /\ UNCHANGED <<admin, pendingAdmin, paused, feeBps, books>>

SetFeeBps(new) ==
  /\ new <= MAX_FEE_BPS
  /\ feeBps' = new
  /\ UNCHANGED <<admin, pendingAdmin, paused, minDeposit, books>>

TransferAdmin(to) ==
  pendingAdmin' = to /\ UNCHANGED <<admin, paused, minDeposit, feeBps, books>>

AcceptAdmin(caller) ==
  /\ caller = pendingAdmin
  /\ admin' = caller /\ pendingAdmin' = NoAdmin
  /\ UNCHANGED <<paused, minDeposit, feeBps, books>>

\* recoverERC20 moves only other tokens.  A call that changes nothing is left out.
AdminStep(caller) ==
  /\ adminCalls < MaxAdminCalls /\ adminCalls' = adminCalls + 1
  /\ \/ AcceptAdmin(caller)
     \/ /\ caller = admin
        /\ \/ WithdrawProtocolFees(protocolFees)
           \/ SetPaused(~paused)
           \/ \E new \in MinDeposits \ {minDeposit} : SetMinDeposit(new)
           \/ \E new \in FeeRates \ {feeBps} : SetFeeBps(new)
           \/ \E to \in Admins : TransferAdmin(to)
=============================================================================
