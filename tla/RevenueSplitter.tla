--------------------------- MODULE RevenueSplitter ---------------------------
(***************************************************************************)
(* contracts/src/RevenueSplitter.sol composed with the sDIEM contract it   *)
(* feeds (SDiemV2).  Customers pay USDC to the splitter; anyone may call   *)
(* distribute(), which pays the platform its cut and hands the rest to     *)
(* notifyRewardAmount() in the same transaction.  The splitter is sDIEM's  *)
(* operator, so the rounding dust of a notification comes back to it.      *)
(*                                                                         *)
(* operatorUsdc of SDiemV2 is here the USDC outside: of the customers, and *)
(* of whoever the sDIEM admin makes operator instead of the splitter.      *)
(* since counts the time since lastDistribution, up to MaxCooldown.        *)
(***************************************************************************)
EXTENDS SDiemV2

CONSTANTS
  Splitter,           \* the splitter's address, one of Managers
  Payments,           \* BOUND: the amounts customers pay
  MinAmounts,         \* BOUND: the amounts offered to setMinAmount
  Cooldowns,          \* BOUND: the times offered to setCooldown
  Receivers,          \* BOUND: the addresses offered to setPlatformReceiver
  SplitterAdmins,     \* BOUND: the addresses offered to transferAdmin
  FirstReceiver,      \* the constructor's _platformReceiver
  DefaultMinAmount,   \* DEFAULT_MIN_AMOUNT
  DefaultCooldown,    \* DEFAULT_COOLDOWN
  MaxCooldown,        \* MAX_COOLDOWN
  PlatformBps,        \* PLATFORM_BPS
  BpsDenominator      \* BPS_DENOMINATOR

ASSUME SplitterAssumption ==
  /\ Splitter \in Managers
  /\ Payments \subseteq Nat \ {0}
  /\ MinAmounts \subseteq Nat \ {0} /\ DefaultMinAmount \in Nat \ {0}
  /\ MaxCooldown \in Nat
  /\ Cooldowns \subseteq 0..MaxCooldown /\ DefaultCooldown \in 0..MaxCooldown
  /\ BpsDenominator \in Nat \ {0} /\ PlatformBps \in 0..BpsDenominator - 1

VARIABLES
  setup,              \* [admin, pendingAdmin, receiver, paused, minAmount, cooldown]
  since,
  splitterUsdc,       \* USDC.balanceOf(splitter)
  totalPlatformPaid, totalStakerPaid,
  platformUsdc        \* receiver -> USDC it was paid

splitterVars ==
  <<setup, since, splitterUsdc, totalPlatformPaid, totalStakerPaid, platformUsdc>>
allVars == <<vars, splitterVars>>

SplitterInit ==
  /\ Init
  /\ setup = [admin |-> FirstAdmin, pendingAdmin |-> NoOne,
              receiver |-> FirstReceiver, paused |-> FALSE,
              minAmount |-> DefaultMinAmount, cooldown |-> DefaultCooldown]
  /\ since = MaxCooldown                      \* lastDistribution = 0
  /\ splitterUsdc = 0
  /\ totalPlatformPaid = 0 /\ totalStakerPaid = 0
  /\ platformUsdc = [r \in Receivers \cup {FirstReceiver} |-> 0]
-----------------------------------------------------------------------------
PlatformCut(bal) == (bal * PlatformBps) \div BpsDenominator

\* (mutant) the dust that comes back is not looked at.
CutsOnly(bal, cut) == bal - cut - (bal - cut)

\* What the splitter holds after both payments: the dust sDIEM sends back.
LeftWithSplitter(bal, cut) == bal - cut - (bal - cut) + RefundOf(bal - cut)

\* distribute(): every part of it, the notification included, or none.
Distribute ==
  LET platformCut == PlatformCut(splitterUsdc)
      stakerCut == splitterUsdc - platformCut
  IN  /\ ~setup.paused
      /\ since >= setup.cooldown
      /\ splitterUsdc >= setup.minAmount
      /\ roles.operator = Splitter
      /\ StartPeriod(stakerCut)
      /\ since' = 0
      /\ totalPlatformPaid' = totalPlatformPaid + platformCut
      /\ totalStakerPaid' = totalStakerPaid + stakerCut
      /\ platformUsdc' = [platformUsdc EXCEPT ![setup.receiver] = @ + platformCut]
      /\ splitterUsdc' = LeftWithSplitter(splitterUsdc, platformCut)
      /\ UNCHANGED <<setup, operatorUsdc>>

\* A customer pays.
PayRevenue(amount) ==
  /\ amount <= operatorUsdc
  /\ operatorUsdc' = operatorUsdc - amount
  /\ splitterUsdc' = splitterUsdc + amount
  /\ UNCHANGED <<roleVars, diemVars, shareVars, queueVars, rewardVars, usdc, claimed,
                 setup, since, totalPlatformPaid, totalStakerPaid, platformUsdc>>

\* The setters change one field of setup.
Configure(newSetup) ==
  /\ setup' = newSetup
  /\ UNCHANGED <<vars, since, splitterUsdc, totalPlatformPaid, totalStakerPaid,
                 platformUsdc>>

SetPlatformReceiver(caller, to) ==
  caller = setup.admin /\ Configure([setup EXCEPT !.receiver = to])

SetMinAmount(caller, amount) ==
  caller = setup.admin /\ Configure([setup EXCEPT !.minAmount = amount])

SetCooldown(caller, time) ==
  caller = setup.admin /\ Configure([setup EXCEPT !.cooldown = time])

\* pause() and unpause() revert when there is nothing to change.
PauseSplitter(caller, value) ==
  /\ caller = setup.admin
  /\ setup.paused # value
  /\ Configure([setup EXCEPT !.paused = value])

TransferSplitter(caller, to) ==
  caller = setup.admin /\ Configure([setup EXCEPT !.pendingAdmin = to])

AcceptSplitter(caller) ==
  /\ caller = setup.pendingAdmin
  /\ Configure([setup EXCEPT !.admin = setup.pendingAdmin, !.pendingAdmin = NoOne])
-----------------------------------------------------------------------------
\* Nothing in sDIEM is waiting for time to pass.
SDiemIdle ==
  /\ \A u \in Users : request[u].wait = 0
  /\ pool.cooldown = 0 /\ periodLeft = 0

PassTime ==
  /\ ~SDiemIdle \/ since < MaxCooldown
  /\ since' = Min2(since + 1, MaxCooldown)
  /\ IF SDiemIdle THEN UNCHANGED vars ELSE Tick
  /\ UNCHANGED <<setup, splitterUsdc, totalPlatformPaid, totalStakerPaid, platformUsdc>>

SplitterAdminStep(m) ==
  \/ \E to \in Receivers : SetPlatformReceiver(m, to)
  \/ \E amount \in MinAmounts : SetMinAmount(m, amount)
  \/ \E time \in Cooldowns : SetCooldown(m, time)
  \/ \E value \in Pauses : PauseSplitter(m, value)
  \/ \E to \in SplitterAdmins : TransferSplitter(m, to)
  \/ AcceptSplitter(m)

-----------------------------------------------------------------------------
\* Every USDC that came in is with the customers, the splitter, the platform,
\* the sDIEM contract or a staker, whatever was refunded on the way
\* (KNOWN_ISSUES.md, conservation).
UsdcConserved ==
  operatorUsdc + splitterUsdc + totalPlatformPaid + usdc + SumFunction(claimed)
    = InitialUsdc

\* A distribution tops the stream up: whenever it comes, before the previous
\* period has ended too, stakers have coming at the new rate what they had left
\* to come and all of the new cut, but for less than one unit per time unit.
StreamToppedUp ==
  [][totalStakerPaid' > totalStakerPaid
       => rewardRate' * periodLeft' + RewardsDuration
            > rewardRate * periodLeft + (totalStakerPaid' - totalStakerPaid)]_allVars
=============================================================================
