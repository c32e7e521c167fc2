------------------------------- MODULE PoolPage -------------------------------
(***************************************************************************)
(* app/src/app/page.tsx: the page on which a holder supplies, converts and *)
(* withdraws, against the contracts it submits to (CSDiemV2 and SDiemV2).  *)
(*                                                                         *)
(* The page decides from a snapshot of the chain: one multicall every 20   *)
(* seconds, after a receipt, and whenever what is typed changes its query  *)
(* key, which also throws the old snapshot away.  Until the next one comes *)
(* every read falls back to zero.  Times are counted down by the browser's *)
(* clock meanwhile.  Of the page's three amounts, typed stands for the one *)
(* in use; the wallet is connected to the right chain.                     *)
(***************************************************************************)
EXTENDS Wallet

VARIABLES
  view,           \* reads.data, or NoView
  typed,          \* parsedDeposit, parsedRedeem or parsedWithdraw
  tx,             \* [call, amount, fresh] from the wallet's prompt to the receipt, or NoTx
  fresh           \* history: nothing has happened on chain since the snapshot

pageVars == <<view, typed, tx, fresh>>
poolVars == <<walletVars, pageVars>>

Snapshot ==
  [diem |-> wallet[Me], allowance |-> allowance,
   sdiem |-> balanceOf[Me], earned |-> Earned(Me), maxRedeem |-> shares[Me],
   queued |-> request[Me].amount, wait |-> request[Me].wait, can |-> CanComplete,
   liquid |-> pool.liquid, pending |-> pool.pending, veniceWait |-> pool.cooldown,
   sPaused |-> paused, csPaused |-> vaultPaused]

NoView == [diem |-> -1]
NoTx == [call |-> <<>>]

isBusy == tx # NoTx

\* read(index, fallback)
Fallback ==
  [diem |-> 0, allowance |-> NoAllowance, sdiem |-> 0, earned |-> 0, maxRedeem |-> 0,
   queued |-> 0, wait |-> 0, can |-> FALSE, liquid |-> 0, pending |-> 0, veniceWait |-> 0,
   sPaused |-> FALSE, csPaused |-> FALSE]

Seen == IF view = NoView THEN Fallback ELSE view

PageInit == view = NoView /\ typed = 0 /\ tx = NoTx /\ fresh = FALSE
-----------------------------------------------------------------------------
(* What the page derives from the snapshot.                                *)

\* (mutant) what Venice still holds back counts as claimable.
AllVeniceDiem == Seen.pending
MaturedVeniceDiem == IF Seen.veniceWait = 0 THEN Seen.pending ELSE 0

NextClaimable ==
  IF Seen.wait > 0 THEN 0 ELSE Min2(Seen.queued, Seen.liquid + MaturedVeniceDiem)

\* withdrawalStatus, and the summary's: what a holder who has queued is told.
WithdrawalStatus ==
  IF NextClaimable >= Seen.queued /\ Seen.queued > 0 THEN "ready to claim"
  ELSE IF NextClaimable > 0 THEN "claimable now"
  ELSE IF Seen.wait > 0 THEN "request timer"
  ELSE IF Seen.veniceWait > 0 THEN "next batch unlocking"
  ELSE "waiting for vault liquidity"

Modes == {"stake", "zap"}      \* mode liquid and mode direct
WithdrawModes == {"liquid", "exit"}
ConvertModes == {"wrap", "unwrap"}

\* (mutant) an allowance that is just enough is asked for again.
ApproveAgain(use) == typed >= Seen.allowance[use]
NeedsApproval(use) == typed > Seen.allowance[use]

\* (mutant) only what there is to supply is looked at.
PositiveAmount(balance) == typed > 0
Affordable(balance) == typed > 0 /\ typed <= balance

\* What can be withdrawn and converted: sDIEM, or shares for an exit or an unwrapping.
WithdrawBalance(mode) == IF mode = "liquid" THEN Seen.sdiem ELSE Seen.maxRedeem
ConvertBalance(mode) == IF mode = "wrap" THEN Seen.sdiem ELSE Seen.maxRedeem

\* disableReason, withdrawDisableReason and convertDisableReason are empty.
SupplyEnabled(mode) ==
  /\ ~(IF mode = "stake" THEN Seen.sPaused ELSE Seen.csPaused)
  /\ Affordable(Seen.diem)

\* (mutant) a second request may join the first.
QueueAlways == TRUE
QueueEmpty == Seen.queued = 0

RequestEnabled == QueueEmpty /\ Affordable(WithdrawBalance("liquid"))

\* redeem() is blocked on a pause here, though not by the contract.
RedeemEnabled == ~Seen.csPaused /\ Affordable(WithdrawBalance("exit"))

WrapEnabled == ~Seen.csPaused /\ Affordable(ConvertBalance("wrap"))
-----------------------------------------------------------------------------
(* The buttons: each submits one transaction.                              *)

Press(call) ==
  /\ ~isBusy
  /\ tx' = [call |-> call, amount |-> typed, fresh |-> fresh]
  /\ UNCHANGED <<walletVars, view, typed, fresh>>

\* handlePrimaryAction(): the approval first, of exactly the amount.
PressSupply(mode) ==
  SupplyEnabled(mode) /\ Press(IF NeedsApproval(mode) THEN <<"approve", mode>> ELSE <<mode>>)

PressRequest == RequestEnabled /\ Press(<<"requestWithdraw">>)

PressRedeem == RedeemEnabled /\ Press(<<"redeem">>)

PressWrap ==
  WrapEnabled /\ Press(IF NeedsApproval("wrap") THEN <<"approve", "wrap">> ELSE <<"wrap">>)

\* handleWithdrawAction() and handleConvertAction(): an unwrapping is the redeem of an exit.
PressWithdraw(mode) == IF mode = "exit" THEN PressRedeem ELSE PressRequest
PressConvert(mode) == IF mode = "wrap" THEN PressWrap ELSE PressRedeem

\* The button of a queued withdrawal.
PressQueued ==
  /\ Seen.queued > 0
  /\ Press(IF Seen.can THEN <<"completeWithdraw">> ELSE <<"cancelWithdraw">>)

PressClaim == Seen.earned > 0 /\ Press(<<"claimReward">>)

\* What each panel of the page offers; the holder opens any tab at any time.
SupplyPanel == \E mode \in Modes : PressSupply(mode)
WithdrawPanel == (\E mode \in WithdrawModes : PressWithdraw(mode)) \/ PressQueued
ConvertPanel == \E mode \in ConvertModes : PressConvert(mode)
PositionPanel == PressQueued \/ PressClaim

PressAny == SupplyPanel \/ WithdrawPanel \/ ConvertPanel \/ PositionPanel
-----------------------------------------------------------------------------
(* The rest of the page.                                                   *)

\* While a transaction is open as well: it keeps the amount it was submitted with.
Typed(amount) ==
  /\ typed # amount /\ typed' = amount
  /\ fresh' = (fresh /\ view' # NoView)
  /\ UNCHANGED <<walletVars, tx>>

\* depositAmount and redeemAmount are in the query key (their previews are read),
\* withdrawAmount is not.
TypeSupply(amount) == view' = NoView /\ Typed(amount)

TypeWithdraw(mode, amount) ==
  view' = (IF mode = "exit" THEN NoView ELSE view) /\ Typed(amount)

TypeConvert(mode, amount) ==
  IF mode = "wrap" THEN TypeSupply(amount) ELSE TypeWithdraw("exit", amount)

Type(amount) ==
  \/ TypeSupply(amount)
  \/ \E mode \in WithdrawModes : TypeWithdraw(mode, amount)
  \/ \E mode \in ConvertModes : TypeConvert(mode, amount)

Fetch ==
  /\ view # Snapshot \/ ~fresh
  /\ view' = Snapshot /\ fresh' = TRUE
  /\ UNCHANGED <<walletVars, typed, tx>>

Stale == IF isBusy THEN [tx EXCEPT !.fresh = FALSE] ELSE tx

Effect == Does(tx.call, tx.amount)

\* The receipt, or the holder's refusal to sign, ends the wait.
Leave == isBusy /\ tx' = NoTx /\ UNCHANGED <<view, typed>>

Mined == Leave /\ Effect /\ fresh' = FALSE /\ UNCHANGED moves
Reverted == Leave /\ ~ENABLED Effect /\ UNCHANGED <<walletVars, fresh>>
Refused == Leave /\ Counted /\ UNCHANGED <<csVars, allowance, fresh>>

WorldMoves ==
  /\ WorldStep
  /\ tx' = Stale /\ fresh' = FALSE
  /\ UNCHANGED <<view, typed>>

\* The browser counts the snapshot's times down as well.
ViewTick ==
  view' = IF view = NoView THEN view
          ELSE [view EXCEPT !.wait = CountDown(@), !.veniceWait = CountDown(@)]

TimePasses ==
  /\ TimeStep
  /\ ViewTick
  /\ tx' = Stale /\ fresh' = FALSE
  /\ UNCHANGED typed

PageNext ==
  \/ PressAny
  \/ \E amount \in Amounts : Type(amount)
  \/ Fetch \/ Mined \/ Reverted \/ Refused
  \/ WorldMoves \/ TimePasses
-----------------------------------------------------------------------------
\* What the page offers works: a transaction decided on a snapshot that is
\* still true when it is mined does not revert.  Known gaps: depositDIEM also
\* needs sDIEM unpaused, and requestWithdraw an amount of MIN_WITHDRAW.
KnownGap ==
  \/ tx.call = <<"zap">> /\ paused
  \/ tx.call = <<"requestWithdraw">> /\ tx.amount < MinWithdraw

PageOffersWork ==
  [][Reverted => ~tx.fresh \/ KnownGap]_poolVars

\* The page's own arithmetic on queue, liquidity and Venice's cooldown says
\* what the contract's canCompleteWithdraw says: "Ready to claim" and the
\* button that would cancel do not meet on a true snapshot.  And whoever has queued
\* is told what there is to wait for, as the contracts never leave a queue without
\* liquid DIEM or DIEM on its way.
StatusAgrees ==
  fresh /\ view # NoView =>
    /\ NextClaimable > 0 <=> Seen.can
    /\ Seen.queued > 0 =>
         /\ WithdrawalStatus \in {"ready to claim", "claimable now"} <=> Seen.can
         /\ WithdrawalStatus # "waiting for vault liquidity"

\* The page does not restart the delay of a queued withdrawal: a second request
\* comes only from a snapshot that had become false.
DelayNotRestarted ==
  [][Mined /\ tx.call = <<"requestWithdraw">> /\ request[Me].amount > 0
       => ~tx.fresh]_poolVars
=============================================================================
