------------------------------ MODULE SDiemCard ------------------------------
(***************************************************************************)
(* app/src/components/SDiemCard.tsx with the hooks it is made of: a card   *)
(* for the same contracts as the pool page, which no page renders at       *)
(* present.  useContracts() has isV2 TRUE, so that the branches for the    *)
(* first contracts are dead.                                               *)
(*                                                                         *)
(* Unlike the page the card does not wait: every hook has a transaction of *)
(* its own, and a button is disabled by those of some hooks only.  And it  *)
(* reads by five queries that are refreshed one by one, so that what it    *)
(* shows may be of different times: a button is pressed on readings that   *)
(* are true, or on older ones, and then anything may have been offered.    *)
(***************************************************************************)
EXTENDS Wallet, SequencesExt

CONSTANTS
  MaxOpen,        \* BOUND: transactions between prompt and receipt at a time
  MaxPresses      \* BOUND: buttons pressed

ASSUME CardAssumption == MaxOpen \in Nat /\ MaxPresses \in Nat

VARIABLES
  autoCompound,   \* the checkbox of the Stake tab
  sent,           \* from the wallet's prompts to the receipts: a sequence of
                  \* [call, amount, fresh, watched]; watched: its hook has not been reset
  errors,         \* the calls whose hooks show an error
  presses

cardVars == <<autoCompound, sent, errors, presses>>

CardInit == autoCompound = FALSE /\ sent = <<>> /\ errors = {} /\ presses = 0

\* useSDiem(), useCSDiem(), and useDiemToken() of a spender.
sdiem ==
  [paused |-> paused, userStaked |-> balanceOf[Me], earned |-> Earned(Me),
   pendingWithdrawAmount |-> request[Me].amount, canComplete |-> CanComplete,
   minWithdraw |-> MinWithdraw]

csdiem == [paused |-> vaultPaused, userShares |-> shares[Me]]

diem(use) ==
  [balance |-> IF use = "wrap" THEN balanceOf[Me] ELSE wallet[Me],
   allowance |-> allowance[use]]
-----------------------------------------------------------------------------
(* The hooks: each submits its call, and is open until the receipt.        *)

Open(calls) == \E i \in DOMAIN sent : sent[i].watched /\ sent[i].call \in calls

Write(call, amount, fresh) ==
  /\ presses < MaxPresses /\ Len(sent) < MaxOpen
  /\ presses' = presses + 1
  /\ sent' = Append(sent, [call |-> call, amount |-> amount, fresh |-> fresh,
                           watched |-> TRUE])
  /\ errors' = errors \ {call}
  /\ UNCHANGED <<walletVars, autoCompound>>

\* useApproval(): of the maximum, which some wallets cut down to the amount.
approve(use, amount, fresh) ==
  \E granted \in {amount, Unlimited} : Write(<<"approve", use>>, granted, fresh)

\* The calls of the other hooks, which Write submits.
stake == <<"stake">>
deposit == <<"zap">>
depositSDiem == <<"wrap">>
requestWithdraw == <<"requestWithdraw">>
completeWithdraw == <<"completeWithdraw">>
cancelWithdraw == <<"cancelWithdraw">>
claim == <<"claimReward">>
exit == <<"exit">>
redeem == <<"redeem">>
-----------------------------------------------------------------------------
(* The buttons.                                                            *)

StakeTarget == IF autoCompound THEN "zap" ELSE "stake"

\* (mutant) the allowance of sDIEM, whatever the stake's target.
ActiveAllowanceOfSDiem == diem("stake").allowance
AllowanceForStake == diem(StakeTarget).allowance

\* (mutant) the deposit that the Wrap tab may have sent is overlooked.
StakingHere == Open({<<"approve", StakeTarget>>, stake})

\* What the flags staking, wrapping and wrappingSDiem stand for.
Staking == Open({<<"approve", StakeTarget>>, stake, deposit})
Wrapping == Open({<<"approve", "zap">>, deposit})
WrappingSDiem == Open({<<"approve", "wrap">>, depositSDiem})

\* requesting, completing, cancelling, claiming, exiting and redeemingV2.
Awaiting(call) == Open({call})

WrapNeedsApproval(use, amount) == diem(use).allowance < amount

\* A button whose condition is read as it is, or was read too long ago.
Offered(enabled, fresh) == fresh => enabled

\* ActionButton: the approval for use while one is needed, then the action.
ActionButton(loading, enabled, use, amount, needsApproval, call) ==
  /\ ~loading
  /\ \E fresh \in BOOLEAN :
       /\ Offered(enabled, fresh)
       /\ \/ Offered(needsApproval, fresh) /\ approve(use, amount, fresh)
          \/ Offered(~needsApproval, fresh) /\ Write(call, amount, fresh)

\* A button that submits its one call with what is typed.
Button(enabled, call, amount) ==
  ~Awaiting(call) /\ \E fresh \in BOOLEAN : Offered(enabled, fresh) /\ Write(call, amount, fresh)

\* AmountInput: typed, or the maximum by its button.
Entered(max) == (Amounts \cup {max}) \ {0}

\* The checkbox is disabled while csDIEM is shown as paused.
SetAutoCompound ==
  /\ \E fresh \in BOOLEAN : Offered(~csdiem.paused, fresh)
  /\ autoCompound' = ~autoCompound
  /\ UNCHANGED <<walletVars, sent, errors, presses>>

handleStake == IF autoCompound THEN deposit ELSE stake

StakeTab ==
  \/ SetAutoCompound
  \/ \E amount \in Entered(diem("stake").balance) :
       ActionButton(Staking, ~(IF autoCompound THEN csdiem.paused ELSE sdiem.paused),
                    StakeTarget, amount, AllowanceForStake < amount, handleStake)

HasPending == sdiem.pendingWithdrawAmount > 0

WithdrawTab ==
  \/ Button(HasPending /\ sdiem.canComplete, completeWithdraw, 0)
  \/ Button(HasPending, cancelWithdraw, 0)
  \/ \E amount \in Entered(sdiem.userStaked) :
       Button(~sdiem.paused /\ amount >= sdiem.minWithdraw, requestWithdraw, amount)
  \/ Button(sdiem.userStaked > 0 /\ ~sdiem.paused, exit, 0)

WrapDiem ==
  \E amount \in Entered(diem("zap").balance) :
    ActionButton(Wrapping, ~csdiem.paused, "zap", amount, WrapNeedsApproval("zap", amount),
                 deposit)

WrapSDiem ==
  \E amount \in Entered(diem("wrap").balance) :
    ActionButton(WrappingSDiem, ~csdiem.paused /\ diem("wrap").balance > 0,
                 "wrap", amount, WrapNeedsApproval("wrap", amount), depositSDiem)

Unwrap ==
  \E amount \in Entered(csdiem.userShares) :
    Button(csdiem.userShares > 0, redeem, amount)

\* The holder opens any tab at any time.
DepositWithdrawTabs == StakeTab \/ WithdrawTab \/ WrapDiem \/ WrapSDiem \/ Unwrap

PressCard ==
  \/ DepositWithdrawTabs
  \/ Button(sdiem.earned > 0 /\ ~sdiem.paused, claim, 0)

\* The hooks of one status line, which onReset() resets together.
StatusLines ==
  {{<<"approve", StakeTarget>>, stake, deposit},
   {completeWithdraw, cancelWithdraw}, {requestWithdraw, exit},
   {<<"approve", "wrap">>, depositSDiem}, {<<"approve", "zap">>, deposit, redeem},
   {claim}}

\* TxStatus: an error is dismissed, and what the line's other hooks wait for with it.
Dismiss(line) ==
  /\ line \cap errors # {}
  /\ errors' = errors \ line
  /\ sent' = [i \in DOMAIN sent |-> [sent[i] EXCEPT !.watched = @ /\ sent[i].call \notin line]]
  /\ UNCHANGED <<walletVars, autoCompound, presses>>
-----------------------------------------------------------------------------
\* Once something has happened on chain, nothing is decided on what is true now.
Outdated(open) == [i \in DOMAIN open |-> [open[i] EXCEPT !.fresh = FALSE]]

CardMined(i) ==
  /\ Does(sent[i].call, sent[i].amount)
  /\ sent' = Outdated(RemoveAt(sent, i))
  /\ UNCHANGED <<moves, autoCompound, errors, presses>>

\* What a hook shows of its transaction's failure, if it has not been reset.
Failing(i) == errors \cup (IF sent[i].watched THEN {sent[i].call} ELSE {})

\* The wallet's estimate may tell before it is sent; of a receipt the hook tells nothing.
CardReverted(i) ==
  /\ ~ENABLED Does(sent[i].call, sent[i].amount)
  /\ sent' = RemoveAt(sent, i)
  /\ errors' \in {errors, Failing(i)}
  /\ UNCHANGED <<walletVars, autoCompound, presses>>

\* The holder does not sign, which the hook remembers.
CardRefused(i) ==
  /\ Counted /\ sent' = RemoveAt(sent, i) /\ errors' = Failing(i)
  /\ UNCHANGED <<csVars, allowance, autoCompound, presses>>

\* What other holders do outdates the readings as these steps do.
CardWorld ==
  /\ (CountedMove /\ UNCHANGED allowance) \/ TimeStep
  /\ sent' = Outdated(sent)
  /\ UNCHANGED <<autoCompound, errors, presses>>

CardNext ==
  \/ PressCard
  \/ \E line \in StatusLines : Dismiss(line)
  \/ \E i \in DOMAIN sent : CardMined(i) \/ CardReverted(i) \/ CardRefused(i)
  \/ CardWorld
-----------------------------------------------------------------------------
\* What the card does not look at: whether there is as much as was typed, and, for
\* a deposit of DIEM into csDIEM, whether sDIEM is paused.
NotLookedAt(t) ==
  \/ t.call \in {stake, deposit} /\ t.amount > wallet[Me]
  \/ t.call \in {depositSDiem, requestWithdraw} /\ t.amount > balanceOf[Me]
  \/ t.call = redeem /\ t.amount > shares[Me]
  \/ t.call = deposit /\ paused

\* No two that are waited for are the same call.
SentOnce ==
  \A i, j \in DOMAIN sent : i < j /\ sent[i].call = sent[j].call => ~sent[i].watched

\* A transaction that was decided on true readings does not revert if nothing else
\* is mined before it: the button had asked for the right allowance, whichever
\* way the checkbox stood, and its call is allowed.  And no button sends again what
\* another, on another tab, has sent and is waiting for: a deposit is not doubled,
\* nor an open transaction's outcome lost to its hook; unless the holder dismissed an
\* error that stood on the same line, which makes the card forget the transactions
\* beside it.
CardOffersWork ==
  [][/\ \A i \in DOMAIN sent : CardReverted(i) => ~sent[i].fresh \/ NotLookedAt(sent[i])
     /\ SentOnce']_<<walletVars, cardVars>>
=============================================================================
