---------------------------- MODULE StakingYield ----------------------------
(***************************************************************************)
(* The yields the web application shows of sDIEM: the current one of the   *)
(* pool page and of the card, and the trailing ones                        *)
(* (app/src/app/page.tsx, app/src/lib/apr.ts,                              *)
(* app/src/hooks/useTrailingApr.ts), over one reward period of the         *)
(* contract during which the stake does not change.                        *)
(*                                                                         *)
(* Pure functions.  A yield a year is a pair, of which the quotient times  *)
(* 100 is the percentage; ONE is 10^18.                                    *)
(***************************************************************************)
EXTENDS FeeHistory

CONSTANTS
  monthDays,      \* days of the longer trailing window, windowDays of the shorter
  ONE,
  Blocks          \* BOUND: blocks 0..Blocks

ASSUME YieldAssumption ==
  /\ windowDays <= monthDays
  /\ {monthDays, ONE, Blocks} \subseteq Nat \ {0}
  /\ DAY % BASE_BLOCK_SECONDS = 0

Year == 365 * DAY
BLOCKS_PER_DAY == DAY \div BASE_BLOCK_SECONDS
TimeOfBlock(number) == number * BASE_BLOCK_SECONDS

\* The reward period: sDIEMv2's rewardPerToken() at a block.
RptAt(data, number) ==
  LET until == Min({TimeOfBlock(number), data.periodFinish})
  IN  IF until <= data.start \/ data.totalStaked = 0 THEN 0
      ELSE ((until - data.start) * data.rewardRate * ONE) \div data.totalStaked

\* useDiemPrice(): no price, or one of 0, is null.
PriceOf(data) == IF data.coin # NoValue /\ data.coin[1] > 0 THEN data.coin ELSE NoValue
-----------------------------------------------------------------------------
(* The current yields.                                                     *)

\* secondsUntil()
SecondsUntil(t, now) == IF t > now THEN t - now ELSE 0

UsdcPerDiemDay(data) ==
  IF data.totalStaked > 0 THEN (data.rewardRate * DAY * ONE) \div data.totalStaked ELSE 0

\* (mutant) a rate that has lapsed is still shown.
AnyRate(data) == data.rewardRate * DAY > 0 /\ data.totalStaked > 0
RewardStreamActive(data) ==
  /\ data.rewardRate * DAY > 0 /\ data.totalStaked > 0
  /\ SecondsUntil(data.periodFinish, data.now) > 0

Nothing == <<0, 1>>     \* 0%

FormatApy(perDiemDay, price) ==
  IF price = NoValue THEN NoValue ELSE <<perDiemDay * 365, price[1]>>

CurrentApy(data) ==
  IF RewardStreamActive(data) THEN FormatApy(UsdcPerDiemDay(data), PriceOf(data)) ELSE Nothing

\* The card's.
CalcSDiemApr(data) ==
  IF \/ data.now >= data.periodFinish
     \/ data.totalStaked = 0
     \/ PriceOf(data) = NoValue
  THEN NoValue
  ELSE <<data.rewardRate * Year * ONE, data.totalStaked * PriceOf(data)[1]>>
-----------------------------------------------------------------------------
(* The trailing yields.  What is read of now is read after the newest      *)
(* block was: data.later blocks after it.                                  *)

\* null also where the contract does not exist yet.
TrailingWindow(data, days) ==
  LET past == data.latest - days * BLOCKS_PER_DAY
      nowRpt == RptAt(data, data.latest + data.later)
  IN  IF past <= 0 \/ past < data.deployed THEN NoValue
      ELSE <<nowRpt - RptAt(data, past), TimeOfBlock(data.latest) - TimeOfBlock(past)>>

CalcTrailingApr(delta, windowSeconds, price) ==
  IF windowSeconds <= 0 \/ price = NoValue \/ delta < 0 THEN NoValue
  ELSE <<delta * Year, windowSeconds * price[1]>>

TrailingApy(data, days) ==
  LET window == TrailingWindow(data, days)
  IN  IF window = NoValue THEN NoValue
      ELSE CalcTrailingApr(window[1], window[2], PriceOf(data))

\* The row of the trailing yields is hidden where there is neither.
TrailingShown(data) == \E days \in {windowDays, monthDays} : TrailingApy(data, days) # NoValue
-----------------------------------------------------------------------------
\* The rate of a period that was announced at a block, of a contract deployed before it;
\* the browser's clock is the newest block's or a second ahead.
YieldInputs ==
  {data \in
     [rewardRate : {1, 3}, totalStaked : {0, 2, 5}, deployed : 0..1, start : {2, 4},
      periodFinish : {4, 6, 10}, latest : 2..Blocks, later : 0..1, now : 0..2 * Blocks + 1,
      coin : {NoValue, <<0>>, <<2>>}] :
     /\ data.start < data.periodFinish /\ data.start <= TimeOfBlock(data.latest)
     /\ data.now - TimeOfBlock(data.latest) \in 0..1}

Streaming(data, t) == data.start <= t /\ t < data.periodFinish

\* The current yield of the page and of the card: none once the period is over, and
\* else what the rate pays in a year, which the page rounds down to a unit of USDC a day.
ShowsCurrent(data) ==
  LET page == CurrentApy(data)
      card == CalcSDiemApr(data)
      perDay == page[1] \div 365
      streamed == data.rewardRate * DAY * ONE
  IN  /\ card # NoValue => /\ Streaming(data, data.now)
                           /\ card[1] * data.totalStaked * PriceOf(data)[1]
                                = 365 * streamed * card[2]
      /\ page # NoValue /\ page[1] > 0 => card # NoValue
      /\ card # NoValue => /\ page # NoValue
                           /\ perDay * data.totalStaked <= streamed
                           /\ streamed < (perDay + 1) * data.totalStaked
                           /\ page[1] * card[2] <= card[1] * page[2]

\* What all stakers of ONE times the DIEM earn between two times.
EarnedIn(data, from, to) ==
  data.rewardRate * ONE * Cardinality({t \in from..to - 1 : Streaming(data, t)})

\* The contract was there at the beginning of the window; block 0 is none of its.
OldEnough(data, days) ==
  TimeOfBlock(data.latest) - days * DAY >= Max({1, TimeOfBlock(data.deployed)})

\* A trailing yield is what a DIEM staked all through the window has earned in it, to a
\* unit of USDC, with the period over or not; a later reading adds what has come since,
\* and never takes away.  It is shown once the contract is as old as the window and a
\* price is known.
ShowsTrailing(data, days) ==
  LET apr == TrailingApy(data, days)
      window == TrailingWindow(data, days)
      end == TimeOfBlock(data.latest)
      from == end - days * DAY
  IN  /\ apr # NoValue <=> PriceOf(data) # NoValue /\ OldEnough(data, days)
      /\ apr # NoValue =>
           LET delta == apr[1] \div Year
               seconds == apr[2] \div PriceOf(data)[1]
           IN  /\ seconds = days * DAY
               /\ data.totalStaked = 0 => delta = 0
               /\ data.totalStaked > 0 =>
                 /\ delta * data.totalStaked
                    > EarnedIn(data, from, end) - data.totalStaked
                 /\ delta * data.totalStaked
                    < EarnedIn(data, from, TimeOfBlock(data.latest + data.later))
                        + data.totalStaked

ShowsYield(data) ==
  /\ ShowsCurrent(data)
  /\ \A days \in {windowDays, monthDays} : ShowsTrailing(data, days)
  /\ TrailingShown(data) <=> PriceOf(data) # NoValue /\ OldEnough(data, windowDays)
=============================================================================
