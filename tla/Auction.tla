------------------------------- MODULE Auction -------------------------------
(***************************************************************************)
(* The relay's sale of dated credits: the price list and the purchases at  *)
(* its rates (src/config.ts; GET /v1/pricing and POST /v1/buy of           *)
(* src/index.ts).                                                          *)
(*                                                                         *)
(* A handler reads the clock anew for every figure it needs, so an hour,   *)
(* and with it a day, may begin between two of its readings; not two, as   *)
(* it awaits nothing in between.  A handler is therefore one action that   *)
(* may take the clock into the next hour.  Time is counted in hours of     *)
(* UTC; rates, as parts of the list price, are multiplied by               *)
(* SaleCutoffHour, which makes the interpolation whole.  What a credit     *)
(* does to the borrower's account is Relay's Buy.                          *)
(***************************************************************************)
EXTENDS Integers, Functions

CONSTANTS
  TxHashes,             \* BOUND: hashes of the payments, each sent any number of times
  HoursPerDay,
  SaleCutoffHour,       \* config.saleCutoffHourUtc
  AdvanceDiscountRate,  \* config.advanceDiscountRate
  MinDiscountRate,      \* config.dutchAuction: the rate at midnight,
  MaxDiscountRate,      \*   and the lower one at the cutoff
  MaxHours              \* BOUND: hours are 0..MaxHours

VARIABLES
  now,        \* the clock
  quote,      \* the price list as it was last fetched, or NoQuote
  credits     \* table credits: tx_hash -> what was sold for it, or NoCredit; as a
              \* history, between which readings of the clock (from, until) and
              \* what the price list had said of that day (quoted)

vars == <<now, quote, credits>>

NoQuote == [available |-> FALSE]
NoCredit == [purchaseType |-> "none"]

Init == now = 0 /\ quote = NoQuote /\ credits = [tx \in TxHashes |-> NoCredit]
-----------------------------------------------------------------------------
(* src/config.ts                                                           *)

TodayUtc(t) == t \div HoursPerDay
TomorrowUtc(t) == t \div HoursPerDay + 1
CurrentUtcHour(t) == t % HoursPerDay

\* (mutant) the sale goes on through the cutoff hour.
SaleOpenTooLong(t) == CurrentUtcHour(t) <= SaleCutoffHour
IsSameDaySaleOpen(t) == CurrentUtcHour(t) < SaleCutoffHour

AdvanceRate == AdvanceDiscountRate * SaleCutoffHour

\* (mutant) the rate goes up through the day.
RisingRate(t) ==
  MaxDiscountRate * SaleCutoffHour + (MinDiscountRate - MaxDiscountRate) * CurrentUtcHour(t)
CurrentDutchAuctionRate(t) ==
  IF CurrentUtcHour(t) >= SaleCutoffHour THEN MaxDiscountRate * SaleCutoffHour
  ELSE MinDiscountRate * SaleCutoffHour
         + (MaxDiscountRate - MinDiscountRate) * CurrentUtcHour(t)
-----------------------------------------------------------------------------
\* The readings of the clock in one handler, in their order.
Readings(n) ==
  {t \in [1..n -> now..now + 1] :
     /\ \A i \in 2..n : t[i - 1] <= t[i]
     /\ t[n] <= MaxHours}

\* GET /v1/pricing, in the order in which its answer is put together.
Pricing ==
  \E t \in Readings(4) :
    /\ now' = t[4]
    /\ quote' = [available |-> IsSameDaySaleOpen(t[1]),
                 advanceDate |-> TomorrowUtc(t[2]), advanceRate |-> AdvanceRate,
                 samedayRate |-> IF IsSameDaySaleOpen(t[1]) THEN CurrentDutchAuctionRate(t[3])
                                 ELSE 0,
                 samedayDate |-> TodayUtc(t[4])]
    /\ UNCHANGED credits

\* The price list's rate for a day's credits, if it has one.
QuotedFor(date) ==
  IF quote.available /\ quote.samedayDate = date THEN {quote.samedayRate} ELSE {}

\* addCredit(): one credit for each payment.
AddCredit(tx, credit) ==
  credits' = IF credits[tx] # NoCredit THEN credits ELSE [credits EXCEPT ![tx] = credit]

\* POST /v1/buy
BuyAdvance(tx) ==
  \E t \in Readings(1) :
    /\ now' = t[1]
    /\ AddCredit(tx, [purchaseType |-> "advance", validDate |-> TomorrowUtc(t[1]),
                      rate |-> AdvanceRate, from |-> t[1], until |-> t[1],
                      quoted |-> {}])
    /\ UNCHANGED quote

BuySameDay(tx) ==
  \E t \in Readings(3) :
    /\ IsSameDaySaleOpen(t[1])
    /\ now' = t[3]
    /\ AddCredit(tx, [purchaseType |-> "sameday", validDate |-> TodayUtc(t[3]),
                      rate |-> CurrentDutchAuctionRate(t[2]), from |-> t[1], until |-> t[3],
                      quoted |-> QuotedFor(TodayUtc(t[3]))])
    /\ UNCHANGED quote

HourPasses == now < MaxHours /\ now' = now + 1 /\ UNCHANGED <<quote, credits>>

Next ==
  \/ Pricing
  \/ \E tx \in TxHashes : BuyAdvance(tx) \/ BuySameDay(tx)
  \/ HourPasses

Spec == Init /\ [][Next]_vars
-----------------------------------------------------------------------------
SameDaySales == {sold \in Range(credits) : sold.purchaseType = "sameday"}

\* While the day's sale is open, at a rate the day's auction has then.
SoldInItsAuction(sold) ==
  LET begins == sold.validDate * HoursPerDay
  IN  /\ sold.from - begins \in 0..SaleCutoffHour - 1
      /\ \E hour \in sold.from - begins..sold.until - begins :
           sold.rate = MinDiscountRate * SaleCutoffHour
                         - (MinDiscountRate - MaxDiscountRate) * hour

\* No dearer than the price list said before.
SoldAsQuoted(sold) == \A rate \in sold.quoted : sold.rate <= rate

OffersApart == quote.available => quote.advanceDate = quote.samedayDate + 1

\* Whatever hour or midnight falls between a handler's readings of the clock: a credit
\* is sold for a day only while that day's sale is open, at a rate of that day's
\* auction, and to whoever waits for no more than the price list said; and the price
\* list never offers one day's credits both in advance and at its auction
\* (POST /v1/buy, GET /v1/pricing, currentDutchAuctionRate).
DaysSoldApart ==
  /\ \A sold \in SameDaySales : SoldInItsAuction(sold) /\ SoldAsQuoted(sold)
  /\ OffersApart
=============================================================================
