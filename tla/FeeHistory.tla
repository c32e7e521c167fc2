----------------------------- MODULE FeeHistory -----------------------------
(***************************************************************************)
(* The fees page of the web application: what it computes from the         *)
(* Distributed events of the splitters, the staking events of both sDIEMs  *)
(* and a list of prices (app/src/lib/fees.ts, app/src/app/fees/page.tsx,   *)
(* app/src/hooks/useStakeHistory.ts), and what the charts are meant to     *)
(* show.  The code walks sorted lists with cursors that never go back;     *)
(* the reference definitions look at every element for every day.          *)
(*                                                                         *)
(* Pure functions: times and amounts are integers, an APR a pair of them.  *)
(***************************************************************************)
EXTENDS Integers, SequencesExt

CONSTANTS
  DAY,              \* seconds of a day
  windowDays,
  MAX_PRICE_GAP,
  BASE_BLOCK_SECONDS,
  Instants,         \* BOUND: timestamps 0..Instants
  MaxLog            \* BOUND: distributions

ASSUME FeeAssumption ==
  /\ {DAY, windowDays, BASE_BLOCK_SECONDS} \subseteq Nat \ {0}
  /\ {MAX_PRICE_GAP, Instants, MaxLog} \subseteq Nat

NoValue == <<>>     \* null

\* sort() by timestamp: what has the same one keeps its order.
Precedes(log, i, j) ==
  \/ log[i].timestamp < log[j].timestamp
  \/ log[i].timestamp = log[j].timestamp /\ i < j

ByTime(log) ==
  LET order == CHOOSE p \in [DOMAIN log -> DOMAIN log] :
                 \A i, j \in DOMAIN log : i < j => Precedes(log, p[i], p[j])
  IN  [k \in DOMAIN log |-> log[order[k]]]

DayOf(t) == (t \div DAY) * DAY

\* The cursor moves on from an element to the first at limit or later, or to end.
Advance(log, from, end, limit) ==
  CHOOSE i \in from..end :
    /\ i = end \/ log[i].timestamp >= limit
    /\ \A j \in from..i - 1 : log[j].timestamp < limit

SumOver(S, value(_)) == SumFunctionOnSet([i \in S |-> value(i)], S)
-----------------------------------------------------------------------------
(* useFeeHistory() and rollingFees().                                      *)

\* The events of one splitter after the other, in the order of their blocks.
DistributionsOf(data) == FlattenSeq(data.batches)

\* (mutant) the window's oldest day stays a day too long.
LateLeave(end) == end - (windowDays + 1) * DAY
WindowStart(end) == end - windowDays * DAY

\* One turn of the loop: what comes in, then what leaves.
NextPoint(sorted, at, day) ==
  LET end == day + DAY
      hi == Advance(sorted, at.hi, Len(sorted) + 1, end)
      lo == Advance(sorted, at.lo, hi, WindowStart(end))
      moved(part(_)) == SumOver(at.hi..hi - 1, LAMBDA i : part(sorted[i]))
                          - SumOver(at.lo..lo - 1, LAMBDA i : part(sorted[i]))
  IN  [lo |-> lo, hi |-> hi, day |-> day,
       staker |-> at.staker + moved(LAMBDA d : d.staker),
       platform |-> at.platform + moved(LAMBDA d : d.platform)]

RollingFees(distributions, now) ==
  LET sorted == ByTime(distributions)
      first == DayOf(sorted[1].timestamp)
      before == [lo |-> 1, hi |-> 1, day |-> first - DAY, staker |-> 0, platform |-> 0]
      days == (DayOf(now) - first) \div DAY + 1
      point[k \in 0..days] ==
        IF k = 0 THEN before ELSE NextPoint(sorted, point[k - 1], first + (k - 1) * DAY)
  IN  IF distributions = <<>> THEN <<>> ELSE [k \in 1..days |-> point[k]]
-----------------------------------------------------------------------------
(* stakedAtClose(), pricesAtClose() and rollingApr().                      *)

\* useStakeHistory: requests and burns take away, the others add.  A log's time
\* is reckoned back from the newest block, at 2 seconds a block.
Leaving == {"requested", "burned"}

Changes(logs, latest) ==
  [i \in DOMAIN logs |->
     [timestamp |-> latest.timestamp - (latest.number - logs[i].block) * BASE_BLOCK_SECONDS,
      delta |-> IF logs[i].kind \in Leaving THEN -logs[i].amount ELSE logs[i].amount]]

NextClose(sorted, at, day) ==
  LET i == Advance(sorted, at.i, Len(sorted) + 1, day + DAY)
  IN  [i |-> i, staked |-> at.staked + SumOver(at.i..i - 1, LAMBDA j : sorted[j].delta)]

StakedAtClose(changes, days) ==
  LET sorted == ByTime(changes)
      out[k \in 0..Len(days)] ==
        IF k = 0 THEN [i |-> 1, staked |-> 0] ELSE NextClose(sorted, out[k - 1], days[k])
  IN  [k \in DOMAIN days |-> out[k].staked]

Distance(t, u) == IF t < u THEN u - t ELSE t - u

\* (mutant) the last price before the close.
NotAfter(prices, j, close) == prices[j + 1].timestamp <= close
Nearer(prices, j, close) ==
  Distance(prices[j + 1].timestamp, close) <= Distance(prices[j].timestamp, close)

\* The cursor moves on while the next price is no further from the close.
Nearest(prices, from, close) ==
  CHOOSE j \in from..Len(prices) :
    /\ j = Len(prices) \/ ~Nearer(prices, j, close)
    /\ \A i \in from..j - 1 : Nearer(prices, i, close)

Close(day, now) == IF day + DAY < now THEN day + DAY ELSE now

PricesAtClose(prices, days, now) ==
  LET near[k \in 0..Len(days)] ==
        IF k = 0 THEN 1 ELSE Nearest(prices, near[k - 1], Close(days[k], now))
      gap(k) == Distance(prices[near[k]].timestamp, Close(days[k], now))
  IN  [k \in DOMAIN days |->
         IF prices # <<>> /\ gap(k) <= MAX_PRICE_GAP THEN <<prices[near[k]].price>>
         ELSE NoValue]

\* 365 * 100 times the quotient is the APR in percent.
RollingApr(points, staked, prices) ==
  [i \in DOMAIN points |->
     LET window == {k \in DOMAIN points : k > i - windowDays /\ k <= i}
         valueSum == SumOver(window, LAMBDA k : staked[k] * prices[k][1])
     IN  IF (\E k \in window : prices[k] = NoValue) \/ valueSum <= 0 THEN NoValue
         ELSE <<points[i].staker * Cardinality(window), windowDays * valueSum>>]

\* useAprSeries, from the points of the fees.
AprSeries(data, points) ==
  LET days == [i \in DOMAIN points |-> points[i].day]
      latest == [timestamp |-> data.now, number |-> data.now \div BASE_BLOCK_SECONDS]
      staked == StakedAtClose(Changes(data.logs, latest), days)
      prices == PricesAtClose(data.prices, days, data.now)
  IN  [apr |-> RollingApr(points, staked, prices), staked |-> staked, prices |-> prices]
-----------------------------------------------------------------------------
(* FeesPage(): the figures beside the chart, and the table.                *)

Total(point) == point.staker + point.platform

\* The first of the largest.
Peak(points) ==
  CHOOSE i \in DOMAIN points : \A j \in DOMAIN points :
    Total(points[j]) <= Total(points[i]) /\ (j < i => Total(points[j]) < Total(points[i]))

FeeStats(data) ==
  LET all == DistributionsOf(data)
      points == RollingFees(all, data.now)
  IN  [points |-> points, current |-> Last(points), peak |-> points[Peak(points)],
       allTime |-> SumOver(DOMAIN all, LAMBDA i : Total(all[i])),
       allTimeStaker |-> SumOver(DOMAIN all, LAMBDA i : all[i].staker), count |-> Len(all)]

\* The chart of the fees.
UsdPoints(stats) ==
  [i \in DOMAIN stats.points |->
     [day |-> stats.points[i].day, value |-> Total(stats.points[i]),
      stakers |-> stats.points[i].staker, platform |-> stats.points[i].platform]]

\* "All-time fees", "Paid to stakers", "Peak 7d" and "Distributions".
Totals(stats) ==
  [allTime |-> stats.allTime, stakers |-> stats.allTimeStaker, peak |-> Total(stats.peak),
   distributions |-> stats.count]

\* The chart of the APR, with what is told of each point.
AprPoints(points, series) ==
  [i \in DOMAIN points |->
     [day |-> points[i].day, value |-> series.apr[i], stakers |-> points[i].staker,
      staked |-> series.staked[i], price |-> series.prices[i]]]

CurrentApr(series) == Last(series.apr)

\* Every windowDays-th point, counted back from today.
WeeklyRows(points) ==
  [r \in 1..(Len(points) + windowDays - 1) \div windowDays |->
     Len(points) - (r - 1) * windowDays]

\* The rows of the table, newest first; the APR once its series has come.
Table(points, apr) ==
  LET rows == WeeklyRows(points)
  IN  [r \in DOMAIN rows |->
         [day |-> points[rows[r]].day, total |-> Total(points[rows[r]]),
          staker |-> points[rows[r]].staker, platform |-> points[rows[r]].platform,
          apr |-> IF apr = NoValue THEN NoValue ELSE apr[rows[r]]]]
-----------------------------------------------------------------------------
(* Inputs, and what the page is meant to show for them.                    *)

\* The parts differ in how they go up and down.
Parts == {[staker |-> 2, platform |-> 2], [staker |-> 3, platform |-> 0]}
Distributions ==
  {[timestamp |-> t, staker |-> p.staker, platform |-> p.platform] : t \in 0..Instants, p \in Parts}
StakeLogs == [kind : {"staked", "requested"}, block : 0..Instants \div BASE_BLOCK_SECONDS,
              amount : {1}]
Logs(S, n) == UNION {[1..m -> S] : m \in 0..n}

\* Prices come in the order of their times, no two of one time.
PriceLists ==
  {[i \in DOMAIN times |-> [timestamp |-> times[i], price |-> times[i] + 1]] :
     times \in {l \in Logs(0..Instants, 2) : \A i, j \in DOMAIN l : i < j => l[i] < l[j]}}

\* Two splitters: the first was replaced by the second, or was still called.
InOrder(log) == \A i \in 2..Len(log) : log[i - 1].timestamp <= log[i].timestamp
Batches ==
  {<<a, b>> : a \in {l \in Logs(Distributions, MaxLog) : InOrder(l)}, b \in Logs(Distributions, 1)}

\* The first is for the chart in USD, the second for the one of the APR.
FeeInputs ==
  [batches : Batches, logs : {<<>>}, prices : {<<>>}, now : 0..Instants]
  \cup
  [batches : {<<l>> : l \in Logs({d \in Distributions : d.platform = 0}, 1)},
   logs : Logs(StakeLogs, 2), prices : PriceLists, now : {Instants}]

FirstDay(data) == Min({DayOf(d.timestamp) : d \in Range(DistributionsOf(data))})
DayNumber(data, k) == FirstDay(data) + (k - 1) * DAY

FeesOf(data, day, part(_)) ==
  LET all == DistributionsOf(data)
  IN  SumOver({i \in DOMAIN all : /\ all[i].timestamp >= day - (windowDays - 1) * DAY
                                 /\ all[i].timestamp < day + DAY},
              LAMBDA i : part(all[i]))

StakerFees(data, day) == FeesOf(data, day, LAMBDA d : d.staker)

\* From the day of the first distribution to today there is one point a day,
\* and it shows what was distributed on that day and the windowDays - 1 before
\* it: no distribution is lost, counted twice or kept too long, whatever their
\* order, and however many fall on one day or on midnight (rollingFees).
ShowsFees(data) ==
  DistributionsOf(data) # <<>> =>
    LET points == RollingFees(DistributionsOf(data), data.now)
    IN  /\ Len(points) = Max({0, (DayOf(data.now) - FirstDay(data)) \div DAY + 1})
        /\ \A k \in DOMAIN points :
             /\ points[k].day = DayNumber(data, k)
             /\ points[k].staker = StakerFees(data, points[k].day)
             /\ Total(points[k]) = FeesOf(data, points[k].day, LAMBDA d : d.staker + d.platform)

\* The browser's clock is not a day behind the chain.
ClockRight(data) == \A d \in Range(DistributionsOf(data)) : DayOf(d.timestamp) <= data.now

\* The page adds up: the rows of the table, a window apart, are all that was ever
\* distributed, part by part, and the first is the current figure; and no point of the
\* chart exceeds the peak (FeesPage).
AddsUp(data) ==
  DistributionsOf(data) # <<>> /\ ClockRight(data) =>
    LET stats == FeeStats(data)
        totals == Totals(stats)
        chart == UsdPoints(stats)
        table == Table(stats.points, NoValue)
        column(of(_)) == SumOver(DOMAIN table, LAMBDA r : of(table[r]))
    IN  /\ totals.allTime = column(LAMBDA row : row.total)
        /\ totals.stakers = column(LAMBDA row : row.staker)
        /\ totals.allTime = totals.stakers + column(LAMBDA row : row.platform)
        /\ table[1].total = Total(stats.current)
        /\ \A i \in DOMAIN chart : chart[i].value <= totals.peak
        /\ totals.peak <= totals.allTime

Gap(data, day, i) == Distance(data.prices[i].timestamp, Close(day, data.now))

\* The later of two that are equally near.
NearestPrices(data, day) ==
  {i \in DOMAIN data.prices : \A j \in DOMAIN data.prices : Gap(data, day, i) <= Gap(data, day, j)}

PriceKnown(data, day) == \E i \in NearestPrices(data, day) : Gap(data, day, i) <= MAX_PRICE_GAP

TimeOf(data, log) == log.block * BASE_BLOCK_SECONDS + (data.now % BASE_BLOCK_SECONDS)

StakedAt(data, day) ==
  SumOver({i \in DOMAIN data.logs : TimeOf(data, data.logs[i]) < day + DAY},
          LAMBDA i : IF data.logs[i].kind \in {"requested", "burned"}
                     THEN -data.logs[i].amount ELSE data.logs[i].amount)

PriceAt(data, day) == data.prices[Max(NearestPrices(data, day))].price

AprOfDay(data, value, today, days) ==
  IF (\E day \in days : ~PriceKnown(data, day)) \/ value <= 0 THEN NoValue
  ELSE <<StakerFees(data, today) * Cardinality(days), windowDays * value>>

PointOfDay(data, today, days) ==
  [day |-> today, stakers |-> StakerFees(data, today), staked |-> StakedAt(data, today),
   price |-> IF PriceKnown(data, today) THEN <<PriceAt(data, today)>> ELSE NoValue,
   value |-> AprOfDay(data, SumOver(days, LAMBDA day : StakedAt(data, day) * PriceAt(data, day)),
                      today, days)]

AprAgrees(data, chart, table, current) ==
  /\ \A k \in DOMAIN chart :
       chart[k] = PointOfDay(data, DayNumber(data, k),
                             {DayNumber(data, i) : i \in {j \in 1..k : j > k - windowDays}})
  /\ \A r \in DOMAIN table :
       \E k \in DOMAIN chart : chart[k].day = table[r].day /\ chart[k].value = table[r].apr
  /\ chart # <<>> => current = Last(chart).value

\* The APR of a day divides what the stakers got in its window by the average
\* value staked at the closes of the window's days; it is left open when for one
\* of these days no price is near enough.  Three lists walked by their own
\* cursors stay aligned (stakedAtClose, pricesAtClose, rollingApr), on the chart, in
\* the table and in the current figure.
ShowsApr(data) ==
  LET points == RollingFees(DistributionsOf(data), data.now)
      agrees(series) == AprAgrees(data, AprPoints(points, series), Table(points, series.apr),
                                  CurrentApr(series))
  IN  agrees(AprSeries(data, points))
=============================================================================
