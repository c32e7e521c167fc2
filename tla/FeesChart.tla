----------------------------- MODULE FeesChart -----------------------------
(***************************************************************************)
(* app/src/components/FeesChart.tsx: how the fees page draws its points,   *)
(* and which of them the pointer picks.                                    *)
(*                                                                         *)
(* Pure functions over the points' days and values, a value being NoValue  *)
(* where the chart has a gap.  The axis is reckoned in hundredths, so that *)
(* a step of 2.5 is a whole number; points are numbered from 1, pixels     *)
(* from the left edge of the plot, and a month has MonthLength days.       *)
(***************************************************************************)
EXTENDS FeeHistory

CONSTANTS
  InnerWidth,     \* pixels of the plot
  LabelRoom,      \* pixels a month's label takes
  MonthLength

ASSUME ChartAssumption ==
  {InnerWidth, LabelRoom, MonthLength} \subseteq Nat \ {0}

Hundredths(value) == 100 * value
-----------------------------------------------------------------------------
(* niceTicks(), with four bands in mind.                                   *)

Count == 4

Magnitude(raw) ==
  CHOOSE m \in {10 ^ n : n \in 0..8} : m <= raw /\ raw < 10 * m     \* BOUND: 8

Step(max) ==
  LET raw == max \div Count
      mag == Magnitude(raw)
  IN  Min({s \in {mag, 2 * mag, (5 * mag) \div 2, 5 * mag, 10 * mag} : s >= raw})

NiceTicks(max) ==
  IF max <= 0 THEN <<0, 100>>
  ELSE LET step == Step(max)
           within == {k \in 0..max \div step + 1 : 1000 * k * step <= 1000 * max + step}
           ticks == [k \in 1..Cardinality(within) |-> (k - 1) * step]
       IN  IF Last(ticks) < max THEN Append(ticks, Last(ticks) + step) ELSE ticks

\* The highest value, a gap counting as 0.
Highest(values) ==
  Max({0} \cup {Hundredths(values[i][1]) : i \in {j \in DOMAIN values : values[j] # NoValue}})
-----------------------------------------------------------------------------
(* geometry, handleMove() and what is active.                              *)

Span(points) == Max({Len(points) - 1, 1})

\* x(i), multiplied by the span.
X(i) == (i - 1) * InnerWidth

Indices(values) == [i \in DOMAIN values |-> i]

\* (mutant) a line is drawn on through what is not known.
DrawThrough(values, runs, i) ==
  IF values[i] = NoValue THEN runs
  ELSE IF runs # <<>> THEN Append(Front(runs), Append(Last(runs), i))
  ELSE <<<<i>>>>

\* A known point joins the last run if it comes right after, or opens another.
Draw(values, runs, i) ==
  IF values[i] = NoValue THEN runs
  ELSE IF runs # <<>> /\ Last(Last(runs)) = i - 1
  THEN Append(Front(runs), Append(Last(runs), i))
  ELSE Append(runs, <<i>>)

Runs(values) == FoldLeft(LAMBDA runs, i : Draw(values, runs, i), <<>>, Indices(values))

FirstOfMonth(day) == (day \div DAY) % MonthLength = 0

\* months: the 1st of each, or the first day shown.
Months(days) ==
  SelectSeq(Indices(days), LAMBDA i : i = 1 \/ FirstOfMonth(days[i]))

\* monthTicks: the opening label gives way to the next.
MonthTicks(days) ==
  LET months == Months(days)
      collide == Len(months) > 1 /\ X(months[2]) - X(months[1]) < LabelRoom * Span(days)
  IN  IF collide THEN Tail(months) ELSE months

\* The index that Math.round() gives, kept within the points.
HandleMove(pixel, points) ==
  LET i == (2 * pixel * (Len(points) - 1) + InnerWidth) \div (2 * InnerWidth)
  IN  Max({Min({i, Len(points) - 1}), 0}) + 1
-----------------------------------------------------------------------------
(* What the chart is meant to show.                                        *)

\* The axis covers every value with three or four equal bands, the highest of them not
\* empty, or with one where there is nothing to show.
AxisFits(values) ==
  LET max == Highest(values)
      ticks == NiceTicks(max)
      bands == Len(ticks) - 1
  IN  /\ ticks[1] = 0
      /\ \A k \in 1..bands : ticks[k + 1] - ticks[k] = ticks[2]
      /\ max <= Last(ticks)
      /\ max > 0 => bands \in 3..4 /\ ticks[bands] < max

\* Every known value is on one line, with all those next to it and none beyond a gap.
LinesBreakAtGaps(values) ==
  LET runs == Runs(values)
      together(i, j) == \E r \in DOMAIN runs : {i, j} \subseteq Range(runs[r])
  IN  /\ FlattenSeq(runs) = SelectSeq(Indices(values), LAMBDA i : values[i] # NoValue)
      /\ \A i, j \in DOMAIN values :
           i <= j => (together(i, j) <=> \A k \in i..j : values[k] # NoValue)

\* Every 1st of a month has its label, and none runs into the opening one's.
MonthsLabelled(days) ==
  LET labels == Range(MonthTicks(days))
  IN  /\ {i \in DOMAIN days : FirstOfMonth(days[i])} \ {1} \subseteq labels
      /\ labels \subseteq {1} \cup {i \in DOMAIN days : FirstOfMonth(days[i])}
      /\ 1 \in labels => \A i \in labels \ {1} : X(i) - X(1) >= LabelRoom * Span(days)

\* The pointer picks the point it is nearest to, within the plot or beyond.
PointerPicksNearest(points) ==
  \A pixel \in -1..InnerWidth + 1 :
    LET away(i) == Distance(X(i), pixel * Span(points))
        picked == HandleMove(pixel, points)
    IN  \A i \in DOMAIN points : away(picked) <= away(i)

Values(points) == FoldLeft(LAMBDA values, p : Append(values, p.value), <<>>, points)
Days(points) == FoldLeft(LAMBDA days, p : Append(days, p.day), <<>>, points)

\* Both charts draw what they are given: no known value is left out, no unknown one
\* is drawn through or picked for another, and no value leaves the axis (FeesChart).
\* Their days are the same.
DrawsCharts(data) ==
  DistributionsOf(data) # <<>> /\ ClockRight(data) =>
    LET stats == FeeStats(data)
        usd == UsdPoints(stats)
        known == Values([i \in DOMAIN usd |-> [value |-> <<usd[i].value>>]])
        apr == AprPoints(stats.points, AprSeries(data, stats.points))
        days == Days(usd)
    IN  /\ AxisFits(known)
        /\ LinesBreakAtGaps(known) /\ LinesBreakAtGaps(Values(apr))
        /\ MonthsLabelled(days) /\ PointerPicksNearest(days)
=============================================================================
