--------------------------- MODULE RelativeStrength ---------------------------
(* Ratings of securities against one another: the percentile that screenings  *)
(* use (application/services/rs_ratings.py) and the pipeline against a        *)
(* benchmark (infrastructure/pipelines/relative_strength_pipeline.py).        *)
(* Returns are percentages, rounded down. A history is a series of printed    *)
(* closes with their dates; the pipeline asks for the newest FetchLimit.      *)
EXTENDS Indicators

CONSTANTS
  Month, Quarter,   \* 22 and 63 sessions; a year is four quarters
  MinBars,          \* 282, what is asked of the security that is rated
  SlopeBars,        \* 50
  FetchLimit,       \* 300
  MonthDays         \* 30 calendar days

Year == 4 * Quarter

ASSUME RatingsAssumption ==
  /\ Quarter \in Nat \ {0} /\ {FetchLimit, MonthDays, MinBars} \subseteq Nat
  /\ Year <= MinBars

-----------------------------------------------------------------------------
(* Ratings of a universe.                                                    *)

\* A shorter history is measured over what it has.
BlendedReturn(closes, weights) ==
  LET n == Len(closes)
      Back(p) == Min({p, n - 1})
      usable == {p \in DOMAIN weights : n > 1 /\ closes[n - Back(p)] > 0}
      total == SumFunctionOnSet(weights, usable)
      Weighed(p) == weights[p] * Percent(closes[n] - closes[n - Back(p)], closes[n - Back(p)])
  IN  IF total <= 0 THEN None ELSE SumFunction([p \in usable |-> Weighed(p)]) \div total

\* Slip: what has no return is rated as one that did not move.
UniverseRatingsOfAll(universe, weights) ==
  LET blended == [i \in DOMAIN universe |->
                    IF BlendedReturn(universe[i], weights) = None THEN 0
                    ELSE BlendedReturn(universe[i], weights)]
      n == Len(universe)
      Before(i) == {j \in DOMAIN universe : \/ blended[j] < blended[i]
                                            \/ blended[j] = blended[i] /\ j < i}
  IN  IF n < 2 THEN <<>>
      ELSE [i \in DOMAIN universe |-> RoundHalfEven(98 * Cardinality(Before(i)), n - 1) + 1]

\* Sorted by return, a security's rating is its place, from 1 to 99; two
\* securities at least are needed for a place.
UniverseRatings(universe, weights) ==
  LET blended == [i \in DOMAIN universe |-> BlendedReturn(universe[i], weights)]
      rated == {i \in DOMAIN universe : blended[i] # None}
      n == Cardinality(rated)
      Before(i) == {j \in rated : \/ blended[j] < blended[i]
                                  \/ blended[j] = blended[i] /\ j < i}
  IN  IF n < 2 THEN <<>>
      ELSE [i \in rated |-> RoundHalfEven(98 * Cardinality(Before(i)), n - 1) + 1]

-----------------------------------------------------------------------------
(* Against a benchmark.                                                      *)

BarsUpTo(history, date) ==
  LET upTo == Through(history, date)
  IN  SubSeq(upTo, Max({1, Len(upTo) - FetchLimit + 1}), Len(upTo))

\* The closes on the dates both have, if they make a year.
Aligned(history, bench, date) ==
  LET mine == BarsUpTo(history, date)
      theirs == BarsUpTo(bench, date)
      Dates(bars) == {bars[i].date : i \in DOMAIN bars}
      On(bars, dates) == Closes(ItemsAt(bars, {i \in DOMAIN bars : bars[i].date \in dates}))
      stock == On(mine, Dates(theirs))
  IN  IF Len(stock) < Year THEN [stock |-> <<>>, bench |-> <<>>]
      ELSE [stock |-> stock, bench |-> On(theirs, Dates(mine))]

TotalReturn(prices, days) ==
  IF Len(prices) < days + 1 \/ prices[Len(prices) - days] = 0 THEN None
  ELSE Percent(LastOf(prices) - prices[Len(prices) - days], prices[Len(prices) - days])

\* The newest of four quarters counts twice; no return with a bar too few.
IbdComposite(prices) ==
  LET n == Len(prices)
      At(back) == prices[n - back * Quarter]
      Q(from) == IF At(from) = 0 THEN 0 ELSE Percent(At(from - 1) - At(from), At(from))
  IN  IF n < Year + 1 THEN 0 ELSE (2 * Q(1) + Q(2) + Q(3) + Q(4)) \div 5

PercentileRank(value, universe) ==
  IF universe = <<>> THEN 50
  ELSE LET below == Cardinality({i \in DOMAIN universe : universe[i] <= value})
       IN  Max({1, Min({99, RoundHalfEven(98 * below + Len(universe), Len(universe))})})

\* The stock over the benchmark, as a percentage of where it started.
RsLine(stock, bench) ==
  [i \in DOMAIN stock |-> (100 * stock[i] * bench[1]) \div (bench[i] * stock[1])]

\* The slope of the least-squares line, as a fraction.
LineSlope(line, window) ==
  IF Len(line) < window THEN None
  ELSE LET y == Tail0(line, window)
       IN  <<Total([i \in DOMAIN y |-> (2 * i - window - 1) * y[i]]),
             Total([i \in DOMAIN y |-> (2 * i - window - 1) * i])>>

\* None with fewer bars than the least asked for, or no year in common.
Composite(security, bench, date, least) ==
  LET Of(prices) == IF prices = <<>> THEN None ELSE IbdComposite(prices)
  IN  IF Len(BarsUpTo(security.history, date)) < least THEN None
      ELSE Of(Aligned(security.history, bench, date).stock)

\* The composites of the securities js that have one.
Peers(securities, js, bench, date) ==
  Defined([j \in DOMAIN securities |->
           IF j \in js THEN Composite(securities[j], bench, date, Year) ELSE None])

\* Sector percentiles also need the extra bar of a whole year.
SectorPercentile(securities, i, bench, date) ==
  LET Whole(j) == Len(Aligned(securities[j].history, bench, date).stock) > Year
      sector == securities[i].sector
      Among(peers) ==
        IF peers = <<>> THEN None
        ELSE PercentileRank(Composite(securities[i], bench, date, MinBars), peers)
  IN  IF sector = None \/ ~Whole(i) THEN None
      ELSE Among(Peers(securities,
                       {j \in DOMAIN securities \ {i} : securities[j].sector = sector /\ Whole(j)},
                       bench, date))

\* Ratings a month and three months ago are rated the same way, on and on
\* until there is no history.
RatingOn(securities, i, bench, date) ==
  LET Of(composite) ==
        IF composite = None THEN None
        ELSE PercentileRank(composite, Peers(securities, DOMAIN securities \ {i}, bench, date))
  IN  IF Len(BarsUpTo(bench, date)) = 0 THEN None
      ELSE Of(Composite(securities[i], bench, date, MinBars))

TrendOf(now, month, quarter) ==
  IF None \in {month, quarter} THEN None
  ELSE IF now > month /\ month > quarter THEN "improving"
  ELSE IF now < month /\ month < quarter THEN "declining" ELSE "stable"

ComputeRs(securities, i, bench, date) ==
  LET Ago(months) == RatingOn(securities, i, bench, date - months * MonthDays)
      Slopes(line) == <<LineSlope(line, Month), LineSlope(line, SlopeBars), LineSlope(line, Quarter)>>
      Report(both, stock, rating) ==
        IF rating = None THEN <<>>
        ELSE [rating |-> rating,
              slopes |-> Slopes(RsLine(stock, both.bench)),
              raw |-> <<TotalReturn(stock, Month), TotalReturn(stock, Quarter),
                        TotalReturn(stock, 2 * Quarter), TotalReturn(stock, Year)>>,
              sector |-> SectorPercentile(securities, i, bench, date),
              trend |-> TrendOf(rating, Ago(1), Ago(3))]
      With(both) == Report(both, both.stock, Ago(0))
  IN  With(Aligned(securities[i].history, bench, date))

\* All at once: each is rated among all, itself included; a raw return that
\* is missing is a return of nothing; the benchmark needs the bars too.
ComputeRsBatch(securities, bench, date) ==
  LET OrZero(r) == IF r = None THEN 0 ELSE r
      Row(rating, both) ==
        [rating |-> rating,
         slope |-> LineSlope(RsLine(both.stock, both.bench), SlopeBars),
         raw |-> <<OrZero(TotalReturn(both.stock, Month)), OrZero(TotalReturn(both.stock, Year))>>]
      Rows(composite) ==
        LET all == Defined(composite)
        IN  [i \in {j \in DOMAIN composite : composite[j] # None} |->
               Row(PercentileRank(composite[i], all), Aligned(securities[i].history, bench, date))]
  IN  IF Len(BarsUpTo(bench, date)) < MinBars THEN <<>>
      ELSE Rows([i \in DOMAIN securities |-> Composite(securities[i], bench, date, MinBars)])
=============================================================================
