-------------------------------- MODULE Charts --------------------------------
(* What must hold of the calculations on bars: indicators, ratings, trades    *)
(* and the checks of stored data.                                            *)
EXTENDS Inputs, RelativeStrength, Trades, DataChecks

-----------------------------------------------------------------------------
(* Indicators. An input holds bars as they would be without the split, the   *)
(* first bar after a two-for-one split and the configuration.                *)

\* Two shares after the split are one before it, so that what was traded is even.
ASSUME BarsAssumption ==
  "bars" \in DOMAIN Inputs =>
    \A v \in Inputs["bars"] :
      /\ Drawn(v.bars)
      /\ v.split \in Int /\ \A i \in DOMAIN v.bars : i < v.split => v.bars[i].volume % 2 = 0
      /\ {v.config.sma[3], v.config.slope, v.config.volume} \subseteq Nat /\ v.config.highLow \in Nat \ {0}

UpTo(series, n) == [i \in 1..n |-> series[i]]

\* No indicator of a session depends on later sessions: the series of the
\* first bars are the first values of the series of all (the Wilder seeds and
\* the realignment of ADX could break it), and a pivot, once confirmed, stays.
IndicatorsIgnoreTheFuture ==
  Is("bars") =>
    LET bars == input.value.bars
        w == Spans.wilder
        Stable(SeriesOf(_), n) == SeriesOf(UpTo(bars, n)) = UpTo(SeriesOf(bars), n)
    IN  \A n \in DOMAIN bars :
          LET before == UpTo(bars, n)
          IN  /\ Stable(LAMBDA b : RsiSeries(Closes(b), w), n)
              /\ Stable(LAMBDA b : AtrSeries(b, w), n)
              /\ Stable(LAMBDA b : MacdSeries(Closes(b)).histogram, n)
              /\ AdxSeries(bars, w).adx # Raised => Stable(LAMBDA b : AdxSeries(b, w).adx, n)
              /\ SwingHighs(before, Spans.pivot) \subseteq SwingHighs(bars, Spans.pivot)
              /\ SwingLows(before, Spans.pivot) \subseteq SwingLows(bars, Spans.pivot)

\* What the exchange printed, with the divisor the bar is stored with.
Printed(v) ==
  [i \in DOMAIN v.bars |->
     LET bar == v.bars[i]
         by == IF i < v.split THEN 2 ELSE 1
     IN  [date |-> i, divisor |-> IF by = 1 THEN None ELSE by, open |-> bar.open * by,
          high |-> bar.high * by, low |-> bar.low * by, close |-> bar.close * by,
          volume |-> bar.volume \div by]]

Unsplit(v) == [i \in DOMAIN v.bars |-> Over([date |-> i, divisor |-> None], v.bars[i])]

InScale(snapshot) ==
  snapshot \notin {<<>>, Raised} =>
    /\ {snapshot.rsi, snapshot.adx, snapshot.plus, snapshot.minus, snapshot.stochastic.k,
        snapshot.stochastic.d} \subseteq {None} \cup 0..100
    /\ snapshot.stochastic.k # None => snapshot.williams = snapshot.stochastic.k - 100
    /\ snapshot.aboveLow # None => snapshot.aboveLow >= 0 /\ snapshot.belowHigh >= 0

\* A split moves no indicator of the snapshot, on any session, and the
\* oscillators keep to their scale: Williams' %R is the stochastic %K less 100.
SplitsDoNotMoveIndicators ==
  Is("bars") =>
    LET v == input.value
        Sound(snapshot, unsplit) == snapshot = unsplit /\ InScale(snapshot)
    IN  \A date \in DOMAIN v.bars :
          Sound(Snapshot(Printed(v), date, v.config), Snapshot(Unsplit(v), date, v.config))

\* The comment in _adx_series says its realignment is safe: no session raises.
AdxNeverRaises ==
  Is("bars") => \A n \in DOMAIN input.value.bars : AdxSeries(UpTo(input.value.bars, n), Spans.wilder).adx # Raised

-----------------------------------------------------------------------------
(* Ratings.                                                                  *)

ASSUME UniversesAssumption ==
  "universe" \in DOMAIN Inputs =>
    \A v \in Inputs["universe"] :
      /\ v.universe \in Seq(Seq(Nat))
      /\ IsFiniteSet(DOMAIN v.weights) /\ DOMAIN v.weights \subseteq Nat
      /\ \A p \in DOMAIN v.weights : v.weights[p] \in Nat

ASSUME HistoriesAssumption ==
  "histories" \in DOMAIN Inputs =>
    \A v \in Inputs["histories"] :
      /\ v.date \in Int /\ DOMAIN v.securities = 1..Len(v.securities) /\ Len(v.securities) \in Nat
      /\ \A j \in DOMAIN v.securities :
           /\ v.securities[j] = [history |-> v.securities[j].history, sector |-> v.securities[j].sector]
           /\ Dated(v.securities[j].history)
           /\ \A i \in DOMAIN v.securities[j].history : v.securities[j].history[i].close \in Nat

\* A security without a measurable return has no rating and moves that of no
\* other; among the rest a higher return never has a lower rating, the best
\* has 99 and the worst 1. Against a benchmark the same holds of composites,
\* rated in a batch or one by one, and no later session matters.
RatingsFollowReturns ==
  /\ Is("universe") =>
       LET v == input.value
           Sound(ratings, blended, kept, alone) ==
             /\ DOMAIN ratings \in {{}, ToSet(kept)}
             /\ \A k \in DOMAIN alone : ratings[kept[k]] = alone[k]
             /\ \A i, j \in DOMAIN ratings : blended[i] > blended[j] => ratings[i] >= ratings[j]
             /\ DOMAIN ratings # {} => {1, 99} \subseteq {ratings[i] : i \in DOMAIN ratings}
           Kept(blended) == ItemsAt([i \in DOMAIN blended |-> i], {i \in DOMAIN blended : blended[i] # None})
           Without(blended, kept) ==
             Sound(UniverseRatings(v.universe, v.weights), blended, kept,
                   UniverseRatings([k \in DOMAIN kept |-> v.universe[kept[k]]], v.weights))
           Rated(blended) == Without(blended, Kept(blended))
       IN  Rated([i \in DOMAIN v.universe |-> BlendedReturn(v.universe[i], v.weights)])
  /\ Is("histories") =>
       LET v == input.value
           Until(s) == [s EXCEPT !.history = Through(@, v.date)]
           Alone(i) == ComputeRs([j \in DOMAIN v.securities |-> Until(v.securities[j])], i, v.bench, v.date)
           Sound(batch, composite, single) ==
             /\ \A i, j \in DOMAIN batch :
                  composite[i] > composite[j] => /\ batch[i].rating >= batch[j].rating
                                                 /\ single[i].rating >= single[j].rating
             /\ \A i \in DOMAIN batch : single[i] = Alone(i)
           Of(batch) ==
             Sound(batch,
                   [i \in DOMAIN batch |-> Composite(v.securities[i], v.bench, v.date, MinBars)],
                   [i \in DOMAIN batch |-> ComputeRs(v.securities, i, v.bench, v.date)])
       IN  Of(ComputeRsBatch(v.securities, v.bench, v.date))

-----------------------------------------------------------------------------
(* Trades and forward returns.                                               *)

\* Bars that data_quality.py finds no fault with: within low and high.
Plausible(bars) ==
  /\ Dated(bars)
  /\ \A i \in DOMAIN bars : /\ {bars[i].open, bars[i].high, bars[i].low, bars[i].close} \subseteq Int
                            /\ bars[i].low <= bars[i].open /\ bars[i].open <= bars[i].high
                            /\ bars[i].low <= bars[i].close /\ bars[i].close <= bars[i].high

ASSUME SignalsAssumption ==
  "trade" \in DOMAIN Inputs =>
    \A v \in Inputs["trade"] : /\ Plausible(v.bars) /\ v.bars # <<>>
                              /\ {v.atr, v.resistance} \subseteq Int \cup {None}

\* A trade ends where the market was: on the first bar that reached either
\* level, at a price that bar traded at or a worse one, as a loss if it could
\* have been one, and never with a gain below the worst it went through.
TradesAreHonest ==
  Is("trade") =>
    LET v == input.value
        plan == SwingTargetPlan(v.bars[1].close, v.atr, v.resistance)
        signal == SimulateSignal([rank |-> 1, date |-> v.bars[1].date],
                                 [sma200 |-> 1, atr |-> v.atr, resistance |-> v.resistance], v.bars, v.ratio)
        trade == signal[1]
        later == Tail(v.bars)
        last == later[trade.days]
        Reached(i) == later[i].low <= plan.stop \/ later[i].high >= plan.target
    IN  signal # <<>> =>
          /\ plan.stop < plan.entry /\ plan.entry < plan.target
          /\ trade.outcome # "INSUFFICIENT_DATA" =>
               /\ \A i \in 1..(trade.days - 1) : ~Reached(i)
               /\ trade.price <= last.high
               /\ trade.outcome # "TARGET_HIT" => last.low <= trade.price
               /\ trade.outcome = "TARGET_HIT" => last.low > plan.stop
               /\ trade.outcome = "TIME_EXIT" => ~Reached(trade.days)
               /\ trade.worst <= Min({0, trade.gain})

\* Adjusted closes in the order of their dates, of every security picked.
Measurable(v) ==
  /\ v.run.date \in Nat /\ v.run.picks \subseteq DOMAIN v.bars
  /\ \A s \in v.run.picks :
       /\ Dated(v.bars[s])
       /\ \A i \in DOMAIN v.bars[s] : v.bars[s][i].close \in Int /\ v.bars[s][i].adj \in Int \cup {None}

ASSUME PicksAssumption == "forward" \in DOMAIN Inputs => \A v \in Inputs["forward"] : Measurable(v)

\* A backfill when the bars up to a day are known; one after every day.
BackfillOn(v, day, existing) ==
  Backfill(existing, v.run, [s \in DOMAIN v.bars |-> Through(v.bars[s], day)], v.bench)

BackfilledDaily(v, days) ==
  LET rows[n \in 0..days] == BackfillOn(v, v.run.date + n, IF n = 0 THEN <<>> ELSE rows[n - 1])
  IN  rows[days]

\* A row depends on the bars of its horizon and not on when it was computed:
\* backfills after every session leave the rows of one at the end. A gain lies
\* between the best and the worst of its horizon, and a longer horizon only
\* widens them.
ForwardRowsIgnoreWhen ==
  Is("forward") =>
    LET v == input.value
        days == Max(Horizons)
        rows == BackfilledDaily(v, days)
    IN  /\ rows = BackfillOn(v, v.run.date + days, <<>>)
        /\ \A p \in DOMAIN rows :
             /\ rows[p].worst <= rows[p].gain /\ rows[p].gain <= rows[p].best
             /\ \A q \in DOMAIN rows :
                  p[1] = q[1] /\ p[2] < q[2] => /\ rows[q].best >= rows[p].best
                                                /\ rows[q].worst <= rows[p].worst

\* A split stored after a row was computed leaves the row as it is.
ForwardRowsSurviveSplits ==
  Is("forward") =>
    LET v == input.value
        Rescaled == [s \in DOMAIN v.bars |->
                       [i \in DOMAIN v.bars[s] |-> [v.bars[s][i] EXCEPT !.adj = None]]]
    IN  Backfill(Backfill(<<>>, v.run, v.bars, v.bench), v.run, Rescaled, v.bench)
        = Backfill(<<>>, v.run, Rescaled, v.bench)

-----------------------------------------------------------------------------
(* Stored and archived data.                                                 *)

ASSUME StoredAssumption ==
  "archive" \in DOMAIN Inputs => \A v \in Inputs["archive"] : Dated(v.bars) /\ {v.start, v.end} \subseteq Int

\* An exchange's list: each symbol and each ISIN once.
Listed(list) ==
  /\ list \in Seq({list[i] : i \in DOMAIN list})
  /\ \A i, j \in DOMAIN list :
       i # j => list[i].symbol # list[j].symbol /\ (list[i].isin = None \/ list[i].isin # list[j].isin)

ASSUME ListingsAssumption ==
  "listings" \in DOMAIN Inputs => \A v \in Inputs["listings"] : Listed(v.nse) /\ Listed(v.bse)

\* The two ways to a membership agree wherever the window starts early enough;
\* a window that does not can only turn a member away for want of history.
MembershipPathsAgree ==
  Is("archive") =>
    LET v == input.value
        dated == MembershipSeries(v.bars, v.start, v.end)
    IN  \A i \in DOMAIN dated :
          \/ dated[i][2] = MembershipOn(v.bars, dated[i][1])
          \/ /\ v.start > v.bars[1].date
             /\ dated[i][2] \in {"insufficient_history", "insufficient_turnover_data"}

\* One instrument for each company and symbol, if each exchange lists each
\* once, whatever the order in which BSE lists them; nothing of BSE is lost
\* without being withheld, a collision, or known under its ISIN.
ListingsMergeOnce ==
  Is("listings") =>
    LET v == input.value
        merged == ReconcileCrossListings(v.nse, v.bse, v.admitted)
        isins == {x.isin : x \in merged.instruments}
    IN  /\ \A x, y \in merged.instruments :
             x # y => x.symbol # y.symbol /\ (x.isin = None \/ x.isin # y.isin)
        /\ merged = ReconcileCrossListings(v.nse, Reverse(v.bse), v.admitted)
        /\ \A i \in DOMAIN v.bse :
             \/ v.bse[i].isin # None /\ v.bse[i].isin \in isins
             \/ v.bse[i].symbol \in merged.withheld \cup merged.collisions
             \/ \E x \in merged.instruments : x.symbol = v.bse[i].symbol

\* What the archive and the exchanges say of the universe is consistent.
UniverseIsConsistent == MembershipPathsAgree /\ ListingsMergeOnce
===============================================================================
