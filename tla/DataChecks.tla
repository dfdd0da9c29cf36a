------------------------------ MODULE DataChecks ------------------------------
(* The checks on stored and archived data under domain/research: the          *)
(* liquidity floor of the historical universe, the quality of a series, how   *)
(* two providers' bars agree, which instruments two exchanges share, and      *)
(* which security a symbol of the past meant. Rates are compared by           *)
(* multiplying out.                                                           *)
EXTENDS Values

CONSTANTS
  MinPriorSessions, TurnoverWindow,   \* 252 and 50
  MinClose, MinAvgTurnover,           \* 20 rupees and one crore
  StaleDays,                          \* 30
  SurvivalGap, EventGap,              \* 60 and 5 sessions
  ExampleCap                          \* 20

ASSUME SessionsAssumption == MinPriorSessions \in Nat

ASSUME TurnoverAssumption == TurnoverWindow \in Nat

\* Against 0 where there is nothing to compare with.
AtLeast(part, whole, permille) == IF whole <= 0 THEN 0 >= permille ELSE 1000 * part >= permille * whole

-----------------------------------------------------------------------------
(* Liquidity floor.                                                          *)

AvgTurnover(turnovers) ==
  IF Len(turnovers) < TurnoverWindow THEN None
  ELSE LET recent == Tail0(turnovers, TurnoverWindow)
       IN  IF None \in ToSet(recent) THEN None ELSE Mean(recent)

\* The first reason that applies.
LiquidityReason(close, series, priorSessions, turnovers) ==
  LET avg == AvgTurnover(turnovers)
  IN  IF series # "EQ" THEN "series_not_eq"
      ELSE IF priorSessions < MinPriorSessions THEN "insufficient_history"
      ELSE IF avg = None THEN "insufficient_turnover_data"
      ELSE IF close < MinClose THEN "close_below_floor"
      ELSE IF avg < MinAvgTurnover THEN "below_liquidity_floor"
      ELSE "eligible"

\* Two ways to the same membership. Of one date, over all the bars stored:
MembershipOn(bars, date) ==
  LET upTo == Through(bars, date)
      n == Len(upTo)
      trailing == SubSeq(upTo, Max({1, n - TurnoverWindow + 1}), n)
  IN  LiquidityReason(LastOf(upTo).close, "EQ", n - 1, [i \in DOMAIN trailing |-> trailing[i].turnover])

\* Slip: the session itself counts as one before it.
MembershipSeriesEarly(bars, start, end) ==
  LET series == Through(Since(bars, start - 1), end)
      Trailing(i) == SubSeq(series, Max({1, i - TurnoverWindow + 1}), i)
  IN  [i \in DOMAIN series |->
         <<series[i].date,
           LiquidityReason(series[i].close, "EQ", i,
                           [k \in DOMAIN Trailing(i) |-> Trailing(i)[k].turnover])>>]

\* and of every date of a window, over the bars in the window.
MembershipSeries(bars, start, end) ==
  LET series == Through(Since(bars, start - 1), end)
      Trailing(i) == SubSeq(series, Max({1, i - TurnoverWindow + 1}), i)
  IN  [i \in DOMAIN series |->
         <<series[i].date,
           LiquidityReason(series[i].close, "EQ", i - 1,
                           [k \in DOMAIN Trailing(i) |-> Trailing(i)[k].turnover])>>]

CalibrateDate(production, reconstructed) ==
  LET both == Cardinality(production \cap reconstructed)
      p == Cardinality(production)
      r == Cardinality(reconstructed)
  IN  [recall |-> p > 0 /\ AtLeast(both, p, 900),
       ratio |-> p > 0 /\ 100 * r \in (85 * p)..(115 * p),
       precision |-> IF r = 0 THEN None ELSE <<both, r>>,
       miss |-> IF p = 0 THEN "incomputable"
                ELSE IF 100 * r > 115 * p THEN "over_inclusive"
                ELSE IF 100 * r < 85 * p THEN "under_inclusive" ELSE "within_tolerance"]

-----------------------------------------------------------------------------
(* Quality of a series. Day 1 is a Monday; exchange holidays are weekdays.   *)

Weekday(date) == date % 7 \in 1..5

IsStaleAsOf(date, latest) == latest = None \/ (latest # None /\ date - latest > StaleDays)

Gaps(dates, start, end) == {d \in start..end : Weekday(d)} \ ToSet(dates)

Duplicates(dates) == {i \in DOMAIN dates : \E j \in 1..(i - 1) : dates[j] = dates[i]}

PriceAnomalies(bars) ==
  Cardinality({i \in DOMAIN bars : \/ bars[i].high < bars[i].low
                                   \/ bars[i].close \notin bars[i].low..bars[i].high})
  + Cardinality({i \in 2..Len(bars) :
       /\ bars[i - 1].close > 0
       /\ 100 * Abs(bars[i].close - bars[i - 1].close) > 50 * bars[i - 1].close})

VolumeAnomalies(bars) == Cardinality({i \in DOMAIN bars : bars[i].volume <= 0})

\* In halves of a point, rounded down: a share of a hundred, less half a point
\* a gap, five a duplicate, one an anomaly, each up to a cap.
ConfidenceScore(bars, start, end) ==
  LET dates == [i \in DOMAIN bars |-> bars[i].date]
      expected == Cardinality({d \in start..end : Weekday(d)})
      coverage == IF expected = 0 THEN 0 ELSE Min({(200 * Len(bars)) \div expected, 200})
      penalty == Min({60, Cardinality(Gaps(dates, start, end))})
                 + Min({30, 10 * Cardinality(Duplicates(dates))})
                 + Min({50, 2 * (PriceAnomalies(bars) + VolumeAnomalies(bars))})
  IN  Max({0, coverage - penalty})

ConfidenceLevel(score) == IF score >= 160 THEN "high" ELSE IF score >= 100 THEN "medium" ELSE "low"

ClassifySurvivorship(last, sessionsAfter) ==
  [delisted |-> sessionsAfter >= SurvivalGap,
   delisting |-> IF sessionsAfter >= SurvivalGap THEN last ELSE None]

\* The last of the sessions missed is no loss if it is today's.
AssessFreshness(latest, date, sessionsSince) ==
  LET missed == Len(sessionsSince)
      trailing == IF missed > 0 /\ LastOf(sessionsSince) = date THEN missed - 1 ELSE missed
  IN  CASE latest = None -> <<"STALE", 0>>
        [] latest # None /\ missed = 0 -> <<"FRESH", 0>>
        [] latest # None /\ missed > 0 /\ trailing = 0 -> <<"MARKET_CLOSED", 0>>
        [] latest # None /\ trailing > 0 -> <<"STALE", trailing>>

-----------------------------------------------------------------------------
(* Agreement of two providers: symbol -> bar, a date after another. Prices    *)
(* are in paise, of which one may differ.                                    *)

PairAgrees(legacy, current) ==
  LET Close(p, q) == Abs(p - q) <= 1
  IN  [close |-> Close(legacy.close, current.close),
       volume |-> legacy.volume = current.volume,
       ohl |-> /\ Close(legacy.open, current.open)
               /\ Close(legacy.high, current.high)
               /\ Close(legacy.low, current.low)]

NoTally == [joined |-> 0, close |-> 0, volume |-> 0, ohl |-> 0, legacy |-> 0, current |-> 0, dates |-> 0,
            examples |-> [c \in {"close", "volume", "ohl"} |-> 0]]

AddDate(tally, day) ==
  LET legacy == DOMAIN day.legacy
      current == DOMAIN day.current
      Agreeing(field) == {s \in legacy \cap current : PairAgrees(day.legacy[s], day.current[s])[field]}
      both == legacy \cap current
      differing == [c \in {"close", "volume", "ohl"} |->
                      IF c = "ohl" THEN Agreeing("close") \ Agreeing("ohl") ELSE both \ Agreeing(c)]
  IN  [joined |-> tally.joined + Cardinality(both),
       close |-> tally.close + Cardinality(Agreeing("close")),
       volume |-> tally.volume + Cardinality(Agreeing("volume")),
       ohl |-> tally.ohl + Cardinality(Agreeing("ohl")),
       legacy |-> tally.legacy + Cardinality(legacy),
       current |-> tally.current + Cardinality(current),
       dates |-> tally.dates + 1,
       examples |-> [c \in DOMAIN differing |->
                       Min({ExampleCap, tally.examples[c] + Cardinality(differing[c])})]]

ReconcileWindow(days) == FoldLeft(AddDate, NoTally, days)

\* Coverage is measured from the legacy side.
GatePasses(tally) ==
  /\ AtLeast(tally.close, tally.joined, 999)
  /\ AtLeast(tally.joined, tally.legacy, 990)
  /\ AtLeast(tally.volume, tally.joined, 990)

-----------------------------------------------------------------------------
(* Identity across exchanges and time.                                       *)

\* One record for each listing of NSE, exchange BOTH if BSE knows its ISIN;
\* those of BSE alone only of an admitted series and under a symbol of theirs.
ReconcileCrossListings(nse, bse, admitted) ==
  LET Isins(list) == {list[i].isin : i \in DOMAIN list} \ {None}
      symbols == {nse[i].symbol : i \in DOMAIN nse}
      canonical == [i \in DOMAIN nse |->
                      [symbol |-> nse[i].symbol, isin |-> nse[i].isin,
                       exchange |-> IF nse[i].isin \in Isins(bse) THEN "BOTH" ELSE "NSE"]]
      alone == {i \in DOMAIN bse : bse[i].isin = None \/ bse[i].isin \notin Isins(nse)}
      offered == {i \in alone : bse[i].series \in admitted}
      new == {i \in offered : bse[i].symbol \notin symbols}
      Rank(isin) == IF isin = None THEN 0 ELSE isin
      First(i) == \A j \in new : bse[j].symbol = bse[i].symbol =>
                    \/ Rank(bse[i].isin) < Rank(bse[j].isin)
                    \/ Rank(bse[i].isin) = Rank(bse[j].isin) /\ i <= j
  IN  [instruments |-> ToSet(canonical) \cup
         {[symbol |-> bse[i].symbol, isin |-> bse[i].isin, exchange |-> "BSE"] : i \in {k \in new : First(k)}},
       crossListed |-> Cardinality({i \in DOMAIN canonical : canonical[i].exchange = "BOTH"}),
       withheld |-> {bse[i].symbol : i \in alone \ offered},
       collisions |-> {bse[i].symbol : i \in offered \ new}]

\* An empty answer from BSE leaves the master alone.
CrossListingsToStore(nse, bse, admitted) ==
  IF bse = <<>> THEN {} ELSE ReconcileCrossListings(nse, bse, admitted).instruments

\* Members of an ISIN that several securities share, symbol -> intervals in
\* the order of their listing. A security is [id, symbol, isin, from, to].
RenameChains(securities) ==
  LET Chained(s) == \E t \in securities : t # s /\ t.isin = s.isin /\ s.isin # None
      chained == {s \in securities : Chained(s) /\ s.from # None}
  IN  [symbol \in {s.symbol : s \in chained} |->
         SetToSortSeq({s \in chained : s.symbol = symbol}, LAMBDA s, t : s.from < t.from)]

UnambiguousIsins(securities) ==
  LET isins == {s.isin : s \in securities} \ {None}
      Owners(isin) == {s \in securities : s.isin = isin}
  IN  [isin \in {i \in isins : Cardinality(Owners(i)) = 1} |-> (CHOOSE s \in Owners(isin) : TRUE).id]

\* The member that traded then; of none, the nearest; of several, no one.
ResolvePeriod(intervals, date) ==
  LET Ends(s) == IF s.to = None THEN date ELSE s.to
      Distance(s) == IF date < s.from THEN s.from - date
                     ELSE IF date > Ends(s) THEN date - Ends(s) ELSE 0
      inside == {i \in DOMAIN intervals : Distance(intervals[i]) = 0}
      nearest == {i \in DOMAIN intervals :
                    \A j \in DOMAIN intervals : Distance(intervals[i]) <= Distance(intervals[j])}
  IN  IF Cardinality(inside) > 1 THEN None ELSE intervals[Min(nearest)].id

\* By the period first, then by an ISIN that is one security's, then by symbol.
ResolveBar(raw, securities) ==
  LET chains == RenameChains(securities)
      byPeriod == IF raw.symbol \in DOMAIN chains THEN ResolvePeriod(chains[raw.symbol], raw.date) ELSE None
      isins == UnambiguousIsins(securities)
      named == {s \in securities : s.symbol = raw.symbol}
  IN  CASE byPeriod # None -> byPeriod
        [] byPeriod = None /\ raw.isin \in DOMAIN isins -> isins[raw.isin]
        [] byPeriod = None /\ raw.isin \notin DOMAIN isins ->
             IF named = {} THEN None ELSE (CHOOSE s \in named : TRUE).id
===============================================================================
