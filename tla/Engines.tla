------------------------------- MODULE Engines -------------------------------
(* The evaluation engines: what each rule makes of one security's bars and   *)
(* indicators. A rule yields whether it passed and its contribution, counted *)
(* in hundredths of its weight. Parameters have their documented defaults,   *)
(* except the window lengths, which the instance shortens.                   *)
(*                                                                           *)
(* A bar is [open, high, low, close, volume]; a missing indicator is None.   *)
(* Engines that read bars read the prices as they were printed.              *)
EXTENDS Bases

CONSTANTS
  RangeBars,        \* 20 sessions
  FalseBreakBars,   \* 25
  FastBars, SlowBars,          \* 5 and 10
  PersistBars, PersistAverage, \* 63 and 50, the latter also of risk_extension
  RecentBars, LongerBars,      \* 20 and 63
  AccumulationBars, \* 25
  MinTurnover       \* ten million rupees

ASSUME EnginesAssumption ==
  /\ {RangeBars, FastBars, SlowBars, PersistBars, PersistAverage, RecentBars, LongerBars, AccumulationBars,
      MinTurnover} \subseteq Nat \ {0}
  /\ FalseBreakBars \in Nat /\ RangeBars <= FalseBreakBars

Rule(passed, part) == [passed |-> passed, part |-> part]

Binary(passed) == Rule(passed, IF passed THEN 100 ELSE 0)

Missing == Rule(FALSE, 0)

\* Slip: what is not known is not held against the security.
GivenIfKnown(inputs, verdict) == IF None \in inputs THEN Binary(TRUE) ELSE verdict

\* The rule's verdict, unless one of its inputs is missing.
Given(inputs, verdict) == IF None \in inputs THEN Missing ELSE verdict

Clamp(n) == IF n < 0 THEN 0 ELSE IF n > 100 THEN 100 ELSE n

Latest(bars) == bars[Len(bars)]

LastClose(bars) == IF bars = <<>> THEN None ELSE Latest(bars).close

SumCloses(bars) == MapThenSumSet(LAMBDA i : bars[i].close, DOMAIN bars)

HighOf(bars) == Max({bars[i].high : i \in DOMAIN bars})

LowOf(bars) == Min({bars[i].low : i \in DOMAIN bars})

-----------------------------------------------------------------------------
(* Trend template: eight yes-or-no rules.                                    *)

CloseAboveSma150And200(c) ==
  LET close == LastClose(c.bars)
  IN  Given({close, c.sma150, c.sma200}, Binary(close > c.sma150 /\ close > c.sma200))

Sma150AboveSma200(c) == Given({c.sma150, c.sma200}, Binary(c.sma150 > c.sma200))

Sma200Uptrend(c) == Given({c.slope}, Binary(c.slope > 0))

SmaStack(c) ==
  Given({c.sma50, c.sma150, c.sma200}, Binary(c.sma50 > c.sma150 /\ c.sma50 > c.sma200))

CloseAboveSma50(c) ==
  LET close == LastClose(c.bars) IN Given({close, c.sma50}, Binary(close > c.sma50))

\* 30% above the low of 52 weeks, by the pipeline's figure or its own.
Above52wLow(c) ==
  LET close == LastClose(c.bars)
  IN  Given({close, c.low52},
        Binary(IF c.aboveLow # None THEN c.aboveLow >= 30
               ELSE 100 * (close - c.low52) >= 30 * c.low52))

\* At most 25% below the high of 52 weeks.
Near52wHigh(c) ==
  LET close == LastClose(c.bars)
  IN  Given({close, c.high52},
        Binary(IF c.belowHigh # None THEN c.belowHigh <= 25
               ELSE 100 * (c.high52 - close) <= 25 * c.high52))

RsRatingMin(c) == Given({c.rs}, Binary(c.rs >= 70))

TrendTemplate(c) ==
  [tt_close_above_sma150_200 |-> CloseAboveSma150And200(c),
   tt_sma150_above_sma200 |-> Sma150AboveSma200(c),
   tt_sma200_uptrend |-> Sma200Uptrend(c),
   tt_sma_stack |-> SmaStack(c),
   tt_close_above_sma50 |-> CloseAboveSma50(c),
   tt_above_52w_low |-> Above52wLow(c),
   tt_near_52w_high |-> Near52wHigh(c),
   tt_rs_rating_min |-> RsRatingMin(c)]

-----------------------------------------------------------------------------
(* Volume and accumulation.                                                  *)

LiquidityMin(c) ==
  Given({LastClose(c.bars), c.avgVolume},
    LET turnover == c.avgVolume * LastClose(c.bars)
    IN  Rule(turnover >= MinTurnover, Clamp((100 * turnover) \div MinTurnover)))

\* Up days against down days on more than the average volume; without an
\* average, up days against all others.
AccumulationDays(c) ==
  LET recent == Tail0(c.bars, AccumulationBars)
      Count(Day(_)) == Cardinality({i \in DOMAIN recent : Day(recent[i])})
      Up(b) == b.close > b.open
      Down(b) == b.close < b.open
      Heavy(b) == b.volume > c.avgVolume
      net == Count(LAMBDA b : Up(b) /\ Heavy(b)) - Count(LAMBDA b : Down(b) /\ Heavy(b))
      Share(n) == (100 * n) \div AccumulationBars
      Verdict(passed, n) == Rule(passed, IF passed THEN 100 ELSE Share(n))
  IN  IF Len(c.bars) < AccumulationBars THEN Missing
      ELSE IF c.avgVolume # None /\ c.avgVolume > 0
      THEN Verdict(net > 0, IF net > 0 THEN net ELSE 0)
      ELSE Verdict(Count(Up) > AccumulationBars \div 2, Count(Up))

\* 1.4 times the average volume; relVolume is counted in hundredths.
BreakoutVolume(c) ==
  Given({c.relVolume}, Rule(c.relVolume >= 140, Clamp((100 * c.relVolume) \div 140)))

VolumeAccumulation(c) ==
  [vol_liquidity_min |-> LiquidityMin(c),
   vol_accumulation_days |-> AccumulationDays(c),
   vol_breakout_confirm |-> BreakoutVolume(c)]

-----------------------------------------------------------------------------
(* Breakout.                                                                 *)

\* The close in the top 30% of the range of the last sessions.
PivotBreakout(c) ==
  LET recent == Tail0(c.bars, RangeBars)
      range == HighOf(recent) - LowOf(recent)
      above == Latest(c.bars).close - LowOf(recent)
  IN  IF Len(c.bars) < RangeBars \/ range = 0 THEN Missing
      ELSE Rule(100 * above >= 70 * range, Clamp(2 * ((100 * above) \div range - 50)))

\* Close above its fast average above its slow one.
Followthrough(c) ==
  LET fast == SumCloses(Tail0(c.bars, FastBars))
      slow == SumCloses(Tail0(c.bars, SlowBars))
  IN  IF Len(c.bars) < SlowBars THEN Missing
      ELSE Binary(/\ Latest(c.bars).close * FastBars > fast
                  /\ fast * SlowBars > slow * FastBars)

\* The close still above the middle of the range.
FalseBreakout(c) ==
  LET recent == Tail0(c.bars, RangeBars)
      double == HighOf(recent) + LowOf(recent)
      above == 2 * Latest(c.bars).close - double
  IN  IF Len(c.bars) < FalseBreakBars THEN Missing
      ELSE Rule(above >= 0, IF double > 0 THEN Clamp((1000 * above) \div double) ELSE 0)

Breakout(c) ==
  [bo_pivot_breakout |-> PivotBreakout(c),
   bo_followthrough |-> Followthrough(c),
   bo_false_breakout |-> FalseBreakout(c)]

-----------------------------------------------------------------------------
(* Momentum quality.                                                         *)

\* Days of the window that closed above their own moving average, and the
\* days counted: the same last bars on both sides.
Persistence(bars) ==
  LET window == Tail0(bars, PersistBars + PersistAverage)
      full == Len(window) - PersistAverage + 1
      days == IF PersistBars < full THEN PersistBars ELSE full
      Above(i) == window[i].close * PersistAverage
                  > SumCloses(SubSeq(window, i - PersistAverage + 1, i))
  IN  [days |-> days,
       count |-> Cardinality({i \in (Len(window) - days + 1)..Len(window) : Above(i)})]

TrendPersistence(c) ==
  LET p == Persistence(c.bars)
      passed == 10 * p.count >= 6 * p.days
  IN  IF Len(c.bars) < PersistBars + PersistAverage THEN Missing
      ELSE Rule(passed, IF passed THEN 100 ELSE (100 * p.count) \div p.days)

\* The return over n bars in percent, None without the bar or with a zero one.
PctReturn(bars, n) ==
  IF Len(bars) < n + 1 \/ bars[Len(bars) - n].close = 0 THEN None
  ELSE (100 * (Latest(bars).close - bars[Len(bars) - n].close)) \div bars[Len(bars) - n].close

\* The recent return above the longer one, and positive.
Acceleration(c) ==
  LET recent == PctReturn(c.bars, RecentBars)
      longer == PctReturn(c.bars, LongerBars)
      passed == recent > longer /\ recent > 0
  IN  IF Len(c.bars) < LongerBars THEN Missing
      ELSE Given({recent, longer}, Rule(passed, IF passed THEN Clamp(5 * (recent - longer)) ELSE 0))

MomentumQuality(c) ==
  [mq_trend_persistence |-> TrendPersistence(c), mq_acceleration |-> Acceleration(c)]

-----------------------------------------------------------------------------
(* Relative strength, risk and patterns.                                     *)

RsRating(c) == Given({c.rs}, Rule(c.rs >= 70, Clamp((100 * (c.rs - 70)) \div 29)))

RsLineUptrend(c) == Given({c.rsSlope}, Binary(c.rsSlope > 0))

RsSectorRelative(c) == Given({c.rs, c.sectorRs}, Binary(c.sectorRs >= 50))

RsIndustryRelative(c) == Given({c.rs, c.industryRs}, Binary(c.industryRs >= 50))

RelativeStrength(c) ==
  [rs_rating |-> RsRating(c),
   rs_line_uptrend |-> RsLineUptrend(c),
   rs_sector_relative |-> RsSectorRelative(c),
   rs_industry_relative |-> RsIndustryRelative(c)]

\* What is left of a limit, where less is better: never below nothing, but
\* more than all of it for a negative figure.
LeftOf(figure, limit) ==
  LET left == 100 - (100 * figure) \div limit IN IF left < 0 THEN 0 ELSE left

\* The close at most 25% above its average; below it, the extension is negative.
RiskExtension(c) ==
  LET close == LastClose(c.bars)
      own == IF Len(c.bars) < PersistAverage THEN None
             ELSE SumCloses(Tail0(c.bars, PersistAverage)) \div PersistAverage
      average == IF c.sma50 # None THEN c.sma50 ELSE own
      extension == (100 * (close - average)) \div average
  IN  Given({close, average},
        IF average = 0 THEN Missing
        ELSE Rule(100 * (close - average) <= 25 * average, LeftOf(extension, 25)))

RiskAtr(c) == Given({c.adr}, Rule(c.adr <= 8, LeftOf(c.adr, 8)))

\* A stop two average ranges below the close, or 2% where no range is known,
\* within 16% of it.
RiskStop(c) ==
  LET close == LastClose(c.bars)
      percent == IF c.atr # None /\ c.atr > 0 THEN (200 * c.atr) \div close ELSE 2
      within == IF c.atr # None /\ c.atr > 0 THEN 200 * c.atr <= 16 * close ELSE TRUE
  IN  Given({close}, IF close <= 0 THEN Missing ELSE Rule(within, LeftOf(percent, 16)))

Risk(c) ==
  [risk_extension |-> RiskExtension(c), risk_atr |-> RiskAtr(c), risk_rr |-> RiskStop(c)]

\* Every registered detector is a rule of weight one; what it detects has a
\* quality.
Pattern(bars) ==
  LET detected == Detectors(bars)
  IN  [p \in DOMAIN detected |-> IF detected[p] = None THEN Missing ELSE Rule(TRUE, detected[p])]

==============================================================================
