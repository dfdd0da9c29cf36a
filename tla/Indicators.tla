------------------------------ MODULE Indicators ------------------------------
(* infrastructure/pipelines/indicator_pipeline.py: the indicators of one      *)
(* security, as a snapshot of its latest session and as series for a chart.   *)
(* Averages and percentages are rounded down, where the code keeps four       *)
(* decimals. An undefined value (NaN) is None.                                *)
EXTENDS Engines

CONSTANT
  Spans   \* the fixed windows: wilder 14, emas 10 and 21, adr 20, fast 12, slow 26,
          \* signal 9, pivot 5, smooth 3, cci 20, roc 12, buffer 25

ASSUME SpansAssumption ==
  /\ {Spans.wilder, Spans.slow, Spans.fast, Spans.signal, Spans.pivot, Spans.smooth} \subseteq Nat \ {0}
  /\ Spans.buffer \in Nat

Raised == None

Undefined(n) == [i \in 1..n |-> None]

Closes(bars) == [i \in DOMAIN bars |-> bars[i].close]

\* What every smoothed series is moved on by: the first change has bar two.
FromSecondBar(n, series) == [i \in 1..n |-> IF i = 1 THEN None ELSE series[i - 1]]

-----------------------------------------------------------------------------
(* Averages.                                                                 *)

Sma(values, window) ==
  IF Len(values) < window THEN None ELSE Total(Tail0(values, window)) \div window

Ema(values, span) ==
  LET ema[i \in DOMAIN values] ==
        IF i = 1 THEN values[1]
        ELSE (2 * values[i] + (span - 1) * ema[i - 1]) \div (span + 1)
  IN  [i \in DOMAIN values |-> ema[i]]

\* Seeded with the mean of the first values, undefined before it.
WilderSmooth(values, window) ==
  LET smooth[i \in window..Len(values)] ==
        IF i = window THEN Total(SubSeq(values, 1, window)) \div window
        ELSE ((window - 1) * smooth[i - 1] + values[i]) \div window
  IN  [i \in DOMAIN values |-> IF i < window THEN None ELSE smooth[i]]

-----------------------------------------------------------------------------
(* Series.                                                                   *)

RsiSeries(closes, window) ==
  LET n == Len(closes)
      delta == [i \in 1..(n - 1) |-> closes[i + 1] - closes[i]]
      gain == WilderSmooth([i \in DOMAIN delta |-> IF delta[i] > 0 THEN delta[i] ELSE 0], window)
      loss == WilderSmooth([i \in DOMAIN delta |-> IF delta[i] < 0 THEN -delta[i] ELSE 0], window)
      Rsi(g, l) == IF g = None THEN None ELSE IF g + l = 0 THEN 50 ELSE Percent(g, g + l)
  IN  IF n = 0 THEN <<>>
      ELSE FromSecondBar(n, [i \in DOMAIN delta |-> Rsi(gain[i], loss[i])])

TrueRange(bars) ==
  [i \in 1..(Len(bars) - 1) |->
     LET bar == bars[i + 1]
         before == bars[i].close
     IN  Max({bar.high - bar.low, Abs(bar.high - before), Abs(bar.low - before)})]

AtrSeries(bars, window) ==
  IF bars = <<>> THEN <<>> ELSE FromSecondBar(Len(bars), WilderSmooth(TrueRange(bars), window))

\* Moves up and down, each only where it is the larger and positive.
DirectionalMoves(bars) ==
  LET up(i) == bars[i + 1].high - bars[i].high
      down(i) == bars[i].low - bars[i + 1].low
  IN  [i \in 1..(Len(bars) - 1) |->
         [plus |-> IF up(i) > down(i) /\ up(i) > 0 THEN up(i) ELSE 0,
          minus |-> IF down(i) > up(i) /\ down(i) > 0 THEN down(i) ELSE 0]]

\* DX is undefined where no bar so far has had a range. The defined values are
\* smoothed and written back from the window on; there the assignment raises
\* unless they are as many as the bars left.
AdxSeries(bars, window) ==
  LET n == Len(bars)
      moves == DirectionalMoves(bars)
      range == WilderSmooth(TrueRange(bars), window)
      plus == WilderSmooth([i \in DOMAIN moves |-> moves[i].plus], window)
      minus == WilderSmooth([i \in DOMAIN moves |-> moves[i].minus], window)
      Share(moved, i) == IF range[i] \in {None, 0} THEN None ELSE Percent(moved[i], range[i])
      Dx(i) == IF range[i] \in {None, 0} THEN None
               ELSE IF plus[i] + minus[i] = 0 THEN 0
               ELSE Percent(Abs(plus[i] - minus[i]), plus[i] + minus[i])
      valid == Defined([i \in DOMAIN moves |-> Dx(i)])
      adx == WilderSmooth(valid, window)
  IN  [plus |-> IF n < window + 1 THEN Undefined(n)
                ELSE FromSecondBar(n, [i \in DOMAIN moves |-> Share(plus, i)]),
       minus |-> IF n < window + 1 THEN Undefined(n)
                 ELSE FromSecondBar(n, [i \in DOMAIN moves |-> Share(minus, i)]),
       adx |-> IF n < window + 1 \/ Len(valid) < window THEN Undefined(n)
               ELSE IF Len(valid) = n - window
               THEN [i \in 1..n |-> IF i <= window THEN None ELSE adx[i - window]]
               ELSE Raised]

\* Withheld until the signal line has forgotten its seed.
MacdSeries(closes) ==
  LET n == Len(closes)
      fast == Ema(closes, Spans.fast)
      slow == Ema(closes, Spans.slow)
      line == [i \in 1..n |-> fast[i] - slow[i]]
      signal == Ema(line, Spans.signal)
      warm == Spans.slow + Spans.signal
      Shown(series) == [i \in 1..n |-> IF i < warm THEN None ELSE series[i]]
  IN  IF n < warm
      THEN [line |-> Undefined(n), signal |-> Undefined(n), histogram |-> Undefined(n)]
      ELSE [line |-> Shown(line), signal |-> Shown(signal),
            histogram |-> Shown([i \in 1..n |-> line[i] - signal[i]])]

-----------------------------------------------------------------------------
(* Snapshot figures.                                                         *)

\* Slip: the last bars count with what follows them so far.
SwingHighsEarly(bars, reach) ==
  {i \in (1 + reach)..Len(bars) :
     \A j \in ((i - reach)..(i + reach)) \ {i} : j \in DOMAIN bars => bars[j].high < bars[i].high}

\* Bars whose high (low) no bar within reach on either side attains; the last
\* bars are not confirmed yet.
SwingHighs(bars, reach) ==
  {i \in (1 + reach)..(Len(bars) - reach) :
     \A j \in ((i - reach)..(i + reach)) \ {i} : bars[j].high < bars[i].high}

SwingLows(bars, reach) ==
  {i \in (1 + reach)..(Len(bars) - reach) :
     \A j \in ((i - reach)..(i + reach)) \ {i} : bars[j].low > bars[i].low}

SwingLevels(bars, reach) ==
  LET close == LastClose(bars)
      above == {h \in {bars[i].high : i \in SwingHighs(bars, reach)} : h > close}
      below == {l \in {bars[i].low : i \in SwingLows(bars, reach)} : l < close}
  IN  [resistance |-> IF above = {} THEN None ELSE Min(above),
       support |-> IF below = {} THEN None ELSE Max(below)]

AdrPct(bars, window) ==
  IF Len(bars) < window THEN None
  ELSE LET recent == Tail0(bars, window)
       IN  Total([i \in DOMAIN recent |-> Percent(recent[i].high - recent[i].low, recent[i].low)])
           \div window

StochasticK(bars, window) ==
  IF Len(bars) < window THEN None
  ELSE LET recent == Tail0(bars, window)
       IN  Percent(LastClose(bars) - LowOf(recent), HighOf(recent) - LowOf(recent))

\* %K of the latest bar and the mean of the latest few, if all are defined.
Stochastic(bars, window, smooth) ==
  LET n == Len(bars)
      latest == [i \in 1..smooth |->
                   IF n - smooth + i < 1 THEN None
                   ELSE StochasticK(SubSeq(bars, 1, n - smooth + i), window)]
  IN  [k |-> StochasticK(bars, window),
       d |-> IF None \in {latest[i] : i \in 1..smooth} THEN None ELSE Total(latest) \div smooth]

WilliamsR(bars, window) ==
  IF Len(bars) < window THEN None
  ELSE LET recent == Tail0(bars, window)
       IN  Percent(LastClose(bars) - HighOf(recent), HighOf(recent) - LowOf(recent))

Cci(bars, window) ==
  IF Len(bars) < window THEN None
  ELSE LET recent == Tail0(bars, window)
           typical == [i \in DOMAIN recent |->
                         (recent[i].high + recent[i].low + recent[i].close) \div 3]
           mean == Total(typical) \div window
           deviation == Total([i \in DOMAIN typical |-> Abs(typical[i] - mean)]) \div window
       IN  IF deviation = 0 THEN None ELSE (200 * (LastOf(typical) - mean)) \div (3 * deviation)

RocOf(closes, window) ==
  IF Len(closes) < window + 1 THEN None
  ELSE LET prior == closes[Len(closes) - window] IN Percent(LastOf(closes) - prior, prior)

PctFrom(close, average) == IF average = None THEN None ELSE Percent(close - average, average)

SmaSlope(closes, window, back) ==
  IF Len(closes) < window + back THEN None
  ELSE LET prior == Sma(SubSeq(closes, 1, Len(closes) - back), window)
       IN  Percent(Sma(closes, window) - prior, prior)

Extremes(bars, window) ==
  IF Len(bars) < window THEN [high |-> None, low |-> None]
  ELSE [high |-> HighOf(Tail0(bars, window)), low |-> LowOf(Tail0(bars, window))]

AvgVolume(bars, window) == Sma([i \in DOMAIN bars |-> bars[i].volume], window)

\* The latest volume against the window's others.
RelVolume(bars, window) ==
  IF Len(bars) < window + 1 THEN None
  ELSE LET others == SubSeq(bars, Len(bars) - window + 1, Len(bars) - 1)
       IN  Percent(Latest(bars).volume * (window - 1),
                   Total([i \in DOMAIN others |-> others[i].volume]))

-----------------------------------------------------------------------------
(* The pipeline. Stored bars carry the divisor of their corporate actions,   *)
(* or None; those of the legacy archive have none at all.                    *)

RequiredMinBars(config) ==
  Max({config.sma[3] + config.slope, config.highLow, config.volume}) + Spans.buffer

\* The newest bars up to the date, as many as are required, oldest first.
FetchBars(stored, date, count) ==
  LET upTo == Through(stored, date)
  IN  SubSeq(upTo, Max({1, Len(upTo) - count + 1}), Len(upTo))

\* Slip: the volume is scaled like a price.
AdjustedAlike(bar) ==
  LET by == IF "divisor" \notin DOMAIN bar THEN 1 ELSE IF bar.divisor = None THEN 1 ELSE bar.divisor
  IN  [open |-> bar.open \div by, high |-> bar.high \div by, low |-> bar.low \div by,
       close |-> bar.close \div by, volume |-> bar.volume \div by]

Adjusted(bar) ==
  LET by == IF "divisor" \notin DOMAIN bar THEN 1 ELSE IF bar.divisor = None THEN 1 ELSE bar.divisor
  IN  [open |-> bar.open \div by, high |-> bar.high \div by, low |-> bar.low \div by,
       close |-> bar.close \div by, volume |-> bar.volume * by]

\* No bars if there are fewer than required.
Frame(stored, date, config) ==
  LET bars == FetchBars(stored, date, RequiredMinBars(config))
  IN  IF Len(bars) < RequiredMinBars(config) THEN <<>>
      ELSE [i \in DOMAIN bars |-> Adjusted(bars[i])]

SnapshotOf(frame, config) ==
  LET PctOf(n, of) == IF of = None THEN None ELSE Percent(n, of)
      Of(bars, closes, close, sma, extremes, direction, macd) ==
        LET EmaOf(span) == IF Len(closes) < span THEN None ELSE LastOf(Ema(closes, span))
        IN  IF bars = <<>> THEN <<>>
            ELSE IF direction.adx = Raised THEN Raised
            ELSE [sma |-> sma, ema |-> <<EmaOf(Spans.emas[1]), EmaOf(Spans.emas[2])>>,
                  rsi |-> LastOf(RsiSeries(closes, Spans.wilder)),
                  atr |-> LastOf(AtrSeries(bars, Spans.wilder)),
                  adr |-> AdrPct(bars, Spans.adr), extremes |-> extremes,
                  aboveLow |-> PctOf(close - extremes.low, extremes.low),
                  belowHigh |-> PctOf(extremes.high - close, extremes.high),
                  slope |-> SmaSlope(closes, config.sma[3], config.slope),
                  avgVolume |-> AvgVolume(bars, config.volume),
                  relVolume |-> RelVolume(bars, config.volume),
                  adx |-> LastOf(direction.adx), plus |-> LastOf(direction.plus),
                  minus |-> LastOf(direction.minus),
                  macd |-> <<LastOf(macd.line), LastOf(macd.signal), LastOf(macd.histogram)>>,
                  swing |-> SwingLevels(bars, Spans.pivot),
                  fromSma |-> <<PctFrom(close, sma[1]), PctFrom(close, sma[3])>>,
                  stochastic |-> Stochastic(bars, Spans.wilder, Spans.smooth),
                  williams |-> WilliamsR(bars, Spans.wilder),
                  cci |-> Cci(bars, Spans.cci), roc |-> RocOf(closes, Spans.roc)]
      From(bars, closes) ==
        Of(bars, closes, LastClose(bars), [i \in 1..3 |-> Sma(closes, config.sma[i])],
           Extremes(bars, config.highLow), AdxSeries(bars, Spans.wilder), MacdSeries(closes))
  IN  From(frame, Closes(frame))

Snapshot(stored, date, config) == SnapshotOf(Frame(stored, date, config), config)

ChartSeries(stored, date, config) ==
  LET Of(bars, direction) ==
        IF bars = <<>> THEN <<>>
        ELSE IF direction.adx = Raised THEN Raised
        ELSE [rsi |-> RsiSeries(Closes(bars), Spans.wilder), atr |-> AtrSeries(bars, Spans.wilder),
              adx |-> direction.adx, macd |-> MacdSeries(Closes(bars))]
      On(bars) == Of(bars, AdxSeries(bars, Spans.wilder))
  IN  On(Frame(stored, date, config))
=============================================================================
