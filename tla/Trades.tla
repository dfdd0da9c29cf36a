-------------------------------- MODULE Trades --------------------------------
(* What a pick would have earned: the plan of a swing trade and its walk      *)
(* through later bars (domain/research/swing_targets.py, stop_loss.py,        *)
(* use_cases/research/swing_target_backtest.py), and the forward returns      *)
(* stored for a run (forward_returns.py, forward_returns_backfill.py).        *)
(* Gains are differences of prices; an R multiple is a gain over the plan's   *)
(* risk, a return a gain over the entry. Volatility (a root) is left out.     *)
EXTENDS Values

CONSTANTS
  StopAtrs, TargetAtrs,   \* 2 and 3
  HoldingBars,            \* 20
  Horizons,               \* 5, 10, 20, 60, 120 and 252 bars
  NearDays                \* a benchmark close at most 9 days old will do

ASSUME PlanAssumption == {StopAtrs, TargetAtrs, HoldingBars} \subseteq Nat \ {0}

ASSUME HorizonsAssumption == IsFiniteSet(Horizons) /\ Horizons # {} /\ Horizons \subseteq Nat \ {0}

-----------------------------------------------------------------------------
(* Swing trades.                                                             *)

\* Without a plan: nothing was paid, or nothing is risked.
SwingTargetPlan(entry, atr, resistance) ==
  LET known == atr # None /\ atr > 0
      risk == IF known THEN atr * StopAtrs ELSE (2 * entry) \div 100
      reward == IF resistance # None /\ resistance > entry
                THEN resistance - entry
                ELSE IF known THEN atr * TargetAtrs ELSE 2 * risk
  IN  IF entry <= 0 \/ risk <= 0 THEN None
      ELSE [entry |-> entry, stop |-> entry - risk, target |-> entry + reward, risk |-> risk]

\* The stop is looked at first: a bar that spans both is a loss.
Decided(plan, bar) == bar.low <= plan.stop \/ bar.high >= plan.target

\* Slip: the target is looked at first.
ExitAtTarget(plan, bar) ==
  IF bar.high >= plan.target
  THEN [outcome |-> "TARGET_HIT", price |-> plan.target]
  ELSE [outcome |-> "STOP_HIT", price |-> Min({plan.stop, bar.open})]

ExitAt(plan, bar) ==
  IF bar.low <= plan.stop
  THEN [outcome |-> "STOP_HIT", price |-> Min({plan.stop, bar.open})]
  ELSE [outcome |-> "TARGET_HIT", price |-> plan.target]

SimulateTrade(plan, bars) ==
  LET window == SubSeq(bars, 1, Min({HoldingBars, Len(bars)}))
      deciding == {i \in DOMAIN window : Decided(plan, window[i])}
      last == IF deciding = {} THEN Len(window) ELSE Min(deciding)
      exit == IF deciding = {} THEN [outcome |-> "TIME_EXIT", price |-> LastOf(window).close]
              ELSE ExitAt(plan, window[last])
      worst == Min({0} \cup {window[i].low - plan.entry : i \in 1..last})
      gain == exit.price - plan.entry
  IN  IF bars = <<>> THEN [outcome |-> "INSUFFICIENT_DATA", price |-> None, days |-> None,
                           gain |-> None, worst |-> None]
      ELSE [outcome |-> exit.outcome, price |-> exit.price, days |-> last, gain |-> gain,
            worst |-> IF exit.outcome = "STOP_HIT" THEN Min({worst, gain}) ELSE worst]

\* One signal: only a ranked security of known symbol, with its 200-day
\* average, with a bar to enter at and a plan that promises enough.
SimulateSignal(ranking, indicators, bars, minRatio) ==
  LET before == Through(bars, ranking.date)
      after == Since(bars, ranking.date)
      plan == SwingTargetPlan(LastOf(before).close, indicators.atr, indicators.resistance)
  IN  IF \/ ranking.rank = None
         \/ indicators.sma200 = None
         \/ before = <<>>
      THEN <<>>
      ELSE IF plan = None THEN <<>>
      ELSE IF minRatio # None /\ plan.target - plan.entry < minRatio * plan.risk
      THEN <<>>
      ELSE <<SimulateTrade(plan, after)>>

\* Trades without later bars count as trades and in no average.
AggregateTrades(results) ==
  LET Count(outcome) == Len(SelectSeq(results, LAMBDA r : r.outcome = outcome))
      traded == SelectSeq(results, LAMBDA r : r.gain # None)
      Field(Of(_)) == [i \in DOMAIN traded |-> Of(traded[i])]
  IN  [total |-> Len(results), targets |-> Count("TARGET_HIT"), stops |-> Count("STOP_HIT"),
       times |-> Count("TIME_EXIT"), insufficient |-> Count("INSUFFICIENT_DATA"),
       hitRate |-> IF Count("TARGET_HIT") + Count("STOP_HIT") = 0 THEN None
                   ELSE <<Count("TARGET_HIT"), Count("TARGET_HIT") + Count("STOP_HIT")>>,
       gain |-> IF traded = <<>> THEN None ELSE Total(Field(LAMBDA r : r.gain)),
       worst |-> IF traded = <<>> THEN None ELSE Min(ToSet(Field(LAMBDA r : r.worst)))]

\* Two times the ATR below the entry, else a swing low below it. Nothing keeps
\* the first above zero.
SuggestStopLoss(entry, atr, support) ==
  IF atr # None THEN entry - StopAtrs * atr
  ELSE IF support # None /\ support < entry THEN support
  ELSE None

ChandelierStop(highest, atr) ==
  IF None \in {highest, atr} THEN None ELSE highest - TargetAtrs * atr

-----------------------------------------------------------------------------
(* Forward returns.                                                          *)

AdjustedClose(bar) == IF bar.adj # None THEN bar.adj ELSE bar.close

\* The latest of the closes that are at most NearDays old.
NearestClose(closes, date) ==
  LET near == {d \in DOMAIN closes : d \in (date - NearDays)..date}
  IN  IF near = {} THEN None ELSE closes[Max(near)]

\* Slip: what there is so far will do.
ForwardReturnSoFar(entry, forward, horizon, benchEntry, benchExit) ==
  LET window == SubSeq(forward, 1, Min({horizon, Len(forward)}))
      gains == [i \in DOMAIN window |-> window[i] - entry]
  IN  IF entry <= 0 \/ window = <<>> THEN None
      ELSE [gain |-> LastOf(gains), best |-> Max(ToSet(gains)), worst |-> Min(ToSet(gains)),
            drawdown |-> <<0, 1>>, bench |-> None]

\* The drawdown is a fraction of the highest close so far, the return of the
\* benchmark one of its entry.
Measures(entry, window, benchEntry, benchExit) ==
  LET gains == [i \in DOMAIN window |-> window[i] - entry]
      path == <<entry>> \o window
      peak(i) == Max({path[j] : j \in 1..i})
      falls == {<<peak(i) - path[i], peak(i)>> : i \in DOMAIN path}
  IN  [gain |-> LastOf(gains), best |-> Max(ToSet(gains)), worst |-> Min(ToSet(gains)),
       drawdown |-> CHOOSE f \in falls : \A g \in falls : g[1] * f[2] <= f[1] * g[2],
       bench |-> IF None \in {benchEntry, benchExit} THEN None
                 ELSE IF benchEntry <= 0 THEN None
                 ELSE <<benchExit - benchEntry, benchEntry>>]

\* No row before the horizon is reached.
ForwardReturn(entry, forward, horizon, benchEntry, benchExit) ==
  IF entry <= 0 \/ Len(forward) < horizon THEN None
  ELSE Measures(entry, SubSeq(forward, 1, horizon), benchEntry, benchExit)

\* Rows of the run for <<security, horizon>> pairs that have none yet. Bars
\* are per security, ascending; the newest up to the run is the entry.
Backfill(existing, run, bars, bench) ==
  LET Before(s) == Through(bars[s], run.date)
      After(s) == Since(bars[s], run.date)
      Closes(s) == [i \in DOMAIN After(s) |-> AdjustedClose(After(s)[i])]
      benchEntry == NearestClose(bench, run.date)
      Row(s, h) ==
        IF Before(s) = <<>> THEN None
        ELSE ForwardReturn(AdjustedClose(LastOf(Before(s))), Closes(s), h, benchEntry,
                           IF Len(After(s)) >= h THEN NearestClose(bench, After(s)[h].date) ELSE None)
      pending == {p \in run.picks \X Horizons : p \notin DOMAIN existing /\ Row(p[1], p[2]) # None}
  IN  Over(existing, [p \in pending |-> Row(p[1], p[2])])

\* The first tier whose threshold, in percent, the return reaches.
PerformanceTier(gain, entry) ==
  LET Reaches(percent) == 100 * gain >= percent * entry
  IN  CASE Reaches(50) -> "exceptional_winner"
        [] Reaches(20) /\ ~Reaches(50) -> "strong_performer"
        [] Reaches(0) /\ ~Reaches(20) -> "average_performer"
        [] Reaches(-15) /\ ~Reaches(0) -> "underperformer"
        [] ~Reaches(-15) -> "failure"
===============================================================================
