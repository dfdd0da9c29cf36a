------------------------------ MODULE Validation ------------------------------
(* How the validation reports judge a strategy by what its picks returned.   *)
(* Returns are whole numbers that every small count divides, so that a mean  *)
(* is exact; roots are avoided by squaring. Runs come as list_runs returns   *)
(* them, newest first: [date, id, evaluated, passed, rankings], a ranking is *)
(* [security, rank, momentum, return, bench] with what is unknown None.      *)
EXTENDS Values

CONSTANTS
  TopPicks,        \* 25
  Stride,          \* every fifth trading day is sampled
  WindowSizes,     \* label -> trading days: 252, 756, 1260 and 2520
  RollingBars,     \* 20 runs for alpha
  PeriodBars       \* 21 and 252 entries per month and year

MeanOrNone(s) == IF s = <<>> THEN None ELSE Mean(s)

\* Compared as fractions; a zero denominator yields zero.
SafeDiv(a, b) == IF b = 0 THEN <<0, 1>> ELSE <<a, b>>

Positive(s) == SelectSeq(s, LAMBDA r : r > 0)

Negative(s) == SelectSeq(s, LAMBDA r : r < 0)

-----------------------------------------------------------------------------
(* Historical validation: which dates of a window have a run.                *)

\* The windows the calendar is long enough for: label -> first date.
ValidationWindows(calendar) ==
  [w \in {l \in DOMAIN WindowSizes : Len(calendar) >= WindowSizes[l]} |->
     calendar[Len(calendar) - WindowSizes[w] + 1]]

Sampled(dates) == [i \in 1..((Len(dates) + Stride - 1) \div Stride) |-> dates[1 + (i - 1) * Stride]]

\* Slip: what was executed just now still counts as missing.
WindowResultStale(dates, existing, execute, fails) ==
  LET sampled == ToSet(Sampled(dates))
      tried == IF execute THEN sampled \ existing ELSE {}
      executed == tried \ fails
      known == existing \cap dates[1]..dates[Len(dates)]
  IN  [runs |-> known \cup executed, executed |-> executed,
       missing |-> Cardinality(sampled \ known),
       errors |-> Cardinality(tried \ executed),
       successful |-> Cardinality(known) + Cardinality(executed) - Cardinality(tried \ executed)]

\* existing: dates with a completed run. fails: dates whose screening raises.
WindowResult(dates, existing, execute, fails) ==
  LET sampled == ToSet(Sampled(dates))
      known == existing \cap dates[1]..dates[Len(dates)]
      tried == IF execute THEN sampled \ known ELSE {}
      executed == tried \ fails
      errors == Cardinality(tried \ executed)
  IN  [runs |-> known \cup executed, executed |-> executed,
       missing |-> Cardinality(sampled \ known) - Cardinality(executed),
       errors |-> errors,
       successful |-> Cardinality(known) + Cardinality(executed) - errors]

\* The report on one window, empty where the history is too short for it.
HistoricalValidation(calendar, label, existing, execute, fails) ==
  IF label \notin DOMAIN ValidationWindows(calendar) THEN <<>>
  ELSE LET start == ValidationWindows(calendar)[label]
       IN  <<WindowResult(SelectSeq(calendar, LAMBDA d : d >= start), existing, execute, fails)>>

\* Completed runs over all windows, out of all, as a fraction.
ValidationSummary(results) ==
  LET total == FoldSeq(LAMBDA r, n : n + Cardinality(r.runs), 0, results)
      successful == FoldSeq(LAMBDA r, n : n + r.successful, 0, results)
  IN  SafeDiv(successful, IF total > 0 THEN total ELSE 1)

-----------------------------------------------------------------------------
(* The returns of a strategy, one per run.                                   *)

\* Slip: runs are put in order and none is dropped.
OnePerRun(runs) == Reverse(runs)

\* One run per date, the newest of each, in the order of their dates.
OnePerDate(runs) ==
  LET first == {i \in DOMAIN runs : \A j \in DOMAIN runs : runs[j].date = runs[i].date => i <= j}
  IN  Reverse(SetToSortSeq({runs[i] : i \in first}, LAMBDA a, b : a.date > b.date))

Picks(run) == SelectSeq(run.rankings, LAMBDA r : r.rank # None /\ r.rank <= TopPicks)

Matured(run) == SelectSeq(Picks(run), LAMBDA r : r.return # None)

Returns(rankings) == [i \in DOMAIN rankings |-> rankings[i].return]

\* The mean return of the picks; runs that have not matured are skipped.
PeriodReturns(runs) ==
  LET matured == SelectSeq(OnePerDate(runs), LAMBDA r : Matured(r) # <<>>)
  IN  [i \in DOMAIN matured |-> Mean(Returns(Matured(matured[i])))]

\* A run without rankings has no summary.
RunSummaries(runs) ==
  LET kept == SelectSeq(OnePerDate(runs), LAMBDA r : r.rankings # <<>>)
  IN  [i \in DOMAIN kept |->
         [evaluated |-> kept[i].evaluated, passed |-> kept[i].passed, date |-> kept[i].date,
          momentum |-> Mean([j \in DOMAIN kept[i].rankings |-> kept[i].rankings[j].momentum])]]

\* Averages over the summaries, and the two rates, which pair the i-th return
\* with the i-th summary.
ScreeningMetrics(summaries, returns) ==
  LET evaluated == Total([i \in DOMAIN summaries |-> summaries[i].evaluated])
      passed == Total([i \in DOMAIN summaries |-> summaries[i].passed])
      paired == {i \in DOMAIN returns : i <= Len(summaries)}
      Rate(Wrong(_)) == IF returns = <<>> \/ summaries = <<>> THEN None
                        ELSE Cardinality({i \in paired : Wrong(i)})
  IN  [passRate |-> SafeDiv(passed, evaluated),
       momentum |-> IF summaries = <<>> THEN 0
                    ELSE Mean([i \in DOMAIN summaries |-> summaries[i].momentum]),
       falsePositives |-> Rate(LAMBDA i : summaries[i].passed > 0 /\ returns[i] < 0),
       falseNegatives |-> Rate(LAMBDA i : summaries[i].passed = 0 /\ returns[i] > 0)]

\* The deepest fall from a peak of the compounded returns, as a fraction, and
\* how long it took. Here a return is a number of halves.
MaxDrawdown(returns) ==
  LET Step(s, r) ==
        LET value == (s.value * (2 + r)) \div 2
            under == s.under + 1
        IN  IF value > s.peak
            THEN [s EXCEPT !.value = value, !.peak = value, !.under = 0]
            ELSE IF (s.peak - value) * s.deepest[2] > s.deepest[1] * s.peak
            THEN [value |-> value, peak |-> s.peak, under |-> under,
                  deepest |-> <<s.peak - value, s.peak>>, duration |-> under]
            ELSE [s EXCEPT !.value = value, !.under = under]
  IN  FoldLeft(LAMBDA s, r : Step(s, r),
              [value |-> 2 ^ Len(returns), peak |-> 2 ^ Len(returns), under |-> 0,
               deepest |-> <<0, 1>>, duration |-> 0], returns)

\* Sums over chunks of n entries (months and years).
PeriodSums(returns, n) ==
  [i \in 1..((Len(returns) + n - 1) \div n) |->
     Total(SubSeq(returns, 1 + (i - 1) * n, Min({i * n, Len(returns)})))]

ProfitFactor(returns) ==
  LET gains == Total(Positive(returns))
      losses == Abs(Total(Negative(returns)))
  IN  IF losses > 0 THEN <<gains, losses>> ELSE IF gains > 0 THEN <<9999999, 10000>> ELSE <<0, 1>>

\* n times the sum of products of deviations: covariance and variance up to
\* the same factor.
CoSum(a, b) == Len(a) * Total([i \in DOMAIN a |-> a[i] * b[i]]) - Total(a) * Total(b)

\* Covariance over variance, zero for a benchmark that does not move.
Beta(returns, benchmark) ==
  IF CoSum(benchmark, benchmark) = 0 THEN <<0, 1>>
  ELSE <<CoSum(returns, benchmark), CoSum(benchmark, benchmark)>>

\* The square of covariance over both deviations, of which the strategy's is
\* the annualised one: its square is 252 times the variance.
RSquared(returns, benchmark) ==
  LET spread == CoSum(benchmark, benchmark) * CoSum(returns, returns)
  IN  IF spread = 0 THEN <<0, 1>>
      ELSE <<CoSum(returns, benchmark) * CoSum(returns, benchmark), 252 * spread>>

\* Without a matured return what returns would tell is None.
ComputeScorecard(returns, summaries) ==
  LET wins == Positive(returns)
      losses == Negative(returns)
      Of(value) == IF returns = <<>> THEN None ELSE value
      MeanOrZero(x) == IF x = <<>> THEN 0 ELSE Mean(x)
  IN  [total |-> Len(summaries), available |-> returns # <<>>,
       cumulative |-> Of(Total(returns)),
       best |-> IF returns = <<>> THEN None ELSE Max(ToSet(returns)),
       worst |-> IF returns = <<>> THEN None ELSE Min(ToSet(returns)),
       wins |-> Of(Len(wins)), losses |-> Of(Len(losses)),
       winner |-> Of(MeanOrZero(wins)), loser |-> Of(MeanOrZero(losses)),
       profit |-> Of(ProfitFactor(returns)),
       screening |-> ScreeningMetrics(summaries, returns)]

\* Without any run every figure is zero and called measured.
Scorecard(runs) ==
  IF runs = <<>>
  THEN [f \in DOMAIN ComputeScorecard(<<>>, <<>>) |->
          IF f = "available" THEN TRUE ELSE IF f = "screening" THEN ScreeningMetrics(<<>>, <<>>) ELSE 0]
  ELSE ComputeScorecard(PeriodReturns(runs), RunSummaries(runs))

-----------------------------------------------------------------------------
(* Alpha.                                                                    *)

\* Slip: a benchmark entry only where the picks have one.
BenchmarkWhereKnown(runs) ==
  LET matured == SelectSeq(OnePerDate(runs), LAMBDA r :
                   \E i \in DOMAIN Matured(r) : Matured(r)[i].bench # None)
      Known(r) == SelectSeq(Matured(r), LAMBDA p : p.bench # None)
  IN  [i \in DOMAIN matured |->
         Mean([j \in DOMAIN Known(matured[i]) |-> Known(matured[i])[j].bench])]

\* One entry beside every period return, zero where no pick has a benchmark.
BenchmarkReturns(runs) ==
  LET matured == SelectSeq(OnePerDate(runs), LAMBDA r : Matured(r) # <<>>)
      Known(r) == SelectSeq(Matured(r), LAMBDA p : p.bench # None)
  IN  [i \in DOMAIN matured |->
         IF Known(matured[i]) = <<>> THEN 0
         ELSE Mean([j \in DOMAIN Known(matured[i]) |-> Known(matured[i])[j].bench])]

RollingPairs(returns, benchmark) ==
  LET window == Min({RollingBars, Len(returns)})
  IN  [i \in 1..(Len(returns) - window + 1) |->
         <<Total(SubSeq(returns, i, i + window - 1)),
           Total(SubSeq(benchmark, i, Min({i + window - 1, Len(benchmark)})))>>]

ComputeAlpha(returns, benchmark) ==
  IF returns = <<>> \/ benchmark = <<>> THEN [alpha |-> 0, rolling |-> <<>>]
  ELSE [alpha |-> Total(returns) - Total(benchmark), rolling |-> RollingPairs(returns, benchmark)]

\* Without a matured return there is no alpha; without a run it is zero.
Alpha(runs) ==
  IF runs = <<>> THEN [alpha |-> 0, rolling |-> <<>>]
  ELSE IF PeriodReturns(runs) = <<>> THEN [alpha |-> None, rolling |-> <<>>]
  ELSE ComputeAlpha(PeriodReturns(runs), BenchmarkReturns(runs))

-----------------------------------------------------------------------------
(* Effectiveness of rules and engines. An evaluation is of one rule (engine) *)
(* for one security in one run, with that security's own return or None.     *)

WithReturn(evals) == SelectSeq(evals, LAMBDA e : e.return # None)

\* What is said of a rule: nothing unless both sides of it have returns.
Flags(evals, delta) ==
  LET n == Len(evals)
      passes == Len(SelectSeq(evals, LAMBDA e : e.passed))
  IN  IF delta = None THEN [delta |-> None, weak |-> None, redundant |-> None, highValue |-> None]
      ELSE [delta |-> delta,
            weak |-> 10 * passes < 3 * n /\ Abs(delta) < 1,
            redundant |-> 100 * passes > 95 * n,
            highValue |-> delta > 2 /\ 10 * passes >= 3 * n /\ 100 * passes <= 95 * n]

\* Slip: what has no return counts as a return of nothing.
RuleVerdictZeroed(evals) ==
  LET Side(side) == LET s == SelectSeq(evals, LAMBDA e : e.passed = side)
                    IN  MeanOrNone([i \in DOMAIN s |-> IF s[i].return = None THEN 0 ELSE s[i].return])
  IN  Flags(evals, IF None \in {Side(TRUE), Side(FALSE)} THEN None ELSE Side(TRUE) - Side(FALSE))

\* The difference between the mean returns on both sides of a rule. Percent.
RuleVerdict(evals) ==
  LET Side(side) == MeanOrNone(Returns(SelectSeq(WithReturn(evals), LAMBDA e : e.passed = side)))
  IN  Flags(evals, IF None \in {Side(TRUE), Side(FALSE)} THEN None ELSE Side(TRUE) - Side(FALSE))

\* The mean return where the engine scored above nothing, against the mean of
\* all; None where there is no such return.
EngineVerdict(evals, overall) ==
  LET matured == WithReturn(evals)
      mean == MeanOrNone(Returns(SelectSeq(matured, LAMBDA e : e.score > 0)))
  IN  [high |-> mean,
       improves |-> IF mean = None \/ overall = None THEN None ELSE mean > overall,
       agrees |-> IF matured = <<>> THEN None
                  ELSE SafeDiv(Len(SelectSeq(matured, LAMBDA e : (e.score > 0) = (e.return > 0))),
                               Len(matured))]

\* engines: engine -> evaluations.
EngineReport(engines) ==
  LET ids == SetToSeq(DOMAIN engines)
      all == FlattenSeq([i \in DOMAIN ids |-> WithReturn(engines[ids[i]])])
      overall == MeanOrNone(Returns(all))
      verdict == [e \in DOMAIN engines |-> EngineVerdict(engines[e], overall)]
      ranked == {e \in DOMAIN engines : verdict[e].high # None}
  IN  [verdict |-> verdict,
       best |-> {e \in ranked : \A f \in ranked : verdict[f].high <= verdict[e].high},
       excluded |-> {e \in DOMAIN engines : verdict[e].improves = FALSE}]

-----------------------------------------------------------------------------
(* Parameter experiments: the variant's results are the base's.              *)

ExperimentResult(results) ==
  [runs |-> Len(results),
   momentum |-> IF results = <<>> THEN 0 ELSE Mean(results)]

ParameterExperiment(base, variant) ==
  LET improvement == ExperimentResult(variant).momentum - ExperimentResult(base).momentum
  IN  [best |-> IF improvement > 0 THEN "variant" ELSE None,
       improvement |-> IF improvement > 0 THEN improvement ELSE 0]

ParameterResearch(base) == ParameterExperiment(base, base)
=============================================================================
