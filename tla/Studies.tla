------------------------------- MODULE Studies -------------------------------
(* The studies of past runs: a property relates a report to a definition of *)
(* what it reports, or to the report on a related input.                     *)
EXTENDS Inputs, Comparison

-----------------------------------------------------------------------------
(* Runs.                                                                     *)

\* A date is measured once: a second, older run of a date that has one
\* changes no figure of the scorecard and none of the alpha report.
DatesCountOnce ==
  Is("runs") =>
    LET runs == input.value
        Newest(i) == \A j \in DOMAIN runs : runs[j].date = runs[i].date => i <= j
        once == [i \in 1..Cardinality({k \in DOMAIN runs : Newest(k)}) |->
                   runs[CHOOSE k \in DOMAIN runs :
                          Newest(k) /\ Cardinality({j \in 1..k : Newest(j)}) = i]]
    IN  Scorecard(runs) = Scorecard(once) /\ Alpha(runs) = Alpha(once)

\* The return of each period stands beside the benchmark's return of the same
\* run: picks that all earned what the benchmark did have no alpha.
BenchmarkStaysAligned ==
  Is("runs") =>
    LET Earned(r) == \A i \in DOMAIN Matured(r) :
                       Matured(r)[i].bench = None \/ Matured(r)[i].bench = Matured(r)[i].return
        Whole(r) == \/ \A i \in DOMAIN Matured(r) : Matured(r)[i].bench # None
                    \/ \A i \in DOMAIN Matured(r) :
                         Matured(r)[i].return = 0 /\ Matured(r)[i].bench \in {None, 0}
        alpha == Alpha(input.value)
    IN  /\ Len(PeriodReturns(input.value)) = Len(BenchmarkReturns(input.value))
        /\ (\A i \in DOMAIN input.value : Earned(input.value[i]) /\ Whole(input.value[i]))
           => /\ alpha.alpha \in {0, None}
              /\ \A i \in DOMAIN alpha.rolling : alpha.rolling[i][1] = alpha.rolling[i][2]

\* validation_services.py: a false positive is a run that qualified securities
\* and whose period return was negative.
RatesBlameTheRightRun ==
  Is("runs") =>
    LET runs == OnePerDate(input.value)
        wrong == {i \in DOMAIN runs : /\ Matured(runs[i]) # <<>>
                                      /\ runs[i].passed > 0
                                      /\ Mean(Returns(Matured(runs[i]))) < 0}
        said == Scorecard(input.value).screening.falsePositives
    IN  said = None \/ said = Cardinality(wrong)

-----------------------------------------------------------------------------
(* Windows, drawdowns and effectiveness.                                     *)

\* What a window reports as missing is exactly what still has no run, and it
\* is reported on only if its calendar is long enough; a run counts once.
WindowIsHonest ==
  Is("window") =>
    LET v == input.value
        report == HistoricalValidation(v.calendar, v.label, v.existing, v.execute, v.fails)
        size == WindowSizes[v.label]
        dates == SubSeq(v.calendar, Len(v.calendar) - size + 1, Len(v.calendar))
    IN  IF Len(v.calendar) < size THEN report = <<>>
        ELSE /\ report[1].missing = Cardinality(ToSet(Sampled(dates)) \ report[1].runs)
             /\ report[1].errors <= report[1].missing
             /\ ValidationSummary(report)[1] <= ValidationSummary(report)[2]

\* The drawdown is the deepest fall from any earlier value of the account, and
\* that of scores from any earlier score.
DrawdownIsDeepest ==
  Is("returns") =>
    LET returns == input.value.strategy
        found == MaxDrawdown(returns)
        value[i \in 0..Len(returns)] ==
          IF i = 0 THEN 2 ^ Len(returns) ELSE (value[i - 1] * (2 + returns[i])) \div 2
        Falls == {<<value[i] - value[j], value[i], j - i>> :
                    i \in DOMAIN value, j \in DOMAIN value}
        after == {f \in Falls : f[3] >= 0}
    IN  /\ \A f \in after : f[1] * found.deepest[2] <= found.deepest[1] * f[2]
        /\ found.deepest[1] > 0 =>
             \E f \in after : /\ f[1] * found.deepest[2] = found.deepest[1] * f[2]
                              /\ f[3] = found.duration
        /\ LET scores == [i \in DOMAIN returns |-> returns[i] + 1]
               fall == ScoreDrawdown(scores)
           IN  \A i, j \in DOMAIN scores :
                 i <= j => (scores[i] - scores[j]) * fall[2] <= fall[1] * scores[i]

\* A strategy that is its benchmark is explained by it wholly.
RSquaredOfItself ==
  Is("returns") =>
    LET own == RSquared(input.value.strategy, input.value.strategy)
    IN  CoSum(input.value.strategy, input.value.strategy) = 0 \/ own[1] = own[2]

\* Evaluations whose return has not matured never change what is measured,
\* and never bring a verdict about where there was none; an engine is
\* recommended for exclusion on the strength of returns only.
UnmaturedIsNoEvidence ==
  Is("evals") =>
    LET rule == input.value.rule
        matured == WithReturn(rule)
        engines == input.value.engines
        report == EngineReport(engines)
    IN  /\ RuleVerdict(rule).delta = RuleVerdict(matured).delta
        /\ RuleVerdict(matured).weak = None => RuleVerdict(rule).weak = None
        /\ \A e \in report.excluded :
             \E i \in DOMAIN engines[e] : engines[e][i].return # None /\ engines[e][i].score > 0
        /\ \A e \in DOMAIN engines \ report.excluded :
             report.verdict[e].improves = TRUE \/ report.verdict[e].high = None

-----------------------------------------------------------------------------
(* Comparisons.                                                              *)

\* No security moved further than one that is shown without being shown,
\* whichever run comes first: what improved has regressed seen from the other
\* side. Rules shown first weigh no less than any other, those shown last no
\* more, in any order of the runs.
ShownAreExtreme ==
  /\ Is("snapshots") =>
       LET a == input.value.a
           b == input.value.b
           Largest(delta, shown, moved) ==
             /\ Len(shown) = Min({TopMovers, Cardinality(moved)})
             /\ ToSet(shown) \subseteq moved
             /\ \A s \in ToSet(shown), t \in moved \ ToSet(shown) : Abs(delta[t]) <= Abs(delta[s])
           RunsMirror(ab, ba) ==
             /\ Largest(ab.delta, ab.gainers, ab.improved) /\ Largest(ab.delta, ab.losers, ab.regressed)
             /\ ab.gainers = ba.losers /\ ab.losers = ba.gainers
             /\ ab.improved = ba.regressed /\ ab.rescored = ba.rescored /\ ab.rules = ba.rules
           StrategiesMirror(ab, ba) ==
             ab.scoreWins = Reverse(ba.scoreWins) /\ ab.sum = -ba.sum /\ ab.agree = ba.agree
       IN  /\ RunsMirror(CompareRuns(a, b), CompareRuns(b, a))
           /\ StrategiesMirror(CompareStrategies(1 :> a, 1 :> b), CompareStrategies(1 :> b, 1 :> a))
  /\ Is("rows") =>
       LET NoLess(w, v) == w[1] * v[2] >= v[1] * w[2]
           Sound(report, other) ==
             LET W(r) == report.stats[r].importance
                 Others(shown) == DOMAIN report.stats \ ToSet(shown)
             IN  /\ \A r \in ToSet(report.top), s \in Others(report.top) : NoLess(W(r), W(s))
                 /\ \A r \in ToSet(report.bottom), s \in Others(report.bottom) : NoLess(W(s), W(r))
                 /\ other.stats = report.stats /\ other.redundant = report.redundant
       IN  Sound(Contribution(input.value), Contribution(Reverse(input.value)))

\* An override changes what it names and nothing else, and of two the later
\* one holds.
OverridesAreLocal ==
  Is("overrides") =>
    LET config == input.value.config
        overrides == input.value.overrides
        result == ApplyOverrides(config, overrides)
        Holds(before, after, path, Names(_)) ==
          LET at == {i \in DOMAIN overrides : Names(overrides[i])}
          IN  IF at # {} THEN path \in DOMAIN after /\ after[path] = overrides[Max(at)].value
              ELSE path \in DOMAIN before => after[path] = before[path]
    IN  \A path \in {overrides[i].path : i \in DOMAIN overrides} \cup DOMAIN config.own :
          /\ Holds(config.own, result.own, path, LAMBDA o : o.engine = None /\ o.path = path)
          /\ \A e \in DOMAIN config.engines :
               LET old == config.engines[e]
                   new == result.engines[e]
               IN  /\ Holds(old.own, new.own, path,
                            LAMBDA o : o.engine = e /\ o.rule = None /\ o.path = path)
                   /\ \A r \in DOMAIN old.rules :
                        Holds(old.rules[r], new.rules[r], path,
                              LAMBDA o : o.engine = e /\ o.rule \in {r, "*"} /\ o.path = path)

\* The reports of windows, drawdowns, comparisons and overrides are what they
\* say they are, each in the sense of its part above.
ReportsAreTrue ==
  /\ WindowIsHonest
  /\ DrawdownIsDeepest
  /\ ShownAreExtreme
  /\ OverridesAreLocal

-----------------------------------------------------------------------------
(* What the code does not keep: TLC refutes each of these.                   *)

\* RunComparisonReport.is_identical and DeterminismVerificationUseCase
\* ("verifies identical outputs"): runs called identical are the same.
IdenticalMeansSame ==
  Is("snapshots") => (VerifyDeterminism(input.value.a, input.value.b) => input.value.a = input.value.b)

\* EvaluateStrategyUseCase: the first run of an evaluation is its oldest.
EvaluationStartsAtItsOldest ==
  Is("runs") =>
    LET runs == [i \in DOMAIN input.value |-> input.value[i] @@ ("strategy" :> 1)]
        report == Evaluate(runs, 1, 2, 1, 2)
    IN  report.runs = 0 \/ report.first <= report.last

\* ExperimentUseCase: a variant that scores what the base does is no better.
NothingBeatsItself ==
  Is("returns") => Experiment(input.value.strategy, input.value.strategy).best = None
=============================================================================
