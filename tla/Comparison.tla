------------------------------ MODULE Comparison ------------------------------
(* How research compares runs, strategies and rules. A snapshot of a run maps *)
(* each of its securities to [rank, momentum, buy, rules], where rules maps a *)
(* rule to [passed, raw, contribution] and a rank or a raw value may be None. *)
EXTENDS Validation

CONSTANT
  TopMovers        \* 10 gainers, losers and rules are shown

\* The difference of two ranks: positive means a better rank in b.
RankDelta(a, b) == IF None \in {a.rank, b.rank} THEN None ELSE a.rank - b.rank

\* Rules of both that passed in one only, or saw another value.
RuleDiffs(a, b) ==
  {<<s, r>> \in UNION {{t} \X (DOMAIN a[t].rules \cap DOMAIN b[t].rules) : t \in DOMAIN a \cap DOMAIN b} :
     \/ a[s].rules[r].passed # b[s].rules[r].passed
     \/ a[s].rules[r].raw # b[s].rules[r].raw}

\* The largest movers of one sign, ties by symbol.
Shown(delta, sign) ==
  LET valid == {s \in DOMAIN delta : delta[s] # None}
      sorted == SetToSortSeq(valid, LAMBDA s, t :
                  Abs(delta[s]) > Abs(delta[t]) \/ (Abs(delta[s]) = Abs(delta[t]) /\ s < t))
      side == SelectSeq(sorted, LAMBDA s : sign * delta[s] > 0)
  IN  SubSeq(side, 1, Min({TopMovers, Len(side)}))

\* Securities of both runs; a rank that appears or is lost is no change.
CompareRuns(a, b) ==
  LET common == DOMAIN a \cap DOMAIN b
      delta == [s \in common |-> RankDelta(a[s], b[s])]
      moved(sign) == {s \in common : delta[s] # None /\ sign * delta[s] > 0}
  IN  [common |-> common, delta |-> delta, improved |-> moved(1), regressed |-> moved(-1),
       rescored |-> {s \in common : a[s].momentum # b[s].momentum \/ a[s].buy # b[s].buy},
       rules |-> RuleDiffs(a, b), gainers |-> Shown(delta, 1), losers |-> Shown(delta, -1)]

IsIdentical(report) ==
  report.improved \cup report.regressed = {} /\ report.rescored = {}

\* Two runs of one screening, compared.
VerifyDeterminism(a, b) == IsIdentical(CompareRuns(a, b))

\* Strategies are compared on the dates of both: a and b map dates to
\* snapshots. Correlation is the share of equal ranks.
CompareStrategies(a, b) ==
  LET Snaps == UNION {{d} \X (DOMAIN a[d] \cap DOMAIN b[d]) : d \in DOMAIN a \cap DOMAIN b}
      A(p) == a[p[1]][p[2]]
      B(p) == b[p[1]][p[2]]
      Passed(x) == x.rank # None
      ranked == {p \in Snaps : None \notin {A(p).rank, B(p).rank}}
      deltas == SetToSortSeq({<<B(p).momentum - A(p).momentum, p>> : p \in Snaps},
                             LAMBDA x, y : x[1] < y[1] \/ (x[1] = y[1] /\ x[2][1] * 100 + x[2][2] < y[2][1] * 100 + y[2][2]))
      n == Len(deltas)
  IN  [dates |-> DOMAIN a \cap DOMAIN b,
       sum |-> Total([i \in 1..n |-> deltas[i][1]]), points |-> n,
       median |-> IF n = 0 THEN 0 ELSE deltas[n \div 2 + 1][1],
       max |-> IF n = 0 THEN 0 ELSE deltas[n][1],
       agree |-> <<Cardinality({p \in ranked : A(p).rank = B(p).rank}), Cardinality(ranked)>>,
       rules |-> UNION {{d} \X RuleDiffs(a[d], b[d]) : d \in DOMAIN a \cap DOMAIN b},
       scoreWins |-> <<Cardinality({p \in Snaps : A(p).momentum > B(p).momentum}),
                       Cardinality({p \in Snaps : B(p).momentum > A(p).momentum})>>,
       passWins |-> <<Cardinality({p \in Snaps : Passed(A(p)) /\ ~Passed(B(p))}),
                      Cardinality({p \in Snaps : Passed(B(p)) /\ ~Passed(A(p))})>>]

-----------------------------------------------------------------------------
(* A strategy's performance over its runs, in the order they are given.      *)

\* The deepest fall from a peak of a series of scores, as a fraction.
ScoreDrawdown(scores) ==
  LET Step(s, x) ==
        LET peak == Max({s.peak, x})
        IN  [peak |-> peak,
             deepest |-> IF peak > 0 /\ (peak - x) * s.deepest[2] > s.deepest[1] * peak
                         THEN <<peak - x, peak>> ELSE s.deepest]
  IN  IF Len(scores) < 2 THEN <<0, 1>>
      ELSE FoldLeft(LAMBDA s, x : Step(s, x), [peak |-> scores[1], deepest |-> <<0, 1>>], scores).deepest

\* The sum of the increases of a series over the sum of its decreases.
GainLossRatio(scores) ==
  LET Change(i) == scores[i + 1] - scores[i]
      gains == Total([i \in 1..(Len(scores) - 1) |-> Max({Change(i), 0})])
      losses == Total([i \in 1..(Len(scores) - 1) |-> Max({-Change(i), 0})])
  IN  IF Len(scores) < 2 THEN <<0, 1>>
      ELSE IF losses = 0 THEN IF gains > 0 THEN <<9999999, 10000>> ELSE <<0, 1>>
      ELSE <<gains, losses>>

Performance(summaries) ==
  LET n == Len(summaries)
      scores == [i \in 1..n |-> summaries[i].momentum]
      sorted == SortSeq(scores, LAMBDA x, y : x < y)
      rated == SelectSeq(summaries, LAMBDA s : s.evaluated > 0)
  IN  IF n = 0 THEN [runs |-> 0, drawdown |-> <<0, 1>>, ratio |-> <<0, 1>>]
      ELSE [runs |-> n, first |-> summaries[1].date, last |-> summaries[n].date,
            momentum |-> Mean(scores), median |-> sorted[n \div 2 + 1],
            max |-> sorted[n], min |-> sorted[1],
            passRates |-> [i \in DOMAIN rated |-> <<rated[i].passed, rated[i].evaluated>>],
            drawdown |-> ScoreDrawdown(scores), ratio |-> GainLossRatio(scores)]

\* The newest runs of any strategy, of which the strategy's are kept: they
\* reach Performance newest first. A run without rankings has no summary.
Evaluate(runs, strategy, max, from, to) ==
  LET own == SelectSeq(SubSeq(runs, 1, Min({max, Len(runs)})),
                       LAMBDA r : r.strategy = strategy /\ from <= r.date /\ r.date <= to)
      kept == SelectSeq(own, LAMBDA r : r.rankings # <<>>)
  IN  Performance([i \in DOMAIN kept |->
        [evaluated |-> kept[i].evaluated, passed |-> kept[i].passed, date |-> kept[i].date,
         momentum |-> Mean([j \in DOMAIN kept[i].rankings |-> kept[i].rankings[j].momentum])]])

-----------------------------------------------------------------------------
(* What the rules contribute. A row is one rule for one security in one run. *)

RuleStats(rows, rule) ==
  LET own == SelectSeq(rows, LAMBDA w : w.rule = rule)
      passes == Len(SelectSeq(own, LAMBDA w : w.passed))
      total == Total([i \in DOMAIN own |-> own[i].contribution])
      raws == SelectSeq(own, LAMBDA w : w.raw # None)
  IN  [count |-> Len(own), passes |-> passes, total |-> total,
       raw |-> MeanOrNone([i \in DOMAIN raws |-> raws[i].raw]),
       importance |-> <<total * passes, Len(own) * Len(own)>>]

\* The rules by importance (mean contribution times pass rate), ties in the order
\* they are met.
Contribution(rows) ==
  LET First(r) == Min({i \in DOMAIN rows : rows[i].rule = r})
      Ranked(stats) ==
        LET More(w, v) == w[1] * v[2] > v[1] * w[2]
        IN  SetToSortSeq(DOMAIN stats, LAMBDA r, s :
              \/ More(stats[r].importance, stats[s].importance)
              \/ ~More(stats[s].importance, stats[r].importance) /\ First(r) < First(s))
      Report(stats, ranked) ==
        [runs |-> Cardinality({rows[i].run : i \in DOMAIN rows}),
         securities |-> Cardinality({rows[i].security : i \in DOMAIN rows}),
         stats |-> stats,
         engines |-> [e \in {rows[i].engine : i \in DOMAIN rows} |->
           LET own == {rows[i].rule : i \in {k \in DOMAIN rows : rows[k].engine = e}}
           IN  [runs |-> Max({stats[r].count : r \in own}), rules |-> own]],
         top |-> SubSeq(ranked, 1, Min({TopMovers, Len(ranked)})),
         bottom |-> Reverse(SubSeq(ranked, Max({1, Len(ranked) - TopMovers + 1}), Len(ranked))),
         redundant |-> {r \in DOMAIN stats : stats[r].passes = stats[r].count}]
      Of(stats) == Report(stats, Ranked(stats))
  IN  Of([r \in {rows[i].rule : i \in DOMAIN rows} |-> RuleStats(rows, r)])

-----------------------------------------------------------------------------
(* Experiments.                                                              *)

\* The path of a leaf is set, and what lay below it goes. (To pass through
\* another leaf raises: no such path is given here.)
SetNested(config, path, value) ==
  [p \in {q \in DOMAIN config : ~IsPrefix(path, q)} \cup {path} |->
     IF p = path THEN value ELSE config[p]]

\* config: [own, engines], an engine: [own, rules], a rule: path -> leaf. An
\* override names the top, an engine, a rule, or every rule ("*") of an engine;
\* one that names what is not there does nothing.
Override(config, o) ==
  IF o.engine = None THEN [config EXCEPT !.own = SetNested(@, o.path, o.value)]
  ELSE [config EXCEPT !.engines = [e \in DOMAIN @ |->
          IF e # o.engine THEN @[e]
          ELSE IF o.rule = None THEN [@[e] EXCEPT !.own = SetNested(@, o.path, o.value)]
          ELSE [@[e] EXCEPT !.rules = [r \in DOMAIN @ |->
                  IF o.rule \in {r, "*"} THEN SetNested(@[r], o.path, o.value) ELSE @[r]]]]]

ApplyOverrides(config, overrides) == FoldLeft(LAMBDA c, o : Override(c, o), config, overrides)

\* Each date has one result per variant; the base strategy stands in for it.
\* The best variant beats the base's result on the first date.
Experiment(base, variant) ==
  LET baseline == IF base = <<>> THEN 0 ELSE base[1]
      better == {i \in DOMAIN variant : variant[i] > baseline}
  IN  [best |-> IF better = {} THEN None ELSE "variant_1",
       improvement |-> IF better = {} THEN 0 ELSE Max({variant[i] - baseline : i \in better})]
=============================================================================
