------------------------------ MODULE Analysis ------------------------------
(* The calculations behind a screening: what must hold of the engines'      *)
(* verdicts, the gates and the ranking.                                      *)
EXTENDS Inputs, Scoring

-----------------------------------------------------------------------------
(* Series of bars. The input holds closes as they would be without the       *)
(* split, the volumes, and the first bar after a two-for-one split.          *)

BarsOf(v) ==
  [i \in DOMAIN v.closes |->
     LET open == IF i = 1 THEN v.closes[1] ELSE v.closes[i - 1]
         close == v.closes[i]
     IN  [open |-> open, close |-> close, volume |-> v.volumes[i],
          high |-> IF open > close THEN open ELSE close,
          low |-> IF open < close THEN open ELSE close]]

\* What the exchange printed.
PrintedBars(v) ==
  LET bars == BarsOf(v)
  IN  [i \in DOMAIN bars |->
         IF i >= v.split THEN bars[i]
         ELSE [open |-> 2 * bars[i].open, close |-> 2 * bars[i].close,
               high |-> 2 * bars[i].high, low |-> 2 * bars[i].low,
               volume |-> bars[i].volume \div 2]]

\* The indicator pipeline adjusts its bars, so these do not know of the split.
Context(v, bars) ==
  [bars |-> bars, avgVolume |-> 3, relVolume |-> 150, sma50 |-> None, adr |-> 5, atr |-> None,
   rs |-> 80, rsSlope |-> 1, sectorRs |-> 60, industryRs |-> None]

SeriesEngines(c) == {<<"volume_accumulation", VolumeAccumulation(c)>>,
                     <<"breakout", Breakout(c)>>,
                     <<"momentum_quality", MomentumQuality(c)>>,
                     <<"relative_strength", RelativeStrength(c)>>}

\* Closes above zero, as data_quality.py asks for.
ASSUME SeriesAssumption ==
  "series" \in DOMAIN Inputs =>
    \A v \in Inputs["series"] :
      /\ v.closes \in Seq(Nat \ {0}) /\ v.volumes \in [DOMAIN v.closes -> Nat] /\ v.split \in Int

ASSUME BasesAssumption == "bases" \in DOMAIN Inputs => \A bars \in Inputs["bases"] : Drawn(bars)

\* A detector's quality is a percentage, and the same at twice the price.
BasesAreSound ==
  Is("bases") =>
    LET bars == input.value
        Twice(b) == [b EXCEPT !.open = 2 * @, !.high = 2 * @, !.low = 2 * @, !.close = 2 * @]
        Sound(results, doubled) ==
          /\ \A p \in DOMAIN results : results[p].part \in 0..100
          /\ EngineScore("pattern", results) \in 0..100
          /\ results = doubled
    IN  Sound(Pattern(bars), Pattern([i \in DOMAIN bars |-> Twice(bars[i])]))

\* The quality of a base tells one from another.
QualityTells ==
  Is("bases") => AscendingBase(input.value) \in {None} \cup 0..99

\* No rule of these engines contributes more than its weight or less than
\* nothing, so that each engine's score is a percentage (momentum_quality.py
\* asserts it for one rule). The risk engine is another matter.
EngineScoresArePercentages ==
  Is("series") =>
    \A e \in SeriesEngines(Context(input.value, PrintedBars(input.value))) :
      /\ \A r \in DOMAIN e[2] : e[2][r].part \in 0..100
      /\ EngineScore(e[1], e[2]) \in 0..100

\* risk.py calls each of its parts clamped to [0, 1].
RiskPartsAreClamped ==
  Is("series") =>
    LET risk == Risk(Context(input.value, BarsOf(input.value)))
    IN  \A r \in DOMAIN risk : risk[r].part \in 0..100

\* A split changes the prints and not the company: engines should say of the
\* printed bars what they say of the adjusted ones.
SplitsDoNotMoveEngines ==
  Is("series") =>
    LET printed == Context(input.value, PrintedBars(input.value))
        adjusted == Context(input.value, BarsOf(input.value))
    IN  Breakout(printed) = Breakout(adjusted)

-----------------------------------------------------------------------------
(* Missing indicators.                                                       *)

Qualifies(c) ==
  /\ AllPass(TrendTemplate(c))
  /\ LiquidityMin(c).passed

\* What the pipeline knows of a session: its extremes are above zero, and
\* the distances from them are those of the latest close.
Observed(c) ==
  LET close == LastClose(c.bars)
  IN  /\ DOMAIN c = {"bars", "sma50", "sma150", "sma200", "slope", "low52", "high52", "aboveLow", "belowHigh",
                      "rs", "avgVolume"}
      /\ c = [x \in DOMAIN c |-> c[x]]
      /\ close \in Int \cup {None} /\ {c.low52, c.high52} \subseteq (Nat \ {0}) \cup {None}
      /\ c.aboveLow # None => None \notin {close, c.low52} /\ c.aboveLow = Percent(close - c.low52, c.low52)
      /\ c.belowHigh # None => None \notin {close, c.high52} /\ c.belowHigh = Percent(c.high52 - close, c.high52)

ASSUME ContextsAssumption == "context" \in DOMAIN Inputs => \A c \in Inputs["context"] : Observed(c)

\* Not knowing an indicator never lets a security through the gates that
\* would stop it if the indicator were known.
MissingDataNeverQualifies ==
  Is("context") =>
    \A f \in DOMAIN input.value \ {"bars"} :
      Qualifies([input.value EXCEPT ![f] = None]) => Qualifies(input.value)

\* What the engines say can be weighed and ranked: percentages, and no
\* security let through for want of an indicator.
EnginesAreSound == EngineScoresArePercentages /\ BasesAreSound /\ MissingDataNeverQualifies

-----------------------------------------------------------------------------
(* Gates.                                                                    *)

\* The strategies shipped: the trend template is the only engine that gates,
\* with rules listed; a rule gate is one of the rules listed for its engine, and
\* no rule listed is another engine's. all: what every rule of every engine says.
AsShipped(strategy, all) ==
  /\ Len(strategy) \in Nat \ {0} /\ DOMAIN strategy = 1..Len(strategy) /\ HasGate(strategy)
  /\ \A i \in DOMAIN strategy :
       /\ DOMAIN strategy[i] = {"id", "gate", "rules", "ruleGates"} /\ strategy[i].gate \in BOOLEAN
       /\ strategy[i].gate => /\ strategy[i].id = "trend_template"
                             /\ strategy[i].rules \cap DOMAIN all["trend_template"] # {}
       /\ strategy[i].ruleGates \subseteq strategy[i].rules
       /\ \A j \in DOMAIN strategy \ {i} : strategy[i].rules \cap DOMAIN all[strategy[j].id] = {}
       /\ IsFiniteSet(DOMAIN all[strategy[i].id])
       /\ \A r \in DOMAIN all[strategy[i].id] : all[strategy[i].id][r].part \in Int

ASSUME StrategiesAssumption ==
  /\ "gate" \in DOMAIN Inputs => \A v \in Inputs["gate"] : AsShipped(v.strategy, v.results)
  /\ "pair" \in DOMAIN Inputs =>
       \A v \in Inputs["pair"] : AsShipped(v.strategy, v.one) /\ AsShipped(v.strategy, v.two)

\* One score a security.
ScoredOnce(scores) ==
  /\ Len(scores) \in Nat /\ DOMAIN scores = 1..Len(scores)
  /\ \A i \in DOMAIN scores : /\ {scores[i].momentum, scores[i].setup, scores[i].rs, scores[i].security} \subseteq Int
                              /\ scores[i].passed \in BOOLEAN
  /\ \A i, j \in DOMAIN scores : scores[i].security = scores[j].security => i = j

ASSUME ScoresAssumption == "ranking" \in DOMAIN Inputs => \A v \in Inputs["ranking"] : ScoredOnce(v)

\* The two readings of a strategy's gates agree: a security passes the hard
\* filters exactly if its explanation names no failing gate rule, and the
\* rationale never says both. Checked for the shapes of the strategies shipped.
GateStoryAgrees ==
  Is("gate") =>
    LET s == input.value.strategy
        results == EngineResults(s, input.value.results)
        passed == HardFiltersPassed(s, results)
    IN  /\ passed <=> HardFilterFailures(s, results) = {}
        /\ GateSentence(s, results, passed) # "does not clear"

\* Leaving gate engines out of the scores never changes who is ahead among
\* those that pass (scoring_engine.py calls it rank-neutral), and ranks are 1
\* to n without gap or tie, whatever the order in which evaluations ended.
RankingIsFair ==
  /\ Is("pair") =>
       LET s == input.value.strategy
           open == [i \in DOMAIN s |-> [s[i] EXCEPT !.gate = FALSE]]
           one == EngineResults(s, input.value.one)
           two == EngineResults(s, input.value.two)
           Score(t, results) == WeightedScore(t, results, [e \in {s[i].id : i \in DOMAIN s} |-> 1])
       IN  /\ HardFiltersPassed(s, one) /\ HardFiltersPassed(s, two)
           /\ Score(s, one) > Score(s, two)
           => Score(open, one) >= Score(open, two)
  /\ Is("ranking") =>
       LET scores == input.value
           rank == RankOf(scores)
           passing == {i \in DOMAIN scores : scores[i].passed}
           back == RankOf(Reverse(scores))
       IN  /\ {rank[i] : i \in passing} = 1..Cardinality(passing)
           /\ \A i \in DOMAIN scores : rank[i] = back[Len(scores) + 1 - i]
=============================================================================
