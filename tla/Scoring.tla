------------------------------- MODULE Scoring -------------------------------
(* From rule results to scores, gates, ranks and explanations. A strategy is *)
(* a sequence of engines, each [id, gate, rules, ruleGates]: an empty set of *)
(* rules stands for all of them. Scores are percentages.                     *)
EXTENDS Engines

-----------------------------------------------------------------------------
(* One engine.                                                               *)

\* Documented weights, doubled.
RuleWeight(rule) ==
  CASE rule \in {"tt_rs_rating_min", "bo_pivot_breakout"} -> 3
    [] rule = "rs_rating" -> 4
    [] rule \in {"bo_false_breakout", "rs_industry_relative", "risk_atr"} -> 1
    [] OTHER -> 2

Included(engine, rule) == engine.rules = {} \/ rule \in engine.rules

\* The results of the rules this engine was configured with.
Selected(engine, all) ==
  [r \in {q \in DOMAIN all : Included(engine, q)} |-> all[r]]

AllPass(results) == \A r \in DOMAIN results : results[r].passed

\* Share of the rules passed for the trend template, of the weight for others.
EngineScore(id, results) ==
  LET weight == [r \in DOMAIN results |-> IF id = "trend_template" THEN 1 ELSE RuleWeight(r)]
      Part(r) == IF id = "trend_template" THEN (IF results[r].passed THEN 100 ELSE 0)
                 ELSE results[r].part
      total == SumFunction(weight)
  IN  IF total = 0 THEN 0
      ELSE SumFunction([r \in DOMAIN results |-> weight[r] * Part(r)]) \div total

\* Only the trend template and volume are gates; the latter stands or falls
\* with its liquidity rule where that one is a gate.
PassedGate(engine, results) ==
  CASE engine.id = "trend_template" -> DOMAIN results # {} /\ AllPass(results)
    [] engine.id = "volume_accumulation" ->
         IF "vol_liquidity_min" \in engine.ruleGates
         THEN results["vol_liquidity_min"].passed
         ELSE DOMAIN results # {} /\ AllPass(results)
    [] OTHER -> FALSE

EngineResult(engine, all) ==
  LET results == Selected(engine, all)
  IN  [id |-> engine.id, rules |-> results, score |-> EngineScore(engine.id, results),
       passedGate |-> PassedGate(engine, results)]

\* tt_sma_stack stands for the whole chain only beside tt_sma150_above_sma200.
IsValidConfig(strategy) ==
  \A i \in DOMAIN strategy :
    strategy[i].id = "trend_template" /\ Included(strategy[i], "tt_sma_stack")
      => Included(strategy[i], "tt_sma150_above_sma200")

-----------------------------------------------------------------------------
(* One security.                                                             *)

\* all: engine -> results of every rule it has.
EngineResults(strategy, all) ==
  [i \in DOMAIN strategy |-> EngineResult(strategy[i], all[strategy[i].id])]

HasGate(strategy) == \E i \in DOMAIN strategy : strategy[i].gate \/ strategy[i].ruleGates # {}

\* Slip: only the gates of engines are looked at.
EngineGatesPassed(strategy, results) ==
  \A i \in DOMAIN strategy : strategy[i].gate => results[i].passedGate

\* Every gate, of an engine or of a rule; without one, every engine's own.
HardFiltersPassed(strategy, results) ==
  IF HasGate(strategy)
  THEN \A i \in DOMAIN strategy :
         /\ strategy[i].gate => results[i].passedGate
         /\ \A r \in DOMAIN results[i].rules \cap strategy[i].ruleGates :
              results[i].rules[r].passed
  ELSE \A i \in DOMAIN strategy : results[i].passedGate

\* The weighted mean of the engines that are no gate.
WeightedScore(strategy, results, weights) ==
  LET ranked == {i \in DOMAIN strategy : ~strategy[i].gate}
      weight == [i \in ranked |-> weights[strategy[i].id]]
      total == SumFunction(weight)
  IN  IF total = 0 THEN 0
      ELSE SumFunction([i \in ranked |-> weight[i] * results[i].score]) \div total

\* The figure of the first rule about the rating, in the engines' order.
ExtractRsRating(results, rating) ==
  IF \E i \in DOMAIN results :
       {"rs_rating", "tt_rs_rating_min"} \cap DOMAIN results[i].rules # {}
  THEN (IF rating = None THEN 0 ELSE rating)
  ELSE 0

StockScore(security, strategy, all, momentumWeights, setupWeights, rating) ==
  LET results == EngineResults(strategy, all)
  IN  [security |-> security,
       momentum |-> WeightedScore(strategy, results, momentumWeights),
       setup |-> WeightedScore(strategy, results, setupWeights),
       rs |-> ExtractRsRating(results, rating),
       passed |-> HardFiltersPassed(strategy, results)]

-----------------------------------------------------------------------------
(* Ranking.                                                                  *)

\* Slip: the tie between equal scores is left to the order of evaluation.
OutranksOrTies(a, b) ==
  \/ a.momentum > b.momentum
  \/ a.momentum = b.momentum /\ a.setup > b.setup
  \/ a.momentum = b.momentum /\ a.setup = b.setup /\ a.rs > b.rs

\* By momentum, then setup, then rating, then the smaller identifier.
Outranks(a, b) ==
  \/ a.momentum > b.momentum
  \/ a.momentum = b.momentum /\ a.setup > b.setup
  \/ a.momentum = b.momentum /\ a.setup = b.setup /\ a.rs > b.rs
  \/ /\ a.momentum = b.momentum /\ a.setup = b.setup /\ a.rs = b.rs
     /\ a.security < b.security

\* scores is a sequence, in the order the coroutines ended; sorting is stable.
\* The rank of each entry, None for one that failed a hard filter.
RankOf(scores) ==
  LET passing == {i \in DOMAIN scores : scores[i].passed}
      Ahead(i, j) == \/ Outranks(scores[i], scores[j])
                     \/ ~Outranks(scores[j], scores[i]) /\ i < j
  IN  [i \in DOMAIN scores |->
         IF i \in passing THEN 1 + Cardinality({j \in passing : j # i /\ Ahead(j, i)})
         ELSE None]

\* Rank 1 of n is 100, the others evenly below; nothing outside 1..n.
Percentile(rank, n) ==
  IF n = None \/ rank \notin 1..n THEN None
  ELSE IF n = 1 THEN 100
  ELSE RoundHalfEven(100 * (n - rank + 1), n)

-----------------------------------------------------------------------------
(* Explanations.                                                             *)

\* The identifiers of every rule whose failure blocks qualification.
GateRuleIds(strategy) ==
  IF HasGate(strategy)
  THEN UNION {IF strategy[i].gate THEN strategy[i].rules ELSE strategy[i].ruleGates :
                i \in DOMAIN strategy}
  ELSE UNION {strategy[i].rules : i \in DOMAIN strategy}

\* The failing rules an explanation calls hard filters.
HardFilterFailures(strategy, results) ==
  UNION {{r \in DOMAIN results[i].rules :
            r \in GateRuleIds(strategy) /\ ~results[i].rules[r].passed} :
         i \in DOMAIN results}

\* What the rationale says of the gates.
GateSentence(strategy, results, passed) ==
  IF HardFilterFailures(strategy, results) # {} THEN "blocked"
  ELSE IF passed THEN "clears" ELSE "does not clear"

Failed(results, rules) ==
  Cardinality({r \in rules \cap DOMAIN results : ~results[r].passed})

\* The dashboard's buckets: failures of the risk rules, passes of the volume
\* rules, and the distance to the pivot.
RiskBucket(results) ==
  CASE Failed(results, {"risk_extension", "risk_atr", "risk_rr"}) = 0 -> "Low"
    [] Failed(results, {"risk_extension", "risk_atr", "risk_rr"}) = 1 -> "Medium"
    [] OTHER -> "High"

BreakoutBucket(percent) ==
  CASE percent = None -> None
    [] percent >= 90 -> "Strong"
    [] percent >= 70 -> "Moderate"
    [] OTHER -> "Weak"
=============================================================================
