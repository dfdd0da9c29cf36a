--------------------------------- MODULE Shapes ---------------------------------
(* What must hold of wave counts and chart patterns.                         *)
EXTENDS Inputs, ChartPatterns

\* The same chart at twice the price, as after a split of one into two undone.
Doubled(bars) ==
  [i \in DOMAIN bars |-> [bars[i] EXCEPT !.high = 2 * @, !.low = 2 * @, !.close = 2 * @]]

\* The same swings upside down.
Mirrored(pivots, top) ==
  [i \in DOMAIN pivots |-> [date |-> pivots[i].date, price |-> top - pivots[i].price,
                            kind |-> IF pivots[i].kind = "H" THEN "L" ELSE "H"]]

\* What is said of a count, whichever way it points and at whatever price.
Essence(count) ==
  [f \in DOMAIN count \ {"prices", "up", "projection", "subdivisions"} |-> count[f]]

Essences(counts) == [k \in DOMAIN counts |-> Essence(counts[k])]

\* Swings alternate and follow one another, and are those of the same chart at
\* twice the price.
SwingsAreSound(bars, pivots, percent) ==
  /\ \A i \in 2..Len(pivots) : /\ pivots[i - 1].kind # pivots[i].kind
                               /\ pivots[i - 1].date < pivots[i].date
  /\ ZigzagPivots(Doubled(bars), percent)
     = [i \in DOMAIN pivots |-> [pivots[i] EXCEPT !.price = 2 * @]]

\* Competing counts differ in structure, end together and are near the best,
\* which is shown first; where they are not told apart by any component, their
\* scores are the same.
CountsCompete(counts) ==
  \A j, k \in DOMAIN counts : j < k =>
    /\ counts[j].pattern # counts[k].pattern
    /\ LastOf(counts[j].dates) = LastOf(counts[k].dates)
    /\ counts[j].score >= counts[k].score /\ counts[1].score - counts[k].score <= CompetitiveMargin
    /\ Decisive(counts[1], counts[k]) = {} => counts[1].score = counts[k].score

\* What is labelled inside a leg stays inside it, in date and in degree.
LegsHoldTheirParts(count) ==
  \A k \in DOMAIN count.subdivisions :
    LET part == count.subdivisions[k]
        dates == part.count.dates
    IN  /\ count.dates[part.of] <= dates[1] /\ LastOf(dates) <= count.dates[part.of + 1]
        /\ part.count.degree <= count.degree
        /\ \A m \in DOMAIN part.subdivisions :
             LET inner == part.subdivisions[m].count.dates
             IN  dates[1] <= inner[1] /\ LastOf(inner) <= LastOf(dates)

\* The counts of a chart are rival readings of its last move, its finer counts
\* stay in their legs, and a falling structure is judged like a rising one.
CountsReadTheChart ==
  LET Plain(pivots, bars) == Essences(LabelWaves(pivots, bars, Len(bars), FALSE))
      Sound(v, report) ==
        /\ SwingsAreSound(v.bars, report.pivots, report.top)
        /\ CountsCompete(report.counts)
        /\ \A k \in DOMAIN report.counts : LegsHoldTheirParts(report.counts[k])
        /\ Plain(report.pivots, v.bars) = Plain(Mirrored(report.pivots, 1000), v.bars)
      Of(v) == Sound(v, AnalyzeElliottWave(v.bars, v.percent, v.measured))
  IN  Is("swings") => Of(input.value)

\* The formations on a chart can be told apart and put in order, no two
\* swings' lines have two shapes, and all are those of the chart at twice the
\* price.
FormationsAreDistinct ==
  Is("swings") =>
    LET bars == input.value.bars
        found == DetectChartPatterns(bars, input.value.percent).patterns
        Lines(f) == f.pattern \in DOMAIN TrendlineShapes
    IN  /\ \A f, g \in found : f.starts = g.starts /\ f # g =>
             /\ f.pattern # g.pattern
             /\ ~(Lines(f) /\ Lines(g))
             /\ {f.pattern, g.pattern} # {"flag", "pennant"}
        /\ found = DetectChartPatterns(Doubled(bars), input.value.percent).patterns

-----------------------------------------------------------------------------
(* What the code does not keep: TLC refutes each of these.                   *)

\* A swing is the extreme of the bars up to the next.
SwingsAreExtreme ==
  Is("swings") =>
    LET v == input.value
        pivots == ZigzagPivots(v.bars, v.percent)
    IN  \A i \in 2..Len(pivots) : \A d \in pivots[i - 1].date..pivots[i].date :
          IF pivots[i].kind = "H" THEN v.bars[d].high <= pivots[i].price
          ELSE v.bars[d].low >= pivots[i].price

\* A zone in which a wave may end holds prices a share can have.
ZonesArePrices ==
  Is("swings") =>
    LET v == input.value
        report == AnalyzeElliottWave(v.bars, v.percent, v.measured)
    IN  \A k \in DOMAIN report.counts :
          report.counts[k].projection # None => report.counts[k].projection.low > 0

\* A double top is two tops with a valley between them.
TopsStandOverTheirValley ==
  Is("swings") =>
    LET v == input.value
        pivots == ZigzagPivots(v.bars, v.percent)
        At(d) == CHOOSE i \in DOMAIN pivots : pivots[i].date = d
    IN  \A f \in DetectChartPatterns(v.bars, v.percent).patterns :
          f.pattern = "double_top" => pivots[At(f.starts) + 1].price < pivots[At(f.starts)].price
================================================================================
