-------------------------------- MODULE Counts --------------------------------
(* The counts of a chart (domain/analytics/elliott/{personality,ranking,      *)
(* analysis}.py): every structure that can start at a pivot, ordered by what  *)
(* speaks for it, and the structures inside the legs of those shown.         *)
EXTENDS Waves

-----------------------------------------------------------------------------
(* Personality: what volume, trend strength and momentum say of the labels,   *)
(* as a sequence of TRUE, FALSE and None. A mean is <<sum, count>> or None.  *)

MeanOf(values) ==
  LET known == SelectSeq(values, LAMBDA v : v # None)
  IN  IF known = <<>> THEN None ELSE <<Total(known), Len(known)>>

Exceeds(a, b) == a[1] * b[2] > b[1] * a[2]

\* The leg that ends at label i, over the bars from the label before it.
LegStats(bars, count, i) ==
  LET leg == SelectSeq(bars, LAMBDA b : count.dates[i] <= b.date /\ b.date <= count.dates[i + 1])
  IN  [volume |-> MeanOf([k \in DOMAIN leg |-> leg[k].volume]),
       adx |-> MeanOf([k \in DOMAIN leg |-> leg[k].adx]),
       rsi |-> IF LastOf(leg).rsi = None THEN None ELSE <<LastOf(leg).rsi, 1>>,
       length |-> Abs(count.prices[i + 1] - count.prices[i])]

Greater(a, b) == Judged(None \notin {a, b}, Exceeds(a, b))

\* Greater than each of the others that is known.
Heaviest(a, others) ==
  LET known == others \ {None}
  IN  Judged(a # None /\ known # {}, \A b \in known : Exceeds(a, b))

ImpulseChecks(leg) ==
  LET n == Len(leg)
      Others(field(_)) == {field(leg[i]) : i \in (1..n) \ {3}}
      Volume(l) == l.volume
      Adx(l) == l.adx
  IN  (IF n < 3 THEN <<>> ELSE <<Greater(leg[3].volume, leg[1].volume)>>)
      \o <<2 * leg[2].length >= leg[1].length, Greater(leg[1].volume, leg[2].volume)>>
      \o (IF n < 3 THEN <<>>
          ELSE <<Heaviest(leg[3].volume, Others(Volume)), Heaviest(leg[3].adx, Others(Adx))>>)
      \o (IF n < 4 THEN <<>>
          ELSE <<2 * leg[4].length <= leg[3].length, Greater(leg[3].volume, leg[4].volume)>>)
      \o (IF n < 5 THEN <<>>
          ELSE <<Greater(leg[3].volume, leg[5].volume), Greater(leg[3].rsi, leg[5].rsi)>>)

CorrectiveChecks(leg) ==
  <<Greater(leg[1].volume, leg[2].volume)>>
  \o (IF Len(leg) < 3 THEN <<>>
      ELSE <<Greater(leg[3].volume, leg[2].volume), Greater(leg[3].adx, leg[2].adx)>>)

TriangleChecks(leg) ==
  LET volumes == SelectSeq([i \in DOMAIN leg |-> leg[i].volume], LAMBDA v : v # None)
  IN  <<Judged(Len(volumes) >= 3, Exceeds(volumes[1], LastOf(volumes)))>>

Personality(bars, count) ==
  LET leg == [i \in 1..count.waves |-> LegStats(bars, count, i)]
  IN  CASE Structures[count.pattern].family = "motive" -> ImpulseChecks(leg)
        [] count.pattern = "triangle" -> TriangleChecks(leg)
        [] count.pattern \in {"zigzag", "flat"} -> CorrectiveChecks(leg)
        [] OTHER -> <<>>

Corroboration(checks) ==
  LET measurable == SelectSeq(checks, LAMBDA c : c # None)
  IN  IF measurable = <<>> THEN None
      ELSE <<Len(SelectSeq(measurable, LAMBDA c : c)), Len(measurable)>>

-----------------------------------------------------------------------------
(* Ranking.                                                                  *)

\* A share of a component in hundredths; what is not measurable is neutral.
Measured(share) ==
  IF share = None THEN 50
  ELSE Max({0, Min({100, RoundHalfEven(100 * share[1], share[2])})})

\* The mean of: waves of this pattern, waves of the longest, sessions.
Completeness(count, sessions) ==
  LET waves == Terminals(count.pattern) - 1
  IN  <<5 * sessions * count.waves + waves * sessions * Min({count.waves, 5}) + 5 * waves * count.span,
        15 * waves * sessions>>

\* Points of a hundred, in hundredths, in the alphabetical order of the names.
Components(count, sessions) ==
  <<25 * Measured(<<IF count.current THEN 1 ELSE 0, 1>>),
    20 * Measured(Adherence(count.priceRatios)),
    10 * Measured(<<100 - 34 * count.allowances, 100>>),
    20 * Measured(Completeness(count, sessions)),
    10 * Measured(Adherence(count.timeRatios)),
    15 * Measured(Corroboration(count.personality))>>

CompetitiveMargin == 2000
MaxCandidates == 3

\* At most two components by which the best leads most.
Decisive(best, other) ==
  LET Gap(i) == best.components[i] - other.components[i]
      Ahead(i, j) == Gap(i) > Gap(j) \/ (Gap(i) = Gap(j) /\ i < j)
  IN  {i \in 1..6 : Gap(i) > 0 /\ Cardinality({j \in 1..6 : Ahead(j, i)}) < 2}

-----------------------------------------------------------------------------
(* Candidates.                                                               *)

\* The last band holds what is longer than every limit.
Degree(span) == Cardinality({i \in DOMAIN DegreeBands : span >= DegreeBands[i]})

FitAt(pivots, start, pattern, size) ==
  Fits(pattern, Normalise([i \in 1..size |-> pivots[start + i - 1].price], pivots[start].kind = "L"))

CountAt(pivots, start, pattern, size) ==
  LET segment == SubSeq(pivots, start, start + size - 1)
      prices == [i \in DOMAIN segment |-> segment[i].price]
      dates == [i \in DOMAIN segment |-> segment[i].date]
      up == segment[1].kind = "L"
      p == Normalise(prices, up)
      current == LastOf(dates) = LastOf(pivots).date
      span == LastOf(dates) - dates[1] + 1
      variant == Variant(pattern, p)
  IN  [start |-> start, pattern |-> pattern, waves |-> size - 1, up |-> up, variant |-> variant,
       prices |-> prices, dates |-> dates, current |-> current, span |-> span, degree |-> Degree(span),
       complete |-> size = Terminals(pattern), allowances |-> Allowances(pattern, p),
       guidelines |-> Guidelines(pattern, p), priceRatios |-> Relationships(pattern, Legs(prices)),
       timeRatios |-> Relationships(pattern, Legs(dates)),
       projection |-> IF current THEN Projection(pattern, prices, up, variant) ELSE None]

\* Of each pattern the longest part its rules admit.
CandidatesAt(pivots, start) ==
  LET Sizes(pattern) == {n \in MinTerminals[pattern]..Terminals(pattern) :
                           start + n - 1 <= Len(pivots) /\ FitAt(pivots, start, pattern, n)}
  IN  {CountAt(pivots, start, pattern, Max(Sizes(pattern))) :
         pattern \in {s \in DOMAIN Structures : Sizes(s) # {}}}

Scored(count, bars, sessions, measured) ==
  LET Summed(judged, components) ==
        judged @@ ("components" :> components) @@ ("score" :> Total(components))
      Graded(judged) == Summed(judged, Components(judged, sessions))
  IN  Graded(count @@ ("personality" :> IF measured THEN Personality(bars, count) ELSE <<>>))

Position(pattern) == CHOOSE i \in DOMAIN Alphabet : Alphabet[i] = pattern

Before(a, b) ==
  \/ a.score > b.score
  \/ /\ a.score = b.score
     /\ \/ a.start < b.start
        \/ a.start = b.start /\ Position(a.pattern) < Position(b.pattern)

Ordered(counts) ==
  [k \in 1..Cardinality(counts) |->
     CHOOSE c \in counts : Cardinality({d \in counts : Before(d, c)}) = k - 1]

\* Counts near the best that explain the same price action.
Rivals(counts) ==
  LET best == CHOOSE c \in counts : \A d \in counts \ {c} : Before(c, d)
  IN  {c \in counts : c.score >= best.score - CompetitiveMargin /\ LastOf(c.dates) = LastOf(best.dates)}

FirstOfPattern(counts) ==
  {c \in counts : \A d \in counts \ {c} : d.pattern = c.pattern => Before(c, d)}

\* The first of each pattern, at most three. Without a context (measured)
\* nothing is said of personality.
LabelWaves(pivots, bars, sessions, measured) ==
  LET Shown(ordered) == SubSeq(ordered, 1, Min({MaxCandidates, Len(ordered)}))
  IN  Shown(Ordered(FirstOfPattern(Rivals(
        {Scored(c, bars, sessions, measured) :
           c \in UNION {CandidatesAt(pivots, start) : start \in 1..(Len(pivots) - 1)}}))))

-----------------------------------------------------------------------------
(* Degrees.                                                                  *)

ExpectedFamily(pattern, label) ==
  IF (pattern = "impulse" /\ label \in {"1", "3", "5"}) \/ (pattern = "zigzag" /\ label \in {"A", "C"})
     \/ (pattern = "flat" /\ label = "C")
  THEN "motive" ELSE "corrective"

\* Where a diagonal stands in its parent is known of a subdivision only.
DiagonalPosition(child, label) ==
  IF child.pattern # "diagonal" THEN None
  ELSE IF label \in {"1", "A", "W"} THEN "leading"
  ELSE IF label \in {"5", "C", "Z"} THEN "ending" ELSE None

RECURSIVE Subdivide(_, _, _, _, _, _)

\* percent is what the parent was labelled at, finest what was asked for.
Subdivide(bars, count, percent, finest, sessions, depth) ==
  LET finer == Max({percent \div 3, finest, 1})
      Segment(i) == SelectSeq(bars, LAMBDA b : count.dates[i] <= b.date /\ b.date <= count.dates[i + 1])
      Part(i, child) ==
        LET label == Structures[count.pattern].labels[i + 1]
        IN  [of |-> i, label |-> label, count |-> child, position |-> DiagonalPosition(child, label),
             asExpected |-> Structures[child.pattern].family = ExpectedFamily(count.pattern, label),
             subdivisions |-> Subdivide(Segment(i), child, finer, finest, sessions, depth - 1)]
      Parts(children) ==
        LET labelled == SelectSeq([i \in DOMAIN children |-> i], LAMBDA i : children[i] # <<>>)
        IN  [k \in DOMAIN labelled |-> Part(labelled[k], children[labelled[k]][1])]
  IN  IF depth <= 0 \/ finer >= percent THEN <<>>
      ELSE Parts([i \in 1..count.waves |->
                    LabelWaves(ZigzagPivots(Segment(i), finer), <<>>, sessions, FALSE)])

MaxSubdivisionDepth == 3

AnalyzeElliottWave(bars, percent, measured) ==
  LET Report(top, pivots, counts) ==
        [top |-> top, pivots |-> pivots,
         counts |-> [k \in DOMAIN counts |->
           counts[k] @@ ("subdivisions" :>
             Subdivide(bars, counts[k], top, percent, Len(bars), MaxSubdivisionDepth))],
         endsEarly |-> counts # <<>> /\ ~counts[1].current,
         single |-> Len(counts) = 1]
      At(top, pivots) == Report(top, pivots, LabelWaves(pivots, bars, Len(bars), measured))
      From(top) == At(top, ZigzagPivots(bars, top))
  IN  From(TopDegree(bars, percent))

\* A pipeline that fails or finds nothing, or a strategy that is not there,
\* leaves the personality unmeasured and the counts as they are.
GetElliottWaveAnalysis(bars, percent, strategy, indicators) ==
  AnalyzeElliottWave(bars, percent, strategy /\ bars # <<>> /\ indicators \notin {"failed", "none"})
================================================================================
