--------------------------------- MODULE Waves ---------------------------------
(* Elliott waves (domain/analytics/elliott): confirmed swings, the rules that *)
(* admit a structure over them, the evidence that ranks the admissible counts *)
(* and the finer degrees inside their legs. A bar is [date, high, low, close, *)
(* volume, adx, rsi], dates are sessions from 1. Wording is left out.        *)
EXTENDS Values

CONSTANTS
  MaxTopPivots,   \* 12
  MinTopPivots,   \* 4
  DegreeBands     \* <<60, 250, 750>>: Minute, Minor, Intermediate, Primary

-----------------------------------------------------------------------------
(* Swings. A tracked extreme becomes a pivot once a later bar is percent      *)
(* away from it. The tracker of the other side starts again at the bar after  *)
(* the one that confirmed.                                                   *)

TrackedHigh(s, bars, i) ==
  IF s.direction >= 0 /\ (s.hi <= s.last \/ bars[i].high >= bars[s.hi].high) THEN i ELSE s.hi

\* Slip: the trackers are not restarted after a pivot.
TrackedLowStale(s, bars, i) ==
  IF s.direction <= 0 /\ bars[i].low <= bars[s.lo].low THEN i ELSE s.lo

TrackedLow(s, bars, i) ==
  IF s.direction <= 0 /\ (s.lo <= s.last \/ bars[i].low <= bars[s.lo].low) THEN i ELSE s.lo

ZigzagStep(s, bars, i, percent) ==
  LET hi == TrackedHigh(s, bars, i)
      lo == TrackedLow(s, bars, i)
      top == bars[hi].high
      bottom == bars[lo].low
      down == 100 * (top - bars[i].low) >= percent * top /\ s.direction >= 0
      up == 100 * (bars[i].high - bottom) >= percent * bottom /\ s.direction <= 0
      Turn(kind, at, price, direction) ==
        [pivots |-> Append(s.pivots, [date |-> bars[at].date, price |-> price, kind |-> kind]),
         direction |-> direction, hi |-> hi, lo |-> lo, last |-> at]
  IN  IF down /\ (~up \/ hi <= lo) THEN Turn("H", hi, top, -1)
      ELSE IF up THEN Turn("L", lo, bottom, 1)
      ELSE [s EXCEPT !.hi = hi, !.lo = lo]

ZigzagPivots(bars, percent) ==
  IF Len(bars) < 2 THEN <<>>
  ELSE FoldLeft(LAMBDA s, i : ZigzagStep(s, bars, i, percent),
                [pivots |-> <<>>, direction |-> 0, hi |-> 1, lo |-> 1, last |-> 0],
                [i \in DOMAIN bars |-> i]).pivots

\* The smallest of percent, three times percent, ... at which a coarser step
\* is not needed, not allowed, or leaves too little.
TopDegree(bars, percent) ==
  LET steps == {percent * 3 ^ k : k \in 0..3}
      Settled(t) ==
        \/ Len(ZigzagPivots(bars, t)) <= MaxTopPivots
        \/ 3 * t > 50
        \/ Len(ZigzagPivots(bars, 3 * t)) < MinTopPivots
  IN  Min({t \in steps : Settled(t)})

-----------------------------------------------------------------------------
(* Structures. p holds the prices of the terminals, turned so that the first  *)
(* wave rises.                                                               *)

Structures ==
  [pattern \in {"impulse", "diagonal"} |-> [family |-> "motive", labels |-> <<"0", "1", "2", "3", "4", "5">>]]
  @@ [pattern \in {"zigzag", "flat"} |-> [family |-> "corrective", labels |-> <<"0", "A", "B", "C">>]]
  @@ "triangle" :> [family |-> "corrective", labels |-> <<"0", "A", "B", "C", "D", "E">>]
  @@ "double three" :> [family |-> "corrective", labels |-> <<"0", "W", "X", "Y">>]
  @@ "triple three" :> [family |-> "corrective", labels |-> <<"0", "W", "X", "Y", "X", "Z">>]

Terminals(pattern) == Len(Structures[pattern].labels)

MinTerminals ==
  [pattern \in DOMAIN Structures |->
     CASE pattern \in {"impulse", "zigzag", "flat"} -> 3
       [] pattern = "triangle" -> 5
       [] OTHER -> Terminals(pattern)]

Alphabet == <<"diagonal", "double three", "flat", "impulse", "triangle", "triple three", "zigzag">>

Normalise(prices, up) == [i \in DOMAIN prices |-> IF up THEN prices[i] ELSE -prices[i]]

Alternates(p) == \A i \in 1..(Len(p) - 1) : IF i % 2 = 1 THEN p[i + 1] > p[i] ELSE p[i + 1] < p[i]

Leg(p, i) == Abs(p[i + 1] - p[i])

Legs(p) == [i \in 1..(Len(p) - 1) |-> Leg(p, i)]

\* Leg i is at least (at most) thousandths/1000 of leg j.
LegAtLeast(w, i, j, thousandths) == 1000 * w[i] >= thousandths * w[j]
LegAtMost(w, i, j, thousandths) == 1000 * w[i] <= thousandths * w[j]

ThirdIsShortest(w) == w[3] < w[1] /\ w[3] < w[5]

Contracts(w) == \A i \in 3..Len(w) : w[i] < w[i - 2]
Expands(w) == \A i \in 3..Len(w) : w[i] > w[i - 2]

Sideways(p, thousandths) == 1000 * Abs(LastOf(p) - p[1]) <= thousandths * Leg(p, 1)

FitImpulse(p, w) ==
  /\ p[3] > p[1]
  /\ Len(p) > 4 => p[5] > p[2]
  /\ Len(p) > 5 => ~ThirdIsShortest(w)

FitDiagonal(p, w) ==
  /\ p[3] > p[1] /\ p[5] <= p[2]
  /\ ~ThirdIsShortest(w)
  /\ Contracts(w) \/ Expands(w)

FitZigzag(p, w) == p[3] > p[1] /\ ~LegAtLeast(w, 2, 1, 900)

FitFlat(p, w) == LegAtLeast(w, 2, 1, 900)

FitTriangle(p, w) == Contracts(w) \/ Expands(w)

FitCombination(p, w) == Sideways(p, 618)

Fits(pattern, p) ==
  LET w == Legs(p)
  IN  /\ Alternates(p)
      /\ CASE pattern = "impulse" -> FitImpulse(p, w)
           [] pattern = "diagonal" -> FitDiagonal(p, w)
           [] pattern = "zigzag" -> FitZigzag(p, w)
           [] pattern = "flat" -> FitFlat(p, w)
           [] pattern = "triangle" -> FitTriangle(p, w)
           [] OTHER -> FitCombination(p, w)

\* The label of the earliest of the longest motive waves, if it is 1.618 times the others.
Extension(w) ==
  LET longest == Max({w[1], w[3], w[5]})
      at == Min({i \in {1, 3, 5} : w[i] = longest})
  IN  IF \A i \in {1, 3, 5} \ {at} : LegAtLeast(w, at, i, 1618) THEN Structures["impulse"].labels[at + 1] ELSE None

Variant(pattern, p) ==
  LET w == Legs(p)
      complete == Len(p) = Terminals(pattern)
  IN  CASE pattern = "impulse" -> IF complete THEN Extension(w) ELSE None
        [] pattern \in {"diagonal", "triangle"} -> IF Contracts(w) THEN "contracting" ELSE "expanding"
        [] pattern = "flat" ->
             IF ~complete THEN "developing"
             ELSE IF p[3] >= p[1] THEN "regular"
             ELSE IF p[4] <= p[2] THEN "running" ELSE "expanded"
        [] OTHER -> None

\* What had to be allowed for: a truncated fifth or C, an expanding triangle,
\* and always the position of a diagonal and the proportion of a combination.
Allowances(pattern, p) ==
  LET Truncated == Len(p) = Terminals(pattern) /\ LastOf(p) <= p[Len(p) - 2]
      needed == CASE pattern \in {"impulse", "zigzag"} -> Truncated
                  [] pattern = "flat" -> Variant(pattern, p) = "running"
                  [] pattern = "triangle" -> ~Contracts(Legs(p))
                  [] OTHER -> TRUE
  IN  IF needed THEN 1 ELSE 0

Judged(known, verdict) == IF known THEN verdict ELSE None

\* Guidelines: TRUE supports the label, FALSE contradicts it, None is unknown.
MotiveGuidelines(p) ==
  LET w == Legs(p)
      n == Len(w)
      deep2 == ~LegAtMost(w, 2, 1, 500)
      deep4 == ~LegAtMost(w, 4, 3, 500)
  IN  <<LegAtLeast(w, 2, 1, 382) /\ LegAtMost(w, 2, 1, 886), Judged(n > 3, ~deep4), Judged(n > 3, deep2 # deep4)>>
      \o (IF n < 5 THEN <<>> ELSE <<w[3] >= w[1] /\ w[3] >= w[5]>>)

CorrectiveGuidelines(pattern, p) ==
  LET w == Legs(p)
      Within(i, lo, hi) == LegAtLeast(w, i, 1, lo) /\ LegAtMost(w, i, 1, hi)
      zigzag == pattern = "zigzag"
  IN  <<IF zigzag THEN Within(2, 500, 786) ELSE Within(2, 1000, 1382)>>
      \o (IF Len(p) < 4 THEN <<>> ELSE <<IF zigzag THEN Within(3, 618, 1618) ELSE Within(3, 1000, 1618)>>)

Comparable(p) ==
  LET w == Legs(p)
      odd == {w[i] : i \in {k \in DOMAIN w : k % 2 = 1}}
  IN  1000 * Max(odd) <= 2618 * Min(odd)

Guidelines(pattern, p) ==
  CASE Structures[pattern].family = "motive" -> MotiveGuidelines(p)
    [] pattern \in {"zigzag", "flat"} -> CorrectiveGuidelines(pattern, p)
    [] pattern = "triangle" -> <<Sideways(p, 500)>>
    [] OTHER -> <<Comparable(p)>>

-----------------------------------------------------------------------------
(* Fibonacci.                                                                *)

CanonicalRatios == {236, 382, 500, 618, 786, 1000, 1272, 1618, 2618}

RatioPairs ==
  [pattern \in DOMAIN Structures |->
     CASE pattern = "impulse" -> <<<<2, 1>>, <<3, 1>>, <<4, 3>>, <<5, 1>>, <<5, 3>>>>
       [] pattern = "diagonal" -> <<<<2, 1>>, <<3, 1>>, <<4, 3>>, <<5, 3>>>>
       [] pattern \in {"zigzag", "flat"} -> <<<<2, 1>>, <<3, 1>>>>
       [] pattern = "triangle" -> <<<<3, 1>>, <<4, 2>>, <<5, 3>>>>
       [] pattern = "double three" -> <<<<3, 1>>>>
       [] OTHER -> <<<<3, 1>>, <<5, 3>>>>]

NearestRatio(observed) ==
  LET Off(r) == Abs(observed - r)
  IN  CHOOSE r \in CanonicalRatios :
        \A s \in CanonicalRatios : Off(r) < Off(s) \/ (Off(r) = Off(s) /\ r <= s)

\* How near, in thousandths; 1000 is a hit.
Proximity(observed) ==
  LET r == NearestRatio(observed)
  IN  Max({0, 1000 - RoundHalfEven(1000 * Abs(observed - r), r)})

\* Of the legs that are there: [observed, nearest, proximity].
Relationships(pattern, w) ==
  LET measured == SelectSeq(RatioPairs[pattern],
                            LAMBDA q : q[1] <= Len(w) /\ q[2] <= Len(w) /\ w[q[2]] # 0)
      Observed(q) == RoundHalfEven(1000 * w[q[1]], w[q[2]])
  IN  [i \in DOMAIN measured |->
         [observed |-> Observed(measured[i]), nearest |-> NearestRatio(Observed(measured[i])),
          proximity |-> Proximity(Observed(measured[i]))]]

\* A share <<n, of>>, or None.
Adherence(relationships) ==
  IF relationships = <<>> THEN None
  ELSE <<Total([i \in DOMAIN relationships |-> relationships[i].proximity]), 1000 * Len(relationships)>>

\* Where the next wave may end, in hundredths of the price: a part of a leg,
\* with the count (1) or against it (-1).
ZoneTable ==
  [key \in {"impulse", "diagonal"} \X (2..5) |->
     CASE key[2] = 2 -> [leg |-> 1, way |-> 1, lo |-> 1618, hi |-> 2618]
       [] key[2] = 3 -> [leg |-> 3, way |-> -1, lo |-> 236, hi |-> 382]
       [] key[2] = 4 -> [leg |-> 1, way |-> 1, lo |-> 618, hi |-> 1000]
       [] OTHER -> [leg |-> 0, way |-> -1, lo |-> 382, hi |-> 618]]
  @@ [key \in {"zigzag", "flat"} \X {2} |-> [leg |-> 1, way |-> 1, lo |-> 1000, hi |-> 1618]]
  @@ <<"triangle", 4>> :> [leg |-> 3, way |-> 1, lo |-> 618, hi |-> 786]

Projection(pattern, prices, up, variant) ==
  LET waves == Len(prices) - 1
      key == <<pattern, waves>>
      zone == ZoneTable[key]
      length == IF zone.leg = 0 THEN Abs(LastOf(prices) - prices[1]) ELSE Leg(prices, zone.leg)
      way == IF up THEN zone.way ELSE -zone.way
      Edge(part) == RoundHalfEven(1000 * LastOf(prices) + way * length * part, 10)
  IN  IF key \notin DOMAIN ZoneTable \/ (pattern = "triangle" /\ variant # "contracting") THEN None
      ELSE [low |-> Min({Edge(zone.lo), Edge(zone.hi)}), high |-> Max({Edge(zone.lo), Edge(zone.hi)})]
================================================================================
