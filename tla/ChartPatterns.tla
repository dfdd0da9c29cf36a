----------------------------- MODULE ChartPatterns -----------------------------
(* Classical formations over the confirmed swings of a chart                 *)
(* (domain/analytics/chart_patterns.py). A formation is reported if all it    *)
(* requires is met; the share of everything met is its score.                *)
EXTENDS Counts

CONSTANT Lengths   \* sessions: [shoulders 20, tops 15, search 60, pole 25, restMin 5,
                   \*            restMax 25, cup 35, handle 5]

MaxEndOffset == 2

\* Runs of swings of these kinds that end among the last three.
Windows(pivots, kinds) ==
  LET n == Len(kinds)
      Kinds(start) == [i \in 1..n |-> pivots[start + i - 1].kind]
  IN  {SubSeq(pivots, start, start + n - 1) :
         start \in {s \in 1..(Len(pivots) - n + 1) :
                      s + n - 1 >= Len(pivots) - MaxEndOffset /\ Kinds(s) = kinds}}

Sessions(a, b) == b.date - a.date

\* Two prices are within percent of the larger.
Near(a, b, percent) == 100 * Abs(a - b) <= percent * Max({a, b})

MeanVolume(bars, from, to) == MeanOf([i \in 1..(to - from + 1) |-> bars[from + i - 1].volume])

\* On average less is traded in the later range.
VolumeDeclines(bars, from1, to1, from2, to2) ==
  Exceeds(MeanVolume(bars, from1, to1), MeanVolume(bars, from2, to2))

Met(criteria) == Len(SelectSeq(criteria, LAMBDA c : c))

Emit(pattern, from, to, required, optional) ==
  IF Met(required) < Len(required) THEN {}
  ELSE {[pattern |-> pattern, starts |-> from, ends |-> to,
         score |-> RoundHalfEven(100 * (Len(required) + Met(optional)), Len(required \o optional))]}

-----------------------------------------------------------------------------

HeadAndShoulders(bars, pivots) ==
  LET Shape(w, pattern, sign) ==
        LET Beyond(shoulder) == 100 * sign * (w[3].price - shoulder.price) >= 2 * shoulder.price
            left == Sessions(w[1], w[3])
            right == Sessions(w[3], w[5])
        IN  Emit(pattern, w[1].date, w[5].date,
              <<Beyond(w[1]) /\ Beyond(w[5]), Sessions(w[1], w[5]) >= Lengths.shoulders>>,
              <<Near(w[1].price, w[5].price, 15), Near(w[2].price, w[4].price, 10),
                2 * Max({left, right}) <= 5 * Max({Min({left, right}), 1}),
                VolumeDeclines(bars, w[1].date, w[3].date, w[3].date, w[5].date)>>)
  IN  UNION ({Shape(w, "head_and_shoulders", 1) : w \in Windows(pivots, <<"H", "L", "H", "L", "H">>)}
             \cup {Shape(w, "inverse_head_and_shoulders", -1) :
                     w \in Windows(pivots, <<"L", "H", "L", "H", "L">>)})

DoubleTopBottom(bars, pivots) ==
  LET close == LastOf(bars).close
      Shape(w, pattern, nearest, crossed) ==
        Emit(pattern, w[1].date, w[3].date,
          <<Near(w[1].price, w[3].price, 3),
            100 * Abs(w[2].price - nearest) >= 8 * nearest,
            Sessions(w[1], w[3]) >= Lengths.tops>>,
          <<VolumeDeclines(bars, w[1].date, w[2].date, w[2].date, w[3].date), crossed>>)
  IN  UNION ({Shape(w, "double_top", Min({w[1].price, w[3].price}), close < w[2].price) :
                w \in Windows(pivots, <<"H", "L", "H">>)}
             \cup {Shape(w, "double_bottom", Max({w[1].price, w[3].price}), close > w[2].price) :
                     w \in Windows(pivots, <<"L", "H", "L">>)})

-----------------------------------------------------------------------------
(* Triangles and wedges.                                                     *)

\* The slope of a line through two swings, in percent of the first a session.
Slope(a, b) == [rise |-> 100 * (b.price - a.price), run |-> a.price * Sessions(a, b)]

\* Slip: what does not fall rises.
SlopeMatchesLoosely(slope, requirement) ==
  CASE requirement = "flat" -> 20 * Abs(slope.rise) < slope.run
    [] requirement = "rising" -> slope.rise >= 0
    [] requirement = "falling" -> 20 * slope.rise <= -slope.run

\* Flat is less than a twentieth of a percent a session.
SlopeMatches(slope, requirement) ==
  CASE requirement = "flat" -> 20 * Abs(slope.rise) < slope.run
    [] requirement = "rising" -> 20 * slope.rise >= slope.run
    [] requirement = "falling" -> 20 * slope.rise <= -slope.run

TrendlineShapes ==
  [ascending_triangle |-> <<"flat", "rising">>, descending_triangle |-> <<"falling", "flat">>,
   symmetrical_triangle |-> <<"falling", "rising">>, rising_wedge |-> <<"rising", "rising">>,
   falling_wedge |-> <<"falling", "falling">>]

\* Neither slope is more than three times the other.
Balanced(upper, lower) ==
  LET U == Abs(upper.rise) * lower.run
      L == Abs(lower.rise) * upper.run
  IN  U <= 3 * L /\ L <= 3 * U

\* The width at the end is at most three quarters of that at the start, each
\* relative to the higher price.
Converges(high1, low1, high2, low2) ==
  /\ high1 # low1
  /\ 4 * Abs(high2 - low2) * Max({high1, low1}) <= 3 * Abs(high1 - low1) * Max({high2, low2})

TrendlinePatterns(bars, pivots) ==
  LET Shapes(w) ==
        LET highs == SelectSeq(w, LAMBDA p : p.kind = "H")
            lows == SelectSeq(w, LAMBDA p : p.kind = "L")
            upper == Slope(highs[1], highs[2])
            lower == Slope(lows[1], lows[2])
            mid == w[1].date + Sessions(w[1], w[4]) \div 2
            close == LastOf(bars).close
            Fitting(shape) == shape = "symmetrical_triangle" => Balanced(upper, lower)
        IN  UNION {Emit(shape, w[1].date, w[4].date,
                     <<SlopeMatches(upper, TrendlineShapes[shape][1]) /\ Fitting(shape),
                       SlopeMatches(lower, TrendlineShapes[shape][2]) /\ Fitting(shape), TRUE,
                       Converges(highs[1].price, lows[1].price, highs[2].price, lows[2].price)>>,
                     <<VolumeDeclines(bars, w[1].date, mid, mid, w[4].date),
                       /\ Min({lows[1].price, lows[2].price}) <= close
                       /\ close <= Max({highs[1].price, highs[2].price})>>) :
                   shape \in DOMAIN TrendlineShapes}
  IN  UNION {Shapes(w) : w \in Windows(pivots, <<"H", "L", "H", "L">>)
                               \cup Windows(pivots, <<"L", "H", "L", "H">>)}

-----------------------------------------------------------------------------

\* The trend of a least-squares line, times a factor that only its length sets.
Trend(values) == Total([i \in DOMAIN values |-> (2 * i - Len(values) - 1) * values[i]])

\* The pole ends at the earliest highest bar of the last sessions and begins at
\* the earliest lowest of those before it.
FlagOrPennant(bars) ==
  LET search == Tail0(bars, Lengths.search)
      First(at, than(_, _)) == Min({i \in at : \A j \in at : than(i, j)})
      top == First(DOMAIN search, LAMBDA i, j : search[i].high >= search[j].high)
      base == First(Max({1, top - Lengths.pole})..(top - 1), LAMBDA i, j : search[i].low <= search[j].low)
      high == search[top].high
      low == search[base].low
      rest == SubSeq(search, top + 1, Len(search))
      highs == [i \in DOMAIN rest |-> rest[i].high]
      lows == [i \in DOMAIN rest |-> rest[i].low]
      converging == Trend(highs) * Total(lows) < Trend(lows) * Total(highs)
  IN  IF Len(bars) < Lengths.search \/ top = 1 \/ Len(rest) < Lengths.restMin THEN {}
      ELSE Emit(IF converging THEN "pennant" ELSE "flag", search[base].date, LastOf(rest).date,
             <<100 * (high - low) >= 15 * low /\ top - base <= Lengths.pole,
               Len(rest) <= Lengths.restMax,
               1000 * (high - Min({rest[i].low : i \in DOMAIN rest})) <= 382 * (high - low)>>,
             <<converging,
               VolumeDeclines(bars, search[base].date, search[top].date, rest[1].date, LastOf(rest).date)>>)

CupWithHandle(bars, pivots) ==
  LET Shape(w) ==
        LET rim == w[1].price
            bottom == w[2].price
            width == Sessions(w[1], w[3])
            handle == SubSeq(bars, w[3].date + 1, Len(bars))
            low == Min({handle[i].low : i \in DOMAIN handle})
            deep == {i \in w[1].date..w[3].date : 3 * bars[i].low <= rim + 2 * bottom}
        IN  IF Len(handle) < Lengths.handle THEN {}
            ELSE Emit("cup_with_handle", w[1].date, LastOf(handle).date,
                   <<100 * (rim - bottom) >= 15 * rim /\ 100 * (rim - bottom) <= 35 * rim,
                     width >= Lengths.cup, Near(rim, w[3].price, 8),
                     100 * (w[3].price - low) <= 15 * w[3].price, TRUE>>,
                   <<VolumeDeclines(bars, w[2].date, w[3].date, handle[1].date, LastOf(handle).date),
                     5 * Cardinality(deep) >= Max({width, 1})>>)
  IN  UNION {Shape(w) : w \in Windows(pivots, <<"H", "L", "H">>)}

\* Sorted by score, name and start, which differ for any two.
DetectChartPatterns(bars, percent) ==
  LET pivots == ZigzagPivots(bars, percent)
  IN  [pivots |-> pivots,
       patterns |-> IF pivots = <<>> THEN {}
                    ELSE UNION {HeadAndShoulders(bars, pivots), DoubleTopBottom(bars, pivots),
                                TrendlinePatterns(bars, pivots), FlagOrPennant(bars),
                                CupWithHandle(bars, pivots)}]
================================================================================
