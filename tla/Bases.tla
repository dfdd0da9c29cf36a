--------------------------------- MODULE Bases ---------------------------------
(* The base detectors behind the pattern engine (domain/patterns): each looks *)
(* at the last bars and answers with a quality, or None. Wording is left out. *)
EXTENDS Values

CONSTANT BaseBars  \* bars: [flatMin 25, flatMax 65, flatExtra 50, flatEdge 5, ascMin 15, ascMax 65,
                 \* ascExtra 30, ascSegment 5, cupWidth 35, cupExtra 20, cupLook 100, handle 5,
                 \* handleExtra 3, handleReach 5, vcpLook 80, vcpSegment 10]

\* The stretches a detector looks at are no longer than what it asks for.
ASSUME BaseBarsAssumption ==
  /\ {BaseBars.flatMin, BaseBars.flatMax, BaseBars.flatExtra, BaseBars.flatEdge, BaseBars.ascMin, BaseBars.ascMax,
      BaseBars.ascExtra, BaseBars.cupWidth, BaseBars.cupExtra, BaseBars.cupLook, BaseBars.handle,
      BaseBars.handleExtra, BaseBars.handleReach, BaseBars.vcpLook} \subseteq Nat
  /\ {BaseBars.ascSegment, BaseBars.ascMin, BaseBars.ascMax, BaseBars.handle, BaseBars.vcpSegment} \subseteq Nat \ {0}
  /\ BaseBars.flatMin <= BaseBars.flatMax /\ 2 * BaseBars.flatEdge < BaseBars.flatMin + BaseBars.flatExtra
  /\ 2 <= BaseBars.cupWidth + BaseBars.cupExtra /\ 2 <= BaseBars.cupLook
  /\ BaseBars.vcpSegment <= BaseBars.vcpLook

Highs(bars) == [i \in DOMAIN bars |-> bars[i].high]
Lows(bars) == [i \in DOMAIN bars |-> bars[i].low]

MaxIn(s, from, to) == Max({s[i] : i \in from..to})
MinIn(s, from, to) == Min({s[i] : i \in from..to})

\* The first place, from one on, that holds a value.
IndexOf(s, value, from) == Min({i \in from..Len(s) : s[i] = value})

Recent(bars, n) == Tail0(bars, Min({Len(bars), n}))

\* A fall in percent is at most that much.
FallAtMost(high, low, percent) == 100 * (high - low) <= percent * high

Volumes(bars, from, to) == Total([i \in 1..(to - from + 1) |-> bars[from + i - 1].volume])

\* The base runs from the highest bar of the middle to the end, or, where that
\* high was reached before the middle as well, from the start of the middle.
FlatBase(bars) ==
  LET recent == Recent(bars, BaseBars.flatMax + BaseBars.flatExtra)
      n == Len(recent)
      edge == Max({n \div 10, BaseBars.flatEdge}) + 1
      peak == MaxIn(Highs(recent), edge, n - BaseBars.flatEdge)
      start == Max({IndexOf(Highs(recent), peak, 1), edge})
      high == MaxIn(Highs(recent), start, n)
      low == MinIn(Lows(recent), start, n)
      length == n - start + 1
  IN  IF \/ Len(bars) < BaseBars.flatMin + BaseBars.flatExtra
         \/ length < BaseBars.flatMin \/ length > BaseBars.flatMax
         \/ ~FallAtMost(high, low, 15)
      THEN None
      ELSE (100 * (15 * high - 100 * (high - low))) \div (15 * high)

\* The lows of consecutive segments, the last one shorter.
SegmentLows(recent, size) ==
  LET n == Len(recent)
      count == (n + size - 1) \div size
  IN  [k \in 1..count |-> MinIn(Lows(recent), (k - 1) * size + 1, Min({k * size, n}))]

AscendingBase(bars) ==
  LET recent == Recent(bars, BaseBars.ascMax + BaseBars.ascExtra)
      n == Len(recent)
      lows == SegmentLows(recent, Max({n \div 4, BaseBars.ascSegment}))
      higher == Cardinality({k \in 2..Len(lows) : lows[k] > lows[k - 1]})
      high == MaxIn(Highs(recent), 1, n)
      low == MinIn(Lows(recent), 1, n)
  IN  IF Len(bars) < BaseBars.ascMin + BaseBars.ascExtra \/ higher < 2 \/ ~FallAtMost(high, low, 25) THEN None
      ELSE Min({100, 20 * higher + Max({0, 100 - (100 * (high - low)) \div high})})

\* From the first highest bar of the older half to the first lowest bar after
\* it; how far the right side came back is not looked at.
CupWithHandleBase(bars) ==
  LET recent == Recent(bars, BaseBars.cupLook)
      n == Len(recent)
      peak == MaxIn(Highs(recent), 1, n \div 2)
      rim == IndexOf(Highs(recent), peak, 1)
      low == MinIn(Lows(recent), rim, n)
      bottom == IndexOf(Lows(recent), low, rim)
      reach == Min({n - bottom + 1, BaseBars.handle + BaseBars.handleReach})
      handleHigh == MaxIn(Highs(recent), n - reach + 1, n)
      handleLow == MinIn(Lows(recent), n - reach + 1, n)
      inHandle == Volumes(recent, n - reach + 1, n)
      before == Volumes(recent, Max({1, n - 2 * reach + 1}), n - reach)
      confirming == before = 0 \/ 10 * inHandle <= 11 * before
      off == Abs(75 * peak - 100 * low) \div peak
  IN  IF \/ Len(bars) < BaseBars.cupWidth + BaseBars.cupExtra
         \/ 100 * (peak - low) < 15 * peak
         \/ ~FallAtMost(peak, low, 35)
         \/ bottom - rim < BaseBars.cupWidth
         \/ n - bottom + 1 < BaseBars.handle + BaseBars.handleExtra
         \/ ~FallAtMost(handleHigh, handleLow, 15)
      THEN None
      ELSE Min({100, Max({0, 100 - off}) + IF confirming THEN 30 ELSE 0})

\* A segment contracts if none of its ranges is more than a twentieth wider
\* than the widest of the segment before; the volumes of segments are compared.
VCP(bars) ==
  LET recent == Recent(bars, BaseBars.vcpLook)
      segments == Min({8, BaseBars.vcpLook \div BaseBars.vcpSegment})
      size == BaseBars.vcpLook \div segments
      Segment(k) == ((k - 1) * size + 1)..(k * size)
      Within(i, j) == 20 * (recent[i].high - recent[i].low) * recent[j].close
                      <= 21 * (recent[j].high - recent[j].low) * recent[i].close
      contractions == {k \in 2..segments : \A i \in Segment(k) : \E j \in Segment(k - 1) : Within(i, j)}
      Traded(k) == Volumes(recent, (k - 1) * size + 1, k * size)
      declines == {k \in 2..segments : Traded(k) <= Traded(k - 1)}
      high == MaxIn(Highs(recent), 1, Len(recent))
      low == MinIn(Lows(recent), 1, Len(recent))
  IN  IF Len(bars) < BaseBars.vcpLook \/ Cardinality(contractions) < 3 \/ ~FallAtMost(high, low, 35) THEN None
      ELSE Min({100, Min({50, 15 * Cardinality(contractions)}) + Min({30, 10 * Cardinality(declines)})
                     + Max({0, 20 - (20 * (high - low)) \div high})})

\* register_builtin_patterns.
Detectors(bars) ==
  [flat_base |-> FlatBase(bars), ascending_base |-> AscendingBase(bars),
   cup_with_handle |-> CupWithHandleBase(bars), vcp |-> VCP(bars)]
================================================================================
