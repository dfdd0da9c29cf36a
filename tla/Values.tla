-------------------------------- MODULE Values --------------------------------
(* What the calculations share: an unknown value (null, NaN), whole-number    *)
(* arithmetic, and the tail of a series. Percentages are rounded down.        *)
EXTENDS Series, FiniteSetsExt, SequencesExt

CONSTANT None

ASSUME NoneAssumption == None \notin Int

Abs(n) == IF n < 0 THEN -n ELSE n

Total(s) == FoldSeq(LAMBDA x, y : x + y, 0, s)

Mean(s) == Total(s) \div Len(s)

Percent(n, of) == IF of = 0 THEN None ELSE (100 * n) \div of

\* round() and Decimal.to_integral_value: half to even.
RoundHalfEven(a, b) ==
  LET q == a \div b
      rest == 2 * (a % b)
  IN  IF rest > b \/ (rest = b /\ q % 2 = 1) THEN q + 1 ELSE q

Tail0(s, n) == SubSeq(s, Len(s) - n + 1, Len(s))

\* The items at those places, in their order, and those that are known.
ItemsAt(s, at) ==
  LET Nth(k) == CHOOSE i \in at : Cardinality({j \in at : j <= i}) = k
  IN  [k \in 1..Cardinality(at) |-> s[Nth(k)]]

Defined(s) == ItemsAt(s, {i \in DOMAIN s : s[i] # None})

\* Of two entries with one key that of f counts.
Over(f, g) ==
  [x \in DOMAIN f \cup DOMAIN g |-> IF x \in DOMAIN f THEN f[x] ELSE g[x]]

LastOf(s) == IF s = <<>> THEN None ELSE s[Len(s)]
===============================================================================
