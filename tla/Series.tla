-------------------------------- MODULE Series --------------------------------
(* A security's bars as the repositories return them: in the order of their   *)
(* dates, one a date; those up to a date, and those after it.                 *)
EXTENDS Integers, Sequences, FiniteSets

Dated(x) ==
  /\ x \in Seq({x[i] : i \in DOMAIN x})
  /\ \A i \in 1..Len(x) : x[i].date \in Nat
  /\ \A i, j \in 1..Len(x) : i < j => x[i].date < x[j].date

CountThrough(bars, date) == Cardinality({i \in DOMAIN bars : bars[i].date <= date})

Through(bars, date) == SubSeq(bars, 1, CountThrough(bars, date))

Since(bars, date) == SubSeq(bars, CountThrough(bars, date) + 1, Len(bars))
===============================================================================
