-------------------------- MODULE MCHistoricalReplay --------------------------
(* Six days in two chunks. A trades but for a stretch and may split; B is     *)
(* renamed C on the fourth day; E is not in the master; the fifth day may     *)
(* hold two prints of one security.                                          *)
EXTENDS HistoricalReplay

MCSecurities ==
  {[id |-> 1, symbol |-> "A", isin |-> 10, from |-> 1, to |-> None],
   [id |-> 2, symbol |-> "B", isin |-> 20, from |-> 1, to |-> 3],
   [id |-> 3, symbol |-> "C", isin |-> 20, from |-> 4, to |-> None]}

Row(symbol, isin, day, close, prev) ==
  [symbol |-> symbol, isin |-> isin, date |-> day, close |-> close, prev |-> prev, turnover |-> 20]

\* a: the days A trades, split: its first day at half the price, twice: the
\* day of two prints, holiday: a day without a session.
MCArchive(a, split, twice, holiday) ==
  [d \in 1..6 |->
     IF d = holiday THEN {}
     ELSE (IF d \in a THEN {Row("A", 10, d, IF d < split THEN 40 ELSE 20, IF d <= split THEN 40 \div (IF d = split THEN 2 ELSE 1) ELSE 20)} ELSE {})
          \cup {IF d < 4 THEN Row("B", None, d, 30, None) ELSE Row("C", 20, d, 30, 30)}
          \cup (IF d = twice THEN {Row("Z", 10, d, 50, None)} ELSE {})
          \cup (IF d = 1 THEN {Row("E", None, d, 5, None)} ELSE {})]

MCArchives ==
  {MCArchive({1, 2, 6}, 3, 0, 3), MCArchive({1, 3, 4}, 4, 0, 2), MCArchive({1, 3, 5}, 3, 5, 0)}

MCChunks == <<<<1, 3>>, <<4, 6>>>>
MCWindow == <<2, 4>>
===============================================================================
