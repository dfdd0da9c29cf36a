--------------------------- MODULE MCWalkForward ---------------------------
(* Seven months of two or three days, of which the first four only feed the  *)
(* horizons; prices are powers of two.                                       *)
EXTENDS WalkForward, TLC

MCMonthStart == <<1, 3, 6, 8, 11, 13, 16, 18>>

MCSessions == {1, 2, 4, 5, 6, 7, 9, 10, 12, 13, 15, 16}

Closes(prices) == [d \in 1..17 |-> prices[(d + 1) \div 2]]

MCHistories ==
  {[close |-> Closes(<<1, 1, 1, 2, 2, 4, 4, 4, 4>>), listed |-> 1, delisted |-> None],
   [close |-> Closes(<<4, 4, 2, 2, 1, 4, 1, 2, 2>>), listed |-> 1, delisted |-> None],
   [close |-> Closes(<<4, 4, 2, 2, 1, 4, 4, 1, 1>>), listed |-> 1, delisted |-> None],
   [close |-> Closes(<<2, 2, 2, 2, 2, 2, 2, None, None>>), listed |-> 1, delisted |-> 12],
   [close |-> Closes(<<None, 2, 2, 1, 1, 2, 4, 4, 4>>), listed |-> 3, delisted |-> None],
   [close |-> Closes(<<1, 1, 1, 4, 4, 1, None, 0, 2>>), listed |-> 1, delisted |-> None],
   [close |-> [Closes(<<1, 1, 1, 4, 4, 1, 1, 1, 2>>) EXCEPT ![16] = 0], listed |-> 1, delisted |-> None]}

Symmetry == Permutations(Securities)
=============================================================================
