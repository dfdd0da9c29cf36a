----------------------------- MODULE MCDailyJob -----------------------------
(* DailyJob for TLC: processes and strategies are interchangeable. *)
EXTENDS DailyJob, TLC

Symmetry == Permutations(Workers) \cup Permutations(Strategies)
=============================================================================
