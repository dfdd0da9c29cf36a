-------------------------- MODULE MCScreeningRuns --------------------------
(* Small instances of ScreeningRuns for TLC. *)
EXTENDS ScreeningRuns, TLC

Symmetry == Permutations(Requests) \cup Permutations(Strategies)
=============================================================================
