---------------------------- MODULE MCPriceStore ----------------------------
(* PriceStore for TLC: which security is looked up does not matter. *)
EXTENDS PriceStore, TLC

Symmetry == Permutations(Securities)
=============================================================================
