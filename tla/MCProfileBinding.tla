-------------------------- MODULE MCProfileBinding --------------------------
(* An instance of ProfileBinding for TLC: two operations at a time.        *)
EXTENDS ProfileBinding, TLC

Symmetry == Permutations(Ops)
=============================================================================
