----------------------------- MODULE MCFileStore -----------------------------
(* An instance of FileStore for TLC: three operations at a time.           *)
EXTENDS FileStore, TLC

Symmetry ==
  Permutations(Ops) \cup Permutations(Holders) \cup Permutations(Pictures)
=============================================================================
