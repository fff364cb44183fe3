---------------------------- MODULE MCCacheBudget ----------------------------
(* CacheBudget for TLC: the snapshots are interchangeable. *)
EXTENDS CacheBudget, TLC

Symmetry == Permutations(Snapshots)
=============================================================================
