---------------------------- MODULE MCTokenCache ----------------------------
(* TokenCache for TLC: requests are interchangeable. *)
EXTENDS TokenCache, TLC

Symmetry == Permutations(Requests)
=============================================================================
