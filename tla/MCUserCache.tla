----------------------------- MODULE MCUserCache -----------------------------
(* UserCache on small sets of requests, commits and repositories. *)
EXTENDS UserCache, TLC

\* Requests are interchangeable: no action or property tells them apart.
Symmetry == Permutations(Procs)
=============================================================================
