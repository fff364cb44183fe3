-------------------------------- MODULE MCTools --------------------------------
(* Tools on small lists, repositories, graphs, diffs, issues and results. *)
EXTENDS Tools

\* A patch of one line, and one of two.
SmallPatches == {<<1>>, <<1, 2>>}
=============================================================================
