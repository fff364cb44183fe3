----------------------------- MODULE MCGogsClient -----------------------------
(* GogsClient with one call of each kind at a time: calls share nothing. *)
EXTENDS GogsClient
=============================================================================
