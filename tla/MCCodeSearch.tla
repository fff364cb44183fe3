----------------------------- MODULE MCCodeSearch -----------------------------
(* CodeSearch on small trees. *)
EXTENDS CodeSearch
=============================================================================
