----------------------------- MODULE MCToolCalls -----------------------------
(* ToolCalls with a few calls, fewer slots, and a cache clean. *)
EXTENDS ToolCalls
=============================================================================
