------------------------- MODULE MCAttentionRuntime -------------------------
(***************************************************************************)
(* Model-checking instance of AttentionRuntime: two requests compete for   *)
(* the one credit of a run.                                                *)
(***************************************************************************)
EXTENDS AttentionRuntime
=============================================================================
