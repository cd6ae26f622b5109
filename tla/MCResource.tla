----------------------------- MODULE MCResource -----------------------------
(* Model of ResourceManager for TLC: the configurations choose the constants. *)
EXTENDS ResourceManager
=============================================================================
