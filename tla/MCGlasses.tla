------------------------------ MODULE MCGlasses ------------------------------
(* Model of ActiveLook for TLC: the configurations choose the constants.    *)
EXTENDS ActiveLook
=============================================================================
