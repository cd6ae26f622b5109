------------------------------- MODULE MCCrs -------------------------------
(* Model of Crs for TLC: the configurations choose the constants.          *)
EXTENDS Crs
=============================================================================
