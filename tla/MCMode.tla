------------------------------- MODULE MCMode -------------------------------
(* ModeController on a small instance: see the .cfg files for the bounds.    *)
EXTENDS ModeController
=============================================================================
