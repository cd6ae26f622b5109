-------------------------------- MODULE MCTx --------------------------------
(* Model of BleTxQueue for TLC: the configurations choose the constants.   *)
EXTENDS BleTxQueue
=============================================================================
