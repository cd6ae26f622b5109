------------------------------ MODULE MCDevice ------------------------------
(* Model of DeviceState for TLC: the configurations choose the constants.  *)
EXTENDS DeviceState
=============================================================================
