------------------------------- MODULE MCUsb -------------------------------
(* Model of UsbStorageCache for TLC: the configurations choose the constants. *)
EXTENDS UsbStorageCache
=============================================================================
