---------------------------- MODULE MCSyncBridge ----------------------------
(***************************************************************************)
(* Constants of the TLC runs of SyncBridge.                                *)
(***************************************************************************)
EXTENDS SyncBridge

SomeInputs == {<<"x", "LF">>}
=============================================================================
