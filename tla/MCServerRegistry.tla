-------------------------- MODULE MCServerRegistry --------------------------
(***************************************************************************)
(* Constants of the TLC runs of ServerRegistry: the connections are model  *)
(* values.                                                                 *)
(***************************************************************************)
EXTENDS ServerRegistry
=============================================================================
