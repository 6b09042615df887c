--------------------------- MODULE MCClientSession ---------------------------
(***************************************************************************)
(* Constants of the TLC runs of ClientSession.                             *)
(***************************************************************************)
EXTENDS ClientSession

\* A short conversation, and one longer than both buffers together.
SomeInputs == {<<0, 1, 0>>, <<0, 1, 2, 0, 3, 4, 5, 6>>}
=============================================================================
