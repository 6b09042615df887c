---------------------------- MODULE MCIacStream -----------------------------
(***************************************************************************)
(* Constants of the TLC runs of IacStream.                                 *)
(***************************************************************************)
EXTENDS IacStream

EmptySub == Item("sub", <<>>)

SomeItems ==
  {Item("data", <<"a">>), Item("data", <<"IAC">>), Item("cmd", <<"NOP">>), Item("verb", <<"SB">>),
   Item("sub", <<"a", "IAC", "SE">>), Item("torn", <<"a">>), Item("stray", <<"SE">>)}
WithEmptySub == {EmptySub, Item("verb", <<"a">>)}
=============================================================================
