---------------------------- MODULE MCClientShell ----------------------------
(***************************************************************************)
(* Constants of the TLC runs of ClientShell.                               *)
(***************************************************************************)
EXTENDS ClientShell

\* raw_mode is left to negotiation or forced, on a terminal or a pipe, with or
\* without a retro encoding.
Started ==
  {c \in [raw_mode : {"auto", "on"}, istty : BOOLEAN, filter : BOOLEAN] :
     c.raw_mode = "on" => c.istty}
\* Cursor keys whole and cut, alone and among other keys, and the escape
\* character behind a part of a sequence.
Typing == {<<"ESC", "[", "A", "CR">>, <<"a", "ESC", "[", "CR">>,
           <<"a", "ESC", "^]">>}
Nothing == [echo |-> FALSE, sga |-> FALSE, linemode |-> "off"]
EditAndSga == [echo |-> FALSE, sga |-> TRUE, linemode |-> "edit"]
NothingOrEdit == {Nothing, EditAndSga}
EchoAndMode == {"WILL ECHO", "WONT ECHO", "WILL SGA", "MODE EDIT", "MODE REMOTE"}
\* --line-mode.
StartedInLineMode == [raw_mode : {"off"}, istty : {TRUE}, filter : {FALSE}]
=============================================================================
