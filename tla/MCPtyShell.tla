----------------------------- MODULE MCPtyShell -----------------------------
(***************************************************************************)
(* Constants of the TLC runs of PtyShell.                                  *)
(***************************************************************************)
EXTENDS PtyShell

\* A connection in an encoding for all, with a client that waits for GA; and one
\* that is strict.
Started == {[raw_mode |-> FALSE, sga |-> FALSE, local_sga |-> b, strict |-> b] : b \in BOOLEAN}

\* A prompt or a line before an update; an update with a line in it, too long when
\* it is cut late; a character cut in two.
Programs == {<<"x", "NL", "b1", "b2">>,
             <<"b1", "b2", "NL", "e1", "e2">>,
             <<"m1", "m2", "m1">>}
\* A character that may be cut in two.
Typed == {<<"m1", "m2">>}
\* A program that ignores all but the last signal.
OnlyKill == {"KILL"}
=============================================================================
