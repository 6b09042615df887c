--------------------------- MODULE MCStreamReader ---------------------------
(***************************************************************************)
(* Constants of the TLC runs of StreamReader.                              *)
(***************************************************************************)
EXTENDS StreamReader

\* Lines of every ending, torn characters, and more than twice the limit.
SomeInputs ==
  {<<"x", "CR", "NUL", "LF", "y">>,
   <<"x", "CR", "LF", "y", "CR">>,
   <<"CR", "x", "LF", "y", "x", "y">>,
   <<"x", "HI", "LO", "y", "HI", "LO">>}
Ask(op, n, ends) == [op |-> op, n |-> n, ends |-> ends]
BytesCalls ==
  {Ask("read", 2, {}), Ask("read_all", 0, {}), Ask("readexactly", 4, {}), Ask("readline", 0, {}),
   Ask("readuntil", 0, {<<"CR", "LF">>}), Ask("readuntil_pattern", 0, {<<"LF">>, <<"CR", "NUL">>})}
UnicodeCalls ==
  {Ask("unicode_read", 1, {}), Ask("unicode_read_all", 0, {}),
   Ask("unicode_readexactly", 3, {}), Ask("unicode_readline", 0, {})}
AllCalls == BytesCalls \cup UnicodeCalls
=============================================================================
