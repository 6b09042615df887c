------------------------- MODULE MCServerNegotiation -------------------------
(***************************************************************************)
(* Constants of the TLC run of ServerNegotiation with Fingerprinting.      *)
(***************************************************************************)
EXTENDS Fingerprinting

Nobody == [e \in Ends |-> {}]
OneBatch == [e \in Ends |-> 1]
Accepts == [e \in Ends |-> "ACCEPTED"]

SomeVolunteers == {<<"WILL", "BINARY">>, <<"DO", "BINARY">>, <<"DO", "LOGOUT">>}

Client(t, A, l) ==
  [terminal |-> t, accepts |-> A, lang |-> l, volunteers |-> SomeVolunteers,
   loops |-> FALSE, probed |-> FALSE]
Probed(k, loops) == [k EXCEPT !.probed = TRUE, !.loops = loops, !.volunteers = {}]
Plain == Options \ {"NAWS", "GMCP"}

\* Microsoft telnet, which accepts everything; a MUD client that ends with its
\* MTTS bits; clients with more names than the cycle takes, and with none; and
\* one that repeats itself, without each option the server decides by.
PlainClients ==
  {Client(<<"ANSI", "VT100", "stall">>, Plain, FALSE),
   Client(<<"MUDLET", "XTERM", "MTTS">>, Plain \ {"CHARSET"}, TRUE),
   Client(<<"ANSI", "XTERM", "VT100", "LINUX">>, {"TTYPE", "NEW_ENVIRON"}, FALSE),
   Client(<<"">>, {"TTYPE", "ECHO", "BINARY"}, FALSE)}
  \cup {Client(<<"XTERM">>, Plain \ S, TRUE) : S \in
     {{"TTYPE"}, {"BINARY", "CHARSET"}, {"NEW_ENVIRON", "CHARSET"}, Plain}}

\* Visitors of the fingerprinting server: a MUD client that knows GMCP, Microsoft
\* telnet, which stalls, and a client without terminal type that loops or not.
ProbedClients ==
  {Probed(Client(<<"MUDLET">>, {"TTYPE", "GMCP"}, FALSE), FALSE),
   Probed(Client(<<"ANSI", "stall">>, {"TTYPE", "NAWS"}, FALSE), FALSE)}
  \cup {Probed(Client(<<"XTERM">>, {"NAWS", "CHARSET", "BINARY", "ECHO"}, FALSE), loops)
           : loops \in BOOLEAN}

SomeClients == PlainClients \cup ProbedClients

Core == <<"BINARY", "ECHO", "TTYPE", "NAWS", "NEW_ENVIRON", "CHARSET">>
Extended == <<"GMCP">>
Legacy == <<>>

=============================================================================
