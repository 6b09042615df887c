-------------------------- MODULE ServerNegotiation --------------------------
(***************************************************************************)
(* The on-connect negotiation of telnetlib3/server_base.py and server.py:  *)
(* BaseServer and TelnetServer with their TelnetWriter, on an asyncio      *)
(* event loop, against a Telnet client that answers as the RFCs ask, or    *)
(* slowly, or not at all, and that may leave at any time.                  *)
(*                                                                         *)
(* The loop's queue of ready handles is a sequence: call_soon, an expired  *)
(* timer, and a readable socket append to it, and its head runs to the end *)
(* before the next.                                                        *)
(***************************************************************************)
EXTENDS TelnetWriter, SequencesExt

CONSTANTS
  Clients,         \* the clients: the terminal names each cycles through, the
                   \* options it accepts, whether its environment has a LANG,
                   \* what it may send, once, before it is asked, whether it
                   \* answers again what is already agreed, and whether the
                   \* server it visits runs the fingerprinting shell
  MudTerminals,    \* the names that belong to MUD clients
  TTYPE_LOOPMAX,   \* answers after which the TTYPE cycle is given up
  line_mode,       \* the server's arguments of these names
  force_binary,
  default_encoding,
  MaxChunk         \* bound on the commands one data_received brings

ClientType ==
  [terminal : Seq(STRING) \ {<<>>}, accepts : SUBSET Options, lang : BOOLEAN,
   volunteers : SUBSET (Verbs \X Options), loops : BOOLEAN, probed : BOOLEAN]

ASSUME ServerAssumption ==
  /\ Clients \subseteq ClientType
  /\ TTYPE_LOOPMAX \in Nat \ {0} /\ MaxChunk \in Nat \ {0}
  /\ line_mode \in BOOLEAN /\ force_binary \in BOOLEAN /\ default_encoding \in BOOLEAN
  /\ {"TTYPE", "NEW_ENVIRON", "ECHO", "BINARY", "CHARSET"} \subseteq Options

VARIABLES
  server,    \* the protocol and its writer
  ready,     \* the event loop's ready handles
  late,      \* connect_maxwait has elapsed since the connection was made
  client,    \* the client's side of the conversation
  toServer,  \* commands in flight
  toClient,
  deferred   \* auxiliary: the DO NEW_ENVIRON and WILL ECHO the server wrote

nvars == <<server, ready, late, client, toServer, toClient, deferred>>

Handles == {"begin_negotiation", "check", "begin_advanced_negotiation", "begin_shell",
            "data", "eof", "timeout", "close", "connection_lost"}

(***************************************************************************)
(* The handlers work on a record of the server and the loop's queue.       *)
(***************************************************************************)
NoName == "none"
NewServer ==
  [writer |-> NewWriter, advanced |-> FALSE, force_binary |-> force_binary,
   waiter_connected |-> "pending", check_later |-> "none", closing |-> FALSE,
   shell |-> "none", raised |-> FALSE, environ_requested |-> FALSE,
   echo_negotiated |-> FALSE, ttype_count |-> 1,
   ttype |-> [i \in 1..(TTYPE_LOOPMAX + 1) |-> NoName],
   waiter_encoding |-> "pending", asked_user |-> FALSE,
   closed_early |-> FALSE]  \* auxiliary: closed before begin_negotiation ran

CallSoon(c, h) == [c EXCEPT !.ready = Append(@, h)]
ButThose(hs, q, h) == IF h \in hs THEN q ELSE Append(q, h)
Cancel(q, hs) == FoldLeft(LAMBDA r, h : ButThose(hs, r, h), <<>>, q)
WriterOf(c) == c.server.writer
WithWriter(c, w) == [c EXCEPT !.server.writer = w]
IacC(c, cmd, o) ==
  IF o \in Options THEN WithWriter(c, Iac(WriterOf(c), cmd, o)) ELSE c
Refused(c, o) == WriterOf(c).remote[o] = "off"

\* _is_maybe_mud, by the first answer: ECHO is decided no later.
IsMud(c) ==
  \/ \E i \in 1..3 : i \in DOMAIN c.server.ttype /\ c.server.ttype[i] \in MudTerminals
  \/ \E o \in Options \cap (MudOptions \ {"MSSP", "ZMP"}) : Remote(WriterOf(c), o)

_negotiate_environ(c) ==
  IF c.server.environ_requested THEN c
  ELSE IacC([c EXCEPT !.server.environ_requested = TRUE], "DO", "NEW_ENVIRON")

\* Mistake: MUD clients are not told apart.
NegotiateEchoAnyone(c) ==
  IF c.server.echo_negotiated THEN c
  ELSE IacC([c EXCEPT !.server.echo_negotiated = TRUE], "WILL", "ECHO")

_negotiate_echo(c) ==
  IF c.server.echo_negotiated THEN c
  ELSE LET d == [c EXCEPT !.server.echo_negotiated = TRUE] IN
       IF line_mode \/ IsMud(d) THEN d ELSE IacC(d, "WILL", "ECHO")

\* A terminal name arrives, the ttype_count-th.  The cycle goes on until a
\* name is empty, repeats, is the MTTS answer, or there are too many.
on_ttype(c, name) ==
  LET k == c.server.ttype_count
      d == _negotiate_echo([c EXCEPT !.server.ttype[k] = name])
      t == d.server.ttype
      f == IF (k = 1 /\ name # "ANSI") \/ k = 2 THEN _negotiate_environ(d) ELSE d
      stops == \/ k # 1 /\ name = t[1]
               \/ name = "" \/ k > TTYPE_LOOPMAX
               \/ k = 3 /\ name = "MTTS"
               \/ k # 1 /\ name = t[k - 1]
  IN IF stops THEN _negotiate_environ(f)
     ELSE LET g == [f EXCEPT !.server.ttype_count = k + 1] IN
          WithWriter(g, RequestSub(WriterOf(g), "TTYPE", "SEND"))

\* _check_encoding: asks for BINARY inwards once it is agreed outwards.
Bidirectional(c) ==
  \/ Local(WriterOf(c), "BINARY") /\ Remote(WriterOf(c), "BINARY")
  \/ c.server.force_binary
AsksBinary(c) ==
  /\ Local(WriterOf(c), "BINARY") /\ ~Remote(WriterOf(c), "BINARY")
  /\ WriterOf(c).pending[<<"DO", "BINARY">>] = "unset"
_check_encoding(c) ==
  IF AsksBinary(c) THEN IacC(c, "DO", "BINARY")
  ELSE IF Remote(WriterOf(c), "CHARSET") /\ Local(WriterOf(c), "CHARSET")
            /\ WriterOf(c).pending[<<"SB", "CHARSET">>] = "unset"
    THEN WithWriter(c, request_charset(WriterOf(c)))
  ELSE c

\* Mistake: only offers and requests are waited for.
AnsweredButQuestions(w) ==
  \A r \in Requests : r[1] # "SB" => w.pending[r] # "on"

AllAnswered(w) == \A r \in Requests : w.pending[r] # "on"
ShouldAdvance(w) == \E o \in Options : Local(w, o) \/ Remote(w, o)

\* What the deferred negotiations have waited for has come, or will not.
AskDeferred(c, final) ==
  LET give_up == Refused(c, "TTYPE") \/ final
      d == IF c.server.advanced /\ give_up THEN _negotiate_echo(c) ELSE c
      resolved == ~Pending(WriterOf(d), "DO", "TTYPE") /\ ~Pending(WriterOf(d), "SB", "TTYPE")
  IN IF d.server.advanced /\ (give_up \/ resolved) THEN _negotiate_environ(d) ELSE d

Advance(c) ==
  IF ~c.server.advanced /\ ShouldAdvance(WriterOf(c))
    THEN CallSoon([c EXCEPT !.server.advanced = TRUE], "begin_advanced_negotiation")
    ELSE c

\* check_negotiation: its effects, and whether the negotiation is over.
check_negotiation(c, final) ==
  LET a == AskDeferred(c, final)
      critical == \E o \in {"NEW_ENVIRON", "CHARSET"} : Pending(WriterOf(a), "SB", o)
      parent == AllAnswered(WriterOf(a))
      b == _check_encoding(Advance(a))
      result == ~AsksBinary(Advance(a)) /\ Bidirectional(b)
      first == b.server.waiter_encoding = "pending"
      settles == result \/ Refused(b, "TTYPE") \/ final
  IN [c |-> IF first /\ settles THEN [b EXCEPT !.server.waiter_encoding = "done"] ELSE b,
      over |-> IF first /\ ~result /\ settles THEN parent
               ELSE ~critical /\ parent /\ result]

\* Future.set_result: on a future that is done it raises.
SetConnected(c) ==
  IF c.server.waiter_connected = "pending"
    THEN CallSoon([c EXCEPT !.server.waiter_connected = "done"], "begin_shell")
    ELSE [c EXCEPT !.server.raised = TRUE]

\* Mistakes: the timer of the last check is left running; time does not decide.
CheckTimerUncancelled(c) ==
  LET r == check_negotiation(c, late)
  IN IF r.over \/ late THEN SetConnected(r.c)
     ELSE [r.c EXCEPT !.server.check_later = "later"]

CheckTimerPatient(c) ==
  LET d == [c EXCEPT !.ready = Cancel(@, {"check"}), !.server.check_later = "none"]
      r == check_negotiation(d, FALSE)
  IN IF r.over THEN SetConnected(r.c) ELSE [r.c EXCEPT !.server.check_later = "later"]

_check_negotiation_timer(c) ==
  LET d == [c EXCEPT !.ready = Cancel(@, {"check"}), !.server.check_later = "none"]
      r == check_negotiation(d, late)
  IN IF r.over \/ late THEN SetConnected(r.c)
     ELSE [r.c EXCEPT !.server.check_later = "later"]

\* connection_lost: the tasks are the check, the session timer and the two
\* waiters.  A begin_advanced_negotiation that is already due is none of them.
connection_lost(c) ==
  IF c.server.closing THEN c
  ELSE LET Lost(f) == IF f = "pending" THEN "cancelled" ELSE f
           closed == [c.server EXCEPT !.closing = TRUE, !.writer.closing = TRUE]
       IN [server |-> [closed EXCEPT !.check_later = "none", !.waiter_connected = Lost(@),
                                     !.waiter_encoding = Lost(@)],
           ready |-> Cancel(c.ready, {"check", "timeout"})]

\* Whether USER is among what the client is asked for: Microsoft telnet, told
\* by its two answers, dies of it.
on_request_environ(ttype) == ~(ttype[1] = "ANSI" /\ ttype[2] = "VT100")

\* One command is interpreted; DO LOGOUT closes the transport.
Interpret(c, m) ==
  LET w == Feed(WriterOf(c), "server", m)
      d == WithWriter(c, w)
      asks == m.cmd = "WILL" /\ m.opt = "NEW_ENVIRON" /\ Pending(w, "SB", "NEW_ENVIRON")
  IN CASE m.cmd = "SB" /\ m.opt = "TTYPE" -> on_ttype(d, m.name)
       [] m.cmd = "SB" /\ m.opt = "CHARSET" /\ m.sub = "ACCEPTED" ->
            [d EXCEPT !.server.force_binary = TRUE]
       [] m.cmd = "SB" /\ m.opt = "NEW_ENVIRON" /\ m.name = "LANG" ->  \* on_environ
            [d EXCEPT !.server.force_binary = TRUE]
       [] m.cmd = "DO" /\ m.opt = "LOGOUT" /\ ~WriterOf(c).closing -> CallSoon(d, "connection_lost")
       [] asks -> [d EXCEPT !.server.asked_user = @ \/ on_request_environ(d.server.ttype)]
       [] OTHER -> d

data_received(c, chunk) ==
  LET d == FoldLeft(Interpret, [c EXCEPT !.ready = Cancel(@, {"timeout"})], chunk) IN
  IF d.server.waiter_connected = "pending" THEN _check_negotiation_timer(d) ELSE d

\* It is no task: closing the writer before it has run does not cancel it.
begin_negotiation(c) ==
  LET begun == [c EXCEPT !.server.check_later = "soon", !.server.closed_early = c.server.closing]
  IN  IacC(CallSoon(begun, "check"), "DO", "TTYPE")

begin_advanced_negotiation(c) ==
  LET a == IF line_mode THEN c ELSE IacC(c, "WILL", "SGA")
      b == IacC(IacC(a, "WILL", "BINARY"), "DO", "NAWS")
  IN IF default_encoding THEN IacC(b, "DO", "CHARSET") ELSE b

begin_shell(c) ==
  [c EXCEPT !.server.shell = IF c.server.closing THEN "dead" ELSE "live"]

-----------------------------------------------------------------------------
(***************************************************************************)
(* The event loop and the client.                                          *)
(***************************************************************************)
Terminal(c) == c.terminal[IF c.shown < Len(c.terminal) THEN c.shown + 1 ELSE Len(c.terminal)]

\* The values of the variables.
NTypeOK ==
  /\ server.writer \in Writer /\ server.writer.out = <<>>
  /\ \A f \in {"advanced", "environ_requested", "echo_negotiated", "force_binary",
                "closing", "raised", "asked_user", "closed_early"} : server[f] \in BOOLEAN
  /\ server.ttype_count \in 1..(TTYPE_LOOPMAX + 1)
  /\ DOMAIN server.ttype = 1..(TTYPE_LOOPMAX + 1)
  /\ {server.waiter_connected, server.waiter_encoding} \subseteq {"pending", "done", "cancelled"}
  /\ server.check_later \in {"none", "soon", "later"}
  /\ server.shell \in {"none", "live", "dead"}
  /\ ready \in Seq(Handles) /\ late \in BOOLEAN
  /\ client.accepts \subseteq Options /\ client.will \subseteq Options
  /\ deferred \in Seq({<<"DO", "NEW_ENVIRON">>, <<"WILL", "ECHO">>})

\* connection_made has run.  A task that was ready before it may close the
\* writer in the same turn of the loop, before begin_negotiation.
NInit ==
  /\ server = NewServer
  /\ ready \in {<<"begin_negotiation">>, <<"close", "begin_negotiation">>}
  /\ late = FALSE
  /\ \E k \in Clients :
       client = [terminal |-> k.terminal, accepts |-> k.accepts, lang |-> k.lang,
                 volunteers |-> k.volunteers, loops |-> k.loops, probed |-> k.probed,
                 shown |-> 0, will |-> {}, does |-> {}, said |-> FALSE, left |-> FALSE]
  /\ toServer = <<>> /\ toClient = <<>> /\ deferred = <<>>

IsDeferred(m) == <<m.cmd, m.opt>> \in {<<"DO", "NEW_ENVIRON">>, <<"WILL", "ECHO">>}

\* A handle has left c behind: what it wrote goes to the client.  Of a closed
\* connection nothing is read any more, so what is in flight is forgotten.
Leaves(c) ==
  LET out == WriterOf(c).out
      kept == SelectSeq(out, IsDeferred)
  IN /\ server' = [c.server EXCEPT !.writer.out = <<>>]
     /\ ready' = c.ready
     /\ toClient' = IF WriterOf(c).closing THEN <<>> ELSE toClient \o out
     /\ deferred' = deferred \o [i \in DOMAIN kept |-> <<kept[i].cmd, kept[i].opt>>]

\* The loop runs its oldest ready handle.
Run(h, c) ==
  /\ ready # <<>> /\ Head(ready) = h
  /\ Leaves(c)
  /\ UNCHANGED <<late, client>>
Popped == [server |-> server, ready |-> Tail(ready)]

RunBegin == Run("begin_negotiation", begin_negotiation(Popped)) /\ UNCHANGED toServer
RunAdvanced ==
  Run("begin_advanced_negotiation", begin_advanced_negotiation(Popped)) /\ UNCHANGED toServer
RunShell == Run("begin_shell", begin_shell(Popped)) /\ UNCHANGED toServer
RunCheck == Run("check", _check_negotiation_timer(Popped)) /\ UNCHANGED toServer
RunLost ==
  /\ \E h \in {"eof", "timeout", "close", "connection_lost"} : Run(h, connection_lost(Popped))
  /\ toServer' = <<>>
\* A socket that closed meanwhile is not read.
RunData ==
  \/ /\ ~server.writer.closing
     /\ \E n \in 1..Len(toServer) :
          /\ n <= MaxChunk
          /\ Run("data", data_received(Popped, SubSeq(toServer, 1, n)))
          /\ toServer' = IF server'.writer.closing THEN <<>>
                          ELSE SubSeq(toServer, n + 1, Len(toServer))
  \/ server.writer.closing /\ Run("data", Popped) /\ UNCHANGED toServer

\* A handle becomes ready.
Wake(h) ==
  /\ h \notin Range(ready)
  /\ ~server.writer.closing
  /\ ready' = Append(ready, h)
  /\ UNCHANGED <<late, client, toServer, toClient, deferred>>
Readable ==
  /\ \/ toServer # <<>> /\ Wake("data")
     \/ toServer = <<>> /\ client.left /\ Wake("eof")
  /\ UNCHANGED server
\* A timer: one that a closed server has armed comes due like any other.
CheckDue ==
  /\ late /\ server.check_later = "later"
  /\ server' = [server EXCEPT !.check_later = "soon"]
  /\ ready' = Append(ready, "check")
  /\ UNCHANGED <<late, client, toServer, toClient, deferred>>
SessionDue == late /\ Wake("timeout") /\ UNCHANGED server
\* A user of server.clients closes the writer.
UserCloses == Wake("close") /\ UNCHANGED server

Elapse ==
  /\ ~late /\ late' = TRUE
  /\ UNCHANGED <<server, ready, client, toServer, toClient, deferred>>

\* What a client says to a command: it acknowledges a change once, unless it is
\* one that loops, and sends its window size whenever that is asked for; it
\* refuses what it does not accept, and answers what it is asked about.
Says(m) ==
  LET say(c, o, s, n) == <<[cmd |-> c, opt |-> o, sub |-> s, name |-> n]>>
      o == m.opt
      size == IF o = "NAWS" /\ o \in client.accepts THEN say("SB", o, "SIZE", NoName) ELSE <<>>
  IN
  CASE m.cmd = "DO" /\ o \in client.will /\ ~client.loops -> size
    [] m.cmd = "DO" /\ (o \notin client.will \/ client.loops) ->
         say(IF o \in client.accepts THEN "WILL" ELSE "WONT", o, "none", NoName) \o size
    [] m.cmd = "WILL" /\ o \in client.does /\ ~client.loops -> <<>>
    [] m.cmd = "WILL" /\ (o \notin client.does \/ client.loops) ->
         say(IF o \in client.accepts THEN "DO" ELSE "DONT", o, "none", NoName)
    [] m.cmd = "SB" /\ o = "CHARSET" -> say("SB", o, "ACCEPTED", NoName)
    [] m.cmd = "SB" /\ o = "TTYPE" /\ Terminal(client) = "stall" -> <<>>
    [] m.cmd = "SB" /\ o = "TTYPE" /\ Terminal(client) # "stall" ->
         say("SB", o, "IS", Terminal(client))
    [] m.cmd = "SB" /\ o \notin {"CHARSET", "TTYPE"} ->
         say("SB", o, "IS", IF client.lang THEN "LANG" ELSE NoName)
    [] OTHER -> <<>>

ClientAnswers ==
  /\ toClient # <<>> /\ ~client.left /\ ~server.writer.closing
  /\ LET m == Head(toClient)
         ok == m.opt \in client.accepts
     IN /\ toServer' = toServer \o Says(m)
        /\ client' = [client EXCEPT
             !.will = IF m.cmd = "DO" /\ ok THEN @ \cup {m.opt} ELSE @,
             !.does = IF m.cmd = "WILL" /\ ok THEN @ \cup {m.opt} ELSE @,
             !.shown = IF m.cmd = "SB" /\ m.opt = "TTYPE" /\ @ < Len(client.terminal)
                         THEN @ + 1 ELSE @]
  /\ toClient' = Tail(toClient)
  /\ UNCHANGED <<server, ready, late, deferred>>

\* A client offers, unasked, an option it performs, or asks to be logged off.
ClientVolunteers ==
  /\ ~client.left /\ ~client.said /\ ~server.writer.closing
  /\ \E v \in client.volunteers :
       /\ v[1] = "WILL" => v[2] \in client.accepts \ client.will
       /\ client' = [client EXCEPT !.said = TRUE,
                        !.will = IF v[1] = "WILL" THEN @ \cup {v[2]} ELSE @]
       /\ toServer' = Append(toServer,
                        [cmd |-> v[1], opt |-> v[2], sub |-> "none", name |-> NoName])
  /\ UNCHANGED <<server, ready, late, toClient, deferred>>

ClientLeaves ==
  /\ ~client.left /\ ~server.writer.closing
  /\ client' = [client EXCEPT !.left = TRUE] /\ toClient' = <<>>
  /\ UNCHANGED <<server, ready, late, toServer, deferred>>

RunHandle == RunBegin \/ RunAdvanced \/ RunShell \/ RunCheck \/ RunLost \/ RunData
NNext == \/ RunHandle
        \/ Readable \/ CheckDue \/ SessionDue \/ UserCloses \/ Elapse
        \/ ClientAnswers \/ ClientVolunteers \/ ClientLeaves

NSpec == NInit /\ [][NNext]_nvars

\* Time passes, a timer that is due becomes ready, and the loop, which can run a
\* handle whenever one is ready, runs it.  The client owes nothing.
LoopRuns == []<>(ready = <<>>) \/ []<><<RunHandle>>_nvars
NFairSpec == NSpec /\ WF_nvars(Elapse) /\ WF_nvars(CheckDue) /\ LoopRuns

-----------------------------------------------------------------------------
(***************************************************************************)
(* Properties                                                              *)
(***************************************************************************)
\* No result is set on a future that a lost connection cancelled, or twice,
\* unless the writer was closed before begin_negotiation ran: the check that
\* data_received, the timer and connection_lost each set, cancel or find set is
\* one that a begun negotiation has armed.
NeverRaises == server.raised => server.closed_early

\* At most once each ...
DeferredOnce ==
  \A i, j \in DOMAIN deferred : deferred[i] = deferred[j] => i = j

\* ... and not to the clients that they would hurt.
OldClientsSpared ==
  ~late /\ "TTYPE" \in client.accepts =>
    /\ client.terminal[1] \in MudTerminals => <<"WILL", "ECHO">> \notin Range(deferred)
    /\ client.terminal[1] = "ANSI" /\ client.terminal[2] = "VT100" => ~server.asked_user

\* DO NEW_ENVIRON and WILL ECHO are sent at most once each, whichever of the
\* TTYPE cycle, a refusal and the timeout comes to them first.  And unless the
\* client is so slow that the server has given up on its terminal type, WILL
\* ECHO, which makes MUD clients hide what is typed, is never sent to a client
\* whose first answer is a MUD terminal, and Microsoft telnet, ANSI and then
\* VT100, is never asked for USER.
DeferredRight == DeferredOnce /\ OldClientsSpared

\* A negotiation that ends in time ends with every offer, request and question
\* answered, those the last check itself made included (_check_encoding may ask
\* for CHARSET after the pending flags were looked at).  Not so (server_base.py:317,
\* "all negotiation options that have been requested have been acknowledged") for
\* one request, DO BINARY: the check sends it and ends the negotiation when the
\* refusal of TTYPE comes in one chunk with a DO BINARY of the client.
ShellAnswered ==
  [][server.waiter_connected = "pending" /\ server'.waiter_connected = "done" /\ ~late
       => \A r \in Requests : server'.writer.pending[r] = "on" =>
            /\ r = <<"DO", "BINARY">> /\ server.writer.pending[r] = "unset"
            /\ server.waiter_encoding = "pending"
            /\ server'.writer.remote["TTYPE"] = "off"]_nvars

\* Not so: "If TTYPE cycle stalled or client refused TTYPE, trigger deferred ECHO
\* and NEW_ENVIRON negotiation now.  Only when advanced negotiation is active"
\* (server.py:295).  When the refusal comes in one chunk with the first option
\* the client agrees to, the check becomes advanced after it has looked, ends
\* the negotiation, and is not made again.
DeferredAsked ==
  server.shell = "live" /\ server.advanced /\ server.writer.remote["TTYPE"] = "off"
    => server.environ_requested /\ server.echo_negotiated

\* Not so: "Don't start shell if the connection was cancelled or errored"
\* (server_base.py:181).  connection_lost takes begin_shell off the future's
\* callbacks, in vain when it is already due: DO LOGOUT in the chunk that
\* completes the negotiation.
NoDeadShell == server.shell # "dead"

\* Not so: "cancel protocol tasks, namely on-connect negotiations"
\* (server_base.py:109).  begin_negotiation is not among the tasks: run after
\* the writer was closed, it arms a check that nothing cancels, and which sets
\* a result at connect_maxwait on the future connection_lost has cancelled.
NoCheckAfterLoss == server.closing => server.check_later = "none" /\ ~server.raised

\* Every connection reaches its shell or its end: no client can hold it open
\* beyond connect_maxwait without either.
Decides == <>(server.waiter_connected # "pending")

=============================================================================
