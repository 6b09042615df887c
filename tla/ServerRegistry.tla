--------------------------- MODULE ServerRegistry ---------------------------
(***************************************************************************)
(* server.py from the listening socket to the shells: Server (its list of  *)
(* protocols and its queue of new clients), _TLSAutoDetectProtocol,        *)
(* StatusLogger, and the guarded shell of run_server with the shells and   *)
(* the ConnectionCounter of guard_shells.py.                               *)
(*                                                                         *)
(* A connection is a record; every callback of the event loop that has     *)
(* been scheduled for it is a flag, and the loop may run any of them: what *)
(* holds in every order holds in the loop's.  The list of protocols is     *)
(* kept as how often each is in it: nothing depends on its order.          *)
(***************************************************************************)
EXTENDS Integers, Sequences, FiniteSets

CONSTANTS
  Conns,      \* the connections that may come
  maxsize,    \* the capacity of the queue of new clients
  limit,      \* pty_fork_limit; 0 for none
  robot_check \* whether the shells are guarded by the robot check

ASSUME RegistryAssumption ==
  maxsize \in Nat \ {0} /\ limit \in Nat /\ robot_check \in BOOLEAN

VARIABLES
  conn,        \* the connections
  _protocols,  \* Server._protocols: how often a connection's protocol is listed
  _new_client, \* Server._new_client
  server,      \* [serving, tls_auto]: the listening socket and its mode
  given,       \* what wait_for_client has returned
  _count       \* the ConnectionCounter

vars == <<conn, _protocols, _new_client, server, given, _count>>

\* A connection that has not come yet.  `first' is what a peek would find,
\* `made' counts the calls of the real protocol's connection_made, `early' is
\* a callback made before it, `asked' counts what a guard has had answered.
NewConn ==
  [phase |-> "absent", first |-> "none", decided |-> FALSE, timer |-> FALSE, peek |-> FALSE,
   upgrade |-> "none", transport |-> "open", made |-> 0, early |-> FALSE,
   closing |-> FALSE, waiter |-> "none", enqueue |-> FALSE, begin |-> FALSE, shell |-> "none",
   asked |-> 0]

Init ==
  /\ conn = [p \in Conns |-> NewConn]
  /\ _protocols = [p \in Conns |-> 0] /\ _new_client = <<>> /\ given = <<>>
  /\ \E auto \in BOOLEAN : server = [serving |-> TRUE, tls_auto |-> auto]
  /\ _count = 0

Unregistered == UNCHANGED <<_protocols, _new_client, server, given, _count>>
Live == [p \in Conns |-> IF conn[p].closing THEN 0 ELSE _protocols[p]]

(***************************************************************************)
(* The real protocol: made by the factory, registered, then connected.     *)
(***************************************************************************)

\* _register_protocol prunes what is closing and appends.
Register(p) == _protocols' = [Live EXCEPT ![p] = @ + 1]

\* connection_made of BaseServer: negotiation begins, and whatever the peer
\* says from here on is not looked at.
Made(c) == [c EXCEPT !.phase = "ready", !.made = @ + 1, !.first = "plain", !.waiter = "pending"]

Accept(p) ==
  /\ server.serving /\ conn[p].phase = "absent"
  /\ IF server.tls_auto
     THEN /\ conn' = [conn EXCEPT ![p].phase = "detecting", ![p].timer = TRUE, ![p].peek = TRUE]
          /\ UNCHANGED _protocols
     ELSE conn' = [conn EXCEPT ![p] = Made(@)] /\ Register(p)
  /\ UNCHANGED <<_new_client, server, given, _count>>

\* connection_lost of BaseServer, called by the transport, by EOF or by
\* writer.close().  Before connection_made it raises, but marks the protocol.
Lost(c) ==
  IF c.closing THEN c
  ELSE [c EXCEPT !.closing = TRUE, !.transport = IF c.made > 0 THEN "closed" ELSE @,
                 !.waiter = IF @ = "pending" THEN "cancelled" ELSE @]

(***************************************************************************)
(* TLS detection.                                                          *)
(***************************************************************************)
_handoff_plain(p) == conn' = [conn EXCEPT ![p] = Made([@ EXCEPT !.decided = TRUE, !.timer = FALSE])] /\ Register(p)

\* The peer's first byte: TLS's, any other, or the end.
Speaks(p) ==
  /\ conn[p].phase = "detecting" /\ conn[p].first = "none"
  /\ \E first \in {"plain", "tls", "eof"} : conn' = [conn EXCEPT ![p].first = first]
  /\ Unregistered

\* Mistake in Peeks: the peek does not ask whether the timeout has decided.
PeeksAnyway(c) == TRUE

Peeks(c) == ~c.decided

_try_peek(p) ==
  /\ conn[p].peek
  /\ LET c == [conn[p] EXCEPT !.peek = FALSE]
         first == conn[p].first
         done == [c EXCEPT !.decided = TRUE, !.timer = FALSE]
     IN  CASE ~Peeks(c) -> conn' = [conn EXCEPT ![p] = c] /\ UNCHANGED _protocols
           [] Peeks(c) /\ first = "none" -> UNCHANGED <<conn, _protocols>>
           [] Peeks(c) /\ first = "eof" ->
                conn' = [conn EXCEPT ![p] = [done EXCEPT !.transport = "closed"]] /\ UNCHANGED _protocols
           [] Peeks(c) /\ first = "tls" ->
                conn' = [conn EXCEPT ![p] = [done EXCEPT !.upgrade = "due"]] /\ UNCHANGED _protocols
           [] Peeks(c) /\ first = "plain" ->
                conn' = [conn EXCEPT ![p] = Made(done)] /\ Register(p)
  /\ UNCHANGED <<_new_client, server, given, _count>>

\* Mistake in _on_detect_timeout: it leaves the decision to the peek.
OnTimeoutPatient(p) ==
  /\ conn[p].timer
  /\ conn' = [conn EXCEPT ![p].timer = FALSE]
  /\ Unregistered

_on_detect_timeout(p) ==
  /\ conn[p].timer
  /\ IF conn[p].decided
     THEN conn' = [conn EXCEPT ![p].timer = FALSE] /\ UNCHANGED _protocols
     ELSE _handoff_plain(p)
  /\ UNCHANGED <<_new_client, server, given, _count>>

\* The protocol is made, and registered, before the handshake.
_upgrade_to_tls(p) ==
  /\ conn[p].upgrade = "due"
  /\ conn' = [conn EXCEPT ![p].upgrade = "handshake"]
  /\ Register(p)
  /\ UNCHANGED <<_new_client, server, given, _count>>

\* The handshake is over: it succeeds, perhaps with data that follows it at
\* once; the peer's is refused; or the connection is lost or times out in it,
\* of which the real protocol is not told.
Handshake(p) ==
  /\ conn[p].upgrade = "handshake"
  /\ \E how \in {"done", "done with data", "refused", "lost"} :
       conn' = [conn EXCEPT ![p] =
         CASE how = "done" -> [@ EXCEPT !.upgrade = "done"]
           [] how = "done with data" ->
                [Lost(@) EXCEPT !.upgrade = "over", !.early = TRUE, !.transport = "closed"]
           [] how = "refused" -> [Lost(@) EXCEPT !.upgrade = "over", !.transport = "closed"]
           [] how = "lost" -> [@ EXCEPT !.upgrade = "over", !.transport = "closed"]]
  /\ Unregistered

Upgraded(p) ==
  /\ conn[p].upgrade = "done"
  /\ conn' = [conn EXCEPT ![p] = [Made(@) EXCEPT !.upgrade = "over"]]
  /\ Unregistered

\* The transport fails while the detection protocol has it.
LostDetecting(p) ==
  /\ conn[p].phase = "detecting" /\ ~conn[p].decided
  /\ conn' = [conn EXCEPT ![p].decided = TRUE, ![p].timer = FALSE, ![p].transport = "closed"]
  /\ Unregistered

(***************************************************************************)
(* A connection's life.                                                    *)
(***************************************************************************)

\* The waiter gets its result: begin_shell and _enqueue_client are due.
Negotiated(p) ==
  /\ conn[p].waiter = "pending"
  /\ conn' = [conn EXCEPT ![p].waiter = "done", ![p].enqueue = TRUE, ![p].begin = TRUE]
  /\ Unregistered

\* Mistake in Enqueue: a full queue keeps its oldest entries, and takes more.
EnqueueMore(p) == _new_client' = Append(_new_client, p)

\* A full queue loses its oldest entry.
Enqueue(p) ==
  _new_client' = Append(IF Len(_new_client) = maxsize THEN Tail(_new_client) ELSE _new_client, p)

_enqueue_client(p) ==
  /\ conn[p].enqueue
  /\ conn' = [conn EXCEPT ![p].enqueue = FALSE]
  /\ Enqueue(p)
  /\ UNCHANGED <<_protocols, server, given, _count>>

\* The peer leaves or fails, or times out.
Leaves(p) ==
  /\ conn[p].phase = "ready" /\ ~conn[p].closing
  /\ conn' = [conn EXCEPT ![p] = Lost(@)]
  /\ Unregistered

wait_for_client ==
  /\ _new_client # <<>>
  /\ given' = Append(given, Head(_new_client)) /\ _new_client' = Tail(_new_client)
  /\ UNCHANGED <<conn, _protocols, server, _count>>

\* Server.clients prunes as it lists, for its caller or for the StatusLogger.
clients ==
  /\ _protocols' = Live
  /\ UNCHANGED <<conn, _new_client, server, given, _count>>

\* Server.close closes the transports of the listed protocols that have one.
close ==
  /\ server.serving
  /\ server' = [server EXCEPT !.serving = FALSE]
  /\ conn' = [p \in Conns |-> IF _protocols[p] > 0 /\ conn[p].made > 0 THEN Lost(conn[p]) ELSE conn[p]]
  /\ UNCHANGED <<_protocols, _new_client, given, _count>>

(***************************************************************************)
(* The guarded shell.                                                      *)
(***************************************************************************)

\* Mistake in Release: the robot's slot is kept.
ReleaseTheRest(c) == _count' = IF c.shell = "robot" THEN _count ELSE _count - 1

\* `finally: counter.release()'.
Release(c) == _count' = IF limit > 0 /\ _count > 0 THEN _count - 1 ELSE _count

\* ConnectionCounter.try_acquire, without a limit always true.
try_acquire == limit = 0 \/ _count < limit

begin_shell(p) ==
  /\ conn[p].begin
  /\ LET guard == IF ~try_acquire THEN "busy" ELSE IF robot_check THEN "checking" ELSE "inner"
     IN  conn' = [conn EXCEPT ![p].begin = FALSE, ![p].shell = guard]
  /\ _count' = IF limit > 0 /\ try_acquire THEN _count + 1 ELSE _count
  /\ UNCHANGED <<_protocols, _new_client, server, given>>

\* What an awaited helper of the guards may bring: drain() raises once the
\* connection is lost; the end of the stream and the timeout give None.
Raises(c) == IF c.closing THEN {"raised"} ELSE {}

\* The bytes up to an 'R' that matches; None at the end or if they decode to nothing.
_read_cpr_response == {"position", "None"}
_get_cursor_position(c) == _read_cpr_response \cup Raises(c)

\* Blank lines repeat the prompt, each with a new timeout, and change nothing.
_readline_with_echo == {"line", "blank", "None"}
_ask_question(c) == (_readline_with_echo \ {"blank"}) \cup Raises(c)

\* A line of bounded length, short at the end of the stream; None in time.
_read_line(c) == {"line", "None"} \cup Raises(c)

\* The guard's shell is over, and closes the writer.
Closes(c) == [Lost(c) EXCEPT !.shell = "over"]

\* Two cursor positions, the test character between them; another width than
\* one, or an answer missing, is a robot's.
_measure_width(p) ==
  /\ conn[p].shell = "checking"
  /\ \E got \in _get_cursor_position(conn[p]) :
       CASE got = "raised" -> conn' = [conn EXCEPT ![p].shell = "over"] /\ Release(conn[p])
         [] got = "position" /\ conn[p].asked = 0 -> conn' = [conn EXCEPT ![p].asked = 1] /\ UNCHANGED _count
         [] got = "None" \/ (got = "position" /\ conn[p].asked = 1) ->
              /\ \E shell \in {"robot"} \cup (IF got = "position" THEN {"inner"} ELSE {}) :
                   conn' = [conn EXCEPT ![p].shell = shell, ![p].asked = 0]
              /\ UNCHANGED _count
  /\ UNCHANGED <<_protocols, _new_client, server, given>>

\* Two questions; without an answer the second is not asked.
robot_shell(p) ==
  /\ conn[p].shell = "robot"
  /\ \E got \in _ask_question(conn[p]) :
       IF got = "line" /\ conn[p].asked = 0
       THEN conn' = [conn EXCEPT ![p].asked = 1] /\ UNCHANGED _count
       ELSE conn' = [conn EXCEPT ![p] = Closes(@)] /\ Release(conn[p])
  /\ UNCHANGED <<_protocols, _new_client, server, given>>

\* Two lines are awaited, answered or not; it holds no slot.
busy_shell(p) ==
  /\ conn[p].shell = "busy"
  /\ \E got \in _read_line(conn[p]) :
       conn' = IF got # "raised" /\ conn[p].asked = 0
               THEN [conn EXCEPT ![p].asked = 1] ELSE [conn EXCEPT ![p] = Closes(@)]
  /\ Unregistered

\* The shell proper ends when it likes, and when the connection is lost; most
\* close the writer.
InnerEnds(p) ==
  /\ conn[p].shell = "inner"
  /\ \E closes \in BOOLEAN :
       conn' = [conn EXCEPT ![p] = [(IF closes THEN Lost(@) ELSE @) EXCEPT !.shell = "over"]]
  /\ Release(conn[p])
  /\ UNCHANGED <<_protocols, _new_client, server, given>>

Callback(p) ==
  \/ _try_peek(p) \/ _on_detect_timeout(p) \/ _upgrade_to_tls(p) \/ Handshake(p) \/ Upgraded(p)
  \/ Negotiated(p) \/ _enqueue_client(p) \/ begin_shell(p) \/ _measure_width(p) \/ robot_shell(p) \/ busy_shell(p)
Peer(p) == Accept(p) \/ Speaks(p) \/ LostDetecting(p) \/ Leaves(p) \/ InnerEnds(p)
Next ==
  \/ \E p \in Conns : Callback(p) \/ Peer(p)
  \/ wait_for_client \/ clients \/ close

Spec == Init /\ [][Next]_vars

\* The loop runs its callbacks and its timers; what has a timeout ends; a shell,
\* and a question that blank answers repeat, end when the reader gives the end
\* of a lost connection.
FairSpec ==
  /\ Spec
  /\ \A p \in Conns :
       /\ WF_vars(_on_detect_timeout(p)) /\ WF_vars(_upgrade_to_tls(p))
       /\ WF_vars(Handshake(p)) /\ WF_vars(Upgraded(p)) /\ WF_vars(begin_shell(p))
       /\ WF_vars(_measure_width(p))
       /\ WF_vars(conn[p].closing /\ robot_shell(p)) /\ WF_vars(conn[p].closing /\ InnerEnds(p))

(***************************************************************************)
(* Properties.                                                             *)
(***************************************************************************)
Holds(p) == conn[p].shell \in {"checking", "robot", "inner"}

\* The values of the variables.
TypeOK ==
  /\ \A p \in Conns :
       /\ conn[p].phase \in {"absent", "detecting", "ready"}
       /\ conn[p].transport \in {"open", "closed"}
       /\ conn[p].waiter \in {"none", "pending", "done", "cancelled"}
       /\ conn[p].shell \in {"none", "busy", "checking", "robot", "inner", "over"}
  /\ _protocols \in [Conns -> Nat] /\ {_new_client, given} \subseteq Seq(Conns)

\* The counter counts the guarded shells that were let in and have not ended,
\* never more than the limit, whichever way the guard, the check of a robot or
\* the shell ends.
SlotsCounted ==
  limit > 0 => _count <= limit /\ _count = Cardinality({p \in Conns : Holds(p)})

\* Whichever of the peek, the timeout, the handshake and the loss of the
\* connection comes first, a connection gets one real protocol at most, that
\* protocol is connected once at most, and while it lives Server.clients has it
\* exactly once.
HandedOnce ==
  \A p \in Conns :
    /\ conn[p].made <= 1 /\ _protocols[p] <= 1
    /\ conn[p].made = 1 /\ ~conn[p].closing => _protocols[p] = 1

\* The queue of new clients never outgrows its capacity, and
\* wait_for_client gives no client twice, whatever a full queue loses.
GivenOnce ==
  LET ready == given \o _new_client
  IN  /\ Len(_new_client) <= maxsize
      /\ \A i, j \in DOMAIN ready : ready[i] = ready[j] => i = j

\* Every connection is told apart, in the end, from a TLS client that has yet
\* to speak, and every slot of the counter comes back once its connection is
\* lost, in whatever question or wait of a guard that happens.
Served ==
  \A p \in Conns :
    /\ conn[p].phase = "detecting" ~> conn[p].decided
    /\ (Holds(p) /\ conn[p].closing) ~> ~Holds(p)

(***************************************************************************)
(* What docstrings say and the code does not do.                           *)
(***************************************************************************)

\* _register_protocol: "Prune dead protocols to prevent unbounded memory growth":
\* a protocol whose handshake is over and that was not connected is no client.
DeadPruned ==
  \A p \in Conns :
    _protocols[p] > 0 /\ conn[p].made = 0 => conn[p].upgrade # "over" \/ conn[p].closing

\* Server.close: "stop accepting new connections, and close all clients".
ClosesAll ==
  ~server.serving => \A p \in Conns : conn[p].phase # "absent" => conn[p].transport = "closed"

\* create_server: "the server accepts both TLS and plain telnet clients": a TLS
\* client that speaks as soon as it can is heard.
NeverEarly == \A p \in Conns : ~conn[p].early
=============================================================================
