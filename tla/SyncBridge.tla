----------------------------- MODULE SyncBridge -----------------------------
(***************************************************************************)
(* sync.py: blocking calls over an event loop in a thread of its own, and  *)
(* the waiters of stream_writer.py those calls end up in (wait_for, drain, *)
(* close).                                                                 *)
(*                                                                         *)
(* An `owner' thread connects and closes (TelnetConnection) or starts and  *)
(* shuts down (BlockingTelnetServer); a `user' thread reads, writes and    *)
(* waits on the connection, and for a server closes it.  A blocking call   *)
(* is run_coroutine_threadsafe: a task on the loop and a future the        *)
(* thread blocks on.  The loop runs its ready handles in order, with a     *)
(* mark `poll' where it asks the selector for events; threads interleave   *)
(* with it and with each other between any two steps.                      *)
(***************************************************************************)
EXTENDS TelnetReader

CONSTANTS
  Input,     \* what the peer sends: a set of sequences of bytes
  Calls,     \* the blocking calls the user thread makes
  MaxCalls,  \* a bound on how many tasks are started
  MaxWrites, \* a bound on the writes
  Timeouts   \* when connect and the user's calls time out: "never", "running"
             \* (not before the loop has begun their task) or "ever"

ASSUME CallsAssumption ==
  /\ Timeouts \in {"never", "running", "ever"}
  /\ Calls \subseteq {"read", "readline", "read_until", "wait_for", "flush"}

VARIABLES
  loop,     \* [state, ready]: the event loop and its ready handles
  conn,     \* the connection object, its writer and its protocol
  reader,   \* the TelnetReader
  task,     \* the tasks started for blocking calls, in order
  thread,   \* what each thread is doing
  toCome,   \* bytes the peer has sent that have not arrived
  written   \* writes by number: "called", "sent" or "ignored"

vars == <<loop, conn, reader, task, thread, toCome, written>>

Threads == {"owner", "user"}
H(name, k) == [name |-> name, k |-> k]
Call(ready, name, k) == Append(ready, H(name, k))
CallEach(ready, name, ks) == ready \o SetToSeq({H(name, k) : k \in ks})
Running == loop.state \in {"running", "stopping"}

Resting == [at |-> "idle", op |-> "none", k |-> 0]

\* connected: there is a connection, or a server that listens.  client: the
\* connection a thread may use, for a server queued by its shell and accepted.
Init ==
  /\ loop = [state |-> "none", ready |-> <<>>]
  /\ \E role \in {"client", "server"} : \* which of the two classes
       conn = [role |-> role, connected |-> FALSE, client |-> "none", closed |-> FALSE,
               closing |-> FALSE, open |-> FALSE, connection_closed |-> FALSE, option |-> FALSE,
               congested |-> FALSE, waiters |-> {}, drainers |-> {}]
  /\ reader = NewReader
  /\ task = <<>>
  /\ thread = [t \in Threads |-> Resting]
  /\ toCome \in Input
  /\ written = <<>>

(***************************************************************************)
(* Threads.                                                                *)
(***************************************************************************)

\* run_coroutine_threadsafe, and the thread blocks on the future.  What was
\* begun before the connection was being closed is `early'.
Submit(t, op) ==
  /\ Len(task) < MaxCalls
  /\ task' = Append(task, [op |-> op, at |-> "queued", cancelling |-> FALSE, held |-> <<>>,
                           fut |-> "pending", outcome |-> "none",
                           early |-> \A i \in DOMAIN task : task[i].op \notin {"cleanup", "shutdown"}])
  /\ loop' = [loop EXCEPT !.ready = Call(@, "start", Len(task) + 1)]
  /\ thread' = [thread EXCEPT ![t] = [at |-> "blocked", op |-> op, k |-> Len(task) + 1]]

Call0(op, at) ==
  [op |-> op, at |-> at, cancelling |-> FALSE, held |-> <<>>, fut |-> "pending",
   outcome |-> "none", early |-> op = "connect"]

\* TelnetConnection.connect: the loop thread begins, and is given the task.
Connect ==
  /\ conn.role = "client" /\ loop.state = "none" /\ thread["owner"] = Resting
  /\ Len(task) < MaxCalls
  /\ task' = <<Call0("connect", "queued")>>
  /\ loop' = [state |-> "running", ready |-> <<H("poll", 0), H("start", 1)>>]
  /\ thread' = [thread EXCEPT !["owner"] = [at |-> "blocked", op |-> "connect", k |-> 1]]
  /\ UNCHANGED <<conn, reader, toCome, written>>

\* BlockingTelnetServer.start: the loop thread runs _start_server itself, and
\* the owner waits, however long, for the event that it is done.
start ==
  /\ conn.role = "server" /\ loop.state = "none" /\ thread["owner"] = Resting
  /\ Len(task) < MaxCalls
  /\ task' = <<Call0("start", "ready")>>
  /\ loop' = [state |-> "running", ready |-> <<H("step", 1), H("poll", 0)>>]
  /\ thread' = [thread EXCEPT !["owner"] = [at |-> "blocked", op |-> "start", k |-> 1]]
  /\ UNCHANGED <<conn, reader, toCome, written>>

\* A thread of the server takes the connection that its shell has queued.
accept ==
  /\ thread["user"].at = "idle" /\ conn.client = "queued"
  /\ conn' = [conn EXCEPT !.client = "taken"]
  /\ UNCHANGED <<loop, reader, task, thread, toCome, written>>

\* _ensure_connected, or for a server's connection the look at _closed ...
Check ==
  /\ thread["user"].at = "idle" /\ Len(task) < MaxCalls
  /\ conn.client = "taken" /\ ~conn.closed
  /\ \E op \in Calls \cup {"write"} :
       thread' = [thread EXCEPT !["user"] = [at |-> "checked", op |-> op, k |-> 0]]
  /\ UNCHANGED <<loop, conn, reader, task, toCome, written>>

\* ... and, perhaps later, the call, which raises if the loop is closed by then.
Begin ==
  /\ thread["user"].at = "checked" /\ thread["user"].op # "write"
  /\ IF loop.state = "closed" THEN thread' = [thread EXCEPT !["user"] = Resting] /\ UNCHANGED <<loop, task>>
     ELSE Submit("user", thread["user"].op)
  /\ UNCHANGED <<conn, reader, toCome, written>>

Write ==
  /\ thread["user"].at = "checked" /\ thread["user"].op = "write"
  /\ Len(written) < MaxWrites
  /\ thread' = [thread EXCEPT !["user"] = Resting]
  /\ IF loop.state = "closed" THEN UNCHANGED <<loop, written>>
     ELSE /\ loop' = [loop EXCEPT !.ready = Call(@, "write", Len(written) + 1)]
          /\ written' = Append(written, "called")
  /\ UNCHANGED <<conn, reader, task, toCome>>

\* The future has a result: the call returns or raises.
Returns(t) ==
  /\ thread[t].at = "blocked" /\ task[thread[t].k].fut = "done"
  /\ thread' = [thread EXCEPT ![t] =
       IF t = "user" \/ (thread[t].op \in {"connect", "start"} /\ conn.connected) THEN Resting
       ELSE [@ EXCEPT !.at = "stopping"]]
  /\ UNCHANGED <<loop, conn, reader, task, toCome, written>>

\* The caller's own timeout.
Expires(t) ==
  /\ thread[t].at = "blocked" /\ task[thread[t].k].fut = "pending"
  /\ CASE Timeouts = "never" -> FALSE
       [] Timeouts = "running" -> task[thread[t].k].at \notin {"queued", "ready"}
       [] Timeouts = "ever" -> TRUE

\* The timeout expires: the future is cancelled, and its task by a callback.
TimesOut ==
  /\ Expires("user")
  /\ LET k == thread["user"].k
     IN  /\ task' = [task EXCEPT ![k].fut = "cancelled"]
         /\ loop' = IF task[k].at \in {"queued", "over"} \/ loop.state = "closed" THEN loop
                    ELSE [loop EXCEPT !.ready = Call(@, "cancel", k)]
  /\ thread' = [thread EXCEPT !["user"] = Resting]
  /\ UNCHANGED <<conn, reader, toCome, written>>

\* close() and shutdown(): first the clean-up on the loop ...
Close ==
  /\ thread["owner"].at = "idle" /\ conn.connected
  /\ conn.role = "client" => ~conn.closed
  /\ \A i \in DOMAIN task : task[i].op \notin {"cleanup", "shutdown"}
  /\ Submit("owner", IF conn.role = "client" THEN "cleanup" ELSE "shutdown")
  /\ conn' = IF conn.role = "client" THEN [conn EXCEPT !.closed = TRUE] ELSE conn
  /\ UNCHANGED <<reader, toCome, written>>

\* connect's timeout: its task goes on, but a connection it has by then made is
\* cleaned up, without being marked as closed, and the loop is stopped.
ConnectTimesOut ==
  /\ thread["owner"].op = "connect" /\ Expires("owner")
  /\ thread' = [thread EXCEPT !["owner"].at = "cleaning"]
  /\ UNCHANGED <<loop, conn, reader, task, toCome, written>>
Cleans ==
  /\ thread["owner"].at = "cleaning" /\ conn.role = "client"
  /\ IF conn.connected /\ Running THEN Submit("owner", "cleanup")
     ELSE thread' = [thread EXCEPT !["owner"].at = "stopping"] /\ UNCHANGED <<loop, task>>
  /\ UNCHANGED <<conn, reader, toCome, written>>

\* After two seconds the clean-up is not waited for any more.
GivesUp ==
  /\ thread["owner"].at = "blocked" /\ thread["owner"].op \in {"cleanup", "shutdown"}
  /\ task[thread["owner"].k].fut = "pending"
  /\ thread' = [thread EXCEPT !["owner"].at = "stopping"]
  /\ UNCHANGED <<loop, conn, reader, task, toCome, written>>

\* ... then the loop is stopped, the thread joined and the loop closed; that
\* raises if the thread has not ended within two seconds.
Stop ==
  /\ thread["owner"].at = "stopping"
  /\ loop' = IF Running THEN [loop EXCEPT !.ready = Call(@, "stop", 0)] ELSE loop
  /\ thread' = [thread EXCEPT !["owner"].at = "joining"]
  /\ UNCHANGED <<conn, reader, task, toCome, written>>
Joined ==
  /\ thread["owner"].at = "joining" /\ loop.state = "stopped"
  /\ loop' = [loop EXCEPT !.state = "closed"]
  /\ thread' = [thread EXCEPT !["owner"].at = "gone"]
  /\ UNCHANGED <<conn, reader, task, toCome, written>>
JoinFails ==
  /\ thread["owner"].at = "joining" /\ Running
  /\ thread' = [thread EXCEPT !["owner"].at = "gone"]
  /\ UNCHANGED <<loop, conn, reader, task, toCome, written>>

\* Mistake in CloseSoon: the writer is closed ahead of what was asked before.
CloseFirst(ready) == <<H("wclose", 0)>> \o ready

CloseSoon(ready) == Call(ready, "wclose", 0)

\* The handler ends, and _handle_client closes what it has not closed.
HandlerCloses ==
  /\ conn.role = "server" /\ thread["user"].at = "idle"
  /\ conn.client = "taken" /\ ~conn.closed
  /\ conn' = [conn EXCEPT !.closed = TRUE]
  /\ loop' = IF loop.state = "closed" THEN loop
             ELSE [loop EXCEPT !.ready = CloseSoon(@)]
  /\ UNCHANGED <<reader, task, thread, toCome, written>>

(***************************************************************************)
(* The loop.                                                               *)
(***************************************************************************)
Runs(name) == Running /\ loop.ready # <<>> /\ Head(loop.ready).name = name
Rest == Tail(loop.ready)
Which == Head(loop.ready).k

\* What the tasks await: the reader's future, or one of the writer's or of the
\* protocol's.  Completing it makes the task ready.
Reads == {"read", "readline", "read_until"}
Scheduled(k) == \E i \in DOMAIN loop.ready : loop.ready[i] = H("step", k)
Reading == {k \in DOMAIN task : task[k].op \in Reads /\ task[k].at = "waiting"
                                /\ ~Scheduled(k)}

Woken(r) == IF reader.future = "pending" /\ r.future # "pending" THEN Reading ELSE {}

\* The task is created and its first step scheduled; if its future has been
\* cancelled by then, that is passed on to the task by a callback of its own.
Start ==
  /\ Runs("start")
  /\ task' = [task EXCEPT ![Which].at = "ready"]
  /\ LET due == Call(Rest, "step", Which)
     IN  loop' = [loop EXCEPT !.ready =
                    IF task[Which].fut = "cancelled" THEN Call(due, "cancel", Which) ELSE due]
  /\ UNCHANGED <<conn, reader, thread, toCome, written>>

\* task.cancel(): what the task awaits is cancelled, if that is not yet done.
CancelTask ==
  /\ Runs("cancel")
  /\ LET k == Which
         awaits == {k} \cap (Reading \cup conn.waiters \cup conn.drainers)
     IN  /\ task' = [task EXCEPT ![k].cancelling = task[k].at # "over"]
         /\ loop' = [loop EXCEPT !.ready = CallEach(Rest, "step", awaits)]
         /\ reader' = IF k \in Reading THEN [reader EXCEPT !.future = "cancelled"] ELSE reader
         /\ conn' = [conn EXCEPT !.waiters = @ \ {k}, !.drainers = @ \ {k}]
  /\ UNCHANGED <<thread, toCome, written>>

\* The task ends with an outcome, and its callback settles the future later.
Ends(k, outcome, data) ==
  /\ task' = [task EXCEPT ![k].at = "over", ![k].outcome = outcome, ![k].held = data]
  /\ loop' = [loop EXCEPT !.ready = Call(Rest, "settle", k)]

\* Mistake in Waits: the line gathered so far is forgotten.
WaitsAfresh(k, held) ==
  /\ task' = [task EXCEPT ![k].at = "waiting", ![k].held = <<>>]
  /\ loop' = [loop EXCEPT !.ready = Rest]

Waits(k, held) ==
  /\ task' = [task EXCEPT ![k].at = "waiting", ![k].held = held]
  /\ loop' = [loop EXCEPT !.ready = Rest]

Settle ==
  /\ Runs("settle")
  /\ task' = [task EXCEPT ![Which].fut = IF @ = "pending" THEN "done" ELSE @]
  /\ loop' = [loop EXCEPT !.ready = Rest]
  /\ UNCHANGED <<conn, reader, thread, toCome, written>>

StepOf(op) == Runs("step") /\ task[Which].op = op

\* A turn of the reader's coroutine.
ReadTurn(op, r, held, resumed) ==
  CASE op = "read" -> read(r, limit, resumed)
    [] op = "readline" -> readline(r, held)
    [] op = "read_until" -> readuntil(r, <<"LF">>)

\* A read, a turn at a time.  An end before the match is an EOFError for the
\* caller, with what came before it gone; an overrun takes nothing.
StepRead ==
  /\ \E op \in Reads : StepOf(op)
  /\ LET k == Which
         resumed == task[k].at = "waiting"
         r == IF resumed THEN Awoken(reader) ELSE reader
         o == ReadTurn(task[k].op, r, task[k].held, resumed)
     IN  IF task[k].cancelling THEN Ends(k, "cancelled", task[k].held) /\ reader' = r
         ELSE IF (IF resumed THEN reader.future = "raised" ELSE r.exception)
           THEN Ends(k, "raised", task[k].held) /\ reader' = r
         ELSE IF o.how = "wait" /\ r.waiter THEN Ends(k, "clash", <<>>) /\ reader' = r
         ELSE /\ reader' = o.r
              /\ IF o.how = "wait" THEN Waits(k, o.data) ELSE Ends(k, o.how, o.data)
  /\ UNCHANGED <<conn, thread, toCome, written>>

\* TelnetWriter.wait_for: the condition now, or a waiter that is completed when
\* an option changes and cancelled when the writer is closed.
StepWaitFor ==
  /\ StepOf("wait_for")
  /\ LET k == Which
     IN  CASE task[k].cancelling -> Ends(k, "cancelled", <<>>) /\ UNCHANGED conn
           [] ~task[k].cancelling /\ (conn.option \/ task[k].at = "waiting") ->
                Ends(k, "ok", <<>>) /\ UNCHANGED conn
           [] OTHER -> Waits(k, <<>>) /\ conn' = [conn EXCEPT !.waiters = @ \cup {k}]
  /\ UNCHANGED <<reader, thread, toCome, written>>

\* TelnetWriter.drain: waits while the transport has the protocol paused.
StepFlush ==
  /\ StepOf("flush")
  /\ LET k == Which
     IN  IF task[k].cancelling THEN Ends(k, "cancelled", <<>>) /\ UNCHANGED conn
         ELSE IF task[k].at = "ready" /\ reader.exception
           THEN Ends(k, "raised", <<>>) /\ UNCHANGED conn
         ELSE IF task[k].at = "ready" /\ conn.congested /\ ~conn.connection_closed
           THEN Waits(k, <<>>) /\ conn' = [conn EXCEPT !.drainers = @ \cup {k}]
         ELSE Ends(k, "ok", <<>>) /\ UNCHANGED conn
  /\ UNCHANGED <<reader, thread, toCome, written>>

\* _async_connect: open_connection gives a reader and a writer, or fails.
StepConnect ==
  /\ StepOf("connect")
  /\ \E ok \in BOOLEAN :
       /\ conn' = [conn EXCEPT !.connected = ok, !.open = ok, !.client = IF ok THEN "taken" ELSE @]
       /\ Ends(Which, IF ok THEN "ok" ELSE "raised", <<>>)
  /\ UNCHANGED <<reader, thread, toCome, written>>

\* _start_server binds and listens; if it raises, the loop thread dies of it
\* and the event is never set.
StepStart ==
  /\ StepOf("start")
  /\ \/ /\ conn' = [conn EXCEPT !.connected = TRUE]
        /\ Ends(Which, "ok", <<>>)
     \/ /\ task' = [task EXCEPT ![Which].at = "over", ![Which].outcome = "raised"]
        /\ loop' = [state |-> "stopped", ready |-> Rest]
        /\ UNCHANGED conn
  /\ UNCHANGED <<reader, thread, toCome, written>>

\* A client of the server has negotiated: the shell queues its connection,
\* and then waits for it to be closed.
RunClient ==
  /\ Runs("client") /\ ~conn.closing
  /\ conn' = [conn EXCEPT !.client = "queued", !.open = TRUE]
  /\ loop' = [loop EXCEPT !.ready = Rest]
  /\ UNCHANGED <<reader, task, thread, toCome, written>>

\* The protocol's connection_lost: the reader is told, and nobody else.
Lost(c) == [c EXCEPT !.closing = TRUE, !.open = FALSE]
ToldOfEof == IF conn.closing THEN reader ELSE feed_eof(reader)

\* TelnetWriter.close: the waiters are cancelled and connection_lost is called.
WriterClosed ==
  IF conn.connection_closed THEN conn
  ELSE [Lost(conn) EXCEPT !.connection_closed = TRUE, !.waiters = {}]

\* Mistake in WritersDue: the waiters are dropped instead of cancelled.
WritersDropped == {}

WritersDue == IF conn.connection_closed THEN {} ELSE conn.waiters
CancelAll(ks) == [k \in DOMAIN task |-> [task[k] EXCEPT !.cancelling = @ \/ k \in ks]]

\* _async_cleanup: close, then wait_closed, which yields once.
StepCleanup ==
  /\ StepOf("cleanup")
  /\ LET k == Which
         r == ToldOfEof
     IN  IF task[k].at = "ready"
         THEN /\ conn' = WriterClosed /\ reader' = r
              /\ task' = [CancelAll(WritersDue) EXCEPT ![k].at = "waiting"]
              /\ loop' = [loop EXCEPT !.ready =
                   Call(CallEach(Rest, "step", WritersDue \cup Woken(r)), "step", k)]
         ELSE Ends(k, "ok", <<>>) /\ UNCHANGED <<conn, reader>>
  /\ UNCHANGED <<thread, toCome, written>>

\* _async_shutdown: the transports are closed, every task is cancelled, and
\* the loop is yielded to once.
StepShutdown ==
  /\ StepOf("shutdown")
  /\ LET k == Which
         others == {i \in DOMAIN task : task[i].at \in {"ready", "waiting"}} \ {k}
         awaits == Reading \cup conn.waiters \cup conn.drainers
     IN  IF task[k].at = "ready"
         THEN /\ conn' = [Lost(conn) EXCEPT !.waiters = {}, !.drainers = {}]
              /\ reader' = IF Reading = {} THEN ToldOfEof
                           ELSE [ToldOfEof EXCEPT !.waiter = TRUE, !.future = "cancelled"]
              /\ task' = [CancelAll(others) EXCEPT ![k].at = "waiting"]
              /\ loop' = [loop EXCEPT !.ready = Call(CallEach(Rest, "step", awaits), "step", k)]
         ELSE Ends(k, "ok", <<>>) /\ UNCHANGED <<conn, reader>>
  /\ UNCHANGED <<thread, toCome, written>>

RunWrite ==
  /\ Runs("write")
  /\ written' = [written EXCEPT ![Which] = IF conn.connection_closed THEN "ignored" ELSE "sent"]
  /\ loop' = [loop EXCEPT !.ready = Rest]
  /\ UNCHANGED <<conn, reader, task, thread, toCome>>

RunClose ==
  /\ Runs("wclose")
  /\ LET r == IF conn.connection_closed THEN reader ELSE ToldOfEof
     IN  /\ conn' = WriterClosed /\ reader' = r
         /\ task' = CancelAll(WritersDue)
         /\ loop' = [loop EXCEPT !.ready = CallEach(Rest, "step", WritersDue \cup Woken(r))]
  /\ UNCHANGED <<thread, toCome, written>>

\* loop.stop: the handles of the current turn still run, no later ones.
RunStop ==
  /\ Runs("stop")
  /\ loop' = [state |-> "stopping", ready |-> Rest]
  /\ UNCHANGED <<conn, reader, task, thread, toCome, written>>
Exit ==
  /\ loop.state = "stopping" /\ Runs("poll")
  /\ loop' = [loop EXCEPT !.state = "stopped"]
  /\ UNCHANGED <<conn, reader, task, thread, toCome, written>>

(***************************************************************************)
(* The peer and the network: an event the selector reports is handled      *)
(* after what is ready by then.                                            *)
(***************************************************************************)
Readable == conn.open /\ reader.reading
Poll ==
  /\ Runs("poll") /\ loop.state = "running"
  /\ \E event \in {"none", "data", "eof", "option", "congestion", "client"} :
       LET due == IF event = "none" THEN Rest ELSE Call(Rest, event, 0)
       IN  /\ event \in {"data", "eof", "option"} => Readable
           /\ event = "data" => toCome # <<>>
           /\ event = "client" => conn.role = "server" /\ conn.connected
                                  /\ ~conn.closing /\ conn.client = "none"
           /\ event = "congestion" => conn.open /\ "sent" \in Range(written)
           /\ due # <<>>
           /\ loop' = [loop EXCEPT !.ready = Call(due, "poll", 0)]
  /\ UNCHANGED <<conn, reader, task, thread, toCome, written>>

Tell(r) ==
  /\ reader' = r
  /\ loop' = [loop EXCEPT !.ready = CallEach(Rest, "step", Woken(r))]

RunData ==
  /\ Runs("data") /\ Readable /\ toCome # <<>>
  /\ Tell(feed_data(reader, <<Head(toCome)>>))
  /\ toCome' = Tail(toCome)
  /\ UNCHANGED <<conn, task, thread, written>>

RunEof ==
  /\ Runs("eof") /\ Readable
  /\ conn' = Lost(conn) /\ Tell(feed_eof(reader))
  /\ UNCHANGED <<task, thread, toCome, written>>

\* An option changes; _check_waiters completes those whose condition holds.
RunOption ==
  /\ Runs("option") /\ Readable
  /\ LET on == ~conn.option
         met == IF on THEN conn.waiters ELSE {}
     IN  /\ conn' = [conn EXCEPT !.option = on, !.waiters = @ \ met]
         /\ loop' = [loop EXCEPT !.ready = CallEach(Rest, "step", met)]
  /\ UNCHANGED <<reader, task, thread, toCome, written>>

\* pause_writing and resume_writing, called by the transport.
RunCongestion ==
  /\ Runs("congestion") /\ conn.open
  /\ conn' = [conn EXCEPT !.congested = ~@, !.drainers = IF conn.congested THEN {} ELSE @]
  /\ loop' = [loop EXCEPT !.ready =
                IF conn.congested THEN CallEach(Rest, "step", conn.drainers) ELSE Rest]
  /\ UNCHANGED <<reader, task, thread, toCome, written>>

\* The transport was closed, or paused, since the selector reported (or there
\* is nothing to receive, which makes no difference).
RunNothing ==
  /\ \/ Runs("data") /\ ~(Readable /\ toCome # <<>>)
     \/ (Runs("eof") \/ Runs("option")) /\ ~Readable
     \/ Runs("congestion") /\ ~conn.open
     \/ Runs("client") /\ conn.closing
  /\ loop' = [loop EXCEPT !.ready = Rest]
  /\ UNCHANGED <<conn, reader, task, thread, toCome, written>>

Run ==
  \/ Start \/ CancelTask \/ Settle \/ StepRead \/ StepWaitFor \/ StepFlush \/ StepConnect \/ StepStart \/ RunClient
  \/ StepCleanup \/ StepShutdown \/ RunWrite \/ RunClose \/ RunStop
  \/ RunData \/ RunEof \/ RunOption \/ RunCongestion \/ RunNothing
Owner ==
  \/ Connect \/ start \/ ConnectTimesOut \/ Cleans \/ Close \/ GivesUp
  \/ Stop \/ Joined \/ JoinFails \/ Returns("owner")
User == accept \/ Check \/ Begin \/ Write \/ TimesOut \/ HandlerCloses \/ Returns("user")
Next == Run \/ Poll \/ Exit \/ Owner \/ User

Spec == Init /\ [][Next]_vars

(***************************************************************************)
(* Properties.                                                             *)
(***************************************************************************)

\* Types, and each task that is not over is in one place: queued, ready to
\* run, or waiting for something that is pending.
TypeOK ==
  /\ loop.state \in {"none", "running", "stopping", "stopped", "closed"}
  /\ reader \in Reader(UNION {Range(i) : i \in Input})
  /\ \A t \in Threads :
       /\ thread[t].at \in {"idle", "checked", "blocked", "cleaning", "stopping", "joining", "gone"}
       /\ thread[t].at = "blocked" => thread[t].k \in DOMAIN task
  /\ \A k \in DOMAIN task :
       /\ task[k].fut \in {"pending", "done", "cancelled"}
       /\ task[k].at = "waiting" /\ ~Scheduled(k) =>
            IF task[k].op \in Reads THEN reader.future = "pending"
            ELSE k \in conn.waiters \cup conn.drainers
  /\ \A i \in DOMAIN written : written[i] \in {"called", "sent", "ignored"}

\* Nobody who is blocked in a call when another thread closes the connection
\* or shuts the server down is forgotten by the clean-up: when it is done their
\* futures have a result.  (A flush is: see DrainEnds; and if it is not waited
\* for: see LimitReleases.)
ReleasedByClose ==
  \A c, k \in DOMAIN task :
    /\ task[c].op \in {"cleanup", "shutdown"} /\ task[c].fut = "done"
    /\ task[k].early /\ task[k].op # "flush"
    => task[k].fut # "pending"

\* Writes reach the writer in the order of the calls, and what a handler wrote
\* before it closed its connection is sent: only a write that races another
\* thread's close, or the end of a connect that has timed out, is not.
WritesKept ==
  \A i \in DOMAIN written :
    /\ written[i] = "sent" => \A j \in 1 .. i : written[j] = "sent"
    /\ written[i] = "ignored" =>
         conn.role = "client" /\ \E k \in DOMAIN task : task[k].op = "cleanup"

\* The reads take what the peer sent in the order of the calls and leave no
\* byte between two of them, whichever of them timed out and were retried.
ReadsInOrder ==
  LET taken == FlattenSeq([k \in DOMAIN task |-> task[k].held])
      left == reader.buffer \o toCome
  IN  \E input \in Input : taken \o left = input

(***************************************************************************)
(* What docstrings and comments say and the code does not do.              *)
(***************************************************************************)
Rested == loop.state = "running" /\ loop.ready = <<H("poll", 0)>>

\* wait_for: ":raises asyncio.CancelledError: If connection closes while
\* waiting."
WaitEnds == Rested /\ conn.closing => conn.waiters = {}

\* drain: "Wait for protocol.connection_lost() call.  Raise connection closing
\* error if any": nobody is left draining a lost connection.
DrainEnds == Rested /\ conn.closing => conn.drainers = {}

\* read: ":raises TimeoutError: If timeout expires before data available": a
\* call that timed out has taken no data.
TimeoutTakesNothing ==
  \A k \in DOMAIN task :
    task[k].fut = "cancelled" /\ task[k].op = "read" => task[k].held = <<>>

\* shutdown: "Cancel all pending tasks to avoid 'Task was destroyed but pending'
\* warnings", and close: "Schedule proper async cleanup"; also when the two seconds
\* given to the clean-up are over: none is pending when the loop has stopped.
LimitReleases ==
  loop.state \in {"stopped", "closed"} =>
    \A k \in DOMAIN task :
      task[k].early /\ task[k].op \in Reads \cup {"wait_for"} => task[k].fut # "pending"

\* start: "Wait for server to be ready", not for ever if it cannot be.
StartReturns == loop.state = "stopped" => thread["owner"].at # "blocked"

\* readline: "Blocks until a complete line is received or timeout expires", and
\* so must the retry of a call that has timed out.
BlocksUntilLine ==
  Rested => \A k \in DOMAIN task :
    task[k].op = "readline" /\ task[k].at = "waiting" =>
      MatchEnds(reader, {<<"CR">>, <<"LF">>}) = {}

=============================================================================
