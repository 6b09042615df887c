---------------------------- MODULE ClientSession ----------------------------
(***************************************************************************)
(* client_base.py: a BaseClient on the event loop, from connection_made to *)
(* the end of its shell.                                                   *)
(*                                                                         *)
(* The loop is the FIFO of its ready handles, with a mark `poll' where the *)
(* selector is asked for events and due timers.  Only the first handle     *)
(* runs.  data_received puts chunks in a receive queue, a task of its own  *)
(* (_process_rx) takes them out and feeds the reader, and a shell reads;   *)
(* the queue and the reader each pause and resume the one transport.  A    *)
(* chunk is a sequence of items: 0 is a command, any other number a block  *)
(* of data.                                                                *)
(***************************************************************************)
EXTENDS TelnetReader

CONSTANTS
  Input,      \* what the server sends before it ends: a set of sequences of items
  MaxChunk,   \* blocks of data in the largest chunk
  Burst,      \* protocol callbacks the transport may make in one turn of the loop
  quantum, _read_low, _read_high,  \* the watermarks of the receive queue, in blocks
  HasShell    \* whether a shell is given

ASSUME WatermarksAssumption ==
  /\ {quantum, _read_low, _read_high, MaxChunk, Burst} \subseteq Nat \ {0}
  /\ _read_low < _read_high /\ HasShell \in BOOLEAN
ASSUME InputAssumption == \A i \in Input : i \in Seq(Nat)

VARIABLES
  c,         \* the client: protocol, reader, loop, shell and clock, one record
  toCome,    \* items the server has sent and the client has not received
  received,  \* the blocks data_received has been given, ever
  taken      \* the blocks the shell has read, ever

vars == <<c, toCome, received, taken>>

H(name, n) == [name |-> name, n |-> n]
Names(loop) == {loop[i].name : i \in DOMAIN loop}

\* The data of a chunk, and of the chunks of the receive queue.
AndBlock(data, item) == IF item = 0 THEN data ELSE Append(data, item)
Blocks(items) == FoldLeft(AndBlock, <<>>, items)
AndChunk(data, chunk) == data \o Blocks(chunk)
Queued(chunks) == FoldLeft(AndChunk, <<>>, chunks)
_rx_bytes(s) == Len(Queued(s.rx_queue))

\* connection_made, while open_connection is about to hear of it.
\* connect_minwait may be 0, in which case it is over.
Init ==
  /\ \E clock \in {"early", "mid"} :
       c = [loop |-> <<H("begin_negotiation", 0), H("open", 0), H("poll", 0)>>,
            clock |-> clock, opening |-> "connecting",
            reader |-> NewReader, transport |-> TRUE,
            closing |-> FALSE, connected |-> FALSE, closed |-> FALSE, raised |-> FALSE,
            rx_queue |-> <<>>, rx |-> "none", processed |-> 0, any_cmd |-> FALSE,
            reading_paused |-> FALSE, check_later |-> "none",
            pending |-> FALSE, critical |-> FALSE, shell |-> "none"]
  /\ toCome \in Input
  /\ received = <<>> /\ taken = <<>>

CallSoon(s, name) == [s EXCEPT !.loop = Append(@, H(name, 0))]
\* A callback that is cancelled before it runs.
ButTimer(loop, h) == IF h.name = "timer" THEN loop ELSE Append(loop, h)
Untimed(s) == [s EXCEPT !.loop = FoldLeft(ButTimer, <<>>, @)]

\* A new reader; if that completed the shell's future the shell is due.
WithReader(s, r) ==
  LET t == [s EXCEPT !.reader = r]
  IN  IF s.reader.future = "pending" /\ r.future # "pending" THEN CallSoon(t, "shell") ELSE t

SetConnected(s) ==
  IF s.connected THEN [s EXCEPT !.raised = TRUE]
  ELSE LET begun == CallSoon([s EXCEPT !.connected = TRUE], "begin_shell")
       IN  IF s.opening = "waiting" THEN CallSoon(begun, "open") ELSE begun

check_negotiation(s) == ~s.pending /\ (s.critical \/ s.clock # "early")

\* A final check at connect_maxwait, and one at connect_minwait.
CheckLater(s) == [s EXCEPT !.check_later = IF s.clock = "early" THEN "mid" ELSE "late"]

_check_negotiation_timer(s) ==
  LET cancelled == [Untimed(s) EXCEPT !.check_later = "none"]
  IN  IF s.check_later = "none" THEN [s EXCEPT !.raised = TRUE]
      ELSE IF check_negotiation(s) \/ s.clock = "late" THEN SetConnected(cancelled)
      ELSE CheckLater(cancelled)

\* begin_negotiation: the client's own offers and requests, if configured.
begin_negotiation(s, asks) ==
  CallSoon([s EXCEPT !.check_later = "soon", !.pending = asks], "timer")

connection_lost(s, exc) ==
  LET dropped == [s EXCEPT !.closing = TRUE, !.rx_queue = <<>>, !.transport = FALSE,
                           !.rx = IF @ = "ready" THEN "cancelled" ELSE @,
                           !.check_later = "none"]
      told == WithReader(Untimed(dropped),
                         IF exc THEN set_exception(s.reader) ELSE feed_eof(s.reader))
      connected == IF told.connected THEN told ELSE SetConnected(told)
  IN  IF s.closing THEN s
      ELSE IF HasShell THEN connected ELSE [connected EXCEPT !.closed = TRUE]

\* A shell starts even when the connection is lost first, to find the end of
\* file; but none starts for a future that the opener's end has cancelled.
begin_shell(s) ==
  IF HasShell /\ s.opening # "cancelled" THEN CallSoon([s EXCEPT !.shell = "ready"], "shell") ELSE s

\* Mistake in QueueRx: the last chunk first.
QueueFirst(s, chunk) == [s EXCEPT !.rx_queue = <<chunk>> \o @]

StartRx(s) == IF s.rx = "none" THEN CallSoon([s EXCEPT !.rx = "ready"], "rx") ELSE s
QueueRx(s, chunk) == [s EXCEPT !.rx_queue = Append(@, chunk)]

data_received(s, chunk) ==
  LET started == StartRx(QueueRx(s, chunk))
  IN  IF ~s.reading_paused /\ _rx_bytes(started) >= _read_high /\ s.transport
      THEN [started EXCEPT !.reading_paused = TRUE, !.reader.reading = FALSE]
      ELSE started

\* _process_chunk: the data goes to the reader, and the commands leave any
\* state of negotiation behind.
_process_chunk(s, chunk, pending, critical) ==
  LET cmd == 0 \in Range(chunk)
      fed == WithReader(s, feed_data(s.reader, Blocks(chunk)))
  IN  [fed EXCEPT !.any_cmd = @ \/ cmd,
                  !.pending = IF cmd THEN pending ELSE @,
                  !.critical = IF cmd THEN critical ELSE @]

\* Mistake in RxFinally: the check is made although the waiter has its result.
RxFinallyAnyway(s) ==
  LET over == [s EXCEPT !.loop = Tail(@), !.rx = "none", !.processed = 0, !.any_cmd = FALSE]
  IN  IF s.any_cmd THEN _check_negotiation_timer(over) ELSE over

\* The end of _process_rx, normal or cancelled.
RxFinally(s) ==
  LET over == [s EXCEPT !.loop = Tail(@), !.rx = "none", !.processed = 0, !.any_cmd = FALSE]
  IN  IF s.any_cmd /\ ~s.connected THEN _check_negotiation_timer(over) ELSE over

\* Mistake in ResumeRx: the transport is never resumed.
ResumeNever(s) == s

ResumeRx(s) ==
  IF s.reading_paused /\ _rx_bytes(s) <= _read_low /\ s.transport
  THEN [s EXCEPT !.reading_paused = FALSE, !.reader.reading = TRUE] ELSE s

\* One round of the loop of _process_rx.
RxRound(s, pending, critical) ==
  LET chunk == Head(s.rx_queue)
      done == _process_chunk([s EXCEPT !.rx_queue = Tail(@)], chunk, pending, critical)
      counted == [done EXCEPT !.processed = @ + Len(Blocks(chunk))]
      resumed == ResumeRx(counted)
  IN  IF resumed.processed >= quantum
      THEN [resumed EXCEPT !.processed = 0, !.loop = Append(Tail(@), Head(@))]
      ELSE resumed

(***************************************************************************)
(* The loop.                                                               *)
(***************************************************************************)
Runs(name) == c.loop # <<>> /\ Head(c.loop).name = name
Rest == [c EXCEPT !.loop = Tail(@)]

RunBegin ==
  /\ Runs("begin_negotiation")
  /\ \E asks \in BOOLEAN : c' = begin_negotiation(Rest, asks)
  /\ UNCHANGED <<toCome, received, taken>>

RunTimer ==
  /\ Runs("timer")
  /\ c' = _check_negotiation_timer(Rest)
  /\ UNCHANGED <<toCome, received, taken>>

RunBeginShell ==
  /\ Runs("begin_shell")
  /\ c' = begin_shell(Rest)
  /\ UNCHANGED <<toCome, received, taken>>

\* transport.close(): the loop tells the protocol, with no exception (n = 1).
CloseTransport(s) ==
  IF s.transport /\ "lost" \notin Names(s.loop) THEN [s EXCEPT !.loop = Append(@, H("lost", 1))]
  ELSE s

\* The caller of open_connection, once it has connected and whenever the
\* future it awaits has its result: it is given the reader and the writer.
\* One that is cancelled in create_connection closes the transport there; in
\* both awaits it then ends without them.
open_connection ==
  /\ Runs("open")
  /\ \/ /\ c.opening \in {"connecting", "waiting"}
        /\ c' = [Rest EXCEPT !.opening = IF c.connected THEN "returned" ELSE "waiting"]
     \/ /\ c.opening = "abandoned"
        /\ c' = CloseTransport([Rest EXCEPT !.opening = "interrupted"])
     \/ c.opening \in {"interrupted", "cancelled"} /\ c' = Rest
  /\ UNCHANGED <<toCome, received, taken>>

\* The task of open_connection is cancelled, by a wait_for around it, by
\* connect_timeout or by Ctrl-C.  It awaits _waiter_connected itself, so that
\* future is cancelled with it unless it has its result already.
CancelOpener ==
  /\ \/ c.opening = "connecting" /\ c' = [c EXCEPT !.opening = "abandoned"]
     \/ c.opening = "waiting" /\ c.connected /\ c' = [c EXCEPT !.opening = "interrupted"]
     \/ /\ c.opening = "waiting" /\ ~c.connected
        /\ LET cancelled == [c EXCEPT !.connected = TRUE, !.opening = "cancelled"]
           IN  c' = CallSoon(CallSoon(cancelled, "begin_shell"), "open")
  /\ UNCHANGED <<toCome, received, taken>>

RunLost ==
  /\ Runs("lost")
  /\ c' = connection_lost(Rest, Head(c.loop).n = 0)
  /\ UNCHANGED <<toCome, received, taken>>

_process_rx ==
  /\ Runs("rx")
  /\ IF c.rx = "cancelled" \/ c.rx_queue = <<>> THEN c' = RxFinally(c)
     ELSE \E pending, critical \in BOOLEAN : c' = RxRound(c, pending, critical)
  /\ UNCHANGED <<toCome, received, taken>>

\* The transport calls the protocol, perhaps several times in one turn (TLS
\* gives the last data and the end at once), unless it has been paused.
Again(s) ==
  IF Head(s.loop).n > 1 THEN [s EXCEPT !.loop[1].n = @ - 1] ELSE [s EXCEPT !.loop = Tail(@)]
Readable == c.transport /\ c.reader.reading /\ "lost" \notin Names(c.loop)

ReadData ==
  /\ Runs("read") /\ Readable
  /\ \E n \in 1 .. Len(toCome) :
       LET chunk == SubSeq(toCome, 1, n)
       IN  /\ Len(Blocks(chunk)) <= MaxChunk
           /\ c' = data_received(Again(c), chunk)
           /\ received' = received \o Blocks(chunk)
           /\ toCome' = SubSeq(toCome, n + 1, Len(toCome))
  /\ UNCHANGED taken

ReadEof ==
  /\ Runs("read") /\ Readable /\ toCome = <<>>
  /\ c' = connection_lost(Rest, FALSE)
  /\ UNCHANGED <<toCome, received, taken>>

\* Nothing more for now; or the handle was cancelled when reading stopped.
ReadNothing ==
  /\ Runs("read") /\ (Readable => Head(c.loop).n < Burst)
  /\ c' = Rest
  /\ UNCHANGED <<toCome, received, taken>>

\* The selector: what is ready, then the events, then the due timers.
Due ==
  \/ c.check_later = "late" /\ c.clock = "late"
  \/ c.check_later = "mid" /\ c.clock # "early"
Poll ==
  /\ Runs("poll")
  /\ \E arrived \in BOOLEAN :
       LET events == IF arrived /\ Readable THEN <<H("read", Burst)>> ELSE <<>>
           timers == IF Due THEN <<H("timer", 0)>> ELSE <<>>
           due == Tail(c.loop) \o events \o timers
       IN  /\ due # <<>>
           /\ c' = [c EXCEPT !.loop = Append(due, Head(c.loop)),
                             !.check_later = IF Due THEN "soon" ELSE @]
  /\ UNCHANGED <<toCome, received, taken>>

\* The shell reads until it is given nothing or an exception.
ShellEnds(s) == [s EXCEPT !.shell = "done", !.closed = TRUE, !.loop = Tail(@)]

RunShell ==
  /\ Runs("shell") /\ c.shell \in {"ready", "waiting"}
  /\ LET waited == c.shell = "waiting"
         r == Awoken(c.reader)
         outcome == read(r, limit, waited)
     IN  IF c.reader.future = "raised" \/ (~waited /\ r.exception)
           THEN c' = [ShellEnds(c) EXCEPT !.reader = r] /\ UNCHANGED taken
         ELSE IF outcome.how = "wait"
           THEN /\ c' = [Rest EXCEPT !.shell = "waiting", !.reader = outcome.r]
                /\ UNCHANGED taken
         ELSE IF outcome.data = <<>>
           THEN c' = [ShellEnds(c) EXCEPT !.reader = outcome.r] /\ UNCHANGED taken
         ELSE /\ c' = [c EXCEPT !.shell = "ready", !.reader = outcome.r]
              /\ taken' = taken \o outcome.data
  /\ UNCHANGED <<toCome, received>>

\* ... is busy elsewhere between two reads ...
ShellLeaves ==
  /\ Runs("shell") /\ c.shell = "ready"
  /\ c' = [Rest EXCEPT !.shell = "away"]
  /\ UNCHANGED <<toCome, received, taken>>
ShellReturns ==
  /\ c.shell = "away"
  /\ c' = CallSoon([c EXCEPT !.shell = "ready"], "shell")
  /\ UNCHANGED <<toCome, received, taken>>

\* ... or calls writer.close() and ends.
ShellCloses ==
  /\ Runs("shell") /\ c.shell = "ready"
  /\ c' = [ShellEnds(connection_lost(c, FALSE)) EXCEPT !.shell = "left"]
  /\ UNCHANGED <<toCome, received, taken>>

\* A read or a write fails, in the handle that has just run.
Fails ==
  /\ c.transport /\ "lost" \notin Names(c.loop)
  /\ c' = CallSoon(c, "lost")
  /\ UNCHANGED <<toCome, received, taken>>

Elapse ==
  /\ c.clock # "late"
  /\ c' = [c EXCEPT !.clock = IF @ = "early" THEN "mid" ELSE "late"]
  /\ UNCHANGED <<toCome, received, taken>>

Run ==
  \/ RunBegin \/ open_connection \/ RunTimer \/ RunBeginShell \/ RunLost \/ _process_rx
  \/ ReadData \/ ReadEof \/ ReadNothing \/ RunShell
Next ==
  \/ Run \/ Poll \/ ShellLeaves \/ ShellCloses \/ ShellReturns
  \/ CancelOpener \/ Fails \/ Elapse

Spec == Init /\ [][Next]_vars

\* The loop runs what is ready and polls when something is due; the server's
\* bytes and its end arrive while the transport reads; time passes; a shell
\* that is not waiting comes back to reading.  (Weak fairness, with what
\* enables each action written out.)
Shells == RunShell \/ ShellCloses
FairSpec ==
  /\ Spec
  /\ []<>Runs("poll") \/ []<><<Run \/ ShellLeaves \/ ShellCloses>>_vars
  /\ []<>~(Runs("poll") /\ (Len(c.loop) > 1 \/ Due \/ Readable)) \/ []<><<Poll>>_vars
  /\ []<>~Readable \/ []<><<ReadData \/ ReadEof>>_vars
  /\ []<>(c.shell # "away") \/ []<><<ShellReturns>>_vars
  /\ []<>(c.shell \notin {"ready", "away"}) \/ []<><<Shells>>_vars
  /\ <>(c.clock = "late")

(***************************************************************************)
(* Properties.                                                             *)
(***************************************************************************)

\* Types, and the bookkeeping between the handles of the loop and the state
\* they act for: one receive task at most, one timer at most, and a receive
\* queue only with a task to empty it.
TypeOK ==
  /\ c.reader \in Reader(UNION {Range(i) : i \in Input})
  /\ {c.transport, c.closing, c.connected, c.closed, c.raised, c.any_cmd, c.reading_paused,
      c.pending, c.critical} \subseteq BOOLEAN
  /\ c.clock \in {"early", "mid", "late"} /\ c.check_later \in {"none", "soon", "mid", "late"}
  /\ c.opening \in {"connecting", "waiting", "returned", "abandoned", "interrupted", "cancelled"}
  /\ c.shell \in {"none", "ready", "away", "waiting", "done", "left"}
  /\ \A name \in {"rx", "timer", "poll", "begin_shell", "shell", "read"} :
       Cardinality({i \in DOMAIN c.loop : c.loop[i].name = name}) <= 1
  /\ (c.rx = "none") = ("rx" \notin Names(c.loop))
  /\ c.rx_queue # <<>> => c.rx = "ready"

\* No callback raises unless the opener's cancellation took the future from it:
\* no future is given a second result and no timer is removed that is not
\* there, although the receive task, the timer and the loss of the connection
\* each may be the one to end the negotiation, and the opener may be cancelled
\* before and after it awaits the future.
NeverRaises == c.raised => c.opening = "cancelled"

\* The shell reads the blocks the transport delivered, each once and in their
\* order; while the connection stands none is missing.
InOrder ==
  LET kept == taken \o c.reader.buffer \o Queued(c.rx_queue)
  IN  IF c.closing THEN IsPrefix(kept, received) ELSE kept = received

\* Every session ends, unless its opener is cancelled in the negotiation: the
\* opener returns or is interrupted, the shell is started and reads all that
\* comes although two flow controls pause and resume the transport, is told of
\* the end, and waiter_closed, which run_client awaits, is set.
SessionEnds ==
  <>(\/ c.closed /\ c.opening \in {"returned", "interrupted"}
     \/ c.opening = "cancelled")

(***************************************************************************)
(* What a comment says and the code does not do.                           *)
(***************************************************************************)

\* connection_lost: "Drain any pending rx data before signalling EOF": a shell
\* that has read to the end has read all that the server sent.
NothingCut ==
  c.shell = "done" /\ c.closing /\ ~c.reader.exception /\ toCome = <<>> /\ c.reader.buffer = <<>>
    => taken = received

\* begin_shell: "Don't start shell if the connection was cancelled or errored".
\* The timer and the last check know of no cancelled future: theirs is given its
\* result all the same, and the callback raises InvalidStateError.
NothingRaises == ~c.raised

\* waiter_closed: "Future that completes when the connection is closed.": after
\* a cancelled opener no shell starts, and none but the shell would set it.
ClosedTold == c.closing ~> c.closed

=============================================================================
