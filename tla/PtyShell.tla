------------------------------ MODULE PtyShell ------------------------------
(***************************************************************************)
(* A program on a pseudo-terminal behind a telnet server,                  *)
(* telnetlib3/server_pty_shell.py: the bridge between reader, writer and   *)
(* PTY, synchronized updates, the timers of GA and NAWS, and the end of    *)
(* the program.                                                            *)
(*                                                                         *)
(* The program, the kernel and the client are the environment.  Program    *)
(* and client write bytes one at a time; "b1" "b2" stand for the sequence  *)
(* that begins a synchronized update, "e1" "e2" for the one that ends it,  *)
(* "m1" "m2" for a character of two bytes, "NL" for a newline.  Callbacks  *)
(* that are due run in any order.                                          *)
(*                                                                         *)
(* A strict connection is one without BINARY, so of US-ASCII, under the    *)
(* server's default encoding_errors: reading or writing another character  *)
(* raises.                                                                 *)
(*                                                                         *)
(* A definition commented "Mistake" is a wrong version of the one below    *)
(* it; it is used only to see that a property notices the difference.      *)
(***************************************************************************)
EXTENDS Naturals, Sequences, FiniteSets, SequencesExt

CONSTANTS
  Settings,       \* [raw_mode, sga, local_sga, strict]: the shell's mode, the
                  \* client's and the server's SGA, a strict connection
  Outputs,        \* what the program may write: sequences of bytes
  Inputs,         \* what the client may send: sequences of bytes
  Obeys,          \* the signal that ends the program: "HUP", "INT" or "KILL"
  max_batch,      \* bytes a callback reads at most, and an update holds back
  MaxResizes      \* bound: window sizes the client announces

ASSUME PtyAssumption ==
  /\ max_batch \in Nat \ {0} /\ MaxResizes \in Nat
  /\ Outputs \subseteq Seq(STRING) /\ Inputs \subseteq Seq(STRING)

VARIABLES
  setting,   \* member of Settings
  child,    \* [state, rest, obeys]: the program
  pty,      \* [output, input, size]: the kernel's side of the PTY
  session,  \* PTYSession
  loop,     \* [pc, telnet_task, pty_task, event, queue, result, signals]
  client,   \* [rest, buffer, half, eof, closed, size, resizes]: client, connection
            \* and reader: its buffer and the half character of its decoder
  history   \* [read, shown, lost, taken, offered, cut, owed]: what was read from the
            \* PTY, shown and written to a closed connection; what the client sent
            \* and what was offered to the PTY, not all of it taken; a GA owed

pvars == <<setting, child, pty, session, loop, client, history>>

Signals == <<"HUP", "CONT", "INT", "KILL">>
NewSession ==
  [closing |-> FALSE, output_buffer |-> <<>>, in_sync_update |-> FALSE, decoder |-> <<>>,
   naws_pending |-> 0, naws_timer |-> FALSE, ga_timer |-> FALSE, fd |-> FALSE,
   exit_code |-> "None"]

(***************************************************************************)
(* Output: _flush_output, _write_to_telnet, _flush_remaining.  An output   *)
(* state o is [session, shown, owed, lost, raised].                        *)
(***************************************************************************)
WantsGa == ~setting.raw_mode /\ ~setting.sga
Encodable(text) == setting.strict => \A i \in DOMAIN text : text[i] \notin {"m1", "m2"}
_schedule_ga(o) == [o EXCEPT !.session.ga_timer = WantsGa]

\* Mistake: every piece of output is decoded by itself.
DecodedWhole(bytes, final) ==
  IF bytes # <<>> /\ Last(bytes) = "m1" THEN [text |-> Append(Front(bytes), "?"), kept |-> <<>>]
  ELSE [text |-> bytes, kept |-> <<>>]

\* The decoder keeps half a character; what is final it replaces.
Decoded(bytes, final) ==
  LET half == bytes # <<>> /\ Last(bytes) = "m1" IN
  [text |-> IF half THEN Front(bytes) \o (IF final THEN <<"?">> ELSE <<>>) ELSE bytes,
   kept |-> IF half /\ ~final THEN <<"m1">> ELSE <<>>]

_flush_output(o, data, final) ==
  LET d == Decoded(o.session.decoder \o data, final)
      text == d.text
      kept == [o EXCEPT !.session.decoder = d.kept]
      write == [kept EXCEPT !.shown = @ \o text,
                             !.owed = WantsGa /\ ~setting.local_sga] IN
  IF data = <<>> THEN o
  ELSE IF ~Encodable(data) THEN [o EXCEPT !.raised = TRUE]
  ELSE IF text = <<>> THEN kept
  ELSE _schedule_ga(IF client.closed THEN [kept EXCEPT !.lost = @ \o text] ELSE write)

Find(buf, a, b) == {i \in 1 .. Len(buf) - 1 : buf[i] = a /\ buf[i + 1] = b}
First(S) == CHOOSE i \in S : \A j \in S : i <= j

\* A turn of the loop of _write_to_telnet over what is kept: outside an update
\* it flushes up to the next one or the last newline, within one only its whole,
\* or everything when it is too long.  What raises stays in the buffer.
SplitOnce(r) ==
  LET buf == r.kept
      begins == Find(buf, "b1", "b2")
      ends == Find(buf, "e1", "e2")
      lines == {k \in DOMAIN buf : buf[k] = "NL"}
      flush(k, s) ==
        IF ~Encodable(SubSeq(buf, 1, k)) THEN [r EXCEPT !.raised = TRUE]
        ELSE [r EXCEPT !.flushed = @ \o SubSeq(buf, 1, k), !.sync = s,
                       !.kept = SubSeq(buf, k + 1, Len(buf))] IN
  CASE r.sync /\ ends # {} -> flush(First(ends) + 1, FALSE)
    [] r.sync /\ ends = {} -> IF Len(buf) > max_batch THEN flush(Len(buf), TRUE) ELSE r
    [] ~r.sync /\ begins # {} -> flush(First(begins) - 1, TRUE)
    [] ~r.sync /\ begins = {} /\ lines # {} ->
         flush(CHOOSE k \in lines : \A j \in lines : j <= k, FALSE)
    [] OTHER -> r

\* It makes no more turns than there are bytes, but for those that change nothing.
Split(buf, in_sync) ==
  FoldLeft(LAMBDA r, b : SplitOnce(r),
           [flushed |-> <<>>, kept |-> buf, sync |-> in_sync, raised |-> FALSE], buf)

_write_to_telnet(o, data) ==
  LET r == Split(o.session.output_buffer \o data, o.session.in_sync_update)
      quiet == [o EXCEPT !.session.ga_timer = FALSE] IN
  [_flush_output(quiet, r.flushed, FALSE)
     EXCEPT !.session.output_buffer = r.kept, !.session.in_sync_update = r.sync,
            !.raised = r.raised]

\* The chunks of the queue are written one after the other until one raises.
WriteNext(u) ==
  IF u.out.raised \/ u.queue = <<>> THEN u
  ELSE [out |-> _write_to_telnet(u.out, Head(u.queue)), queue |-> Tail(u.queue)]
WriteQueue(o, queue) ==
  FoldLeft(LAMBDA u, c : WriteNext(u), [out |-> o, queue |-> queue], queue)

\* Mistake: what is kept for the end of an update is flushed as well.
FlushRemainingAll(o) ==
  LET f == _flush_output(o, o.session.output_buffer, FALSE) IN
  IF f.raised THEN f ELSE _schedule_ga([f EXCEPT !.session.output_buffer = <<>>])

_flush_remaining(o) ==
  LET f == _flush_output(o, o.session.output_buffer, FALSE) IN
  IF o.session.in_sync_update \/ o.session.output_buffer = <<>> THEN _schedule_ga(o)
  ELSE IF f.raised THEN f
  ELSE _schedule_ga([f EXCEPT !.session.output_buffer = <<>>])

\* What the queue holds.
Joined(queue) == FoldLeft(LAMBDA s, c : s \o c, <<>>, queue)

Output == [session |-> session, shown |-> history.shown, owed |-> history.owed,
           lost |-> history.lost, raised |-> FALSE]
Put(o) == [history EXCEPT !.shown = o.shown, !.owed = o.owed, !.lost = o.lost]

(***************************************************************************)
(* pty_shell and PTYSession.start.                                         *)
(***************************************************************************)
PInit ==
  /\ setting \in Settings
  /\ \E o \in Outputs, s \in Obeys : child = [state |-> "none", rest |-> o, obeys |-> s]
  /\ pty = [output |-> <<>>, input |-> <<>>, size |-> 0]
  /\ session = NewSession
  /\ loop = [pc |-> "info", telnet_task |-> "none", pty_task |-> "none", event |-> FALSE,
             queue |-> <<>>, result |-> <<>>, signals |-> <<>>]
  /\ \E i \in Inputs :
       client = [rest |-> i, buffer |-> <<>>, half |-> <<>>, eof |-> FALSE, closed |-> FALSE,
                 size |-> 0, resizes |-> 0]
  /\ history = [read |-> <<>>, shown |-> <<>>, taken |-> <<>>, offered |-> <<>>, cut |-> FALSE,
                owed |-> FALSE, lost |-> <<>>]

At(pc) == loop.pc = pc
Goes(pc) == loop' = [loop EXCEPT !.pc = pc]

\* The program is started with the window's size of the moment; the error of
\* an exec comes through a pipe and is raised.
start ==
  /\ At("info")
  /\ \/ /\ child' = [child EXCEPT !.state = "running"]
        /\ session' = [session EXCEPT !.fd = TRUE]
        /\ pty' = [pty EXCEPT !.size = client.size]
        /\ Goes("started")
     \/ /\ child' = [child EXCEPT !.state = "zombie", !.rest = <<>>]
        /\ session' = [session EXCEPT !.fd = TRUE]
        /\ Goes("cleanup")
        /\ UNCHANGED pty
  /\ UNCHANGED <<setting, client, history>>

\* Both start and run look whether the program is over already; if it is,
\* the second waitpid raises or run returns.
run ==
  /\ At("started")
  /\ IF child.state = "zombie"
       THEN child' = [child EXCEPT !.state = "reaped"] /\ Goes("cleanup")
       ELSE UNCHANGED child /\ Goes("bridge")
  /\ UNCHANGED <<setting, pty, session, client, history>>

(***************************************************************************)
(* The event loop's callbacks while the bridge runs.                       *)
(***************************************************************************)
Bridging == loop.pc \in {"bridge", "wait", "cancelling"}

\* Mistake: the end of the program is not noticed.
EndSeenLate(n) == FALSE

\* Reading on after the program's last byte fails with EIO.
EndSeen(n) == child.state # "running" /\ n = Len(pty.output) /\ n < max_batch

pty_readable ==
  /\ Bridging /\ ~session.closing
  /\ pty.output # <<>> \/ child.state # "running"
  /\ LET n == IF Len(pty.output) < max_batch THEN Len(pty.output) ELSE max_batch
         chunk == SubSeq(pty.output, 1, n) IN
     /\ pty' = [pty EXCEPT !.output = SubSeq(@, n + 1, Len(@))]
     /\ loop' = [loop EXCEPT !.event = TRUE,
                             !.queue = IF chunk = <<>> THEN @ ELSE Append(@, chunk)]
     /\ history' = [history EXCEPT !.read = @ \o chunk]
     /\ session' = [session EXCEPT !.closing = EndSeen(n)]
  /\ UNCHANGED <<setting, child, client>>

\* reader.read takes what there is and decodes it: nothing at the end, but also
\* when there is half a character only.  What cannot be decoded raises, and stays
\* in the buffer; the bridge makes as little difference between the two as
\* between nothing and the end.
TelnetTask ==
  /\ At("wait") /\ loop.telnet_task = "waiting"
  /\ client.buffer # <<>> \/ client.eof
  /\ LET d == Decoded(client.half \o client.buffer, FALSE) IN
     IF Encodable(client.buffer)
       THEN /\ loop' = [loop EXCEPT !.telnet_task = "done", !.result = d.text]
            /\ client' = [client EXCEPT !.buffer = <<>>, !.half = d.kept]
       ELSE /\ loop' = [loop EXCEPT !.telnet_task = "done"]
            /\ client' = client
  /\ UNCHANGED <<setting, child, pty, session, history>>

PtyTask ==
  /\ At("wait") /\ loop.pty_task = "waiting" /\ loop.event
  /\ loop' = [loop EXCEPT !.pty_task = "done"]
  /\ UNCHANGED <<setting, child, pty, session, client, history>>

(***************************************************************************)
(* _bridge_loop                                                            *)
(***************************************************************************)
BridgeRound ==
  /\ At("bridge")
  /\ IF session.closing \/ client.closed THEN Goes("cleanup")
     ELSE loop' = [loop EXCEPT !.pc = "wait", !.telnet_task = "waiting", !.pty_task = "waiting"]
  /\ UNCHANGED <<setting, child, pty, session, client, history>>

\* _write_to_pty: the kernel takes as much as it has room for, and nothing once
\* the program is gone.  The rest is not written again.
WriteToPty(data, n) ==
  /\ child.state # "running" => n = 0
  /\ pty' = [pty EXCEPT !.input = @ \o SubSeq(data, 1, n)]

\* The results of the tasks that are done.  At the client's end of file the
\* queue is left as it is; a write that fails altogether ends the session, and
\* so does an error of the output, at once.
Process ==
  LET eof == loop.telnet_task = "done" /\ loop.result = <<>>
      empties == ~eof /\ loop.pty_task = "done"
      w == WriteQueue(Output, loop.queue)
      o == IF w.out.raised THEN w.out ELSE _flush_remaining(w.out)
      p == IF empties THEN o ELSE Output IN
  \E n \in 0 .. Len(loop.result) :
    LET fails == loop.result # <<>> /\ n = 0 IN
    /\ WriteToPty(loop.result, n)
    /\ session' = [p.session EXCEPT !.closing = @ \/ eof \/ fails \/ p.raised]
    /\ history' = [Put(p) EXCEPT !.offered = @ \o loop.result,
                                 !.cut = @ \/ n < Len(loop.result)]
    /\ loop' = [loop EXCEPT !.pc = IF p.raised THEN "cleanup" ELSE "bridge",
                            !.telnet_task = "none", !.pty_task = "none", !.result = <<>>,
                            !.queue = IF empties THEN w.queue ELSE @,
                            !.event = @ /\ (~empties \/ p.raised)]

\* asyncio.wait returns; a task that is not done is cancelled and awaited,
\* which lets other callbacks run first.
BridgeWakes ==
  /\ At("wait")
  /\ "done" \in {loop.telnet_task, loop.pty_task}
  /\ IF loop.telnet_task = loop.pty_task
       THEN Process
       ELSE /\ loop' = [loop EXCEPT !.pc = "cancelling"]
            /\ UNCHANGED <<pty, session, history>>
  /\ UNCHANGED <<setting, child, client>>

BridgeProcesses ==
  /\ At("cancelling")
  /\ Process
  /\ UNCHANGED <<setting, child, client>>

(***************************************************************************)
(* Timers.                                                                 *)
(***************************************************************************)
_fire_ga ==
  /\ session.ga_timer
  /\ session' = [session EXCEPT !.ga_timer = FALSE]
  /\ history' = [history EXCEPT !.owed = @ /\ client.closed]
  /\ UNCHANGED <<setting, child, pty, loop, client>>

\* Mistake: while the timer runs a size is not remembered.
OnNawsOnce(s, size) ==
  IF s.naws_timer THEN s ELSE [s EXCEPT !.naws_pending = size, !.naws_timer = TRUE]

_on_naws(s, size) == [s EXCEPT !.naws_pending = size, !.naws_timer = TRUE]

_fire_naws_update ==
  /\ session.naws_timer
  /\ session' = [session EXCEPT !.naws_timer = FALSE, !.naws_pending = 0]
  /\ pty' = IF session.fd THEN [pty EXCEPT !.size = session.naws_pending] ELSE pty
  /\ UNCHANGED <<setting, child, loop, client, history>>

(***************************************************************************)
(* cleanup: it blocks the loop, but not the program.  An error of the last *)
(* output leaves it before the PTY is closed and the program ended, and    *)
(* pty_shell before the writer is closed.                                  *)
(***************************************************************************)
cleanup ==
  /\ At("cleanup")
  /\ LET quiet == [Output EXCEPT !.session.ga_timer = FALSE, !.session.naws_timer = FALSE,
                                 !.session.naws_pending = 0]
         o == _flush_output(quiet, session.output_buffer, TRUE) IN
     /\ history' = Put(o)
     /\ IF o.raised
          THEN /\ session' = o.session
               /\ Goes("raised")
          ELSE /\ session' = [o.session EXCEPT !.output_buffer = <<>>, !.fd = FALSE]
               /\ loop' = [loop EXCEPT !.pc = "terminate", !.signals = Signals]
  /\ UNCHANGED <<setting, child, pty, client>>

\* _isalive takes the exit status, which is then gone.
_isalive == child.state = "running"
Reaped == [child EXCEPT !.state = "reaped"]

_terminate ==
  /\ At("terminate")
  /\ IF _isalive
       THEN /\ loop.signals # <<>>
            /\ loop' = [loop EXCEPT !.signals = Tail(@), !.pc = "sleep"]
            /\ UNCHANGED <<child, client>>
       ELSE /\ Goes("over")
            /\ child' = Reaped
            /\ client' = [client EXCEPT !.closed = TRUE, !.eof = TRUE]
  /\ UNCHANGED <<setting, pty, session, history>>

\* What has been signalled may or may not be gone after a tenth of a second;
\* what has been killed is.
Slept ==
  /\ At("sleep")
  /\ loop.signals = <<>> => child.state # "running"
  /\ Goes("terminate")
  /\ UNCHANGED <<setting, child, pty, session, client, history>>

(***************************************************************************)
(* The program and the client.                                             *)
(***************************************************************************)
Signalled(s) ==
  /\ loop.pc \in {"sleep", "terminate"}
  /\ s \notin Range(loop.signals)

ProgramWrites ==
  /\ child.state = "running" /\ child.rest # <<>>
  /\ loop.pc \in {"started", "bridge", "wait", "cancelling"}
  /\ pty' = [pty EXCEPT !.output = Append(@, Head(child.rest))]
  /\ child' = [child EXCEPT !.rest = Tail(@)]
  /\ UNCHANGED <<setting, session, loop, client, history>>

ProgramEnds ==
  /\ child.state = "running"
  /\ child.rest = <<>> \/ Signalled(child.obeys) \/ Signalled("KILL")
  /\ child' = [child EXCEPT !.state = "zombie", !.rest = <<>>]
  /\ UNCHANGED <<setting, pty, session, loop, client, history>>

\* The loop is blocked while the program is started and ended.
Running == Bridging \/ At("info")

ClientSends ==
  /\ Running /\ ~client.eof /\ client.rest # <<>>
  /\ client' = [client EXCEPT !.buffer = Append(@, Head(client.rest)), !.rest = Tail(@)]
  /\ history' = [history EXCEPT !.taken = Append(@, Head(client.rest))]
  /\ UNCHANGED <<setting, child, pty, session, loop>>

ClientResizes ==
  /\ Running /\ ~client.eof
  /\ client.resizes < MaxResizes
  /\ client' = [client EXCEPT !.size = @ + 1, !.resizes = @ + 1]
  /\ session' = IF At("info") THEN session ELSE _on_naws(session, client.size + 1)
  /\ UNCHANGED <<setting, child, pty, loop, history>>

ClientLeaves ==
  /\ Running /\ ~client.eof
  /\ client' = [client EXCEPT !.eof = TRUE, !.closed = TRUE]
  /\ UNCHANGED <<setting, child, pty, session, loop, history>>

Shell ==
  \/ start \/ run
  \/ pty_readable \/ TelnetTask \/ PtyTask
  \/ BridgeRound \/ BridgeWakes \/ BridgeProcesses
  \/ (Running \/ At("over")) /\ (_fire_ga \/ _fire_naws_update)
  \/ cleanup \/ _terminate \/ Slept

PNext ==
  \/ Shell
  \/ ProgramWrites \/ ProgramEnds
  \/ ClientSends \/ ClientResizes \/ ClientLeaves

PSpec == PInit /\ [][PNext]_pvars

\* The loop runs what is due, timers expire, and a program that was killed
\* goes; nobody else is obliged to do anything.
PIdle ==
  /\ ~session.ga_timer /\ ~session.naws_timer
  /\ \/ At("over") \/ At("raised")
     \/ /\ At("wait")
        /\ {loop.telnet_task, loop.pty_task} = {"waiting"}
        /\ client.buffer = <<>> /\ ~client.eof
        /\ ~loop.event
        /\ session.closing \/ (pty.output = <<>> /\ child.state = "running")
Dying == At("sleep") /\ loop.signals = <<>> /\ child.state = "running"
PFairSpec ==
  /\ PSpec
  /\ []<>(PIdle \/ Dying) \/ []<><<Shell>>_pvars
  /\ []<>~Dying

-----------------------------------------------------------------------------
(***************************************************************************)
(* Properties                                                              *)
(***************************************************************************)
\* Every byte read from the PTY is shown, or waits in the decoder, the buffer
\* or the queue, in the order it was read, also when an output has raised, until
\* a client that has left sees nothing any more.  Every byte of the client has
\* been offered to the program or waits in its turn, and what was offered has
\* reached it unless the PTY would not take it.
NothingLost ==
  /\ (Bridging \/ At("cleanup") \/ At("raised")) /\ history.lost = <<>> =>
       history.shown \o session.decoder \o session.output_buffer \o Joined(loop.queue)
         = history.read
  /\ history.offered \o loop.result \o client.half \o client.buffer = history.taken
  /\ ~history.cut => pty.input = history.offered

\* Within a synchronized update nothing is shown before its end has been read or
\* it is too long, whichever of newlines, idle moments and other output come first.
UpdatesHeld ==
  [][LET read == session.output_buffer \o Joined(loop.queue) IN
     session.in_sync_update /\ session'.fd /\ Find(read, "e1", "e2") = {}
       => history'.shown = history.shown \/ Len(read) > max_batch]_pvars

\* The PTY has the client's last window size, or the timer that will set it is
\* running, whichever sizes came before.
SizeFollows ==
  Bridging =>
    \/ pty.size = client.size
    \/ session.naws_timer /\ session.naws_pending = client.size

\* A client that waits for GA gets one after the last output.
GaFollows == history.owed => <>(~history.owed \/ At("over") \/ At("raised"))

\* Whatever restarts or cancels them, the two timers do what they are for.
TimersServe == [](SizeFollows /\ GaFollows)

\* The session ends when the program or the client does, and leaves no program
\* running and no zombie; but not when the last output cannot be encoded.
SessionEnds ==
  (child.state = "zombie" \/ client.closed) ~>
    \/ At("over") /\ child.state = "reaped"
    \/ At("raised") /\ ~Encodable(session.output_buffer)

(***************************************************************************)
(* What the program's own documentation says and the code does not do.     *)
(***************************************************************************)

\* "Flush any remaining output buffer with final=True to emit buffered bytes":
\* what was read of a program's output before it ended is shown.
OutputShown == At("over") /\ history.lost = <<>> => history.shown = history.read

\* "returns: Child process exit code, or None if unknown": a program that ended
\* by itself has a code.
ExitCodeKnown == At("over") => session.exit_code # "None"

\* "Kill child process and close PTY fd.": cleanup leaves neither.
ChildKilled == ~At("raised")

\* "Write data from telnet to PTY.": a program that runs is sent all of it.
InputWritten ==
  child.state = "running" =>
    pty.input \o loop.result \o client.half \o client.buffer = history.taken

\* "If the EOF was received and the internal buffer is empty, return an empty
\* string": while program and client stay and what was written got through, the
\* session does.
ClosedByEof ==
  Bridging /\ session.closing /\ child.state = "running" /\ ~setting.strict => client.eof \/ history.cut

=============================================================================
