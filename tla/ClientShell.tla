----------------------------- MODULE ClientShell -----------------------------
(***************************************************************************)
(* The client's terminal shell, telnetlib3/client_shell.py: the mode it    *)
(* puts the terminal in, the loop that waits for the keyboard, the server  *)
(* and the ESC timer at once, the translation of keys for retro systems    *)
(* (InputFilter) and the line buffer of LINEMODE EDIT (LinemodeBuffer).    *)
(*                                                                         *)
(* The server is the environment: its commands change the options the      *)
(* shell looks at whenever they arrive, which is before or after the text  *)
(* around them is shown.  A terminal is cooked (lines are edited, echoed   *)
(* and newlines completed by the kernel), "noecho" (cooked without echo)   *)
(* or raw.  Text is a chunk of it; the autoreply engine, the typescript    *)
(* file and an embedded REPL belong to other programs.                     *)
(*                                                                         *)
(* A definition commented "Mistake" is a wrong version of the one below    *)
(* it; it is used only to see that a property notices the difference.      *)
(***************************************************************************)
EXTENDS Naturals, Sequences, FiniteSets, SequencesExt

CONSTANTS
  Configurations,  \* [raw_mode, istty, filter] the shell may be started with
  Offered,         \* the server's options when the shell starts
  Commands,        \* what the server may negotiate then: see Negotiated
  Texts,           \* what the user may type: sequences of keys
  MaxOutput        \* bound: chunks of text and commands the server sends

ASSUME ShellAssumption ==
  /\ MaxOutput \in Nat
  /\ Configurations \subseteq [raw_mode : {"auto", "on", "off"}, istty : BOOLEAN, filter : BOOLEAN]
  /\ Commands \subseteq {"WILL ECHO", "WONT ECHO", "WILL SGA", "WONT SGA",
                      "MODE EDIT", "MODE REMOTE"}
  /\ Texts \subseteq Seq(STRING \ {"UP", "EOL"})
  /\ Offered \subseteq [echo : BOOLEAN, sga : BOOLEAN, linemode : {"off", "edit", "remote"}]

VARIABLES
  config,   \* the session context, and what stdin is
  option,   \* what the writer knows of the server's options
  seen,     \* history: option when the shell last looked at it
  screen,   \* [unread, eof, sent]: the reader, and what the server sent so far
  stdin,    \* [typed, eof, rest]: keys not read yet, and still to be typed
  tty,      \* the mode the kernel has the terminal in
  pc,       \* where telnet_client_shell is
  tasks,    \* the tasks the loop waits for: "stdin", "telnet", "esc_timer"
  state,    \* _RawLoopState
  keys,     \* [pending, line, used, handled, sent]: from keys to bytes sent
  staircase \* history: text was shown without carriage returns

cvars == <<config, option, seen, screen, stdin, tty, pc, tasks, state, keys, staircase>>

TtyModes == {"cooked", "noecho", "raw"}
Kernel == [canonical |-> {"cooked", "noecho"}, echo |-> {"cooked"}, onlcr |-> {"cooked", "noecho"}]
Option == [echo : BOOLEAN, sga : BOOLEAN, linemode : {"off", "edit", "remote"}]

(***************************************************************************)
(* InputFilter.  Cursor up is three bytes on the keyboard and one on the   *)
(* wire; CR is another byte there.                                         *)
(***************************************************************************)
Up == <<"ESC", "[", "A">>
Leading == {<<"ESC">>, <<"ESC", "[">>}
Single(k) == IF k = "CR" THEN "EOL" ELSE k

\* A turn of feed's loop: a sequence is translated, the beginning of one is kept.
Strip(r) ==
  LET buf == r.pending IN
  IF buf = <<>> \/ buf \in Leading THEN r
  ELSE IF Len(buf) >= 3 /\ SubSeq(buf, 1, 3) = Up
    THEN [pending |-> SubSeq(buf, 4, Len(buf)), bytes |-> Append(r.bytes, "UP")]
  ELSE [pending |-> Tail(buf), bytes |-> Append(r.bytes, Single(Head(buf)))]

\* A turn takes a byte at least; when the loop stops, more turns change nothing.
FeedFilter(buf) == FoldLeft(LAMBDA r, k : Strip(r), [pending |-> buf, bytes |-> <<>>], buf)

flush(buf) == [i \in DOMAIN buf |-> Single(buf[i])]

(***************************************************************************)
(* LinemodeBuffer: a line is kept until CR; DEL takes back what it holds.  *)
(***************************************************************************)
FeedLine(line, k) ==
  CASE k = "DEL" -> [line |-> IF line = <<>> THEN <<>> ELSE Front(line), data |-> <<>>]
    [] k = "CR" -> [line |-> <<>>, data |-> Append(line, k)]
    [] OTHER -> [line |-> Append(line, k), data |-> <<>>]

FeedLines(line, chunk) ==
  FoldLeft(LAMBDA r, k :
             [line |-> FeedLine(r.line, k).line, data |-> r.data \o FeedLine(r.line, k).data],
           [line |-> line, data |-> <<>>], chunk)

(***************************************************************************)
(* Terminal: the mode a server's options call for.                         *)
(***************************************************************************)
\* TelnetWriter.will_echo of a client: its server echoes.
will_echo == option.echo

determine_mode ==
  CASE config.raw_mode = "off" -> "cooked"
    [] config.raw_mode = "on" -> "raw"
    [] config.raw_mode = "auto" ->
         CASE option.linemode = "edit" -> "cooked"
           [] option.linemode = "remote" -> "raw"
           [] option.linemode = "off" /\ option.sga -> "raw"
           [] option.linemode = "off" /\ will_echo /\ ~option.sga -> "noecho"
           [] OTHER -> "cooked"

software_echo ==
  config.raw_mode = "auto" /\ option = [echo |-> FALSE, sga |-> TRUE, linemode |-> "off"]

Unchanged == [tty |-> tty, state |-> state]
Changed(t, switched, local_echo) ==
  [tty |-> t,
   state |-> [switched |-> switched, last_will_echo |-> will_echo, local_echo |-> local_echo]]

\* Mistake: a change of the server's echo alone is not looked for.
check_auto_mode_late ==
  IF ~state.switched /\ option.sga THEN Changed("raw", TRUE, ~will_echo) ELSE Unchanged

check_auto_mode ==
  IF ~config.istty THEN Unchanged
  ELSE IF option.linemode = "edit" THEN
    IF state.switched THEN Changed("cooked", FALSE, FALSE) ELSE Unchanged
  ELSE IF ~state.switched /\ will_echo /\ ~option.sga THEN Changed("noecho", FALSE, FALSE)
  ELSE IF ~state.switched /\ option.sga THEN Changed("raw", TRUE, ~will_echo)
  ELSE IF state.switched /\ will_echo # state.last_will_echo
    THEN Changed("raw", TRUE, ~will_echo)
  ELSE Unchanged

(***************************************************************************)
(* The shell starts: __enter__, then 50 ms for options still on their way, *)
(* then raw mode.                                                          *)
(***************************************************************************)
CInit ==
  /\ config \in Configurations
  /\ option \in Offered
  /\ seen = option
  /\ screen = [unread |-> 0, eof |-> "no", sent |-> 0]
  /\ \E text \in Texts : stdin = [typed |-> <<>>, eof |-> FALSE, rest |-> text]
  /\ tty = "cooked"
  /\ pc = "start"
  /\ tasks = {}
  /\ state = [switched |-> FALSE, last_will_echo |-> FALSE, local_echo |-> FALSE]
  /\ keys = [pending |-> <<>>, line |-> <<>>, used |-> FALSE, handled |-> <<>>, sent |-> <<>>]
  /\ staircase = FALSE

Enter ==
  /\ pc = "start"
  /\ pc' = "settling"
  /\ tty' = IF config.istty THEN determine_mode ELSE tty
  /\ state' = [state EXCEPT !.local_echo = config.istty /\ software_echo]
  /\ UNCHANGED <<config, option, seen, screen, stdin, tasks, keys, staircase>>

Commit ==
  /\ pc = "settling"
  /\ pc' = "loop"
  /\ tasks' = {"stdin", "telnet"}
  /\ seen' = option
  /\ IF config.istty
       THEN /\ tty' = "raw"
            /\ state' = [state EXCEPT !.switched = TRUE, !.local_echo = ~will_echo]
       ELSE UNCHANGED <<tty, state>>
  /\ UNCHANGED <<config, option, screen, stdin, keys, staircase>>

\* The context manager's __exit__ puts the terminal back.
Leave ==
  /\ pc' = "done"
  /\ tty' = "cooked"
  /\ tasks' = {}

(***************************************************************************)
(* _raw_event_loop                                                         *)
(***************************************************************************)
\* In a canonical mode the kernel hands over whole lines.
Readable ==
  LET ends == {i \in DOMAIN stdin.typed : stdin.typed[i] = "CR"} IN
  IF config.istty /\ tty \in Kernel.canonical /\ ~stdin.eof
    THEN {i \in DOMAIN stdin.typed : \E j \in ends : i <= j}
    ELSE DOMAIN stdin.typed

Waiting(t) == pc = "loop" /\ t \in tasks

\* Mistake: bytes are sent before those the filter still holds.
SendStdinFirst(chunk) ==
  LET f == FeedFilter(chunk) IN
  [keys EXCEPT !.pending = @ \o f.pending, !.sent = @ \o f.bytes]

_send_stdin(chunk) ==
  IF ~config.filter THEN [keys EXCEPT !.sent = @ \o chunk]
  ELSE LET f == FeedFilter(keys.pending \o chunk) IN
       [keys EXCEPT !.pending = f.pending, !.sent = @ \o f.bytes]

SendLine(chunk) ==
  LET r == FeedLines(keys.line, chunk) IN
  [keys EXCEPT !.line = r.line, !.used = TRUE, !.sent = @ \o r.data]

\* Input from the keyboard stops the ESC timer, which starts again if the
\* filter then holds a part of a sequence.
\* n: how much of what was typed one read returns.
InputArrives(n) ==
  LET chunk == SubSeq(stdin.typed, 1, n)
      edit == option.linemode = "edit" /\ state.switched
      fed == IF edit THEN SendLine(chunk) ELSE _send_stdin(chunk)
      timed == ~edit /\ config.filter /\ fed.pending # <<>> IN
  /\ Waiting("stdin")
  /\ n \in Readable
  /\ "^]" \notin Range(chunk)
  /\ keys' = [fed EXCEPT !.handled = @ \o chunk]
  /\ stdin' = [stdin EXCEPT !.typed = SubSeq(@, n + 1, Len(@))]
  /\ tasks' = (tasks \ {"esc_timer"}) \cup (IF timed THEN {"esc_timer"} ELSE {})
  /\ UNCHANGED <<config, option, seen, screen, tty, pc, state, staircase>>

\* The escape character anywhere in the chunk closes the connection.
EscapeTyped(n) ==
  /\ Waiting("stdin")
  /\ n \in Readable
  /\ "^]" \in Range(SubSeq(stdin.typed, 1, n))
  /\ Leave
  /\ UNCHANGED <<config, option, seen, screen, stdin, state, keys, staircase>>

InputEnds ==
  /\ Waiting("stdin")
  /\ stdin.eof /\ stdin.typed = <<>>
  /\ tasks' = tasks \ {"stdin", "esc_timer"}
  /\ UNCHANGED <<config, option, seen, screen, stdin, tty, pc, state, keys, staircase>>

EscTimer ==
  /\ Waiting("esc_timer")
  /\ tasks' = tasks \ {"esc_timer"}
  /\ keys' = [keys EXCEPT !.pending = <<>>, !.sent = @ \o flush(keys.pending)]
  /\ UNCHANGED <<config, option, seen, screen, stdin, tty, pc, state, staircase>>

\* Mistake: text prepared for the mode before the change is shown after it.
ShownStale(in_raw, after) == in_raw

\* _transform_output completes newlines itself in raw mode; text prepared for
\* a cooked terminal is gone over again when the terminal has become raw.
Shown(in_raw, after) == in_raw \/ after.state.switched

OutputArrives ==
  LET in_raw == config.raw_mode = "on" \/ (config.raw_mode = "auto" /\ state.switched)
      looks == config.raw_mode = "auto" \/ (config.raw_mode = "on" /\ state.switched)
      after == IF looks THEN check_auto_mode ELSE Unchanged
      crlf == IF looks /\ after # Unchanged THEN Shown(in_raw, after) ELSE in_raw IN
  /\ Waiting("telnet")
  /\ screen.unread > 0
  /\ \E n \in 1 .. screen.unread : screen' = [screen EXCEPT !.unread = @ - n]
  /\ tty' = after.tty
  /\ state' = after.state
  /\ seen' = option
  /\ staircase' = (staircase \/ (~crlf /\ after.tty \notin Kernel.onlcr))
  /\ UNCHANGED <<config, option, stdin, pc, tasks, keys>>

\* Mistake: the keyboard is waited for after the server has closed.
OutputEndsAlone ==
  /\ Waiting("telnet")
  /\ screen.unread = 0 /\ screen.eof = "eof"
  /\ tasks' = tasks \ {"telnet"}
  /\ UNCHANGED <<config, option, seen, screen, stdin, tty, pc, state, keys, staircase>>

\* The server closed: the keyboard is not waited for any more.
OutputEnds ==
  /\ Waiting("telnet")
  /\ screen.unread = 0 /\ screen.eof = "eof"
  /\ tasks' = tasks \ {"stdin", "telnet"}
  /\ UNCHANGED <<config, option, seen, screen, stdin, tty, pc, state, keys, staircase>>

\* The reader's exception is raised out of the loop.
OutputFails ==
  /\ Waiting("telnet")
  /\ screen.eof = "error"
  /\ Leave
  /\ UNCHANGED <<config, option, seen, screen, stdin, state, keys, staircase>>

LoopEnds ==
  /\ pc = "loop" /\ tasks = {}
  /\ Leave
  /\ UNCHANGED <<config, option, seen, screen, stdin, state, keys, staircase>>

ShellStep ==
  \/ Enter
  \/ Commit
  \/ \E n \in DOMAIN stdin.typed : InputArrives(n)
  \/ \E n \in DOMAIN stdin.typed : EscapeTyped(n)
  \/ InputEnds
  \/ EscTimer
  \/ OutputArrives
  \/ OutputEnds
  \/ OutputFails
  \/ LoopEnds

\* The shell has nothing to do.
CIdle ==
  \/ pc = "done"
  \/ /\ pc = "loop"
     /\ tasks # {}
     /\ "esc_timer" \notin tasks
     /\ "telnet" \in tasks => screen.unread = 0 /\ screen.eof = "no"
     /\ "stdin" \in tasks => Readable = {} /\ ~(stdin.eof /\ stdin.typed = <<>>)

(***************************************************************************)
(* The user and the server.                                                *)
(***************************************************************************)
Type ==
  /\ pc # "done" /\ ~stdin.eof
  /\ stdin.rest # <<>>
  /\ stdin' = [stdin EXCEPT !.typed = Append(@, Head(stdin.rest)), !.rest = Tail(@)]
  /\ UNCHANGED <<config, option, seen, screen, tty, pc, tasks, state, keys, staircase>>

CloseStdin ==
  /\ pc # "done" /\ ~stdin.eof
  /\ stdin' = [stdin EXCEPT !.eof = TRUE]
  /\ UNCHANGED <<config, option, seen, screen, tty, pc, tasks, state, keys, staircase>>

Negotiated(c) ==
  CASE c = "WILL ECHO" -> [option EXCEPT !.echo = TRUE]
    [] c = "WONT ECHO" -> [option EXCEPT !.echo = FALSE]
    [] c = "WILL SGA" -> [option EXCEPT !.sga = TRUE]
    [] c = "WONT SGA" -> [option EXCEPT !.sga = FALSE]
    [] c = "MODE EDIT" -> [option EXCEPT !.linemode = "edit"]
    [] c = "MODE REMOTE" -> [option EXCEPT !.linemode = "remote"]

ServerSends ==
  /\ pc # "done" /\ screen.eof = "no"
  /\ screen.sent < MaxOutput
  /\ \/ /\ screen' = [screen EXCEPT !.unread = @ + 1, !.sent = @ + 1]
        /\ UNCHANGED option
     \/ \E c \in Commands :
          /\ option' = Negotiated(c)
          /\ option' # option
          /\ screen' = [screen EXCEPT !.sent = @ + 1]
  /\ UNCHANGED <<config, seen, stdin, tty, pc, tasks, state, keys, staircase>>

ServerEnds ==
  /\ pc # "done" /\ screen.eof = "no"
  /\ screen' \in {[screen EXCEPT !.eof = x] : x \in {"eof", "error"}}
  /\ UNCHANGED <<config, option, seen, stdin, tty, pc, tasks, state, keys, staircase>>

CNext ==
  \/ ShellStep
  \/ Type
  \/ CloseStdin
  \/ ServerSends
  \/ ServerEnds

CSpec == CInit /\ [][CNext]_cvars
\* The event loop runs what is ready; nobody is obliged to type or to send.
CFairSpec == CSpec /\ ([]<>CIdle \/ []<><<ShellStep>>_cvars)

-----------------------------------------------------------------------------
(***************************************************************************)
(* Properties                                                              *)
(***************************************************************************)
\* The values of the variables.
CTypeOK ==
  /\ option \in Option /\ seen \in Option
  /\ tty \in TtyModes
  /\ tasks \subseteq {"stdin", "telnet", "esc_timer"}

\* What a byte sent was on the keyboard.
Keystrokes(b) == CASE b = "UP" -> Up [] b = "EOL" -> <<"CR">> [] OTHER -> <<b>>
Typed(bytes) == FoldLeft(LAMBDA q, b : q \o Keystrokes(b), <<>>, bytes)

\* A key is sent once, in its turn and not before the shell knows whether it
\* belongs to a sequence, however the chunks of input are cut and whenever the
\* ESC timer fires; what was never sent is what the filter holds.
KeysInOrder == ~keys.used => Typed(keys.sent) \o keys.pending = keys.handled

\* Under the server's options as the shell last saw them no key is shown
\* twice, and none that the server chose not to show: while it echoes neither
\* the kernel nor the shell does, whatever was announced and withdrawn before.
\* (A server with LINEMODE settles who echoes by its MODE.)
Echoes ==
  {s \in {"kernel", "shell", "server"} :
     \/ s = "kernel" /\ tty \in Kernel.echo
     \/ s = "shell" /\ state.local_echo
     \/ s = "server" /\ option.echo}
WatchedTerminal ==
  pc = "loop" /\ config.istty /\ config.raw_mode = "auto" /\ option = seen
  /\ option.linemode = "off"
NotDoubled == WatchedTerminal => Cardinality(Echoes) <= 1

\* A newline always gets its carriage return: from the shell when the terminal
\* is raw and from the kernel when it is not, also in the text in whose handler
\* the mode changes.
LineEndings == config.istty => ~staircase

\* Once the server has closed the connection the shell ends.
ShellReturns == (screen.eof # "no") ~> (pc = "done")

(***************************************************************************)
(* What the program's own documentation says and the code does not do.     *)
(***************************************************************************)

\* "--line-mode: force line-buffered input with local echo."
LineModeKept == pc = "loop" /\ config.raw_mode = "off" => tty \in Kernel.canonical

\* "Nothing: line mode with local echo [...] WILL ECHO: raw mode, server
\* echoes": somebody echoes what is typed.
EchoOnce == WatchedTerminal => Cardinality(Echoes) = 1

\* LinemodeBuffer "accumulates characters typed by the user [...] transmitting
\* complete lines to the server": what it holds is not forgotten.
NoLineForgotten == pc = "loop" /\ keys.line # <<>> => state.switched

=============================================================================
