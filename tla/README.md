# telnetlib3: a verification project

telnetlib3 is a Telnet client and server library for Python's asyncio. This
directory models it in TLA+, checks the models with TLC and proves theorems
about them with TLAPS. Paths are relative to the repository (`src/telnetlib3/`
is left out of most); line numbers are those of the commit the models were
written from.

    tlc -workers 2 -config Toggles.cfg MCOptionNegotiation.tla   # see section 3
    tlapm NegotiationProofs.tla                                  # see section 5

`PROJECT.json` lists the components, every run with its properties, the source
lines each definition translates, the hazards of the code and the properties
aimed at them, the wrong versions of definitions ("mistakes") that show that
each property notices an error, and the theorems.

1. The system. 2. The modules. 3. The runs. 4. Fairness. 5. The proofs.
6. Where the code departs from its documentation. 7. Not modelled. 8. Plan.

## 1. The system

A connection is two ends. Each has an asyncio *protocol* (`server_base.py`,
`client_base.py` and their subclasses in `server.py`, `client.py`), which owns
a `TelnetReader` (`stream_reader.py`, in-band bytes for the shell) and a
`TelnetWriter` (`stream_writer.py`, which both writes and, against its name,
interprets every IAC sequence that is received). Everything of one connection
runs on one event loop: a callback runs to its end before the next, and what
interleaves is callbacks, tasks at their awaits, timers, and the two ends. Only
the blocking interface (`sync.py`) adds threads.

| component | state it keeps | operations | talks to | correct when |
|---|---|---|---|---|
| option negotiation (`TelnetWriter`) | `local_option`, `remote_option`, `pending_option`, refusals, policies `always_*`, `passive_do` | `iac`, `request_*`, `handle_do/dont/will/wont`, `handle_subnegotiation` | the peer's writer; the protocol's callbacks; waiters | both ends agree once the wires are empty, nothing stays pending, refusals hold |
| byte parser (`feed_byte`, `_process_data_chunk`) | `iac_received`, `cmd_received`, `_sb_buffer` | one byte at a time, or runs of plain ones | reader, handlers | the messages are those written, however the bytes are cut |
| MCCP streams | compressor and decompressor per direction | start on SB or by position, stop at the end of the zlib stream | transports | no byte is read in the wrong mode |
| server negotiation (`BaseServer`, `TelnetServer`) | waiter, timers, TTYPE cycle, deferred ECHO and NEW_ENVIRON | begin, advance, check, timeout, connection lost | writer, shell | each connection gets its shell or its end; old clients are spared |
| fingerprinting shell | probe results, what was asked, loop detection's flag in the writer | probe, extended probe, loop detection | writer | verdicts are true, the tables are as before |
| encodings | `force_binary`, CHARSET, LANG, BINARY per direction | `encoding()` at each read and write | both protocols | what one end writes the other reads in the same encoding |
| LINEMODE and SLC | mode, `slctab`, forward mask | MODE, SLC, FORWARDMASK | peer | both ends reach one mode and one table, in finitely many messages |
| client session (`BaseClient`) | receive queue, watermarks, waiters, timer | data received, receive task, check, connection lost | transport, reader, shell | nothing read out of order or twice; the session ends |
| stream reader | buffer, limit, eof, exception, waiter, paused | feed, ten read methods, pause and resume | transport, shell | no byte is lost or repeated; no reader sleeps over data |
| server registry, TLS autodetection, guards | protocols, bounded queue of new clients, peek and handshake, counter | register, enqueue, `wait_for_client`, close; guard shells | protocols, shells | a connection has one protocol; a client is given once; slots come back |
| blocking interface (`sync.py`) | loop thread, tasks, futures; waiters of the writer | connect, start, accept, read, write, wait, close from other threads | the asyncio side | a blocked caller is released by close; writes are not overtaken |
| client shell | terminal mode, tasks, escape buffer, line buffer | keys, server text, ESC timer, mode changes | reader, writer, terminal | keys go out once and in order; no double echo or staircase |
| PTY shell | bridge tasks, update buffer, decoder, GA and NAWS timers | read, write, signals, `waitpid` | child, reader, writer | the program's output is shown whole and in order; the session ends |
| MUD payload codecs, legacy `telnetlib`, relay, constants | none, or outside the package's own code | | | |

What is hard here, and where (each is a hazard of `PROJECT.json`):

* **No queue for crossing commands.** RFC 1143's six-state queue is absent;
  `iac()` suppresses repeats by looking at the tables (`stream_writer.py:1000`),
  and a pending flag is cleared by whatever answer comes next (`feed_byte`). That
  tables agree and flags clear is a property of two programs and two wires,
  which a test with one writer cannot reach.
* **A stranded pending flag costs seconds.** The shell starts when no
  `pending_option` is set (`server_base.py:319`), or after `connect_maxwait`.
* **Answers later than the deadline they were waited for**: the TTYPE cycle, the
  blocking calls, the probe that forgets what was agreed and asks again.
* **Callbacks and timers around a lost connection**, in both protocols, in TLS
  autodetection and in the PTY bridge; waiters completed by handlers and
  cancelled by `close`, possibly from another thread.
* **Futures complete in one turn and resume in a later one**: what a coroutine
  finds when it resumes is not what completed its future.
* **State changes at a byte position**: compression, encodings, terminal modes.
* **Two flow controls over one transport**, a receive queue's and a reader's.

## 2. The modules

Each component has a module with its state as VARIABLES and one action per
callback, handler, turn of a task or step of a thread; `MC...` modules hold the
constants of the runs.

    TelnetWriter <- OptionNegotiation <- NegotiationProofs
                 <- ServerNegotiation <- Fingerprinting <- NegotiationProofs
                 <- Encodings
    TelnetReader <- StreamReader, ClientSession, SyncBridge
                 <- TelnetReaderProofs <- StreamReaderProofs, ClientSessionProofs
    SyncBridge   <- SyncBridgeProofs
    IacChannel   <= IacStream          (refinement)
    Linemode, ClientShell, PtyShell <- TerminalProofs
    ServerRegistry <- ServerRegistryProofs
    FoldInduction: instantiated by the proofs about folds

**TelnetWriter** is the option logic of `TelnetWriter` as operators from a
writer (a record of the attributes named as in the code) to a writer. A table
maps an option to `"on"`, `"off"` or `"unset"`, because the code tells an absent
key from a False one (`iac(DONT)` at 1026 is skipped only for False). What a
handler writes is appended to `out`.

| operator | code |
|---|---|
| `IacDo`, `IacWill`, `IacDont`, `IacWont` | the four branches of `iac()` with its early returns |
| `Send` | `send_iac`: nothing is written once the transport closes |
| `Request`, `RequestSub`, `request_*`, `_send_*` | the request methods and the answers that are methods |
| `DoVerdict`, `HandleDo`, `DoAnswer` | the branch `handle_do` takes, its effects, and its return value, which `feed_byte` stores in `local_option` |
| `WillVerdict`, `HandleWill`, `HandleWont` | likewise; `handle_will` stores `remote_option` itself |
| `FeedDo` ... `FeedWont` | the case of `feed_byte`, with the `finally` that clears the pending flag; an exception of a handler is logged by `_process_data_chunk` and changes nothing more |
| `FeedSub`, `SbCharset`, `SbEnviron`, `SbNaws`, `SbStatus` | `handle_subnegotiation` and the option handlers |

Payloads are abstracted to their command byte (a CHARSET answer to whether it
names a character set, an environment to how many batches it splits into).

**OptionNegotiation** is a client and a server, each a writer, and a FIFO wire
per direction: `Receive` (one command of `data_received`), `CallIac` and
`CallRequest` (what protocols and applications call), `Resize` (SIGWINCH).
Withdrawals are made only of what is on, as every call of the code does. The
auxiliary variable `sent` records what each end ever wrote.

**ServerNegotiation** is the server's half of a connection on its event loop,
with the writer inside it: the waiter, `_advanced`, the TTYPE cycle, the
deferred requests, the timers, and asyncio's ready queue, a FIFO from which one
action per kind of callback takes the head (`RunBegin`, `RunAdvanced`,
`RunCheck`, `RunData`, `RunShell`, `RunLost`). `Init` is the turn of the loop after
`connection_made`: `begin_negotiation` is due, perhaps behind a task that closes the
writer, which does not cancel it. The client is *not* telnetlib3's:
it is one of the kinds the server's code speaks of (Microsoft telnet, a MUD
client, one that refuses TTYPE or BINARY, repeats a name, does not answer, ...).

**Fingerprinting** adds `fingerprinting_server_shell` to it. The shell is a
coroutine of which each action is one turn: it asks for every option it does not
know (`FirstTurn`), wakes when all is answered or the deadline has passed
(`ShellGoesOn`), asks a MUD client for more, then forgets one table after the
other and asks again (`Rechecks`, `Restores`), while answers keep coming in
through the actions of `ServerNegotiation`. The lists of options are constants:
the run's are those of its `Options`.

**Encodings** is a `TelnetServer` and a `TelnetClient`, each with its writer,
and texts that travel among the commands in the encoding the writer thought
right when it wrote them and are decoded with what the reader thinks right when
it reads them.

**IacChannel, IacStream**: one direction of a connection, byte by byte.
`IacChannel` is the promise: a FIFO of messages, each received once. `IacStream`
is how it is kept: `Encode` (the escapes of `_write`, the commands of
`send_iac`), a wire that `Receive` cuts anywhere, `feed_byte` with its three
attributes, `_process_data_chunk`, which lets plain bytes past the parser, and
the two `data_received` that switch zlib on and off. A byte is named for its
role; a compressed byte carries the byte it stands for, so that inflating drops
the mark and reading it without inflating is reading junk. `InOrder` is the
refinement `Channel!Spec` with the receiver's messages for `got`.

**TelnetReader** is the reader's record and methods as operators, for both
`TelnetReader` and `TelnetReaderUnicode`; **StreamReader** lets one coroutine
call any of the ten read methods while a transport feeds it. A call runs up to
its `await`, and resumes in a later turn (`Enter`, `Resumed`, `Again`).

**ClientSession** is `BaseClient` on a loop whose queue has a mark `poll` where
the selector is asked: `data_received` fills a receive queue, a task of its own
empties it into the reader, a shell reads, and both queue and reader pause and
resume the one transport. `open_connection` is there with its two awaits, either of
which may be cancelled (`CancelOpener`: a `wait_for` around it, Ctrl-C): the second
awaits `_waiter_connected` itself, so the negotiation's future is cancelled with it,
and `begin_shell` then starts none.

**SyncBridge** is `TelnetConnection` or `BlockingTelnetServer` (chosen in
`Init`): an owner thread that connects and closes, a user thread that reads,
waits, writes and flushes, and the loop's thread, interleaved between any two
steps. It holds the writer's waiters too (`wait_for`, `_check_waiters`,
`_cancel_waiters`, `drain`, `close`). `connect` has its own timeout, after which the
thread cleans up what the task has made by then (`ConnectTimesOut`, `Cleans`).
A clean-up or shutdown is waited for two seconds, and the thread is joined for two;
time has no measure here, so the owner may give either up at any moment (`GivesUp`,
`JoinFails`), and the stop may then overtake the clean-up.

**ServerRegistry** follows connections from the listening socket to their
shells: `Server`'s list (how often each connection is in it) and queue, `_TLSAutoDetectProtocol` with peek, timeout
and handshake, the guarded shell of `run_server` with the counter and both guard
shells. Each scheduled callback of a connection is a flag and the loop may run
any of them, which covers every order.

**Linemode** is the option, MODE and its acknowledgement, SLC and FORWARDMASK
between two ends of this library, with the SLC objects that tables share.

**ClientShell** is the loop of `telnet_client_shell` on a terminal: what mode it
is in, which tasks are waited for, the escape-sequence buffer and its timer, the
line buffer of LINEMODE EDIT. **PtyShell** is `PTYSession` between a program on a
pseudo-terminal and a client: the bridge's tasks and the callback of the PTY,
synchronized updates, the decoder, the GA and NAWS timers, and the signals and
`waitpid` of the end. The PTY takes all, some or nothing of a write
(`WriteToPty`); a read of half a character returns nothing, which the bridge takes
for the end; and on a *strict* connection, one without BINARY under the server's
default `encoding_errors`, output outside US-ASCII raises, in the bridge, which ends
the session, and again in `cleanup`, which it leaves half done (`"raised"`).

A definition commented "Mistake" is a wrong version of the one below it; putting
it in the other's place makes a run fail with the property named in
`PROJECT.json`.

## 3. The runs

All runs pass; each lists in its `.cfg` the properties it checks.

| run (`cfg`) | asks | bounds, distinct states |
|---|---|---|
| `toggles` (`Toggles`) | BINARY and ECHO offered, asked for and withdrawn by both ends, and a LOGOUT at any point: do the tables agree when the wires are empty (`Agreement`), has every pending flag an answer on its way (`Answered`), is nothing believed that the peer did not say (`Consent`), is a closed end silent | 6 calls; 123 000 |
| `questions` (`Questions`) | TTYPE, NEW_ENVIRON in three batches, NAWS with resizes, LFLOW refused, bi-directional CHARSET, GMCP: no question forgotten, asked twice or batch lost (`Answered`), refusals kept (`RefusalsHold`), and the exchange ends with `check_negotiation`'s condition reached (`Settles`) | 4 calls; 97 000 |
| `server_negotiation` (`ServerNegotiation`) | a server with eight kinds of client: no result is set on a finished future, unless the writer was closed before `begin_negotiation` (`NeverRaises`, section 6); what the TTYPE cycle defers is sent once and not to those it hurts (`DeferredRight`); a negotiation that ends in time leaves nothing open but a DO BINARY that its last check made (`ShellAnswered`, section 6); every connection is decided (`Decides`). With four more clients the fingerprinting shell follows: its verdicts are true and the tables are left as agreed (`ProbeTruthful`) | chunks of 1 or 2 commands, one volunteered command of three, three terminal types; 2 455 000 |
| `encodings` (`Encodings`) | five clients: what is written in an agreed encoding is read in it (`Understood`), and both ends come to the same encoding for good unless the server never advances (`Converges`) | one repeated request, one BINARY toggle, one text per end; 38 000 |
| `byte_stream` (`ByteStream`) | what a client makes of a server's bytes, however cut: the same messages in order (`InOrder`) and all of them (`AllReceived`) | 4 items of 8 kinds, any cut; 143 000 |
| `reader` (`Reader`) | any two of ten read methods in either reader: every byte is in one result, in order (`NothingLost`), no wake-up is missed and each call ends (`Served`) | chunks of 1 to 3, limit 2, a cancellation, the end or the loss at any point; 125 000 |
| `session` (`Session`) | a client session, its opener cancelled at any point: no callback raises unless that took the future (`NeverRaises`, section 6), blocks are read once and in order (`InOrder`), and but for that case every session ends, its opener and its closer both told (`SessionEnds`) | conversations longer than both buffers, 3 callbacks per turn; 1 040 000 |
| `sync` (`Sync`) | two threads over one loop, as client and as server: a clean-up that is done, waited for or not, has released whoever was blocked (`ReleasedByClose`), writes are in order and not overtaken by the handler's close (`WritesKept`), retried reads leave no gap (`ReadsInOrder`) | 3 calls, of `readline`, `wait_for` and `flush`, 1 write; 5 786 000 |
| `registry` (`Registry`) | two connections, TLS or not, one guarded slot: one protocol each (`HandedOnce`), given once (`GivenOnce`), slots counted (`SlotsCounted`) and given back, detection ends (`Served`) | 2 connections, queue of 1, limit 1; 165 000 |
| `linemode` (`Linemode`) | MODE and SLC between two ends with any default tables: one mode (`ModesAgree`), one table (`CharactersAgree`), and an end (`Settles`) | 2 functions, 3 calls; 2 413 000 |
| `client_shell` (`ClientShell`) | keys cut anywhere, server modes changing between texts: keys once and in order (`KeysInOrder`), no character echoed twice (`NotDoubled`), no bare newline (`LineEndings`), the shell ends (`ShellReturns`) | 3 chunks or commands of the server; 1 040 000 |
| `pty_shell` (`PtyShell`) | a program's output cut anywhere, on a connection that can show it and on one that raises, the client typing, resizing and leaving: shown whole and in order, and the client's bytes offered to the PTY, in order and as far as it took them whole read by the program (`NothingLost`), nothing of an update shown before its end (`UpdatesHeld`), timers do their work (`TimersServe`), the session ends with no child left unless its last output raises (`SessionEnds`, section 6) | batches of 3 bytes, 2 resizes, a program that only KILL ends; 1 350 000 |

The modules with plain records have a `TypeOK`: `Toggles.cfg` checks that of
`OptionNegotiation`, and the others hold when added to their run's `.cfg`.

*Why the bounds are enough.* Options are independent except where the code says
otherwise (NEW_ENVIRON clears a flag of TTYPE), so small sets of options lose no
interaction. The longest known crossing of commands about one option needs four
calls (a request, a withdrawal, and one of each from the other end, all in
flight); six leave room for two of them to overlap. Wires are not bounded: calls
are. The buffers' limits are set so low that every watermark is crossed several
times by the input; LINEMODE needs three calls, a withdrawal, a new request and
a suggestion that crosses both; the TTYPE cycle is cut at three names where the code has
eight, the smallest number that tells its four ways to end apart. Two read calls
suffice for what a call leaves to the next. In `sync` each call of either thread,
`connect` and `start` among them, is a task: of its three one is the connection and
one the close, so that a read that timed out meets its retry before the close, or
one waiting call meets the close. One write suffices there to be overtaken or
ignored; that several stay in order, and that longer sequences of calls do, is what
the theorems say for any number. `read` and `read_until` differ from `readline` in
the reader alone and are left to `reader`. Two connections suffice to fight
over one slot and one place in a queue.

Deadlock checking is off in all runs: when calls, items or keys are used up there
is nothing left to do, and a connection, a shell or a session ends.

## 4. Fairness

Fairness is asked of the event loop and the kernel, never of the people and
programs at the other end.

* `OptionNegotiation`: an end whose transport is open keeps receiving what has
  arrived: `WF(~closing /\ Receive)`.
* `ServerNegotiation`, `Fingerprinting`: the ready queue is run, time passes, a
  timer that is armed becomes ready. The client need not answer: `Decides` is
  about `connect_maxwait`.
* `Encodings`, `Linemode`: the two protocols handle what they have received. No
  text need be written, read or asked for.
* `IacStream`: TCP delivers.
* `StreamReader`: the coroutine runs when its future is done, and a transport that
  is not paused delivers what has been sent.
* `ClientSession`: the loop runs, polls, delivers; a shell that is called reads on
  or returns; time passes.
* `ServerRegistry`: timers, handshakes and due callbacks; a guard's question ends
  by its timeout, and by the end of the stream once the connection is lost. A
  client may keep a guard busy as long as it likes.
* `ClientShell`: the shell's tasks run when they can. Nobody has to type.
* `PtyShell`: likewise, and a program that has been sent the signal it obeys dies.
* `SyncBridge` has safety only: its threads may stop anywhere.

Most are written `[]<>(nothing to do) \/ []<><<the step>>_vars` rather than as
`WF_vars`: since the step is enabled exactly when there is something to do and
nothing else has that effect, the formulas are equivalent, and TLC need not
evaluate ENABLED of a whole handler.

## 5. The proofs

Each theorem is about the `Spec` of its module (`CSpec` of `ClientShell`, `PSpec` of
`PtyShell`), that of the server's negotiation about `FSpec`, with the fingerprinting
shell (the runs add fairness, which a
safety property does not need), and holds for every value of the constants that
the module's assumptions allow. The assumptions say what the constants are
(`OptionsAssumption`, `InputAssumption`: an input is a sequence of bytes; ...) and
TLC evaluates them in the runs. Conditions that restrict what is proved are
written in the theorem, and said here.

| module | theorem | states | provided that |
|---|---|---|---|
| `NegotiationProofs` | `TypeInvariant` | `[]TypeOK` | |
| | `ConsentHolds` | `[]Consent` | |
| | `RefusalsHonoured` | `[]RefusalsHold` | the server's `always_wont` lacks CHARSET, no `always_dont` has NAWS |
| | `SilenceHolds` | `SilentAfterClose` | |
| | `PlainOptionsAgree` | `[]AgreementOf(Plain)` | `AsksInEarnest` |
| | `AgreementHolds` | `[]Agreement` | `AsksInEarnest`; all options are plain |
| | `AnsweredHolds` | `[]Answered` | `AsksInEarnest`, `OffersInEarnest`; no option has questions |
| | `NeverRaisesHolds` | `[]NeverRaises` of `ServerNegotiation`: `~raised` unless closed before `begin_negotiation` | |
| | `ShellAnsweredHolds` | `ShellAnswered` | |
| `ServerRegistryProofs` | `SlotsAreCounted`, `HandedOverOnce`, `ClientsGivenOnce` | `[]SlotsCounted`, `[]HandedOnce`, `[]GivenOnce` | |
| `TerminalProofs` | `ModesAgreeHolds` | `[]ModesAgree` | `ShellsCall` |
| | `KeysInOrderHolds`, `NotDoubledHolds` | `[]KeysInOrder`, `[]NotDoubled` | |
| | `LineEndingsHolds` | `[]LineEndings` | `NotForced` |
| | `NothingLostHolds`, `UpdatesHeldHolds` | `[]NothingLost` of `PtyShell`, `UpdatesHeld` | |
| | `SizeFollowsAlways` | `[]SizeFollows`, the safety half of `TimersServe` | |
| `StreamReaderProofs` | `NothingLostHolds` | `[]NothingLost` | |
| `ClientSessionProofs` | `InOrderHolds`, `NeverRaisesHolds` | `[]InOrder`, `[]NeverRaises`: `~raised` unless the opener's cancellation took the future | |
| `SyncBridgeProofs` | `WritesKeptHolds` | `[]WritesKept` | |
| | `ReleasedByCloseHolds` | `[]ReleasedByClose` | `Timeouts # "ever"` |
| | `ReadsInOrderHolds` | `[]ReadsInOrder` | `Timeouts # "ever"`; no input has a NUL |

### Option negotiation: what one writer does

None of `TypeOK`, `Consent`, `RefusalsHold` is inductive by itself: what an end
comes to believe depends on what is in flight. `Carried` adds that every command
in flight is well-formed and was sent by the other end. The rest is one idea:
`Within(L, R, h)` is the set of well-formed writers that are on at most in `L`
locally and `R` remotely, closing and silent if `h`; every operator of
TelnetWriter maps any set that is `Closed` under its assignments to itself (one
lemma each, along the call structure of the code), and `FeedWithin` states what a
received command needs of `L` and `R`. `StepWithin` lifts this to a step of either
end. Each theorem then chooses its bounds: all options for the types, what the
peer's history asked and offered for `Consent`, what the configuration permits
for `RefusalsHold`, and `h` the closing flag for silence. `RefusalsHonoured` needs
its two conditions: the server declares WILL CHARSET, and a window size switches
NAWS on, without a look at the configuration.

### Option negotiation: what two writers and two wires do

`Agreement` speaks of states in which nothing is in flight. `Agreed` says of one
option and one direction what holds in between: whatever the performer's table
and the believer's differ in, *the last command about the option on one of the
wires makes up for it*, and a pending flag has its answer, or what provokes one,
on its way. A callback takes at most one such command from a wire (`Taken`), adds
some to the other (`Added`), and changes the tables as `Performed` allows a
performer and `Accepted` a believer; `PerformerKeeps` and `BelieverKeeps` show that
the invariant survives either. That every handler stays within `Performed` and
`Accepted` is proved with the closed sets of the first part.

The conditions are about the applications, and the first is necessary.
`AsksInEarnest`: no end asks its peer to perform what it would itself refuse to
see offered, since the believer refuses the WILL it asked for and the tables are
left different. `OffersInEarnest`: no end offers what its peer would refuse: a
refused offer that is repeated is met with silence (1026) and its flag stays. The
`toggles` run satisfies both (TLC evaluates `InEarnest`). *Plain* options are those
negotiated by their own commands alone: for TTYPE, STATUS and their like a bare
question, for NAWS a window size, switches the tables too. `AnsweredHolds` leaves
out the options with questions, whose answers come as subnegotiations.

### The server's negotiation

`NeverRaises` is about the future that ends the negotiation: the check, run by
each chunk of data, by its timer and by the loop, may set it while the loss of the
connection cancels it. `Over` is what makes this safe: once the future is no longer
pending, no timer is armed and no check is in the ready queue, unless the writer was
closed early, and before that neither the shell nor its handle exists. It holds
because `_check_negotiation_timer` and `connection_lost` remove the timer's handle
from the queue, and needs `Begun`: as long as nothing has closed the writer,
`begin_negotiation`, which arms a check, is the first handle or has only that close
before it. Closed early, the server is checked at `connect_maxwait` although its
future is cancelled, and that check raises (`NoCheckAfterLoss`, section 6): the
auxiliary `closed_early` marks the case, and the theorem says that there is no other.
`Asks` is the rest of the invariant, a closed set of writers
as in the first part: CHARSET is asked about as soon as the client agrees to
perform it, and a request once made is never marked as not made. From the two
follows `ShellAnswered`: what the last check could still send is a question of
CHARSET, which has been asked before, or a DO BINARY, which
`Settled` ties to the refusal of TTYPE. That exception was found by the proof, and
is in section 6; the run has a client that shows it. The shell of
`Fingerprinting` writes into the tables it forgets, but only after the future is
done; that it leaves the futures and handles alone (`Turned`) is a lemma for each
of its turns. The queue's removal, the chunk and the shell's lists are folds, hence
three instances of `FoldInduction`. TLC checks the invariant on the run's states.

### Server registry

The invariant gives each connection its *stage*: which of peek, timer, decision,
handshake and loss are still to come determine how often it was made and listed
(`Stage`), and when its waiter and its place in the queue may be set (`Started`).
The queue and what was given, put together, hold each connection once and only
when it is no longer to be enqueued (`Queues`). The counter is the cardinality of
the shells let in (`Slots`); it needs no finite set of connections, only that the
holders are finite, which each step preserves.

### LINEMODE

`Talks` says what exchanging characters and masks leaves alone; the handlers are
folds over triplets and functions, so this is proved by induction along them.
`ClientMoves` and `ServerMoves` say what a callback may do to the mode and the wire,
and `Agree` relates both modes to the last suggestion or acknowledgement on both
wires. `ShellsCall`: the server's shell may turn the option off and on and either
end may call `send_linemode`, but the server does not call
`request_linemode_change`, which keeps the ACK bit in the mask, so that the client
ignores the suggestion (section 6). The run's `Calls` satisfy it (`ProvedCalls`).

### The client's shell

`SInv` is about the terminal. What the shell remembers of it and what the kernel has
it in belong together, and a *look* at the options (`check_auto_mode`) leaves both as
`determine_mode` wants them under those options, whatever they were before
(`LookedRight`); the options it looked at are `seen`. Since the text of a chunk is
shown after the handlers of that chunk have run, and after such a look, the newlines
are right in both. `NotForced` keeps out sessions with `--line-mode` on a terminal:
the shell switches them to raw mode against the option, does not complete newlines
for them, and breaks `LineEndings` (section 6).
`KInv` is about the keys. One turn of the filter's loop keeps `Typed` of what it has
put out and what it still holds (`Kept`), hence so does the loop, a fold, and so do
`flush`, the loop of a line, and the ESC timer, which may fire between any two chunks.
`Typed` is a fold as well, and that it distributes over concatenation is another
induction.

### The PTY shell

What is read from the PTY passes through the queue, the buffer and the decoder.
One turn of the loop of `_write_to_telnet` flushes a beginning of the buffer and keeps
the rest (`Whole`), and so does the loop; within an update, and as long as its end
has not been read, the turn flushes nothing or everything (`Held`), from which
`UpdatesHeld` follows. The decoder holds back what may be half a character, and what
it gives out with what it holds is what it was given. What raises is left in the
buffer, and what was not yet taken off the queue in the queue, so that this survives
an error. `PtyInv` puts these together,
action by action: `Shelled` gives the types, `ReadOn` says where each byte that was
read is, `Reached` where each byte of the client is (offered to the PTY, in a result,
in the reader's decoder or its buffer), that as long as no write was cut the program
has what was offered, and that a task that is not
done has no result, and `Sized` that a window size other than the client's has a
timer with the right one.

### The reader, and a coroutine that reads

`TelnetReaderProofs` shows that one turn of each read method *splits* the buffer:
what the call has gathered and what is left make up what there was, and only
`readline` drops something, a NUL after a CR; feeding appends; pausing, resuming
and waking leave the buffer alone. `StreamReaderProofs` keeps the books: results,
the data a suspended call holds and the buffer are, NULs apart, all that was fed
(`Sound`), through cancellations, retries and the loss of the connection.

### Client session

The data on its way is the reader's buffer and then the receive queue's
(`Data`), and every callback that is not a read, the arrival of data or the loss
of the connection leaves it as it was (`Keeps`). For `NeverRaises`, `Good` adds that
the negotiation is over exactly when no timer is armed and no handle of it is in
the loop's queue: the task `_process_rx`, the timer and `connection_lost` each
remove both before they set the result, and none finds it set. A cancelled opener
removes neither, so `Good` asks this only while `opening` is not `"cancelled"`, which
it becomes only when the future had no result. A client that
has not begun (`Starting`) can only lose its transport. `connection_lost` drops the
receive queue, so that afterwards a prefix is all there is.

### Blocking interface

The loop's ready list holds the handles of the writes that were called and not
done, in the order of the calls, none behind a handle that closes the writer,
which in turn is there only when the handler may have closed (`Queue`). Only a
client's owner cleans up, in `close` or after a `connect` that timed out, which
does not set `_closed` (`CleanedUp`); a server's connection is closed by its own handler, and a user that has checked and found it
open is in a call of that handler (`Closing`). `Sent` and `Before` tie this to what
the writer was given. This covers every interleaving of the threads' steps.

That nobody is forgotten by a close rests on the order of the ready list. `Fit` ties
each task's stage to its handles: queued and a `start` in the list, ready and a
`step`, over and a `settle` until its future is done, each once; and no task is
further than one started before it. `Await` says that whoever waits without a step
in the list is known to what it awaits, so that the clean-up, which completes all
of that in its first turn and yields behind it, has every call begun before it take
its last turn ahead of its own second (`Closer`), and have its future settled ahead
of its own. Whether the owner still waits for it is of no matter to this; but the
owner stops the loop after two seconds in any case, and what the stop overtakes is
not released (`LimitReleases`, section 6), so the theorem is about the end of the
clean-up and not about the loop's. `Stopping` says who may have closed the loop, and
that nothing has been cleaned up before a `connect` has. A read that waits
must be the one the reader's future belongs to: reads do not overlap, since a
caller gives one up, and has it cancelled, before it begins another (`Users`,
`Alternate`). Here the condition is needed: a call that times out before its task is
begun is cancelled only after the loop has started it, perhaps after the retry's
first turn (section 6).

`ReadsInOrder` adds what the calls hold (`HInv`). A call that has not begun holds
nothing, nor does one that waits, but a `readline`, which moves the buffer to its
line at each turn. What a turn takes from the buffer it puts behind what the
call held (`TurnSplits`, from the lemmas of `TelnetReaderProofs` about each method),
and that is in its place among the calls because no later one has taken anything
yet: since reads alternate, the calls behind one that is not over are still to
have their first turn (`LaterEmpty`). The sum of a list of sequences, a fold, is
treated through its partial sums (`Sums`), by the least number at which two lists of
sums would differ. `readline` drops the NUL of a CR NUL, hence the condition on
inputs; TLC shows the violation with `<<"x", "CR", "NUL">>`. That
`Timeouts # "ever"` is needed here too is not claimed: the proof uses the
invariant above, and TLC finds no violation without the condition for two or
three calls of `readline` and `read`.

### Induction over data

An induction theorem of the library takes an operator as a parameter, which no
installed prover can instantiate. `FoldInduction` has CONSTANT operators `op` and
`P` in its place: it proves, from well-foundedness of the naturals, that a fold
over a sequence computes what it should (`FoldOfNone`, `FoldOfAppend`) and keeps
whatever each step keeps (`FoldStays`, `PrefixInduction`). A proof module
instantiates it with its own operators, and cites the instances' theorems.

### Only model-checked

All liveness and refinement with fairness (out of the prover's reach);
`Agreement` and `Answered` for options that ask questions; `CharactersAgree`;
`DeferredRight` and `ProbeTruthful`, which relate the server to what its client is
and has answered; and every property of `Encodings` and `IacStream`.

## 6. Where the code departs from its documentation

Properties that state a sentence of the repository which the program does not
keep stand at the end of their module, under a comment that quotes it; no run
lists them. Added to the `INVARIANTS` or `PROPERTIES` of the module's `.cfg`, TLC
shows a behaviour that breaks them, for some with other constants, which are
given here.

Option negotiation
* `Mccp3Supported` (`Options = {"MCCP3"}`, `AppCalls <- OffersMccp3`): the server offers WILL MCCP3 and answers the DO that accepts
  it with WONT: `handle_do`'s list of options has MCCP2 only (1940-1963).
* `InvalidStaysOff`: DO ECHO to a client is answered WONT and stored as performed.
* A repeated offer of a refused option gets no second DONT (1026), and its sender's
  pending flag stays set, against the comment at 245.
* An unsolicited WILL of TTYPE and the like is never acknowledged by DO, against
  the comment at 2158; WILL LOGOUT raises at the only end that may receive it; a
  NEW_ENVIRON answer clears the pending offer of TTYPE (2494); the sender of WILL
  STATUS answers the first SEND and raises on the second (2659); SB MXP and SNDLOC
  are marked as expected although a peer of this library never sends them (2111).

Bytes
* `MCIacStream.WithEmptySub` for `Items`: `IAC SB IAC SE` makes `feed_byte` raise
  at 767, outside the `try`, with `iac_received` left True; the next command leaks
  into the data.
* With `Receiver = "server"`: the server begins to inflate with the chunk *after*
  the one that announces MCCP3 and loses what it inflated when the zlib stream
  ends inside a chunk; the client begins to deflate after the chunk in which it
  announced it. The client's MCCP2 code handles the same positions correctly,
  which is what `byte_stream` shows.

Server
* `DeferredAsked`: `check_negotiation` reads `_advanced` before the base class sets
  it (`server.py:299`): a client whose refusal of TTYPE arrives in the chunk of its
  first agreement is neither offered ECHO nor asked for its environment.
* The check that ends a negotiation may send DO BINARY, so that not "all negotiation
  options that have been requested have been acknowledged" (`server_base.py:317`):
  when TTYPE's refusal comes in one chunk with the client's DO BINARY. Hence the
  exception in `ShellAnswered`.
* `NoCheckAfterLoss`: `begin_negotiation` is not among the protocol's tasks, so
  a writer that is closed before it runs cancels the future, and `begin_negotiation`
  then arms a check that nothing cancels. At `connect_maxwait` its `set_result` raises
  `InvalidStateError` (`server_base.py:334-337`). Hence the exception in `NeverRaises`.
* `NoDeadShell`: `connection_lost` removes `begin_shell` from the future's callbacks,
  but one that is due already starts a shell on a lost connection.
* `DeadPruned`: a protocol whose handshake failed stays listed (`server.py:842`).
  `ClosesAll`: connections that are still being detected survive `Server.close`.
  `NeverEarly`: a TLS client that speaks at once is heard before `connection_made`.
  `wait_for_client` may return a client that has gone. A guard that gets blank
  answers asks again, each time with a fresh timeout.
* Fingerprinting: a WILL ECHO raises, so ECHO is always "timeout"; a WILL of an
  option the writer does not know is recorded WONT; an option that is withdrawn
  during loop detection is restored as agreed; an answer later than the deadline of
  one table is taken for a loop of the next (hence `hurried`); loop detection cuts
  a TTYPE cycle short, since the next name is asked for only when TTYPE is on;
  a Microsoft telnet whose name comes after `connect_maxwait` is probed in full, and
  `FingerprintingTelnetServer.on_request_environ` adds its keys for it as well.

Encodings
* `RejectedHonestly` (`Configurations <- Rejecting`): `send_charset` returns "" "to reject" (`client.py:318`), but
  `_handle_sb_charset` tests for None (2328) and sends ACCEPTED without a name;
  both ends' `environ_encoding` becomes "", the environment can no longer be
  decoded, LANG never arrives and the negotiation waits for `connect_maxwait`.
* A server that LANG forced to binary writes to a client without BINARY or CHARSET
  what the client reads as ASCII; so it does when LANG comes after the shell has
  begun. Texts written before CHARSET settles may be misread when defaults differ.

LINEMODE
* `MCLinemode.Changes` for `Calls`: `request_linemode_change` keeps the ACK bit in
  the mask (1408-1446), and the client ignores what it takes for an acknowledgement.
* `NeverRaises` (`Defaults <- OtherTables`): a triplet with level DEFAULT for a
  function that `default_slc_tab` lacks raises. `DefaultsKept`:
  writers share the SLC objects of `BSD_SLC_TAB`. Tables where one end has a
  function CANTCHANGE without character and the other VARIABLE without one
  exchange triplets for ever. A 7-bit forward mask leaves out 120 to 127, and
  `LinemodeBuffer` raises on a character above 127 with it.

Reader and client session
* `EmptyMeansEof`: `TelnetReaderUnicode.read` returns "" for half a character.
  `CrLfIsOneLine`: CR LF is a line that ends in CR and an extra line "LF".
* `NothingCut`: the end of a connection in the turn of its last data discards the
  receive queue.
* `NothingRaises`: `open_connection` awaits the negotiation's future itself
  (`client.py:640`). Cancelling it cancels that future while the timer or the last
  check is armed, whose `set_result` then raises (`client_base.py:512, 521`).
  `ClosedTold`: no shell starts then, and none but the shell sets `waiter_closed`.

Blocking interface
* `LimitReleases`: a clean-up that takes longer than two seconds is not waited for,
  and the stop of the loop may overtake it: a caller blocked in another thread stays
  blocked for ever (`sync.py:298-302`, `568-572`). When the thread has not ended
  after two more, `loop.close()` raises out of `close` (`JoinFails`).
* `WaitEnds`: waiters are not cancelled when the peer closes. `DrainEnds`: a drain
  of a paused transport that is lost waits for ever. `StartReturns`: `start` waits
  for ever when `_start_server` raises.
* With `Timeouts = "ever"`, which lets a call time out before its task has run, and
  `Calls = {"read", "readline"}`: `TimeoutTakesNothing`, a read that timed out still
  takes data; `BlocksUntilLine`, a retried readline sleeps although a whole line is
  in the buffer. The cancelled call's `finally` resets the retry's `_waiter`, and so
  not even a close wakes it: `ReleasedByClose` (`Calls = {"readline"}`,
  `MaxCalls = 4`, the input `<<"x", "y", "LF">>`).

Client shell
* `LineModeKept` (`Configurations <- StartedInLineMode`): `--line-mode` does not keep
  the terminal in line mode (`client.py:874-879`), and newlines are then shown
  without a carriage return (`LineEndings`). `EchoOnce`: WILL ECHO before the shell starts is not seen.
  `NoLineForgotten`: a line begun in LINEMODE EDIT is dropped when the mode ends.
  The end of stdin cancels the ESC timer with keys still held.

PTY shell
* `ChildKilled`: on a connection without BINARY the default `encoding_errors` is
  "strict". Output outside US-ASCII raises in `_flush_output`; the bridge ends the
  session, and `cleanup`, which flushes the same buffer, raises again before it closes
  the PTY and ends the program, and `writer.close()` is skipped (581-583, 662-664).
  Hence the exception in `SessionEnds`.
* `InputWritten`: `os.write` on the non-blocking PTY may take a part of what the client
  typed, and the count is not looked at; a full PTY ends the session (432-435).
* `ClosedByEof`: a read that decodes to nothing, half a character, is taken for the
  end of the stream (399-401).
* `OutputShown`: output queued after the wait ended is dropped when the session is
  closing, and so is half a character held by the decoder. `ExitCodeKnown`:
  `_isalive` takes the status, so the exit code is always None. `waitpid` may fail
  for a child that was reaped at the start; a fast child's output is not read. An
  update whose first sequence is cut by `_flush_remaining` is shown in pieces. A
  change of character set drops the decoder's bytes.

## 7. Not modelled

* *What travels*: the contents of GMCP, MSDP, MSSP and ZMP packages (`mud.py`,
  pure codecs), of the environment beyond LANG, window sizes in `Fingerprinting`,
  the character tables of `encodings/`. Their own tests cover them; they have no
  state.
* *The world*: TCP is reliable and ordered. zlib is external: one byte of plain
  text is one byte of compressed text, and reading in the wrong mode is junk at
  the first byte. The receiving client's second attempt with another zlib header
  is left out, since no sender of this library produces one. TLS is a handshake
  that succeeds or fails.
* *Parts of modelled files*: `slc.snoop` on typed characters; the child's
  environment and terminal attributes and WONT ECHO at the start of the PTY shell;
  the Windows terminal, the autoreply engine and the REPL hook; the line editor
  of `server_shell.py`; `serve_forever` and the miniboa accessors of `sync.py`;
  `wait_closed`; the message that the session timer writes; argument parsers.
* *In Fingerprinting*: DONT LINEMODE after the probe (LINEMODE is not among the
  writer's `Options`), what is saved and displayed, and the client's probe of a
  server (`server_fingerprinting.py`), whose writer plays the server while it sends
  commands of the wrong direction (707-743).
* *Whole files*: `telnetlib.py` (CPython's, exported and not used), `relay_server.py`
  (an example shell), `fingerprinting_display.py` (terminal output), `telopt.py`
  and `accessories.py` (constants and formatting).
* Five hazards of `PROJECT.json` have no property that a run checks, and a note
  says why: of four the code's own behaviour is listed in section 6, one is in
  the client's side of the fingerprinting.

## 8. Plan

What would add most next:

1. `DeferredRight`, with what the client has answered so far in the invariant of
   `NegotiationProofs`.
2. `Answered` for the options with questions: which subnegotiation is the answer
   to which command.
3. `Linemode`'s `CharactersAgree`, by induction along the triplets; the step
   simulation of `IacChannel` by `IacStream`.
4. The client's half of the fingerprinting with the operators of `Fingerprinting`.
