---------------------------- MODULE StreamReader ----------------------------
(***************************************************************************)
(* One coroutine reading from a TelnetReader (stream_reader.py) on an      *)
(* event loop, while a transport feeds it, is paused and resumed, loses    *)
(* the connection, and while calls are cancelled (asyncio.wait_for, the    *)
(* timeouts of sync.py).                                                   *)
(*                                                                         *)
(* The coroutine makes one call after another and never two at once, as    *)
(* the comment of _wait_for_data demands.  A completed future resumes it   *)
(* in a later turn of the loop: data, end of file and cancellation may     *)
(* come in between.                                                        *)
(***************************************************************************)
EXTENDS TelnetReader

CONSTANTS
  Input,     \* what the peer may send: a set of sequences of bytes
  MaxChunk,  \* the longest chunk the transport delivers
  Calls,     \* the calls the coroutine may make: records [op, n, ends]
  MaxCalls,  \* a bound on how many it makes
  Queued     \* whether the feeder is a task of its own, as the client's is

BinaryOps == {"read", "read_all", "readexactly", "readline", "readuntil", "readuntil_pattern"}
UnicodeOps == {"unicode_read", "unicode_read_all", "unicode_readexactly", "unicode_readline"}
Ops == BinaryOps \cup UnicodeOps
ASSUME CallsAssumption ==
  /\ Queued \in BOOLEAN
  /\ \A c \in Calls :
       c.op \in Ops /\ c.n \in Nat /\ (c.op \in {"readuntil", "readuntil_pattern"} => c.ends # {})

VARIABLES
  reader,    \* the TelnetReader
  call,      \* the call in progress: [at, op, n, ends, held, cancelling]
  toCome,    \* bytes the peer has sent and the transport has not delivered
  fed,       \* the bytes delivered, ever
  results,   \* what the calls have given back, one result after another
  calls,     \* how many calls were made
  is_binary_reader  \* TelnetReader, or else TelnetReaderUnicode

vars == <<reader, call, toCome, fed, results, calls, is_binary_reader>>

Idle == [at |-> "idle", op |-> "none", n |-> 0, ends |-> {}, held |-> <<>>, cancelling |-> FALSE]
Bytes == UNION {Range(i) : i \in Input}
ASSUME InputAssumption == \A i \in Input : i \in Seq(Bytes)

Init ==
  /\ reader = NewReader
  /\ call = Idle
  /\ toCome \in Input
  /\ fed = <<>> /\ results = <<>> /\ calls = 0
  /\ is_binary_reader \in BOOLEAN

\* One turn of the coroutine.
Turn(r, c, waited) ==
  CASE c.op = "read" -> read(r, c.n, waited)
    [] c.op = "read_all" -> read_all(r, c.held, waited)
    [] c.op = "readexactly" -> readexactly(r, c.n)
    [] c.op = "readline" -> readline(r, c.held)
    [] c.op = "readuntil" -> readuntil(r, CHOOSE e \in c.ends : TRUE)
    [] c.op = "readuntil_pattern" -> readuntil_pattern(r, c.ends)
    [] c.op = "unicode_read" -> unicode_read(r, c.n, waited)
    [] c.op = "unicode_read_all" -> unicode_read_all(r, c.held, waited)
    [] c.op = "unicode_readexactly" -> unicode_readexactly(r, c.n, c.held, waited)
    [] c.op = "unicode_readline" -> unicode_readline(r, c.held)

\* The call is over, with what it gives back or, if it raises, loses.
Over(c, how, data) ==
  /\ call' = Idle
  /\ results' = Append(results, [op |-> c.op, how |-> how, data |-> data])

\* What a turn leaves behind.
Goes(c, outcome) ==
  /\ reader' = outcome.r
  /\ IF outcome.how \in {"wait", "again"}
       THEN /\ call' = [c EXCEPT !.at = IF outcome.how = "wait" THEN "waiting" ELSE "running",
                                 !.held = outcome.data]
            /\ UNCHANGED results
       ELSE Over(c, outcome.how, outcome.data)

\* Every method, and every block of those that loop, first looks for the
\* exception.
Enter(c) ==
  IF reader.exception THEN Over(c, "raise", c.held) /\ UNCHANGED reader
  ELSE Goes(c, Turn(reader, c, FALSE))

Begin ==
  /\ call.at = "idle" /\ calls < MaxCalls
  /\ calls' = calls + 1
  /\ \E c \in Calls :
       /\ (c.op \in UnicodeOps) = ~is_binary_reader
       /\ Enter([Idle EXCEPT !.op = c.op, !.n = c.n, !.ends = c.ends])
  /\ UNCHANGED <<toCome, fed, is_binary_reader>>

\* read(-1) and the like loop without giving up the event loop.
Again ==
  /\ call.at = "running"
  /\ Enter(call)
  /\ UNCHANGED <<toCome, fed, calls, is_binary_reader>>

\* The awaited future is complete.
Resumed ==
  /\ call.at = "waiting" /\ reader.future # "pending"
  /\ CASE call.cancelling -> Over(call, "cancelled", call.held) /\ reader' = Awoken(reader)
       [] reader.future = "raised" -> Over(call, "raise", call.held) /\ reader' = Awoken(reader)
       [] OTHER -> Goes(call, Turn(Awoken(reader), call, TRUE))
  /\ UNCHANGED <<toCome, fed, calls, is_binary_reader>>

Loop == call.at \in {"idle", "waiting"}
Connected == ~reader.eof /\ ~reader.exception

\* asyncio cancels the future a coroutine awaits, or if that is complete
\* raises when the coroutine next runs.
Cancel ==
  /\ call.at = "waiting" /\ ~call.cancelling
  /\ call' = [call EXCEPT !.cancelling = TRUE]
  /\ reader' = [reader EXCEPT !.future = IF @ = "pending" THEN "cancelled" ELSE @]
  /\ UNCHANGED <<toCome, fed, results, calls, is_binary_reader>>

Feed ==
  /\ Loop /\ reader.reading /\ Connected
  /\ \E n \in 1 .. MaxChunk :
       /\ n <= Len(toCome)
       /\ reader' = feed_data(reader, SubSeq(toCome, 1, n))
       /\ fed' = fed \o SubSeq(toCome, 1, n)
       /\ toCome' = SubSeq(toCome, n + 1, Len(toCome))
  /\ UNCHANGED <<call, results, calls, is_binary_reader>>

\* A transport that is paused does not see the end of the stream either.
FeedEof ==
  /\ Loop /\ reader.reading /\ Connected /\ toCome = <<>>
  /\ reader' = feed_eof(reader)
  /\ UNCHANGED <<call, toCome, fed, results, calls, is_binary_reader>>

\* connection_lost(exc).  When data_received feeds the reader, a coroutine
\* that it woke runs before the loss is noticed; when a task feeds it, the
\* two may be due in one turn of the loop.
Lose ==
  /\ Loop /\ Connected
  /\ Queued \/ reader.future \in {"none", "pending"}
  /\ reader' = set_exception(reader)
  /\ UNCHANGED <<call, toCome, fed, results, calls, is_binary_reader>>

\* The writer agrees on BINARY: fn_encoding(incoming=True) changes.
Recode ==
  /\ Loop /\ reader.encoding = "ascii"
  /\ reader' = [reader EXCEPT !.encoding = "utf8"]
  /\ UNCHANGED <<call, toCome, fed, results, calls, is_binary_reader>>

Coroutine == Again \/ Resumed
Next == Begin \/ Coroutine \/ Cancel \/ Feed \/ FeedEof \/ Lose \/ Recode

Spec == Init /\ [][Next]_vars

\* The loop runs a coroutine that can run, the peer's bytes arrive while the
\* transport reads, and so does the end of the stream: weak fairness, with
\* what enables each action written out.
CanRun == call.at = "running" \/ (call.at = "waiting" /\ reader.future # "pending")
CanFeed == Loop /\ reader.reading /\ Connected
FairSpec ==
  /\ Spec
  /\ []<>~CanRun \/ []<><<Coroutine>>_vars
  /\ []<>~CanFeed \/ []<><<Feed \/ FeedEof>>_vars

(***************************************************************************)
(* Properties.                                                             *)
(***************************************************************************)

\* Types, and the reader's idea of the transport is the transport's own.
TypeOK ==
  /\ reader \in Reader(Bytes) /\ reader.paused = ~reader.reading
  /\ call.at \in {"idle", "running", "waiting"} /\ call.op \in Ops \cup {"none"}
  /\ call.cancelling \in BOOLEAN
  /\ \A i \in DOMAIN results :
       results[i].how \in {"return", "incomplete", "overrun", "raise", "cancelled"}
  /\ calls \in 0 .. MaxCalls

\* A coroutine that is left waiting has something to wait for: the transport
\* reads, the connection stands, and what is in the buffer is not enough for
\* it.  No byte, end of file, exception or pause is missed.
NoLostWakeup ==
  call.at = "waiting" /\ reader.future = "pending" =>
    reader.reading /\ Connected /\ Turn(reader, call, FALSE).how = "wait"

WithoutNul(t, b) == IF b = "NUL" THEN t ELSE Append(t, b)
NoNul(s) == FoldLeft(WithoutNul, <<>>, s)
AndData(t, result) == t \o result.data
Given(given) == FoldLeft(AndData, <<>>, given)

\* Every byte is in one result, in the order of the stream, whichever methods
\* are mixed and wherever the chunks end; only NULs are dropped.  (The results
\* of cancelled calls count, and go nowhere: what a cancelled readline had
\* moved out of the buffer is lost to its caller.)
NothingLost ==
  is_binary_reader => NoNul(Given(results) \o call.held \o reader.buffer) = NoNul(fed)

\* No wake-up is missed, and every call comes to an end, although the transport
\* pauses above twice the limit and a call may ask for more than that.
Served == [](NoLostWakeup /\ (call.at # "idle" => <>(call.at = "idle")))

(***************************************************************************)
(* What the docstrings say and the code does not do.                       *)
(***************************************************************************)

\* TelnetReaderUnicode.read: "If the EOF was received and the internal buffer
\* is empty, return an empty string", which callers take for the end.
EmptyMeansEof ==
  \A i \in DOMAIN results :
    results[i].op = "unicode_read" /\ results[i].how = "return" /\ results[i].data = <<>> =>
      reader.eof

\* readline: "The sequence CR LF must be treated as a single new line".
CrLfIsOneLine ==
  \A i \in 2 .. Len(results) :
    results[i - 1].op = "readline" /\ results[i - 1].how = "return" /\ results[i].op = "readline" =>
      ~(results[i].data = <<"LF">> /\ Last(results[i - 1].data) = "CR"
          /\ \E j \in 1 .. Len(fed) - 1 : fed[j] = "CR" /\ fed[j + 1] = "LF")

=============================================================================
