---------------------------- MODULE TelnetReader ----------------------------
(***************************************************************************)
(* stream_reader.py: TelnetReader and TelnetReaderUnicode as values.       *)
(*                                                                         *)
(* A reader is a record and each method an operator from readers to        *)
(* readers; who calls them, and when, is the business of the modules that  *)
(* extend this one.  A coroutine awaits at most one future at a time:      *)
(* `waiter' says whether the reader still refers to it (_waiter is not     *)
(* None), `future' is what became of it.  The transport is reduced to the  *)
(* bit pause_reading and resume_reading set.                               *)
(*                                                                         *)
(* Bytes are names: CR, LF, NUL, the halves HI and LO of a character that  *)
(* takes two, and any other byte.                                          *)
(***************************************************************************)
EXTENDS Integers, Sequences, SequencesExt, FiniteSets

CONSTANT limit  \* the _limit of every reader
ASSUME LimitAssumption == limit \in Nat \ {0}

Futures == {"none", "pending", "done", "raised", "cancelled"}

Reader(Byte) ==
  [buffer : Seq(Byte), eof : BOOLEAN, exception : BOOLEAN, paused : BOOLEAN,
   reading : BOOLEAN, waiter : BOOLEAN, future : Futures,
   encoding : {"ascii", "utf8"}, decoder : {"none", "ascii", "utf8", "utf8 HI"}]

NewReader ==
  [buffer |-> <<>>, eof |-> FALSE, exception |-> FALSE, paused |-> FALSE,
   reading |-> TRUE, waiter |-> FALSE, future |-> "none",
   encoding |-> "ascii", decoder |-> "none"]

\* A future the waiter holds is completed, unless its coroutine was cancelled.
Complete(r, how) ==
  [r EXCEPT !.waiter = FALSE,
            !.future = IF r.waiter /\ @ # "cancelled" THEN how ELSE @]

_wakeup_waiter(r) == Complete(r, "done")
set_exception(r) == Complete([r EXCEPT !.exception = TRUE], "raised")

feed_eof(r) == _wakeup_waiter([r EXCEPT !.eof = TRUE])
at_eof(r) == r.eof /\ r.buffer = <<>>

Pause(r) == [r EXCEPT !.paused = TRUE, !.reading = FALSE]
Resume(r) == [r EXCEPT !.paused = FALSE, !.reading = TRUE]

_maybe_resume_transport(r) ==
  IF r.paused /\ Len(r.buffer) <= limit THEN Resume(r) ELSE r

feed_data(r, data) ==
  LET fed == _wakeup_waiter([r EXCEPT !.buffer = @ \o data])
  IN  IF data = <<>> THEN r
      ELSE IF ~fed.paused /\ Len(fed.buffer) > 2 * limit THEN Pause(fed) ELSE fed

\* Mistake in _wait_for_data: it waits for a paused transport.
WaitPaused(r) == [r EXCEPT !.waiter = TRUE, !.future = "pending"]

\* A paused transport is resumed whatever the buffer holds: to wait for it
\* would wait for ever.
_wait_for_data(r) ==
  [(IF r.paused THEN Resume(r) ELSE r) EXCEPT !.waiter = TRUE, !.future = "pending"]

\* The `finally' of _wait_for_data.
Awoken(r) == [r EXCEPT !.waiter = FALSE, !.future = "none"]

(***************************************************************************)
(* Calls.  A call is a record: what was asked, what it has gathered, and   *)
(* whether it has waited.  One turn of a coroutine maps a reader and a     *)
(* call to the reader it leaves and an outcome: "return" or "incomplete"   *)
(* with data, "overrun" and "raise" without, "wait", or "again" when it    *)
(* loops without having given up the event loop.                           *)
(***************************************************************************)
Outcome(r, how, data) == [r |-> r, how |-> how, data |-> data]
Return(r, data) == Outcome(_maybe_resume_transport(r), "return", data)
Wait(r, held) == Outcome(_wait_for_data(r), "wait", held)
Take(r, n) == [r EXCEPT !.buffer = SubSeq(@, n + 1, Len(@))]
First(r, n) == SubSeq(r.buffer, 1, n)

\* Positions at which any of the byte strings in `ends' is complete.
MatchEnds(r, ends) ==
  {i \in DOMAIN r.buffer : \E e \in ends : Len(e) <= i /\ SubSeq(r.buffer, i - Len(e) + 1, i) = e}
Least(S) == CHOOSE i \in S : \A j \in S : i <= j

\* Mistake: the buffer is not cleared.
AtEofKeeps(r) == Outcome(r, "incomplete", r.buffer)

AtEof(r) == Outcome([r EXCEPT !.buffer = <<>>], "incomplete", r.buffer)

readuntil(r, separator) ==
  LET seplen == Len(separator)
      found == MatchEnds(r, {separator})
  IN  IF found # {} THEN
        IF Least(found) - seplen > limit THEN Outcome(r, "overrun", <<>>)
        ELSE Return(Take(r, Least(found)), First(r, Least(found)))
      ELSE IF Len(r.buffer) >= seplen /\ Len(r.buffer) + 1 - seplen > limit
        THEN Outcome(r, "overrun", <<>>)
      ELSE IF r.eof THEN AtEof(r)
      ELSE Wait(r, <<>>)

readuntil_pattern(r, pattern) ==
  LET found == MatchEnds(r, pattern)
      length == IF found # {} THEN Least(found) ELSE Len(r.buffer)
  IN  IF length > limit THEN Outcome(r, "overrun", <<>>)
      ELSE IF found # {} THEN Return(Take(r, length), First(r, length))
      ELSE IF r.eof THEN AtEof(r)
      ELSE Wait(r, <<>>)

\* After it has waited, read takes what there is, if anything.
read(r, n, waited) ==
  IF r.buffer = <<>> /\ ~r.eof /\ ~waited THEN Wait(r, <<>>)
  ELSE LET m == IF n < Len(r.buffer) THEN n ELSE Len(r.buffer)
       IN  Return(Take(r, m), First(r, m))

\* read(-1): block after block until an empty one.
read_all(r, held, waited) ==
  LET block == read(r, limit, waited)
  IN  IF block.how = "wait" THEN Wait(r, held)
      ELSE IF block.data = <<>> THEN Outcome(block.r, "return", held)
      ELSE Outcome(block.r, "again", held \o block.data)

readexactly(r, n) ==
  IF Len(r.buffer) >= n THEN Return(Take(r, n), First(r, n))
  ELSE IF r.eof THEN AtEof(r)
  ELSE Wait(r, <<>>)

\* CR NUL ends a line as CR does, its NUL dropped; so do CR LF, a bare CR and
\* a bare LF.  A buffer without either is moved to the line.
readline(r, held) ==
  LET ends == MatchEnds(r, {<<"CR">>, <<"LF">>})
      p == Least(ends)
      two == r.buffer[p] = "CR" /\ p < Len(r.buffer) /\ r.buffer[p + 1] \in {"LF", "NUL"}
      length == IF two /\ r.buffer[p + 1] = "LF" THEN p + 1 ELSE p
      gathered == [r EXCEPT !.buffer = <<>>]
  IN  IF ends # {} THEN Return(Take(r, IF two THEN p + 1 ELSE p), held \o First(r, length))
      ELSE IF r.eof THEN Return(gathered, held \o r.buffer)
      ELSE Wait(gathered, held \o r.buffer)

(***************************************************************************)
(* TelnetReaderUnicode.  A decoder is bound when first used and whenever   *)
(* the encoding has changed; that of UTF-8 remembers a first half.         *)
(* Characters are named by their bytes, BAD is the replacement character.  *)
(***************************************************************************)
Bound(r) ==
  IF (r.encoding = "ascii") = (r.decoder = "ascii") /\ r.decoder # "none"
  THEN r.decoder ELSE r.encoding

DecodeByte(d, b) ==
  LET half == d.state = "utf8 HI"
      torn == IF half THEN <<"BAD">> ELSE <<>>
  IN  IF d.state = "ascii"
        THEN [d EXCEPT !.chars = Append(@, IF b \in {"HI", "LO"} THEN "BAD" ELSE b)]
      ELSE IF half /\ b = "LO" THEN [state |-> "utf8", chars |-> Append(d.chars, "HILO")]
      ELSE IF b = "HI" THEN [state |-> "utf8 HI", chars |-> d.chars \o torn]
      ELSE [state |-> "utf8", chars |-> d.chars \o torn \o <<IF b = "LO" THEN "BAD" ELSE b>>]

\* The reader with its decoder advanced, and the characters.
decode(r, buf) ==
  LET d == FoldLeft(DecodeByte, [state |-> Bound(r), chars |-> <<>>], buf)
  IN  IF buf = <<>> THEN [r |-> r, chars |-> <<>>]
      ELSE [r |-> [r EXCEPT !.decoder = d.state], chars |-> d.chars]

\* The fewest bytes of the buffer that decode to n characters or more.  The
\* whole buffer has been decoded before: the decoder starts where that ended.
Popped(r, n) ==
  Least({i \in DOMAIN r.buffer : Len(decode(r, First(r, i)).chars) >= n})

unicode_read(r, n, waited) ==
  LET all == decode(r, r.buffer)
      i == Popped(all.r, n)
  IN  IF r.buffer = <<>> /\ ~r.eof /\ ~waited THEN Wait(r, <<>>)
      ELSE IF Len(all.chars) <= n
        THEN Return([all.r EXCEPT !.buffer = <<>>], all.chars)
      ELSE Return(Take(decode(all.r, First(r, i)).r, i), decode(all.r, First(r, i)).chars)

unicode_read_all(r, held, waited) ==
  LET block == unicode_read(r, limit, waited)
  IN  IF block.how = "wait" THEN Wait(r, held)
      ELSE IF block.data = <<>> THEN Outcome(block.r, "return", held)
      ELSE Outcome(block.r, "again", held \o block.data)

unicode_readexactly(r, n, held, waited) ==
  LET block == unicode_read(r, n - Len(held), waited)
  IN  IF block.how = "wait" THEN Wait(r, held)
      ELSE IF block.data = <<>> THEN Outcome(block.r, "incomplete", held)
      ELSE IF Len(held) + Len(block.data) >= n THEN Outcome(block.r, "return", held \o block.data)
      ELSE Outcome(block.r, "again", held \o block.data)

unicode_readline(r, held) ==
  LET line == readline(r, held)
      d == decode(line.r, line.data)
  IN  IF line.how = "wait" THEN line ELSE Outcome(d.r, "return", d.chars)
=============================================================================
