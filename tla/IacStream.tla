----------------------------- MODULE IacStream ------------------------------
(***************************************************************************)
(* One direction of a connection, byte by byte: the sender's escapes, and  *)
(* MCCP compression where it begins and ends; a TCP stream that is cut     *)
(* anywhere; and the receiver's data_received, _process_data_chunk and     *)
(* feed_byte.                                                              *)
(*                                                                         *)
(* A byte is named for its role: IAC, SB, SE, WILL for the four verbs, NOP *)
(* for the legal two-byte commands, MCCP for the option byte of MCCP2 or   *)
(* MCCP3, and any other.  A compressed byte carries the byte it stands     *)
(* for; END is the end of a zlib stream, and "junk" what one sees of a     *)
(* compressed byte that is not inflated.                                   *)
(***************************************************************************)
EXTENDS SequencesExt

CONSTANTS
  Receiver,   \* "client", which inflates MCCP2, or "server", MCCP3
  Items,      \* what the sender may write
  Compresses, \* whether it may compress
  MaxItems    \* bound on the items of a behaviour

Kinds == {"data", "cmd", "verb", "sub", "torn", "stray"}
ASSUME StreamAssumption ==
  /\ Receiver \in {"client", "server"} /\ Compresses \in BOOLEAN /\ MaxItems \in Nat
  /\ \A i \in Items : i.kind \in Kinds /\ i.bytes \in Seq(STRING)

VARIABLES
  wire,      \* bytes in flight
  deflating, \* the sender's compressor is in place
  started,   \* the sender has written the SB that announces compression
  r,         \* the receiver
  sent,      \* auxiliary: the items written, as the receiver is to see them
  cuts       \* auxiliary: items left to write

vars == <<wire, deflating, started, r, sent, cuts>>
Item(k, s) == [kind |-> k, bytes |-> s]

(***************************************************************************)
(* The sender.                                                             *)
(***************************************************************************)
_escape_iac(s) == FlattenSeq([i \in DOMAIN s |-> IF s[i] = "IAC" THEN <<"IAC", "IAC">> ELSE <<s[i]>>])

\* Data and payloads are escaped, commands are not.  "torn" is a
\* sub-negotiation that a verb interrupts, "stray" an IAC before no command.
Encode(i) ==
  CASE i.kind = "data" -> _escape_iac(i.bytes)
    [] i.kind \in {"cmd", "stray"} -> <<"IAC">> \o i.bytes
    [] i.kind = "verb" -> <<"IAC", "WILL">> \o i.bytes
    [] i.kind = "sub" -> <<"IAC", "SB">> \o _escape_iac(i.bytes) \o <<"IAC", "SE">>
    [] i.kind = "torn" -> <<"IAC", "SB", "a", "IAC", "WILL">> \o i.bytes

\* What the receiver is to make of an item: an empty sub-negotiation is
\* nothing, a torn one the command that tears it, a stray byte is data.
Meaning(i) ==
  CASE i.kind = "torn" -> <<Item("verb", i.bytes)>>
    [] i.kind = "stray" -> <<Item("data", i.bytes)>>
    [] i = Item("sub", <<>>) -> <<>>
    [] OTHER -> <<i>>

Wired(s, z) == [i \in DOMAIN s |-> [z |-> z, b |-> s[i]]]
MccpSub == Item("sub", <<"MCCP">>)

-----------------------------------------------------------------------------
(***************************************************************************)
(* The receiver's parser: iac_received, cmd_received and _sb_buffer.  What *)
(* is stored in cmd_received when a command is complete is only of use     *)
(* until the next byte: "done".                                            *)
(***************************************************************************)
iac_mbs == {"WILL", "SB"}
NewReceiver ==
  [iac |-> FALSE, cmd |-> "none", sb |-> <<>>, mccp |-> FALSE, inflating |-> FALSE,
   used |-> 0, got |-> <<>>]

is_oob(p) == p.iac \/ p.cmd # "none"
Takes(p, k, s) == [p EXCEPT !.got = Append(@, Item(k, s))]

\* handle_subnegotiation: the MCCP handlers only set a flag.
Handle(p) ==
  LET q == Takes(p, "sub", p.sb) IN
  IF p.sb = MccpSub.bytes THEN [q EXCEPT !.mccp = TRUE] ELSE q

\* An IAC toggles iac_received; a second one is data, for the buffer if in SB.
FeedIac(p) ==
  LET q == [p EXCEPT !.iac = ~@] IN
  IF q.iac THEN q
  ELSE IF q.cmd = "SB" THEN [q EXCEPT !.sb = Append(@, "IAC")]
  ELSE IF q.cmd = "none" THEN Takes(q, "data", <<"IAC">>)
  ELSE q

FeedSecond(p, b) ==
  CASE b \in iac_mbs -> [p EXCEPT !.iac = FALSE, !.cmd = b]
    [] b = "NOP" -> [Takes(p, "cmd", <<b>>) EXCEPT !.iac = FALSE, !.cmd = "done"]
    [] OTHER -> [Takes(p, "data", <<b>>) EXCEPT !.iac = FALSE, !.cmd = "none"]

\* IAC and another byte in SB.  For the log line, feed_byte reads the first
\* byte of the buffer: of an empty one that raises, and iac_received stays.
FeedInSb(p, b) ==
  IF b = "SE"
    THEN IF p.sb = <<>> THEN [p EXCEPT !.cmd = "done"]
         ELSE [Handle(p) EXCEPT !.sb = <<>>, !.iac = FALSE, !.cmd = "done"]
    ELSE [p EXCEPT !.sb = <<>>, !.iac = FALSE, !.cmd = IF b \in iac_mbs THEN b ELSE "done"]

\* Mistake: what is left of the last command decides how this byte is read.
FeedByteStale(p, b) ==
  CASE b = "IAC" -> FeedIac(p)
    [] b # "IAC" /\ p.iac /\ p.cmd = "none" -> FeedSecond(p, b)
    [] b # "IAC" /\ p.iac /\ p.cmd = "SB" -> FeedInSb(p, b)
    [] b # "IAC" /\ ~p.iac /\ p.cmd = "SB" -> [p EXCEPT !.sb = Append(@, b)]
    [] OTHER -> [Takes(p, "verb", <<b>>) EXCEPT !.iac = FALSE, !.cmd = "done"]

feed_byte(r0, b) ==
  LET p == [r0 EXCEPT !.cmd = IF @ \in iac_mbs THEN @ ELSE "none"] IN
  CASE b = "IAC" -> FeedIac(p)
    [] b # "IAC" /\ p.iac /\ p.cmd = "none" -> FeedSecond(p, b)
    [] b # "IAC" /\ p.iac /\ p.cmd = "SB" -> FeedInSb(p, b)
    [] b # "IAC" /\ ~p.iac /\ p.cmd = "SB" -> [p EXCEPT !.sb = Append(@, b)]
    [] b # "IAC" /\ p.cmd = "WILL" -> [Takes(p, "verb", <<b>>) EXCEPT !.iac = FALSE, !.cmd = "done"]
    [] OTHER -> Takes(p, "data", <<b>>)

\* _process_data_chunk: bytes that are not special go to the reader past the
\* parser.  SB MCCP2 ends it: "used" says how far it came.
Byte(x) == IF x.z THEN "junk" ELSE x.b
RECURSIVE ScanFrom(_, _)
ScanFrom(p, data) ==
  IF p.used = Len(data) \/ (Receiver = "client" /\ p.mccp) THEN p
  ELSE LET b == Byte(data[p.used + 1])
           q == [p EXCEPT !.used = @ + 1]
       IN ScanFrom(IF ~is_oob(q) /\ b # "IAC" THEN Takes(q, "data", <<b>>) ELSE feed_byte(q, b),
                   data)
Scan(p, data) == ScanFrom([p EXCEPT !.used = 0], data)

Rest(data, n) == SubSeq(data, n + 1, Len(data))

\* zlib: the plain text of the data up to the END of the stream, if it is in
\* them; a byte that was not compressed is an error.
Corrupt(data) ==
  \E i \in DOMAIN data : ~data[i].z /\ \A j \in 1..(i - 1) : data[j].b # "END"
EndAt(data) ==
  LET ends == {i \in DOMAIN data : data[i].z /\ data[i].b = "END"}
  IN IF ends = {} THEN 0 ELSE CHOOSE i \in ends : \A j \in ends : i <= j
Inflated(data) ==
  LET end == EndAt(data)
      n == IF end = 0 THEN Len(data) ELSE end - 1
  IN [i \in 1..n |-> [z |-> FALSE, b |-> data[i].b]]

\* BaseClient._process_chunk and _process_chunk_inner.  Mistake: what follows
\* SB MCCP2 in its chunk is lost.
RECURSIVE ProcessChunk(_, _)
InnerDrops(p, data) ==
  LET q == Scan(p, data) IN
  IF ~q.mccp THEN q ELSE [q EXCEPT !.mccp = FALSE, !.inflating = TRUE]
Inner(p, data) ==
  LET q == Scan(p, data)
      on == [q EXCEPT !.mccp = FALSE, !.inflating = TRUE]
  IN IF ~q.mccp THEN q
     ELSE IF q.used < Len(data) THEN ProcessChunk(on, Rest(data, q.used)) ELSE on
ProcessChunk(p, data) ==
  LET off == [p EXCEPT !.inflating = FALSE]
      end == EndAt(data)
      q == Inner(off, Inflated(data))
  IN IF ~p.inflating THEN Inner(p, data)
     ELSE IF Corrupt(data) THEN off
     ELSE IF end = 0 THEN Inner(p, Inflated(data))
     ELSE IF end < Len(data) THEN ProcessChunk(q, Rest(data, end)) ELSE q

\* BaseServer.data_received.  What a stream that ends in the chunk inflates to
\* is lost when more follows, and a stream that begins in it is not inflated.
RECURSIVE DataReceived(_, _)
DataReceived(p, data) ==
  LET off == [p EXCEPT !.inflating = FALSE, !.mccp = FALSE]
      end == EndAt(data)
      Then(q) == IF q.mccp THEN [q EXCEPT !.inflating = TRUE] ELSE q
  IN IF ~p.inflating THEN Then(Scan(p, data))
     ELSE IF Corrupt(data) THEN off
     ELSE IF end = 0 THEN Then(Scan(p, Inflated(data)))
     ELSE IF end < Len(data) THEN DataReceived(off, Rest(data, end))
     ELSE Then(Scan(off, Inflated(data)))

data_received(p, data) ==
  [IF Receiver = "client" THEN ProcessChunk(p, data) ELSE DataReceived(p, data)
     EXCEPT !.used = 0]

-----------------------------------------------------------------------------
\* The values of the variables.
TypeOK ==
  /\ \A i \in DOMAIN wire : wire[i].z \in BOOLEAN
  /\ {deflating, started, r.iac, r.mccp, r.inflating} \subseteq BOOLEAN
  /\ r.cmd \in iac_mbs \cup {"none", "done"}
  /\ r.cmd # "SB" => r.sb = <<>>
  /\ cuts \in 0..MaxItems

Init ==
  /\ wire = <<>> /\ deflating = FALSE /\ started = FALSE
  /\ r = NewReceiver
  /\ sent = <<>> /\ cuts = MaxItems

Sends(i, z) ==
  /\ cuts > 0 /\ cuts' = cuts - 1
  /\ wire' = wire \o Wired(Encode(i), z)
  /\ sent' = sent \o Meaning(i)
  /\ UNCHANGED r

\* A client announces MCCP3 from a handler and compresses when the chunk that
\* it handles ends: what else the chunk makes it write may come before.
Write(i) ==
  /\ deflating' \in (IF started /\ ~deflating THEN BOOLEAN ELSE {deflating})
  /\ Sends(i, deflating')
  /\ UNCHANGED started

\* A server announces MCCP2 and compresses at once.
Start ==
  /\ Compresses /\ ~started
  /\ Sends(MccpSub, FALSE)
  /\ started' = TRUE /\ deflating' = (Receiver = "client")

Finish ==
  /\ deflating
  /\ wire' = Append(wire, [z |-> TRUE, b |-> "END"])
  /\ deflating' = FALSE /\ started' = FALSE
  /\ UNCHANGED <<r, sent, cuts>>

\* TCP delivers any number of bytes.
Receive ==
  /\ \E n \in 1..Len(wire) :
       /\ r' = data_received(r, SubSeq(wire, 1, n))
       /\ wire' = Rest(wire, n)
  /\ UNCHANGED <<deflating, started, sent, cuts>>

Next == \/ \E i \in Items : Write(i)
        \/ Start \/ Finish \/ Receive

\* Bytes that are in flight, which Receive can always take, are taken: it is
\* the only step that shortens the wire.
Delivers == []<>(wire = <<>>) \/ []<><<Len(wire') < Len(wire)>>_vars
Spec == Init /\ [][Next]_vars /\ Delivers

-----------------------------------------------------------------------------
(***************************************************************************)
(* Properties                                                              *)
(***************************************************************************)
\* However the stream is cut, the receiver sees the items in their order, each
\* once, none invented: no data byte is taken for a command or the reverse, and
\* compression begins and ends at the right byte.
Messages == {MccpSub} \cup UNION {Range(Meaning(i)) : i \in Items}
Channel == INSTANCE IacChannel WITH got <- r.got
InOrder == Channel!Spec

\* ... and it sees them all: nothing stays behind in the parser.
AllReceived == <>[](r.got = sent)

=============================================================================
