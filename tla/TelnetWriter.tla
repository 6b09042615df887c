---------------------------- MODULE TelnetWriter ----------------------------
(***************************************************************************)
(* The IAC interpreter of telnetlib3/stream_writer.py, class TelnetWriter: *)
(* the option tables it keeps and, as operators from a writer to a writer, *)
(* every handler that reads or changes them.  A writer is a record; a      *)
(* handler returns the record the method leaves behind, with the commands  *)
(* it wrote to the transport appended to the field "out".                  *)
(*                                                                         *)
(* LINEMODE, the MUD options' payloads and the in-band data are not part   *)
(* of this module.                                                         *)
(*                                                                         *)
(* A definition commented "Mistake" is a wrong version of the one below    *)
(* it; it is used only to see that a property notices the difference.      *)
(***************************************************************************)
EXTENDS Naturals, Sequences, FiniteSets

CONSTANTS
  Options,          \* the options a model talks about, of AllOptions
  always_will,      \* per end, the options of the attribute of that name
  always_do,
  always_wont,
  always_dont,
  passive_do,
  NoCompression,    \* the ends that refuse MCCP (policy False, or TLS)
  EnvironBatches,   \* batches the NEW_ENVIRON offer of an end splits into
  CharsetAnswer     \* per end, the answer of its CHARSET callback

Ends == {"client", "server"}
Peer(e) == IF e = "client" THEN "server" ELSE "client"

MudOptions == {"GMCP", "MSDP", "MSSP", "MSP", "MXP", "ZMP", "AARDWOLF", "ATCP"}
AllOptions == MudOptions \cup
  {"ECHO", "BINARY", "SGA", "EOR", "TM", "LOGOUT", "STATUS", "CHARSET",
   "TTYPE", "TSPEED", "XDISPLOC", "NEW_ENVIRON", "LFLOW", "NAWS", "SNDLOC",
   "COM_PORT_OPTION", "MCCP2", "MCCP3", "UNKNOWN"}

\* The NEW_ENVIRON handler touches the state of TTYPE: see SbEnviron.
ASSUME OptionsAssumption ==
  /\ Options \subseteq AllOptions
  /\ "NEW_ENVIRON" \in Options => "TTYPE" \in Options
ASSUME PolicyAssumption ==
  /\ always_will \in [Ends -> SUBSET Options]
  /\ always_do   \in [Ends -> SUBSET Options]
  /\ always_wont \in [Ends -> SUBSET Options]
  /\ always_dont \in [Ends -> SUBSET Options]
  /\ passive_do  \in [Ends -> SUBSET Options]
  /\ NoCompression \subseteq Ends
  /\ EnvironBatches \in [Ends -> Nat]
  /\ CharsetAnswer \in [Ends -> {"ACCEPTED", "EMPTY", "REJECTED"}]

(***************************************************************************)
(* An Option table maps a key to True or False, or lacks the key.          *)
(***************************************************************************)
Flag == {"unset", "on", "off"}
OnOff(b) == IF b THEN "on" ELSE "off"
Verbs == {"DO", "DONT", "WILL", "WONT"}
Requests == {"DO", "WILL", "SB"} \X Options

\* Sub-negotiation payloads, by their command byte.  EMPTY is an ACCEPTED
\* that names no character set.
Payloads == {"none", "SEND", "IS", "REQUEST", "ACCEPTED", "EMPTY", "REJECTED",
             "SIZE", "MODE", "SIGNATURE", "START"}
Message == [cmd : Verbs \cup {"SB"}, opt : Options, sub : Payloads]
Cmd(c, o) == [cmd |-> c, opt |-> o, sub |-> "none"]
Sub(o, s) == [cmd |-> "SB", opt |-> o, sub |-> s]

Writer ==
  [local : [Options -> Flag], remote : [Options -> Flag],
   pending : [Requests -> Flag],
   rejected_will : SUBSET Options, rejected_do : SUBSET Options,
   directional_refusals : SUBSET Options,
   mccp : SUBSET {"MCCP2", "MCCP3"}, batches : Nat,
   encoding : {"named", "empty"}, closing : BOOLEAN, in_loop_detection : BOOLEAN,
   out : Seq(Message)]

NewWriter ==
  [local |-> [o \in Options |-> "unset"], remote |-> [o \in Options |-> "unset"],
   pending |-> [r \in Requests |-> "unset"],
   rejected_will |-> {}, rejected_do |-> {}, directional_refusals |-> {},
   mccp |-> {}, batches |-> 0, encoding |-> "named", closing |-> FALSE,
   in_loop_detection |-> FALSE, out |-> <<>>]

Local(w, o) == w.local[o] = "on"
Remote(w, o) == w.remote[o] = "on"
Pending(w, c, o) == w.pending[<<c, o>>] = "on"

SetLocal(w, o, v) == [w EXCEPT !.local[o] = v]
SetRemote(w, o, v) == [w EXCEPT !.remote[o] = v]
SetPending(w, c, o, v) == [w EXCEPT !.pending[<<c, o>>] = v]
Clear(w, c, o) == IF Pending(w, c, o) THEN SetPending(w, c, o, "off") ELSE w

\* Mistake: the closing transport is not looked at.
SendAnyway(w, m) == [w EXCEPT !.out = Append(@, m)]

\* send_iac: nothing is written once the transport is closing.
Send(w, m) == IF w.closing THEN w ELSE [w EXCEPT !.out = Append(@, m)]

(***************************************************************************)
(* iac(cmd, opt), one operator for each of the four commands.              *)
(***************************************************************************)
\* Mistake: the peer is believed to comply before it has answered.
IacDoOptimistic(w, o) ==
  IF Remote(w, o) \/ Pending(w, "DO", o) THEN w
  ELSE Send(SetRemote(SetPending(w, "DO", o, "on"), o, "on"), Cmd("DO", o))

IacDo(w, o) ==
  IF o \notin {"TM", "LOGOUT"} /\ Remote(w, o) THEN SetPending(w, "DO", o, "off")
  ELSE IF Pending(w, "DO", o) THEN w
  ELSE Send(SetPending(w, "DO", o, "on"), Cmd("DO", o))

IacWill(w, o) ==
  IF Pending(w, "WILL", o) THEN w
  ELSE IF o # "TM" /\ Local(w, o) THEN SetPending(w, "WILL", o, "off")
  ELSE Send(SetPending(w, "WILL", o, "on"), Cmd("WILL", o))

IacDont(w, o) ==
  IF o = "LOGOUT" THEN Send(w, Cmd("DONT", o))
  ELSE IF w.remote[o] = "off" THEN w
  ELSE Send(SetRemote(w, o, "off"), Cmd("DONT", o))

IacWont(w, o) == Send(SetLocal(w, o, "off"), Cmd("WONT", o))

Iac(w, c, o) ==
  CASE c = "DO" -> IacDo(w, o)
    [] c = "WILL" -> IacWill(w, o)
    [] c = "DONT" -> IacDont(w, o)
    [] c = "WONT" -> IacWont(w, o)

(***************************************************************************)
(* The requests a writer makes by sub-negotiation, and _send_naws and      *)
(* _send_status, which answer by one.                                      *)
(***************************************************************************)
RequestSub(w, o, s) ==
  IF Remote(w, o) /\ ~Pending(w, "SB", o)
    THEN Send(SetPending(w, "SB", o, "on"), Sub(o, s)) ELSE w

request_charset(w) ==
  IF (Remote(w, "CHARSET") \/ Local(w, "CHARSET")) /\ ~Pending(w, "SB", "CHARSET")
    THEN Send(SetPending(w, "SB", "CHARSET", "on"), Sub("CHARSET", "REQUEST"))
    ELSE w

\* An empty environ_encoding makes encoding the keys raise: nothing is sent.
request_environ(w, e) ==
  IF EnvironBatches[e] = 0 \/ w.encoding = "empty" \/ ~Remote(w, "NEW_ENVIRON")
       \/ Pending(w, "SB", "NEW_ENVIRON")
    THEN w
    ELSE RequestSub([w EXCEPT !.batches = EnvironBatches[e] - 1], "NEW_ENVIRON", "SEND")

send_lineflow_mode(w, e) ==
  IF e = "server" /\ Remote(w, "LFLOW") THEN Send(w, Sub("LFLOW", "MODE")) ELSE w

request_comport_signature(w) ==
  IF Remote(w, "COM_PORT_OPTION") THEN Send(w, Sub("COM_PORT_OPTION", "SIGNATURE"))
  ELSE w

Request(w, e, o) ==
  CASE o \in {"TTYPE", "TSPEED", "XDISPLOC", "STATUS"} -> RequestSub(w, o, "SEND")
    [] o = "CHARSET" -> request_charset(w)
    [] o = "NEW_ENVIRON" -> request_environ(w, e)
    [] o = "LFLOW" -> send_lineflow_mode(w, e)
Requestable == {"TTYPE", "TSPEED", "XDISPLOC", "STATUS", "CHARSET", "NEW_ENVIRON", "LFLOW"}

_send_naws(w) == Send(w, Sub("NAWS", "SIZE"))

\* Raises unless this end has sent WILL STATUS.
_send_status(w) ==
  IF Pending(w, "WILL", "STATUS") \/ Local(w, "STATUS")
    THEN Clear(Send(w, Sub("STATUS", "IS")), "WILL", "STATUS") ELSE w

(***************************************************************************)
(* handle_do.  DoVerdict is the branch the method takes, a function of the *)
(* end and the option alone; HandleDo is what that branch does; DoAnswer   *)
(* is the value it returns, which feed_byte stores in local_option.        *)
(***************************************************************************)
ServerWont == {"TTYPE", "NAWS", "NEW_ENVIRON", "XDISPLOC", "LFLOW", "TSPEED", "SNDLOC"}
DoSupported == MudOptions \cup
  {"ECHO", "BINARY", "SGA", "LFLOW", "EOR", "TTYPE", "NEW_ENVIRON", "XDISPLOC",
   "TSPEED", "CHARSET", "NAWS", "STATUS", "MCCP2"}

\* Mistake: what the code supports is agreed to before the refusals are looked at.
DoVerdictEager(e, o) ==
  IF o \in DoSupported THEN "agree"
  ELSE IF o \in always_wont[e] THEN "decline"
  ELSE "unsupported"

DoVerdict(e, o) ==
  IF o \in always_wont[e] THEN "decline"
  ELSE IF e = "client" /\ o = "ECHO" THEN "echo"
  ELSE IF e = "server" /\ o \in ServerWont THEN "misdirected"
  ELSE IF e = "client" /\ o = "LOGOUT" THEN "illegal"
  ELSE IF o = "TM" THEN "mark"
  ELSE IF o = "LOGOUT" THEN "logout"
  ELSE IF e = "client" /\ o \in MudOptions
    THEN IF o \in always_will[e] THEN "offer" ELSE "decline"
  ELSE IF o = "MCCP2" /\ e \in NoCompression THEN "withhold"
  ELSE IF o \in DoSupported THEN "agree"
  ELSE IF o \in always_will[e] THEN "offer"
  ELSE "unsupported"

DoAnswer(e, o) == DoVerdict(e, o) \notin {"decline", "withhold", "unsupported"}

WillUnlessLocal(w, o) == IF Local(w, o) THEN w ELSE IacWill(w, o)
WontUnlessLocal(w, o) == IF Local(w, o) THEN w ELSE IacWont(w, o)

\* What an agreement to perform o makes the writer send or expect next.
FollowWill(w, o) ==
  CASE o = "NAWS" -> _send_naws(w)
    [] o = "STATUS" -> _send_status(w)
    [] o \in {"LFLOW", "TTYPE", "NEW_ENVIRON", "XDISPLOC", "TSPEED", "MXP"} ->
         SetPending(w, "SB", o, "on")
    [] OTHER -> w

HandleDo(w, e, o) ==
  LET v == DoVerdict(e, o) IN
  CASE v = "decline" -> WontUnlessLocal(w, o)
    [] v \in {"echo", "withhold"} -> IacWont(w, o)
    [] v = "misdirected" -> [IacWont(w, o) EXCEPT !.directional_refusals = @ \cup {o}]
    [] v = "illegal" -> w
    [] v = "mark" -> IacWill(w, o)
    [] v = "logout" -> [w EXCEPT !.closing = TRUE]
    [] v = "agree" -> FollowWill(WillUnlessLocal(w, o), o)
    [] v = "offer" -> WillUnlessLocal(w, o)
    [] v = "unsupported" ->
         WontUnlessLocal([w EXCEPT !.rejected_do = @ \cup {o}], o)

(***************************************************************************)
(* handle_will, in the same form.  It stores remote_option itself.         *)
(***************************************************************************)
WillSupported == MudOptions \cup
  {"BINARY", "SGA", "ECHO", "NAWS", "EOR", "SNDLOC", "COM_PORT_OPTION",
   "MCCP2", "MCCP3"}
Queried == {"XDISPLOC", "TTYPE", "TSPEED", "NEW_ENVIRON", "LFLOW", "CHARSET"}

WillVerdict(e, o) ==
  IF o \in always_dont[e] THEN "refuse"
  ELSE IF e = "server" /\ o = "ECHO" THEN "illegal"
  ELSE IF e = "client" /\ o \in {"NAWS", "SNDLOC"} \cup (Queried \ {"CHARSET"})
    THEN "misdirected"
  ELSE IF e = "client" /\ o \in MudOptions
    THEN IF o \in always_do[e] \cup passive_do[e] THEN "accept" ELSE "refuse"
  ELSE IF o \in {"MCCP2", "MCCP3"} /\ e \in NoCompression THEN "refuse"
  ELSE IF o \in WillSupported THEN "agree"
  ELSE IF o = "TM" THEN "mark"
  ELSE IF o = "LOGOUT" THEN IF e = "client" THEN "illegal" ELSE "logout"
  ELSE IF o = "STATUS" THEN "status"
  ELSE IF o = "CHARSET" THEN "charset"
  ELSE IF o \in Queried THEN "query"
  ELSE IF o \in always_do[e] THEN "accept"
  ELSE "unhandled"

Accept(w, o) == IF Remote(w, o) THEN w ELSE SetRemote(IacDo(w, o), o, "on")

FollowDo(w, e, o) ==
  CASE o \in {"NAWS", "SNDLOC", "MXP"} -> SetPending(w, "SB", o, "on")
    [] o = "COM_PORT_OPTION" /\ e = "client" -> request_comport_signature(w)
    [] o = "MCCP3" /\ e = "client" ->
         [Send(w, Sub("MCCP3", "START")) EXCEPT !.mccp = @ \cup {"MCCP3"}]
    [] OTHER -> w

\* CHARSET runs in both directions: the client only acknowledges; the server
\* declares its own capability, without a pending request, and then asks.
WillCharset(w, e) ==
  IF e = "client" THEN SetRemote(IacDo(w, "CHARSET"), "CHARSET", "on")
  ELSE LET r == SetRemote(w, "CHARSET", "on") IN
       request_charset(IF Local(r, "CHARSET") THEN r
         ELSE Send(SetLocal(r, "CHARSET", "on"), Cmd("WILL", "CHARSET")))

HandleWill(w, e, o) ==
  LET v == WillVerdict(e, o) IN
  CASE v = "refuse" -> IF o \in always_dont[e] THEN SetRemote(IacDont(w, o), o, "off")
                       ELSE IacDont(w, o)
    [] v = "illegal" -> w
    [] v = "misdirected" -> [IacDont(w, o) EXCEPT !.directional_refusals = @ \cup {o}]
    [] v = "accept" -> Accept(w, o)
    [] v = "agree" -> FollowDo(Accept(w, o), e, o)
    [] v = "mark" -> IF Pending(w, "DO", o) THEN SetRemote(w, o, "on") ELSE w
    [] v = "logout" -> IacDont(w, o)
    [] v = "status" -> Request(SetRemote(w, o, "on"), e, o)
    [] v = "charset" -> WillCharset(w, e)
    [] v = "query" -> Request(SetRemote(w, o, "on"), e, o)
    [] v = "unhandled" ->
         Clear([IacDont(w, o) EXCEPT !.rejected_will = @ \cup {o}], "DO", o)

\* handle_wont; WONT TM without a pending DO TM raises.
HandleWont(w, o) == IF o = "LOGOUT" THEN w ELSE SetRemote(w, o, "off")

(***************************************************************************)
(* feed_byte on the last byte of a three-byte command.  An exception that  *)
(* a handler raises is logged by _process_data_chunk; the clauses of its   *)
(* "finally" still run.                                                    *)
(***************************************************************************)
\* Mistakes: a DONT does not switch the option off; a request outlives its answer.
FeedDontKeeps(w, o) == SetPending(w, "WILL", o, "off")
FeedWillPending(w, e, o) == HandleWill(w, e, o)

FeedDo(w, e, o) ==
  LET h == HandleDo(w, e, o) IN
  Clear(IF DoVerdict(e, o) = "illegal" THEN h ELSE SetLocal(h, o, OnOff(DoAnswer(e, o))),
        "WILL", o)

FeedDont(w, o) == SetLocal(SetPending(w, "WILL", o, "off"), o, "off")

FeedWill(w, e, o) == Clear(HandleWill(w, e, o), "DO", o)

FeedWont(w, o) ==
  IF o = "TM" /\ ~Pending(w, "DO", o) THEN w
  ELSE SetPending(HandleWont(w, o), "DO", o, "off")

(***************************************************************************)
(* handle_subnegotiation: the pending request is over, then the option's   *)
(* own handler runs.  A payload no handler accepts raises and changes      *)
(* nothing more, as does environment text under an empty encoding.         *)
(***************************************************************************)
AnswerIs(w, o) == Clear(Send(w, Sub(o, "IS")), "WILL", o)

SbCharset(w, e, s) ==
  CASE s = "REQUEST" ->
         LET v == Send(w, Sub("CHARSET", CharsetAnswer[e])) IN
         IF CharsetAnswer[e] = "REJECTED" THEN v
         ELSE [v EXCEPT !.encoding = IF CharsetAnswer[e] = "EMPTY" THEN "empty" ELSE "named"]
    [] s = "ACCEPTED" -> [w EXCEPT !.encoding = "named"]
    [] s = "EMPTY" -> [w EXCEPT !.encoding = "empty"]
    [] OTHER -> w

\* Mistake: the flag of the next batch is lost to that of the last.
SbEnvironUnflagged(w, s) ==
  CASE s = "SEND" -> Clear(Send(w, Sub("NEW_ENVIRON", "IS")), "WILL", "TTYPE")
    [] s = "IS" /\ w.batches > 0 ->
         SetPending(Send([w EXCEPT !.batches = @ - 1], Sub("NEW_ENVIRON", "SEND")),
                    "SB", "NEW_ENVIRON", "off")
    [] OTHER -> w
SbEnviron(w, s) ==
  CASE w.encoding = "empty" -> w
    \* the handler clears the pending WILL of TTYPE, not its own
    [] w.encoding # "empty" /\ s = "SEND" ->
         Clear(Send(w, Sub("NEW_ENVIRON", "IS")), "WILL", "TTYPE")
    [] w.encoding # "empty" /\ s = "IS" ->
         LET v == SetPending(w, "SB", "NEW_ENVIRON", "off") IN
         IF v.batches = 0 THEN v
         ELSE Send(SetPending([v EXCEPT !.batches = @ - 1], "SB", "NEW_ENVIRON", "on"),
                   Sub("NEW_ENVIRON", "SEND"))
    [] OTHER -> w

\* A window size from a peer that never said WILL NAWS enables NAWS, unless a
\* fingerprinting shell has forgotten the WILL on purpose.
SbNaws(w) == IF w.in_loop_detection THEN w ELSE SetRemote(w, "NAWS", "on")

SbStatus(w, s) == IF s = "SEND" THEN _send_status(w) ELSE w

\* Mistake: the terminal type is answered, other questions are dropped, and
\* the pending question outlives its answer.
FeedSubPending(w, e, o, s) ==
  IF o = "TTYPE" /\ s = "SEND" THEN AnswerIs(w, o) ELSE w

FeedSub(w, e, o, s) ==
  LET v == Clear(w, "SB", o) IN
  CASE o \in {"TTYPE", "TSPEED", "XDISPLOC"} /\ s = "SEND" -> AnswerIs(v, o)
    [] o = "STATUS" -> SbStatus(v, s)
    [] o = "CHARSET" -> SbCharset(v, e, s)
    [] o = "NEW_ENVIRON" -> SbEnviron(v, s)
    [] o = "NAWS" -> SbNaws(v)
    [] o \in {"MCCP2", "MCCP3"} -> [v EXCEPT !.mccp = @ \cup {o}]
    [] OTHER -> v

\* One complete command taken from the wire.
Feed(w, e, m) ==
  CASE m.cmd = "DO" -> FeedDo(w, e, m.opt)
    [] m.cmd = "DONT" -> FeedDont(w, m.opt)
    [] m.cmd = "WILL" -> FeedWill(w, e, m.opt)
    [] m.cmd = "WONT" -> FeedWont(w, m.opt)
    [] m.cmd = "SB" -> FeedSub(w, e, m.opt, m.sub)

=============================================================================
