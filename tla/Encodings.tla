------------------------------ MODULE Encodings ------------------------------
(***************************************************************************)
(* Which encoding the text of a connection is in: BINARY per direction,    *)
(* CHARSET and the LANG of NEW_ENVIRON between a TelnetServer (server.py)  *)
(* and a TelnetClient (client.py), each with its TelnetWriter.             *)
(*                                                                         *)
(* Both ends work out the encoding whenever they read or write, from what  *)
(* has been negotiated by then (fn_encoding).  A text is one that ASCII    *)
(* lacks; it is a message in the stream, with the encoding it is in.  The  *)
(* terminal type is asked for once: its answer lets the server ask for the *)
(* environment.                                                            *)
(*                                                                         *)
(* A definition commented "Mistake" is a wrong version of the one below    *)
(* it; it is used only to see that a property notices the difference.      *)
(***************************************************************************)
EXTENDS TelnetWriter, SequencesExt

CONSTANTS
  Configurations,   \* [encoding, declines, sends_lang, toggles]: the client's
                    \* encoding, the options it declines, whether it may send
                    \* LANG, and how often the server's user toggles BINARY
  default_encoding, \* the server's
  Offers,           \* on_request_charset of the server: names, best first
  Known,            \* what codecs.lookup resolves, from names to encodings
  MaxRequests,      \* bound: how often the server's application asks again
  MaxTexts          \* bound: texts an end writes

NoName == ""
ASSUME EncodingsAssumption ==
  /\ {"BINARY", "CHARSET", "TTYPE", "NEW_ENVIRON"} = Options
  /\ \A c \in Configurations : c.declines \subseteq Options /\ c.toggles \in Nat
  /\ default_encoding \in Range(Known) /\ MaxRequests \in Nat /\ MaxTexts \in Nat
  /\ \A n \in Range(Known) : n \in DOMAIN Known /\ Known[n] = n

VARIABLES
  config,   \* member of Configurations
  end,      \* per end, [writer, charset, lang, force_binary, name]
  server,   \* [begun, advanced, environ_requested, checking]: the protocol
  wire,     \* per end, what is on its way to it: [m, names, text, sure]
  unread,   \* per end, the texts in its reader's buffer
  count,    \* [requests, toggles, texts]: what the bounds bound
  misread   \* a text that was sure to be understood was decoded as another

vars == <<config, end, server, wire, unread, count, misread>>

\* extra["charset"], extra["lang"] and LANG, and environ_encoding.
NewEnd(charset, lang) ==
  [writer |-> NewWriter, charset |-> charset, lang |-> lang, force_binary |-> FALSE, name |-> "ascii"]

Init ==
  /\ config \in Configurations
  /\ end = [e \in Ends |->
       IF e = "client" THEN NewEnd(config.encoding, config.encoding)
       ELSE NewEnd(default_encoding, NoName)]
  /\ server = [begun |-> FALSE, advanced |-> "no", environ_requested |-> FALSE, checking |-> TRUE]
  /\ wire = [e \in Ends |-> <<>>]
  /\ unread = [e \in Ends |-> <<>>]
  /\ count = [requests |-> 0, toggles |-> 0, texts |-> [e \in Ends |-> 0]]
  /\ misread = FALSE

(***************************************************************************)
(* encoding(outgoing=True) and encoding(incoming=True) of the two ends.    *)
(***************************************************************************)
MayEncode(w, direction) ==
  IF direction = "outgoing" THEN Local(w, "BINARY") ELSE Remote(w, "BINARY")

\* LANG comes first, then CHARSET, then the server's own encoding.
ServerEncoding(d, direction) ==
  IF ~(d.force_binary \/ MayEncode(d.writer, direction)) THEN "ascii"
  ELSE IF d.lang \in DOMAIN Known THEN Known[d.lang]
  ELSE IF d.charset # NoName THEN Known[d.charset] ELSE default_encoding

\* The client's own, until CHARSET changes it.
ClientEncoding(d, direction) ==
  IF d.force_binary \/ MayEncode(d.writer, direction) THEN d.charset ELSE "ascii"

encoding(e, d, direction) ==
  IF e = "server" THEN ServerEncoding(d, direction) ELSE ClientEncoding(d, direction)

(***************************************************************************)
(* CHARSET.                                                                *)
(***************************************************************************)
Viable(names) == SelectSeq(names, LAMBDA n : n \in DOMAIN Known)

\* The client's choice: its own encoding if that is offered, the first viable
\* one if it has no preference or only latin1, and "" for no choice.
Choice(desired, names) ==
  LET viable == Viable(names)
      matches == SelectSeq(viable, LAMBDA n : Known[n] = desired) IN
  IF matches # <<>> THEN Head(matches)
  ELSE IF desired \in {NoName, "latin1"} /\ viable # <<>> THEN Head(viable)
  ELSE NoName

\* Mistake: LANG goes on naming the client's own encoding.
SendCharsetOldLang(d, names) ==
  LET choice == Choice(config.encoding, names) IN
  IF choice = NoName THEN d ELSE [d EXCEPT !.charset = Known[choice]]

send_charset(d, names) ==
  LET choice == Choice(config.encoding, names) IN
  IF choice = NoName THEN d ELSE [d EXCEPT !.charset = Known[choice], !.lang = Known[choice]]

_force_binary_on_protocol(d) == [d EXCEPT !.force_binary = TRUE]

\* environ_encoding; that of no name cannot encode or decode anything.
Named(d, name) ==
  [d EXCEPT !.name = name, !.writer.encoding = IF name = NoName THEN "empty" ELSE "named"]

\* Of the two ends only the server wires its callbacks for what is answered.
Callbacks(e) == IF e = "server" THEN {"TTYPE", "NEW_ENVIRON", "CHARSET"} ELSE {}
on_charset(d, name) == [d EXCEPT !.charset = name]

\* The default callback, the server's: no selection.
handle_send_client_charset == NoName

\* An answer without a choice is ACCEPTED, and names nothing.
OnRequest(e, d, names) ==
  LET choice == IF e = "client" THEN Choice(config.encoding, names) ELSE handle_send_client_charset
      chosen == IF e = "client" THEN send_charset(d, names) ELSE d IN
  _force_binary_on_protocol(
    Named([chosen EXCEPT !.writer = Send(@, Sub("CHARSET", "ACCEPTED"))], choice))

OnAccepted(e, d, name) ==
  _force_binary_on_protocol(
    Named(IF "CHARSET" \in Callbacks(e) THEN on_charset(d, name) ELSE d, name))

_handle_sb_charset(e, d, m) ==
  LET asked == [d EXCEPT !.writer = Clear(@, "SB", "CHARSET")] IN
  CASE m.m.sub = "REQUEST" -> OnRequest(e, asked, m.names)
    [] m.m.sub = "ACCEPTED" -> OnAccepted(e, asked, m.text)

(***************************************************************************)
(* NEW_ENVIRON, of which LANG is kept.                                     *)
(***************************************************************************)
send_env(d) == IF config.sends_lang THEN d.lang ELSE NoName

on_environ(d, lang) ==
  IF lang = NoName THEN d ELSE _force_binary_on_protocol([d EXCEPT !.lang = lang])

(***************************************************************************)
(* One command at an end, and what the callbacks put into those it writes. *)
(***************************************************************************)
DeclinesDo(w, o) == Clear(SetLocal(WontUnlessLocal(w, o), o, "off"), "WILL", o)

Interpret(e, d, m) ==
  LET c == m.m
      fed == [d EXCEPT !.writer = Feed(@, e, c)] IN
  CASE c.cmd = "SB" /\ c.opt = "CHARSET" -> _handle_sb_charset(e, d, m)
    [] e = "client" /\ c.cmd = "DO" /\ c.opt \in config.declines ->
         [d EXCEPT !.writer = DeclinesDo(@, c.opt)]
    [] c = Sub("NEW_ENVIRON", "IS") /\ c.opt \in Callbacks(e) /\ d.writer.encoding = "named" -> on_environ(fed, m.text)
    [] OTHER -> fed

Filled(e, d, c) ==
  [m |-> c,
   names |-> IF c = Sub("CHARSET", "REQUEST") THEN Offers ELSE <<>>,
   text |-> CASE c = Sub("CHARSET", "ACCEPTED") -> d.name
              [] c = Sub("NEW_ENVIRON", "IS") -> send_env(d)
              [] OTHER -> NoName,
   sure |-> FALSE]

\* End e is left as d, having taken what is at the head of its wire or nothing.
Becomes(e, d, rest) ==
  /\ end' = [end EXCEPT ![e] = [d EXCEPT !.writer.out = <<>>]]
  /\ wire' = [x \in Ends |-> IF x = e THEN rest
                ELSE wire[x] \o [i \in DOMAIN d.writer.out |-> Filled(e, d, d.writer.out[i])]]

(***************************************************************************)
(* The server's negotiation, as operators on s = [server, d].              *)
(***************************************************************************)
Says(d, c, o) == [d EXCEPT !.writer = Iac(@, c, o)]

_negotiate_environ(s) ==
  IF s.server.environ_requested THEN s
  ELSE [server |-> [s.server EXCEPT !.environ_requested = TRUE],
        d |-> Says(s.d, "DO", "NEW_ENVIRON")]

AsksBinary(w) ==
  Local(w, "BINARY") /\ ~Remote(w, "BINARY") /\ w.pending[<<"DO", "BINARY">>] = "unset"
AsksCharset(w) ==
  Remote(w, "CHARSET") /\ Local(w, "CHARSET") /\ w.pending[<<"SB", "CHARSET">>] = "unset"
_check_encoding(d) ==
  CASE AsksBinary(d.writer) -> Says(d, "DO", "BINARY")
    [] ~AsksBinary(d.writer) /\ AsksCharset(d.writer) -> [d EXCEPT !.writer = request_charset(@)]
    [] OTHER -> d

\* check_negotiation; it is over when nothing is pending and BINARY is agreed
\* both ways, or forced.
check_negotiation(s, final) ==
  LET w == s.d.writer
      stalled == \/ final
                 \/ w.remote["TTYPE"] = "off"
                 \/ ~(Pending(w, "DO", "TTYPE") \/ Pending(w, "SB", "TTYPE"))
      t == IF stalled /\ s.server.advanced # "no" THEN _negotiate_environ(s) ELSE s
      d == _check_encoding(t.d)
      advances == t.server.advanced = "no" /\ \E o \in Options : Local(w, o) \/ Remote(w, o)
      over == /\ \A r \in Requests : t.d.writer.pending[r] # "on"
              /\ ~AsksBinary(t.d.writer)
              /\ \/ d.force_binary
                 \/ Local(d.writer, "BINARY") /\ Remote(d.writer, "BINARY") IN
  [d |-> d,
   server |-> [t.server EXCEPT !.advanced = IF advances THEN "due" ELSE @,
                               !.checking = ~over /\ ~final]]

ServerBecomes(s, rest) == Becomes("server", s.d, rest) /\ server' = s.server

begin_negotiation ==
  /\ ~server.begun
  /\ ServerBecomes([d |-> Says(end["server"], "DO", "TTYPE"),
                    server |-> [server EXCEPT !.begun = TRUE]], wire["server"])
  /\ UNCHANGED <<config, unread, count, misread>>

\* It is due before anything more is received.
begin_advanced_negotiation ==
  /\ server.advanced = "due"
  /\ ServerBecomes([d |-> Says(Says(end["server"], "WILL", "BINARY"), "DO", "CHARSET"),
                    server |-> [server EXCEPT !.advanced = "yes"]], wire["server"])
  /\ UNCHANGED <<config, unread, count, misread>>

\* connect_maxwait has passed.
Deadline ==
  /\ server.begun /\ server.checking /\ server.advanced # "due"
  /\ ServerBecomes(check_negotiation([server |-> server, d |-> end["server"]], TRUE),
                   wire["server"])
  /\ UNCHANGED <<config, unread, count, misread>>

(***************************************************************************)
(* data_received, a command or a text at a time.                           *)
(***************************************************************************)
Text == [cmd |-> "TEXT", opt |-> "none", sub |-> "none"]
Next_(e) == Head(wire[e])
Commands(e) == wire[e] # <<>> /\ Next_(e).m # Text

ClientReceives ==
  /\ Commands("client")
  /\ Becomes("client", Interpret("client", end["client"], Next_("client")), Tail(wire["client"]))
  /\ UNCHANGED <<config, server, unread, count, misread>>

\* Mistake: the environment is asked for with the terminal type.
OnTtypeEarly(s, c) == IF c.opt = "TTYPE" THEN _negotiate_environ(s) ELSE s

\* The name of the terminal lets the server ask for the environment.
on_ttype(s, c) == IF c = Sub("TTYPE", "IS") THEN _negotiate_environ(s) ELSE s

ServerReceives ==
  /\ Commands("server") /\ server.advanced # "due"
  /\ LET m == Next_("server")
         s == on_ttype([server |-> server, d |-> Interpret("server", end["server"], m)], m.m)
     IN ServerBecomes(IF server.checking THEN check_negotiation(s, FALSE) ELSE s,
                      Tail(wire["server"]))
  /\ UNCHANGED <<config, unread, count, misread>>

TextArrives(e) ==
  /\ wire[e] # <<>> /\ Next_(e).m = Text
  /\ wire' = [wire EXCEPT ![e] = Tail(@)]
  /\ unread' = [unread EXCEPT ![e] = Append(@, Next_(e))]
  /\ UNCHANGED <<config, end, server, count, misread>>

(***************************************************************************)
(* The applications.                                                       *)
(***************************************************************************)
\* Whoever has settled CHARSET, or has been told LANG and agreed to BINARY for
\* good, is sure to be understood.
Settled(e) ==
  \/ end[e].name # "ascii"
  \/ end[e].force_binary /\ Local(end[e].writer, "BINARY") /\ config.toggles = 0

\* What TelnetWriterUnicode encodes with.  Where ASCII is prescribed, or the
\* encoding has no name, the text is an error.
encode(e) == encoding(e, end[e], "outgoing")

write(e) ==
  /\ count.texts[e] < MaxTexts
  /\ encode(e) \notin {"ascii", NoName}
  /\ wire' = [wire EXCEPT ![Peer(e)] = Append(@,
       [m |-> Text, names |-> <<>>, text |-> encode(e), sure |-> Settled(e)])]
  /\ count' = [count EXCEPT !.texts[e] = @ + 1]
  /\ UNCHANGED <<config, end, server, unread, misread>>

\* TelnetReaderUnicode.read, some time after the text has arrived.
read(e) ==
  /\ unread[e] # <<>>
  /\ unread' = [unread EXCEPT ![e] = Tail(@)]
  /\ misread' = \/ misread
                \/ /\ Head(unread[e]).sure
                   /\ Head(unread[e]).text # encoding(e, end[e], "incoming")
  /\ UNCHANGED <<config, end, server, wire, count>>

\* The server's application asks once more.
RequestAgain(o) ==
  /\ server.begun /\ count.requests < MaxRequests
  /\ count' = [count EXCEPT !.requests = @ + 1]
  /\ Becomes("server", [end["server"] EXCEPT !.writer = Request(@, "server", o)], wire["server"])
  /\ UNCHANGED <<config, server, unread, misread>>

\* do_toggle of the server's shell, on "outbinary" or "inbinary".
do_toggle(out) ==
  LET w == end["server"].writer
      c == IF out THEN IF Local(w, "BINARY") THEN "WONT" ELSE "WILL"
           ELSE IF Remote(w, "BINARY") THEN "DONT" ELSE "DO" IN
  /\ server.begun /\ count.toggles < config.toggles
  /\ count' = [count EXCEPT !.toggles = @ + 1]
  /\ Becomes("server", Says(end["server"], c, "BINARY"), wire["server"])
  /\ UNCHANGED <<config, server, unread, misread>>

Protocol ==
  \/ begin_negotiation \/ begin_advanced_negotiation \/ Deadline
  \/ ClientReceives \/ ServerReceives
  \/ \E e \in Ends : TextArrives(e)
Next ==
  \/ Protocol
  \/ \E e \in Ends : write(e) \/ read(e)
  \/ \E o \in {"CHARSET", "NEW_ENVIRON"} : RequestAgain(o)
  \/ \E out \in BOOLEAN : do_toggle(out)

Spec == Init /\ [][Next]_vars

\* What arrives is received and what is due runs; the deadline comes.
Rested == server.begun /\ ~server.checking /\ \A e \in Ends : wire[e] = <<>>
FairSpec == Spec /\ ([]<>Rested \/ []<><<Protocol>>_vars)

-----------------------------------------------------------------------------
(***************************************************************************)
(* Properties                                                              *)
(***************************************************************************)
\* A text written by an end that has agreed to a character set, or been told
\* one, is decoded as what it was encoded in, however much later it is read and
\* whatever is asked or toggled in between.
Understood == ~misread

\* In the end what either end writes is what the other takes it for, although
\* each works that out for itself, the server from LANG before CHARSET, and
\* CHARSET may change the client's LANG; unless nothing was heard of the client
\* before connect_maxwait, when options beyond the terminal type are never asked
\* for.  An end that keeps to ASCII is understood in every encoding known here.
Agreed ==
  \A e \in Ends : encode(e) \in {"ascii", encoding(Peer(e), end[Peer(e)], "incoming")}
Converges == <>[](Agreed \/ server.advanced = "no")

(***************************************************************************)
(* What the program's own documentation says and the code does not do.     *)
(***************************************************************************)
\* "returns: Character encoding agreed to be used, or empty string to reject":
\* a client that rejects an offer does not make its server force binary on.
RejectedHonestly ==
  \A i \in DOMAIN wire["server"] :
    wire["server"][i].m = Sub("CHARSET", "ACCEPTED") => wire["server"][i].text # NoName

=============================================================================
