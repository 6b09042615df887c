------------------------------ MODULE Linemode ------------------------------
(***************************************************************************)
(* LINEMODE (RFC 1184) as stream_writer.py and slc.py carry it out between *)
(* a server and a client of this library: the agreement on the option, the *)
(* MODE that each end may suggest, the exchange of special line characters *)
(* (SLC) and the forward mask.  TelnetWriter models the other options; of  *)
(* this one the two flags an end keeps are one, "on": the client's         *)
(* local_option and the server's remote_option.                            *)
(*                                                                         *)
(* A table of special characters maps a function to its support level and  *)
(* character.  generate_slctab and the reset to the defaults put the very  *)
(* SLC objects of the class attribute default_slc_tab into a writer's      *)
(* table, so that what an exchange assigns to them it assigns to the       *)
(* defaults too: "own" holds the entries a writer has for itself and every *)
(* other entry is the one of "default".  The triplets an exception leaves  *)
(* in _slc_buffer go out with the next ones.  The flush flags of a triplet *)
(* decide nothing and are left out.                                        *)
(*                                                                         *)
(* A definition commented "Mistake" is a wrong version of the one below    *)
(* it; it is used only to see that a property notices the difference.      *)
(***************************************************************************)
EXTENDS Naturals, Sequences, FiniteSets, SequencesExt

CONSTANTS
  Funcs,            \* the functions an exchange talks about, in their order
  Defaults,         \* the tables default_slc_tab may hold when an end begins
  Bits,             \* the bits of a mode other than ACK
  default_linemode, \* the bits the server proposes
  Calls,            \* the calls of the applications: <<end, call, bits>>
  MaxCalls          \* bound: calls made in a behaviour

ASSUME LinemodeAssumption ==
  /\ Funcs \in Seq(STRING)
  /\ default_linemode \subseteq Bits
  /\ Calls \subseteq {"client", "server"} \X {"toggle", "send", "change"} \X SUBSET Bits
  /\ MaxCalls \in Nat

VARIABLES writer, wire, calls
vars == <<writer, wire, calls>>

Ends == {"client", "server"}
Peer(e) == IF e = "client" THEN "server" ELSE "client"

(***************************************************************************)
(* slc.py                                                                  *)
(***************************************************************************)
Values == {"null", "x", "y", "vdisable"}
SLC(level, val) == [level |-> level, ack |-> FALSE, val |-> val]
SLC_nosupport == SLC("NOSUPPORT", "vdisable")
Names == Range(Funcs)

Table(w) == w.own @@ w.default
Linemodes == [bits : SUBSET Bits, ack : BOOLEAN]
SameMode(m, n) == m.bits = n.bits

\* generate_forwardmask over snoop: the characters whose first function in
\* the table supports them.
Supported(w) ==
  {v \in Values \ {"null"} :
     \E i \in DOMAIN Funcs :
       LET t == Table(w) IN
       /\ Funcs[i] \in DOMAIN t /\ t[Funcs[i]].val = v
       /\ t[Funcs[i]].level # "NOSUPPORT"
       /\ \A j \in 1 .. i - 1 : Funcs[j] \in DOMAIN t => t[Funcs[j]].val # v}

(***************************************************************************)
(* A writer, and what it puts on the wire.                                 *)
(***************************************************************************)
NewWriter(e, default) ==
  [role |-> e, on |-> FALSE, pendDo |-> FALSE, pendSb |-> FALSE,
   mode |-> [bits |-> {}, ack |-> FALSE], default |-> default,
   own |-> [f \in Names \ DOMAIN default |-> SLC_nosupport],
   slc_sent |-> FALSE, slc_buffer |-> <<>>, forwardmask |-> {}, raised |-> FALSE,
   out |-> <<>>]

Command(c) == [cmd |-> c]
Mode(m) == [cmd |-> "MODE", mode |-> m]
Slc(triplets) == [cmd |-> "SLC", triplets |-> triplets]
ForwardMask(s) == [cmd |-> "FORWARDMASK", mask |-> s]

Send(w, m) == [w EXCEPT !.out = Append(@, m)]

send_linemode(w, m) == Send([w EXCEPT !.mode = m], Mode(m))

_slc_add(w, f, s) ==
  [w EXCEPT !.slc_buffer =
     Append(@, [func |-> f, level |-> s.level, ack |-> s.ack, val |-> s.val])]

_slc_send(w, tab) ==
  FoldLeft(LAMBDA v, f :
             IF f \notin DOMAIN tab \/ tab[f].level = "NOSUPPORT" THEN v
             ELSE _slc_add(v, f, tab[f]),
           w, Funcs)

\* _slc_start and _slc_end
SendSlc(w) == [Send(w, Slc(w.slc_buffer)) EXCEPT !.slc_buffer = <<>>]

request_forwardmask(w) == IF w.on THEN Send(w, ForwardMask(Supported(w))) ELSE w

(***************************************************************************)
(* The option itself.                                                      *)
(***************************************************************************)
IacDo(w) ==
  IF w.on THEN [w EXCEPT !.pendDo = FALSE]
  ELSE IF w.pendDo THEN w
  ELSE Send([w EXCEPT !.pendDo = TRUE], Command("DO"))

IacDont(w) == IF w.on THEN Send([w EXCEPT !.on = FALSE], Command("DONT")) ELSE w

\* The client agrees and asks for the server's characters.
HandleDo(w) ==
  LET v == IF w.on THEN w ELSE Send(w, Command("WILL")) IN
  SendSlc(_slc_add([v EXCEPT !.on = TRUE, !.pendSb = TRUE], "0", SLC("DEFAULT", "null")))

HandleDont(w) == [w EXCEPT !.on = FALSE]

HandleWill(w) ==
  LET v == IF w.on THEN w ELSE [IacDo(w) EXCEPT !.on = TRUE] IN
  [send_linemode([v EXCEPT !.pendSb = TRUE], [bits |-> default_linemode, ack |-> FALSE])
     EXCEPT !.pendDo = FALSE]

(***************************************************************************)
(* _handle_sb_linemode_mode                                                *)
(***************************************************************************)
\* Mistake: an acknowledgement without its ACK bit.
AcknowledgedUnmarked(m) == m
Acknowledged(m) == [m EXCEPT !.ack = TRUE]

Suggested(w, m) ==
  IF SameMode(w.mode, m) \/ ~w.on THEN w ELSE send_linemode(w, Acknowledged(m))

\* Mistake: the server, too, holds on to what it suggested last.
AgreedStubborn(w, m) == IF SameMode(w.mode, m) THEN [w EXCEPT !.mode = m] ELSE w

Agreed(w, m) ==
  IF w.role = "client" THEN IF SameMode(w.mode, m) THEN [w EXCEPT !.mode = m] ELSE w
  ELSE LET v == [w EXCEPT !.mode = m] IN
       IF v.slc_sent THEN v
       ELSE [SendSlc(_slc_send(v, Table(v))) EXCEPT !.slc_sent = TRUE]

HandleMode(w, m) == IF m.ack THEN Agreed(w, m) ELSE Suggested(w, m)

(***************************************************************************)
(* _handle_sb_linemode_slc: a triplet is taken in by _slc_process, which   *)
(* leaves a change of the table to _slc_change.                            *)
(***************************************************************************)
Raise(w) == [w EXCEPT !.raised = TRUE]

\* An assignment to the SLC object of f, the default's if it is not its own.
Assign(w, f, level, val) ==
  LET s == SLC(level, val) IN
  IF f \in DOMAIN w.own THEN [w EXCEPT !.own[f] = s] ELSE [w EXCEPT !.default[f] = s]
Answer(w, f) == _slc_add(w, f, Table(w)[f])
AckAsSent(w, f, s) == _slc_add(w, f, [s EXCEPT !.ack = TRUE])
DefaultOf(w, f) == IF f \in DOMAIN w.default THEN w.default[f] ELSE SLC_nosupport

NotSupported(w, f) ==
  Answer([w EXCEPT !.own = (f :> [SLC_nosupport EXCEPT !.ack = TRUE]) @@ @], f)

\* A function that default_slc_tab lacks has no mask to go back to.
BackToDefault(w, f) ==
  LET mine == Table(w)[f]
      v == Assign(w, f, "NOSUPPORT", mine.val) IN
  IF mine.level = "DEFAULT" THEN Answer(Assign(v, f, "NOSUPPORT", DefaultOf(v, f).val), f)
  ELSE IF f \notin DOMAIN w.default THEN Raise(w)
  ELSE Answer(Assign(w, f, w.default[f].level, w.default[f].val), f)

\* A function without a character of ours: what is sent is taken, or given up.
NoCharacter(w, f, s) ==
  LET mine == Table(w)[f] IN
  CASE mine.level = "DEFAULT" -> AckAsSent(Assign(w, f, s.level, s.val), f, s)
    [] mine.level = "CANTCHANGE" /\ s.level = "CANTCHANGE" ->
         Answer(Assign(w, f, "NOSUPPORT", mine.val), f)
    [] mine.level = "CANTCHANGE" /\ s.level # "CANTCHANGE" ->
         Answer(Assign(w, f, mine.level, DefaultOf(w, f).val), f)
    [] OTHER -> Answer(Assign(w, f, mine.level, mine.val), f)

\* Mistake: a change is acknowledged and not made.
SlcChangeForgets(w, f, s) ==
  IF s.level = "NOSUPPORT" THEN NotSupported(w, f) ELSE AckAsSent(w, f, s)

_slc_change(w, f, s) ==
  CASE s.level = "NOSUPPORT" -> NotSupported(w, f)
    [] s.level = "DEFAULT" -> BackToDefault(w, f)
    [] OTHER ->
         IF Table(w)[f].val # "null" THEN AckAsSent(Assign(w, f, s.level, s.val), f, s)
         ELSE NoCharacter(w, f, s)

\* Function 0 asks for a whole table, and DEFAULT resets this end's to it.
WholeTable(w, s) ==
  CASE s.level = "DEFAULT" ->
         [_slc_send([w EXCEPT !.own = <<>>], w.default)
            EXCEPT !.slc_sent = @ \/ w.role = "server"]
    [] s.level = "VARIABLE" -> _slc_send(w, Table(w))
    [] OTHER -> w

_slc_process(w, t) ==
  LET s == [level |-> t.level, ack |-> t.ack, val |-> t.val] IN
  IF t.func = "0" THEN WholeTable(w, s)
  ELSE IF t.func \notin Names THEN _slc_add(w, t.func, SLC_nosupport)
  ELSE IF t.func \notin DOMAIN Table(w) THEN Raise(w)
  ELSE LET mine == Table(w)[t.func] IN
       IF s.ack \/ (s.level = mine.level /\ s.val = mine.val) THEN w
       ELSE _slc_change(w, t.func, s)

\* An exception ends the whole handler.
HandleSlc(w, triplets) ==
  LET v == FoldLeft(LAMBDA u, t : IF u.raised THEN u ELSE _slc_process(u, t), w, triplets)
      sent == IF v.slc_buffer = <<>> THEN v ELSE SendSlc(v) IN
  IF v.raised THEN v
  ELSE IF w.role = "server" THEN request_forwardmask(sent) ELSE sent

\* DO FORWARDMASK; the client's table decides nothing here.
HandleForwardMask(w, mask) == [w EXCEPT !.forwardmask = mask]

\* feed_byte.  Any SB LINEMODE ends the wait for one.
Feed(w, m) ==
  LET v == [w EXCEPT !.pendSb = FALSE] IN
  CASE m.cmd = "DO" -> HandleDo(w)
    [] m.cmd = "DONT" -> HandleDont(w)
    [] m.cmd = "WILL" -> HandleWill(w)
    [] m.cmd = "MODE" -> HandleMode(v, m.mode)
    [] m.cmd = "SLC" -> HandleSlc(v, m.triplets)
    [] m.cmd = "FORWARDMASK" -> HandleForwardMask(v, m.mask)

(***************************************************************************)
(* The applications.                                                       *)
(***************************************************************************)
\* request_linemode_change: some bits are set and cleared in the mask that is
\* in force, the ACK bit that came with it included.
request_linemode_change(w, bits) == send_linemode(w, [w.mode EXCEPT !.bits = bits])

\* toggle linemode of the server's shell
do_toggle(w) == IF w.on THEN IacDont(w) ELSE IacDo(w)

Called(w, call, bits) ==
  CASE call = "toggle" -> do_toggle(w)
    [] call = "send" /\ w.on -> send_linemode(w, [bits |-> bits, ack |-> FALSE])
    [] call = "change" /\ w.on -> request_linemode_change(w, bits)
    [] OTHER -> w

Becomes(e, w, rest) ==
  /\ writer' = [writer EXCEPT ![e] = [w EXCEPT !.out = <<>>]]
  /\ wire' = [wire EXCEPT ![e] = rest, ![Peer(e)] = @ \o w.out]

Init ==
  /\ \E d \in [Ends -> Defaults] :
       writer = [e \in Ends |-> [NewWriter(e, d[e]) EXCEPT !.pendDo = e = "server"]]
  /\ wire = [e \in Ends |-> IF e = "client" THEN <<Command("DO")>> ELSE <<>>]
  /\ calls = 0

Receive(e) ==
  /\ wire[e] # <<>>
  /\ Becomes(e, Feed([writer[e] EXCEPT !.raised = FALSE], Head(wire[e])), Tail(wire[e]))
  /\ UNCHANGED calls

Call(c) ==
  /\ calls < MaxCalls
  /\ Called(writer[c[1]], c[2], c[3]) # writer[c[1]]
  /\ Becomes(c[1], Called(writer[c[1]], c[2], c[3]), wire[c[1]])
  /\ calls' = calls + 1

Next ==
  \/ \E e \in Ends : Receive(e)
  \/ \E c \in Calls : Call(c)

Spec == Init /\ [][Next]_vars

\* What has arrived is taken in, at one end or the other: weak fairness of
\* the two Receive actions together, written out.
Quiet == \A e \in Ends : wire[e] = <<>>
FairSpec == Spec /\ ([]<>Quiet \/ []<><<\E e \in Ends : Receive(e)>>_vars)

-----------------------------------------------------------------------------
(***************************************************************************)
(* Properties                                                              *)
(***************************************************************************)
On == \A e \in Ends : writer[e].on

\* The values of the variables.
TypeOK ==
  /\ calls \in 0 .. MaxCalls
  /\ \A e \in Ends : writer[e].mode \in Linemodes

\* What the proof of ModesAgree asks of the calls: it is the server's shell
\* that toggles the option, and the client that may change a mode that has
\* been acknowledged (of a server's change the client takes no notice).
ShellsCall ==
  \A c \in Calls : /\ c[2] = "toggle" => c[1] = "server"
                   /\ c[2] = "change" => c[1] = "client"

\* Once nothing is in flight both ends edit the line in the same mode,
\* whatever suggestions and acknowledgements crossed.
ModesAgree == Quiet /\ On => SameMode(writer["client"].mode, writer["server"].mode)

\* A MODE is acknowledged at most once and a triplet is answered at most by
\* its acknowledgement: the exchange ends, and nobody waits for a
\* sub-negotiation any more.
Settles == <>[](Quiet /\ \A e \in Ends : ~writer[e].pendSb)

\* Once nothing is in flight the ends agree on every function both support.
Supports(e, f) ==
  f \in DOMAIN Table(writer[e]) /\ Table(writer[e])[f].level # "NOSUPPORT"
CharactersAgree ==
  Quiet /\ On => \A f \in Names : (\A e \in Ends : Supports(e, f)) =>
    Table(writer["client"])[f].val = Table(writer["server"])[f].val

(***************************************************************************)
(* What the program's own documentation says and the code does not do.     *)
(***************************************************************************)

\* _slc_change modifies the "private attribute" slctab: what one peer asks
\* for does not become the default of every other connection.
DefaultsKept == [][\A e \in Ends : writer'[e].default = writer[e].default]_vars

\* A triplet of a peer whose defaults list other functions makes no handler
\* raise.
NeverRaises == \A e \in Ends : ~writer[e].raised

=============================================================================
