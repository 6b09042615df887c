-------------------------- MODULE OptionNegotiation --------------------------
(***************************************************************************)
(* A telnetlib3 client and a telnetlib3 server negotiating options over a  *)
(* connection: two TelnetWriters and, per direction, the bytes in flight,  *)
(* in order and without loss, as TCP delivers them.  Every command is the  *)
(* step of one event-loop callback, so a writer's handler runs to its end  *)
(* before another, and the two ends interleave freely.                     *)
(***************************************************************************)
EXTENDS TelnetWriter, SequencesExt

CONSTANTS
  AppCalls,   \* the iac() calls the protocols and applications make
  AppSubs,    \* the request_*() calls they make
  Resizes,    \* whether the client's window may be resized
  MaxCalls    \* bound on the number of such calls in a behaviour

ASSUME AppAssumption ==
  /\ AppCalls \subseteq Ends \X Verbs \X Options
  /\ AppSubs \subseteq Ends \X (Options \cap Requestable)
  /\ Resizes \in BOOLEAN
  /\ MaxCalls \in Nat

VARIABLES
  writer,  \* the two TelnetWriters
  wire,    \* wire[e]: the commands on their way to end e, oldest first
  calls,   \* application calls made so far
  sent     \* auxiliary: sent[e], every command end e ever wrote

vars == <<writer, wire, calls, sent>>

\* The writers are writers between callbacks, and commands are well-formed.
TypeOK ==
  /\ writer \in [Ends -> Writer]
  /\ \A e \in Ends : writer[e].out = <<>>
  /\ wire \in [Ends -> Seq(Message)]
  /\ calls \in 0..MaxCalls
  /\ sent \in [Ends -> SUBSET Message]

Init ==
  /\ writer = [e \in Ends |-> NewWriter]
  /\ wire = [e \in Ends |-> <<>>]
  /\ calls = 0
  /\ sent = [e \in Ends |-> {}]

\* Mistake: what is written is sent again with the next write.
BecomesAgain(e, w, rest) ==
  /\ writer' = [writer EXCEPT ![e] = w]
  /\ wire' = [d \in Ends |-> IF d = e THEN rest ELSE wire[d] \o w.out]
  /\ sent' = [sent EXCEPT ![e] = @ \cup Range(w.out)]

\* End e's callback leaves writer w behind, having taken the message at the
\* head of its own wire or none: w.out goes to the peer.
Becomes(e, w, rest) ==
  /\ writer' = [writer EXCEPT ![e] = [w EXCEPT !.out = <<>>]]
  /\ wire' = [d \in Ends |-> IF d = e THEN rest ELSE wire[d] \o w.out]
  /\ sent' = [sent EXCEPT ![e] = @ \cup Range(w.out)]

Call(e) ==
  /\ calls < MaxCalls
  /\ ~writer[e].closing
  /\ calls' = calls + 1

\* Applications offer and ask freely; the code withdraws, by DONT or WONT,
\* only what is on at the time (do_toggle of server_shell, pty_shell).
CallIac(e, c, o) ==
  /\ <<e, c, o>> \in AppCalls
  /\ c = "DONT" => Remote(writer[e], o)
  /\ c = "WONT" => Local(writer[e], o)
  /\ Call(e)
  /\ Becomes(e, Iac(writer[e], c, o), wire[e])

CallRequest(e, o) ==
  /\ <<e, o>> \in AppSubs
  /\ Call(e)
  /\ Becomes(e, Request(writer[e], e, o), wire[e])

\* SIGWINCH in the client's terminal shell.
Resize ==
  /\ Resizes
  /\ "NAWS" \in Options
  /\ Local(writer["client"], "NAWS")
  /\ Call("client")
  /\ Becomes("client", _send_naws(writer["client"]), wire["client"])

\* data_received: the oldest command is fed to the writer.  A transport that
\* is closing may still hand over what it has read.
Receive(e) ==
  /\ wire[e] # <<>>
  /\ Becomes(e, Feed(writer[e], e, Head(wire[e])), Tail(wire[e]))
  /\ UNCHANGED calls

Next ==
  \/ \E e \in Ends :
       \/ Receive(e)
       \/ \E c \in Verbs, o \in Options : CallIac(e, c, o)
       \/ \E o \in Options \cap Requestable : CallRequest(e, o)
  \/ Resize

Spec == Init /\ [][Next]_vars

\* The event loop of each end delivers what has arrived; nobody is obliged
\* to call.
Fairness == \A e \in Ends : WF_vars(~writer[e].closing /\ Receive(e))
FairSpec == Spec /\ Fairness

-----------------------------------------------------------------------------
(***************************************************************************)
(* Properties                                                              *)
(***************************************************************************)
Flying(e, m) == m \in Range(wire[e])
FlyingSub(e, o) == \E s \in Payloads : Flying(e, Sub(o, s))
Open == \A e \in Ends : ~writer[e].closing
Quiet == Open /\ \A e \in Ends : wire[e] = <<>>

\* The ends that may perform an option.  TM and LOGOUT have no state: they
\* are an echo request and an event.
Stateless == {"TM", "LOGOUT"}
ServerOnly == {"ECHO", "COM_PORT_OPTION", "MCCP2", "MCCP3"}
Performers(o) ==
  CASE o \in Stateless -> {}
    [] o \in ServerOnly -> {"server"}
    [] o \in ServerWont -> {"client"}
    [] OTHER -> Ends

\* Options whose offer the server answers by a question and not by DO.
Silent == Queried \cup {"STATUS"}

\* The options that a writer ever marks as having a sub-negotiation pending.
Questioned == Silent \cup {"NAWS", "SNDLOC", "MXP"}

\* The options whose tables change by DO, DONT, WILL and WONT of themselves
\* only: no sub-negotiation, and no other option's handler, touches them; and
\* those of them that have a state.
Plain == Options \ (Silent \cup {"NAWS"})
Negotiable == Plain \ Stateless

\* The ends that answer WILL o by DO o.
Agrees(d, o) == WillVerdict(d, o) \in {"agree", "accept"}

\* No end asks its peer for an option whose offer it would itself refuse, or
\* offers what its peer would refuse: what the proofs ask of the two programs.
AsksInEarnest ==
  \A e \in Ends, o \in Negotiable : <<e, "DO", o>> \in AppCalls => Agrees(e, o)
OffersInEarnest ==
  \A e \in Ends, o \in Negotiable : <<e, "WILL", o>> \in AppCalls => Agrees(Peer(e), o)

\* No end believes an option on, its own or its peer's, unless the peer's own
\* command said so: local_option is set by DO, remote_option by WILL.  Two
\* exceptions are the code's: the server performs CHARSET once the client
\* offers it, and a window size stands for a WILL NAWS.
Consent ==
  \A e \in Ends, o \in Options :
    /\ Local(writer[e], o) =>
         \/ Cmd("DO", o) \in sent[Peer(e)]
         \/ e = "server" /\ o = "CHARSET" /\ Cmd("WILL", o) \in sent["client"]
    /\ Remote(writer[e], o) =>
         \/ Cmd("WILL", o) \in sent[Peer(e)]
         \/ o = "NAWS" /\ Sub("NAWS", "SIZE") \in sent[Peer(e)]

\* When nothing is in flight the two option tables agree: what an end performs
\* its peer knows of, and what an end believes of its peer the peer performs,
\* whatever offers, requests and withdrawals crossed on the way.  (The offer
\* of a Silent option is used without the DO that would make it performed.)
Agreement ==
  Quiet => \A e \in Ends, o \in Options :
    /\ Local(writer[e], o) /\ e \in Performers(o) => Remote(writer[Peer(e)], o)
    /\ Remote(writer[e], o) /\ o \notin Silent \cup Stateless => Local(writer[Peer(e)], o)

\* A request marked pending has its DO on the way out or its answer on the way
\* back: none is forgotten, so check_negotiation waits for nothing that can
\* no longer come.
RequestsAnswered ==
  Open => \A e \in Ends, o \in Options \ Stateless : Pending(writer[e], "DO", o) =>
    Flying(Peer(e), Cmd("DO", o)) \/ Flying(e, Cmd("WILL", o)) \/ Flying(e, Cmd("WONT", o))

\* Likewise an offer: its WILL is on the way, or a DO, a DONT or the question
\* that stands for a DO is on the way back.
OffersAnswered ==
  Open => \A e \in Ends, o \in Options \ Stateless : Pending(writer[e], "WILL", o) =>
    \/ Flying(Peer(e), Cmd("WILL", o))
    \/ Flying(e, Cmd("DO", o)) \/ Flying(e, Cmd("DONT", o)) \/ FlyingSub(e, o)

\* Likewise a sub-negotiation: the question, its answer, or the DO that makes
\* the peer send one is on the way.
QuestionsAnswered ==
  Open => \A e \in Ends, o \in Options : Pending(writer[e], "SB", o) =>
    \/ FlyingSub(e, o) \/ FlyingSub(Peer(e), o)
    \/ Flying(Peer(e), Cmd("DO", o)) \/ Flying(Peer(e), Cmd("WILL", o))

\* The NEW_ENVIRON keys that did not fit into one request are still asked
\* for: while batches remain, the request before them is outstanding.
BatchesFollow ==
  Open => \A e \in Ends :
    writer[e].batches > 0 => Pending(writer[e], "SB", "NEW_ENVIRON")

\* What the pending flags promise check_negotiation: none waits for what can no
\* longer come, and none is missing while there is more to ask.
Answered == RequestsAnswered /\ OffersAnswered /\ QuestionsAnswered /\ BatchesFollow

\* What an end is configured to refuse never becomes active, and the client
\* enables no MUD protocol it was not told to.
RefusalsHold ==
  \A e \in Ends, o \in Options :
    /\ Local(writer[e], o) =>
         o \notin always_wont[e] /\ (e = "client" /\ o \in MudOptions => o \in always_will[e])
    /\ Remote(writer[e], o) =>
         /\ o \notin always_dont[e]
         /\ e = "client" /\ o \in MudOptions => o \in always_do[e] \cup passive_do[e]

\* A connection that an end closes carries nothing more from that end,
\* although the rest of the chunk it was reading is still interpreted.
SilentAfterClose == [][\A e \in Ends : writer[e].closing => sent'[e] = sent[e]]_vars

\* Negotiation is free of loops: once nobody calls any more, the wires drain;
\* and time and again no request, offer or question is pending at either end,
\* unless the connection closes: the condition check_negotiation polls for
\* before it starts the shell, and wait_for(pending=...) waits for.
Settles ==
  /\ <>[](\A e \in Ends : writer[e].closing \/ wire[e] = <<>>)
  /\ []<>(~Open \/ \A e \in Ends, r \in Requests : writer[e].pending[r] # "on")

(***************************************************************************)
(* What the program's own documentation says and the code does not do.     *)
(***************************************************************************)

\* handle_do: "returns False for unsupported option, or an option invalid in
\* that context", so that local_option is False: the end that may not perform
\* an option never holds it on.
InvalidStaysOff ==
  \A e \in Ends, o \in Options : e \notin Performers(o) => ~Local(writer[e], o)

\* "Both client and server ends passively support [MCCP3] if requested": the
\* server does not refuse what it has offered and the client has begun.
Mccp3Supported ==
  "MCCP3" \in writer["client"].mccp => Cmd("WONT", "MCCP3") \notin sent["server"]

=============================================================================
