--------------------------- MODULE Fingerprinting ---------------------------
(***************************************************************************)
(* telnetlib3/fingerprinting.py on top of the negotiation: the shell that  *)
(* asks a client for every option it might know, then forgets what was     *)
(* agreed and asks again, to find the clients that would answer for ever.  *)
(*                                                                         *)
(* The shell is a coroutine.  It writes, then looks at the option tables   *)
(* every 50 ms until all is answered or a deadline passes, while the       *)
(* client's answers come in on the same event loop.                        *)
(***************************************************************************)
EXTENDS ServerNegotiation

CONSTANTS
  CORE_OPTIONS,      \* the lists of these names, those of Options in their order
  EXTENDED_OPTIONS,
  LEGACY_OPTIONS

ASSUME ProbeAssumption ==
  \A s \in {CORE_OPTIONS, EXTENDED_OPTIONS, LEGACY_OPTIONS} : s \in Seq(Options)

VARIABLE
  probe   \* the shell: where it waits, what it asked, and what it found;
          \* hurried (auxiliary): a deadline passed while commands were in flight

fvars == <<server, ready, late, client, toServer, toClient, deferred, probe>>

NewProbe ==
  [step |-> "none", asked |-> {}, results |-> [o \in Options |-> "none"],
   looped |-> {}, hurried |-> FALSE]

_is_maybe_ms_telnet(c) ==
  c.server.ttype[1] = "ANSI" /\ c.server.ttype[2] \in {NoName, "", "VT100"}

\* The state of an option in a table, as a verdict.
Verdict == [on |-> "WILL", off |-> "WONT", unset |-> "timeout"]

\* A command for those of some options that are in A, in their order.
IacEach(c, cmd, A, options) ==
  FoldLeft(LAMBDA d, o : IF o \in A THEN IacC(d, cmd, o) ELSE d, c, options)

(***************************************************************************)
(* probe_client_capabilities, for the wanted options of a list: what is    *)
(* known is not asked.                                                     *)
(***************************************************************************)
AsksAll(c, options, wanted) ==
  LET w == WriterOf(c)
      asked == {o \in wanted : w.remote[o] = "unset"}
      d == [c EXCEPT !.probe.asked = asked, !.probe.results =
              [o \in Options |-> IF o \in wanted \ asked THEN Verdict[w.remote[o]] ELSE @[o]]]
  IN IacEach(d, "DO", asked, options)

\* Mistake: silence is taken for a refusal.
CollectsSilence(c) ==
  LET w == WriterOf(c) IN
  [c EXCEPT !.probe.results =
     [o \in Options |-> IF o \notin c.probe.asked THEN @[o]
                        ELSE IF Remote(w, o) THEN "WILL" ELSE "WONT"], !.probe.asked = {}]

Collects(c) ==
  LET w == WriterOf(c) IN
  [c EXCEPT !.probe.results =
     [o \in Options |-> IF o \in c.probe.asked THEN Verdict[w.remote[o]] ELSE @[o]],
                 !.probe.asked = {}]

(***************************************************************************)
(* probe_client_loop_detection, for one of the two tables: the agreed      *)
(* options are forgotten and asked again; what comes back on has looped.   *)
(***************************************************************************)
ProbeCmd == [remote |-> "DO", local |-> "WILL"]

\* The table shows value for the options of A, and no request for them waits.
Shows(w, table, A, value) ==
  [w EXCEPT ![table] = [o \in Options |-> IF o \in A THEN value ELSE @[o]],
            !.pending = [r \in Requests |->
                           IF r[1] = ProbeCmd[table] /\ r[2] \in A THEN "unset" ELSE @[r]]]

Rechecks(c, table) ==
  LET w == WriterOf(c)
      A == {o \in Options : w[table][o] = "on"}
      f == [Shows(w, table, A, "unset") EXCEPT !.in_loop_detection = TRUE]
      d == WithWriter([c EXCEPT !.probe.step = table, !.probe.asked = A], f)
  IN IacEach(d, ProbeCmd[table], A, SetToSeq(A))

Restores(c, table) ==
  LET w == WriterOf(c)
      A == c.probe.asked
      r == [Shows(w, table, A, "on") EXCEPT !.in_loop_detection = FALSE]
  IN WithWriter([c EXCEPT !.probe.looped = @ \cup {o \in A : w[table][o] # "unset"},
                          !.probe.asked = {}], r)

\* A table with nothing agreed is passed over.
RecheckLocal(c) ==
  IF \E o \in Options : Local(WriterOf(c), o) THEN Rechecks(c, "local")
  ELSE [c EXCEPT !.probe.step = "pty"]
RecheckRemote(c) ==
  IF \E o \in Options : Remote(WriterOf(c), o) THEN Rechecks(c, "remote")
  ELSE RecheckLocal(c)

(***************************************************************************)
(* The turns of fingerprinting_server_shell: after pty_shell, the writer   *)
(* is closed.                                                              *)
(***************************************************************************)
FirstTurn(c) ==
  LET d == [c EXCEPT !.probe.step = "core"]
      all == CORE_OPTIONS \o LEGACY_OPTIONS
  IN IF _is_maybe_ms_telnet(c)
       THEN AsksAll(d, CORE_OPTIONS, Range(CORE_OPTIONS) \ {"NEW_ENVIRON"})
       ELSE AsksAll(d, all, Range(all))

AfterWait(c) ==
  CASE c.probe.step = "core" ->
         LET d == Collects(c) IN
         IF IsMud(d) THEN AsksAll([d EXCEPT !.probe.step = "extended"], EXTENDED_OPTIONS,
                                  Range(EXTENDED_OPTIONS))
         ELSE RecheckRemote(d)
    [] c.probe.step = "extended" -> RecheckRemote(Collects(c))
    [] c.probe.step = "remote" -> RecheckLocal(Restores(c, "remote"))
    [] c.probe.step = "local" -> [Restores(c, "local") EXCEPT !.probe.step = "pty"]

\* Whether every option that is waited for has an answer.
Responded(c) ==
  LET table == IF c.probe.step = "local" THEN "local" ELSE "remote" IN
  \A o \in c.probe.asked : WriterOf(c)[table][o] # "unset"

-----------------------------------------------------------------------------
Waits == {"core", "extended", "remote", "local"}
Now == [server |-> server, ready |-> ready, probe |-> probe]

FInit == NInit /\ probe = NewProbe

\* The shell has run in c: what it wrote goes to the client.
Turn(c) ==
  /\ server' = [c.server EXCEPT !.writer.out = <<>>]
  /\ toClient' = toClient \o WriterOf(c).out
  /\ UNCHANGED <<ready, late, client, toServer, deferred>>

\* begin_shell makes the task of the shell.
Negotiates ==
  /\ NNext
  /\ probe' = [probe EXCEPT !.step =
       IF server.shell = "none" /\ server'.shell # "none" /\ client.probed
         THEN "starts" ELSE @]

ShellStarts ==
  /\ probe.step = "starts"
  /\ LET c == FirstTurn(Now) IN Turn(c) /\ probe' = c.probe

\* A poll finds all answered, or the deadline passed.
ShellGoesOn ==
  /\ probe.step \in Waits
  /\ LET c == AfterWait(Now)
         missed == ~Responded(Now) /\ (toServer # <<>> \/ toClient # <<>>)
     IN /\ Turn(c)
        /\ probe' = [c.probe EXCEPT !.hurried = @ \/ missed]

\* writer.drain raises the exception the connection was lost with.
DrainRaises ==
  /\ probe.step \in {"starts", "core"} /\ server.closing
  /\ probe' = [probe EXCEPT !.step = "over"]
  /\ UNCHANGED nvars

\* pty_shell has returned, and the writer is closed.
ShellEnds ==
  /\ probe.step = "pty"
  /\ probe' = [probe EXCEPT !.step = "over"]
  /\ IF server.writer.closing THEN UNCHANGED nvars ELSE Wake("close") /\ UNCHANGED server

FNext == Negotiates \/ ShellStarts \/ ShellGoesOn \/ DrainRaises \/ ShellEnds

FSpec == FInit /\ [][FNext]_fvars
FFairSpec == FSpec /\ WF_nvars(Elapse) /\ WF_nvars(CheckDue) /\ LoopRuns

-----------------------------------------------------------------------------
(***************************************************************************)
(* Properties                                                              *)
(***************************************************************************)
\* The verdicts are about this client: WILL and WONT are what it said.
VerdictsHold ==
  \A o \in Options :
    /\ probe.results[o] = "WILL" => o \in client.will
    /\ probe.results[o] = "WONT" => o \notin client.will

\* A client that answers within the deadlines is found to loop if it does, and
\* only then.
LoopsHold ==
  probe.step = "pty" /\ ~probe.hurried /\ ~client.left /\ ~server.writer.closing =>
    IF client.loops THEN client.will \ {"ECHO"} # {} => probe.looped # {}
    ELSE probe.looped = {}

\* The probe leaves no trace: once all is answered the tables say what the two
\* ends agreed on, and no offer or request waits.
TablesRestored ==
  probe.step = "pty" /\ ready = <<>> /\ toServer = <<>> /\ toClient = <<>>
    /\ ~client.left /\ ~server.writer.closing =>
      \A o \in Options :
        /\ o # "ECHO" => (Remote(server.writer, o) <=> o \in client.will)
        /\ Local(server.writer, o) <=> o \in client.does
        /\ ~Pending(server.writer, "DO", o) /\ ~Pending(server.writer, "WILL", o)

\* What the probe reports of a client is true of it, and the probe leaves the
\* option tables as the two ends agreed.
ProbeTruthful == VerdictsHold /\ LoopsHold /\ TablesRestored

=============================================================================
