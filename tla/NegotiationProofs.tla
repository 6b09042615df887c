----------------------- MODULE NegotiationProofs -----------------------
(***************************************************************************)
(* What TLAPS proves of OptionNegotiation, and of ServerNegotiation with   *)
(* Fingerprinting, for every value of the constants: any options, any      *)
(* configuration of the two ends, any application calls, any clients.      *)
(*                                                                         *)
(* Every operator of TelnetWriter that a handler is built from maps to     *)
(* itself any set of writers that is closed under the assignments it is    *)
(* made of, those to the options F it may touch.  The proofs choose such   *)
(* sets.  Here they are Within(L, R, h): the well-formed writers that      *)
(* believe at most the options L on locally and at most R remotely, and    *)
(* that are closing with nothing written if h.  Each theorem of the first  *)
(* part is an instance: it chooses L, R and h, and shows that a command    *)
(* taken from the wire turns on only what L and R already hold.  The       *)
(* second part is about the tables of the two ends and what is between.    *)
(* The third is about the server's negotiation: there the set is           *)
(* Asks(s), the writers that have forgotten no request of the server s.    *)
(***************************************************************************)
EXTENDS OptionNegotiation, Fingerprinting, SequenceTheorems, FiniteSetTheorems, TLAPS

\* The commands a telnetlib3 writer writes: only a sub-negotiation has a
\* payload, and that of NAWS is a window size.
WellFormed ==
  {m \in Message : IF m.cmd = "SB" THEN m.opt = "NAWS" => m.sub = "SIZE"
                   ELSE m.sub = "none"}

\* W is closed under every assignment a handler makes: the tables of an option
\* of F, which has all that are not plain, take any value but that only L and
\* R are switched on; the rest of the writer is free, but it closes only where
\* LOGOUT may be switched on.
Closed(W, F, L, R) ==
  /\ W \subseteq Writer /\ F \subseteq Options /\ Options \ Plain \subseteq F
  /\ \A w \in W :
       /\ \A o \in F, f \in Flag : (f = "on" => o \in L) => SetLocal(w, o, f) \in W
       /\ \A o \in F, f \in Flag : (f = "on" => o \in R) => SetRemote(w, o, f) \in W
       /\ \A o \in F, c \in {"DO", "WILL"}, f \in {"on", "off"} : SetPending(w, c, o, f) \in W
       /\ \A o \in Options, f \in {"on", "off"} :
            (f = "on" => o \in Questioned) => SetPending(w, "SB", o, f) \in W
       /\ \A m \in WellFormed : m.cmd = "SB" \/ m.opt \in F => Send(w, m) \in W
       /\ \A o \in Options :
            /\ [w EXCEPT !.rejected_do = @ \cup {o}] \in W
            /\ [w EXCEPT !.rejected_will = @ \cup {o}] \in W
            /\ [w EXCEPT !.directional_refusals = @ \cup {o}] \in W
       /\ \A o \in {"MCCP2", "MCCP3"} : [w EXCEPT !.mccp = @ \cup {o}] \in W
       /\ "NEW_ENVIRON" \in Options => \A b \in Nat : [w EXCEPT !.batches = b] \in W
       /\ \A n \in {"named", "empty"} : [w EXCEPT !.encoding = n] \in W
       /\ "LOGOUT" \in L => [w EXCEPT !.closing = TRUE] \in W

-----------------------------------------------------------------------------
(***************************************************************************)
(* The assignments the handlers are made of.                               *)
(***************************************************************************)
\* An option table entry set to a value that keeps the bound.
LEMMA SetLocalStays ==
  ASSUME NEW W, NEW F, NEW L, NEW R, Closed(W, F, L, R), NEW w \in W, NEW o \in F,
         NEW f \in Flag, f = "on" => o \in L
  PROVE  SetLocal(w, o, f) \in W
BY DEF Closed

LEMMA SetRemoteStays ==
  ASSUME NEW W, NEW F, NEW L, NEW R, Closed(W, F, L, R), NEW w \in W, NEW o \in F,
         NEW f \in Flag, f = "on" => o \in R
  PROVE  SetRemote(w, o, f) \in W
BY DEF Closed

\* The pending flags of offers and requests are not bounded.
LEMMA SetPendingStays ==
  ASSUME NEW W, NEW F, NEW L, NEW R, Closed(W, F, L, R), NEW w \in W, NEW o \in F,
         NEW c \in {"DO", "WILL"}, NEW f \in {"on", "off"}
  PROVE  SetPending(w, c, o, f) \in W
BY DEF Closed

LEMMA ClearStays ==
  ASSUME NEW W, NEW F, NEW L, NEW R, Closed(W, F, L, R), NEW w \in W, NEW o \in F,
         NEW c \in {"DO", "WILL"}
  PROVE  Clear(w, c, o) \in W
BY SetPendingStays DEF Clear, Flag

\* Those of questions are, and any option's may change.
LEMMA SetAskedStays ==
  ASSUME NEW W, NEW F, NEW L, NEW R, Closed(W, F, L, R), NEW w \in W, NEW o \in Options,
         NEW f \in {"on", "off"}, f = "on" => o \in Questioned
  PROVE  SetPending(w, "SB", o, f) \in W
BY DEF Closed

LEMMA ClearAskedStays ==
  ASSUME NEW W, NEW F, NEW L, NEW R, Closed(W, F, L, R), NEW w \in W, NEW o \in Options
  PROVE  Clear(w, "SB", o) \in W
BY SetAskedStays DEF Clear, Flag

\* A write appends one well-formed command, or nothing once closing.
LEMMA SendStays ==
  ASSUME NEW W, NEW F, NEW L, NEW R, Closed(W, F, L, R), NEW w \in W,
         NEW m \in WellFormed, m.cmd = "SB" \/ m.opt \in F
  PROVE  Send(w, m) \in W
BY DEF Closed

LEMMA CmdWellFormed ==
  ASSUME NEW c \in Verbs, NEW o \in Options
  PROVE  Cmd(c, o) \in WellFormed /\ Cmd(c, o).opt = o
BY DEF Cmd, WellFormed, Message, Verbs, Payloads

LEMMA SubWellFormed ==
  ASSUME NEW o \in Options, NEW s \in Payloads, o = "NAWS" => s = "SIZE"
  PROVE  Sub(o, s) \in WellFormed /\ Sub(o, s).cmd = "SB"
BY DEF Sub, WellFormed, Message

\* Every option but a plain one is free.
LEMMA FreeOptions ==
  ASSUME NEW W, NEW F, NEW L, NEW R, Closed(W, F, L, R), NEW o \in Options
  PROVE  o \in Silent \cup {"NAWS"} => o \in F
BY DEF Closed, Plain

\* So a command about a free option, and any sub-negotiation, may be sent.
LEMMA CmdStays ==
  ASSUME NEW W, NEW F, NEW L, NEW R, Closed(W, F, L, R), NEW w \in W,
         NEW c \in Verbs, NEW o \in F
  PROVE  Send(w, Cmd(c, o)) \in W
<1>1. o \in Options
  BY DEF Closed
<1>2. Cmd(c, o) \in WellFormed /\ Cmd(c, o).opt = o
  BY <1>1, CmdWellFormed
<1> QED
  BY <1>2, SendStays

LEMMA SubStays ==
  ASSUME NEW W, NEW F, NEW L, NEW R, Closed(W, F, L, R), NEW w \in W,
         NEW o \in Options, NEW s \in Payloads, o = "NAWS" => s = "SIZE"
  PROVE  Send(w, Sub(o, s)) \in W
<1>1. Sub(o, s) \in WellFormed /\ Sub(o, s).cmd = "SB"
  BY SubWellFormed
<1> QED
  BY <1>1, SendStays

-----------------------------------------------------------------------------
(***************************************************************************)
(* iac() and the requests.                                                 *)
(***************************************************************************)
LEMMA IacDoStays ==
  ASSUME NEW W, NEW F, NEW L, NEW R, Closed(W, F, L, R), NEW w \in W, NEW o \in F
  PROVE  IacDo(w, o) \in W
<1>1. \A f \in {"on", "off"} : SetPending(w, "DO", o, f) \in W
  BY SetPendingStays
<1> QED
  BY <1>1, CmdStays DEF IacDo, Flag, Verbs

LEMMA IacWillStays ==
  ASSUME NEW W, NEW F, NEW L, NEW R, Closed(W, F, L, R), NEW w \in W, NEW o \in F
  PROVE  IacWill(w, o) \in W
<1>1. \A f \in {"on", "off"} : SetPending(w, "WILL", o, f) \in W
  BY SetPendingStays
<1> QED
  BY <1>1, CmdStays DEF IacWill, Flag, Verbs

LEMMA IacDontStays ==
  ASSUME NEW W, NEW F, NEW L, NEW R, Closed(W, F, L, R), NEW w \in W, NEW o \in F
  PROVE  IacDont(w, o) \in W
<1>1. SetRemote(w, o, "off") \in W
  BY SetRemoteStays DEF Flag
<1> QED
  BY <1>1, CmdStays DEF IacDont, Verbs

LEMMA IacWontStays ==
  ASSUME NEW W, NEW F, NEW L, NEW R, Closed(W, F, L, R), NEW w \in W, NEW o \in F
  PROVE  IacWont(w, o) \in W
<1>1. SetLocal(w, o, "off") \in W
  BY SetLocalStays DEF Flag
<1> QED
  BY <1>1, CmdStays DEF IacWont, Verbs

LEMMA IacStays ==
  ASSUME NEW W, NEW F, NEW L, NEW R, Closed(W, F, L, R), NEW w \in W,
         NEW c \in Verbs, NEW o \in F
  PROVE  Iac(w, c, o) \in W
BY IacDoStays, IacWillStays, IacDontStays, IacWontStays DEF Iac, Verbs

LEMMA RequestSubStays ==
  ASSUME NEW W, NEW F, NEW L, NEW R, Closed(W, F, L, R), NEW w \in W,
         NEW o \in Options \cap Questioned, NEW s \in Payloads, o = "NAWS" => s = "SIZE"
  PROVE  RequestSub(w, o, s) \in W
<1>1. SetPending(w, "SB", o, "on") \in W
  BY SetAskedStays DEF Flag
<1> QED
  BY <1>1, SubStays DEF RequestSub

LEMMA request_charsetStays ==
  ASSUME NEW W, NEW F, NEW L, NEW R, Closed(W, F, L, R), NEW w \in W, "CHARSET" \in Options
  PROVE  request_charset(w) \in W
<1>1. SetPending(w, "SB", "CHARSET", "on") \in W
  BY SetAskedStays DEF Flag, Questioned, Silent, Queried
<1> QED
  BY <1>1, SubStays DEF request_charset, Payloads

LEMMA BatchesStays ==
  ASSUME NEW W, NEW F, NEW L, NEW R, Closed(W, F, L, R), NEW w \in W, NEW b \in Nat,
         "NEW_ENVIRON" \in Options
  PROVE  [w EXCEPT !.batches = b] \in W
BY DEF Closed

LEMMA request_environStays ==
  ASSUME NEW W, NEW F, NEW L, NEW R, Closed(W, F, L, R), NEW w \in W,
         NEW e \in Ends, "NEW_ENVIRON" \in Options
  PROVE  request_environ(w, e) \in W
<1>1. CASE EnvironBatches[e] = 0
  BY <1>1 DEF request_environ
<1>2. CASE EnvironBatches[e] # 0
  <2>1. EnvironBatches[e] - 1 \in Nat
    BY <1>2, PolicyAssumption
  <2>2. [w EXCEPT !.batches = EnvironBatches[e] - 1] \in W
    BY <2>1, BatchesStays
  <2>3. RequestSub([w EXCEPT !.batches = EnvironBatches[e] - 1], "NEW_ENVIRON", "SEND")
          \in W
    BY <2>2, RequestSubStays DEF Payloads, Questioned, Silent, Queried
  <2> QED
    BY <2>3 DEF request_environ
<1> QED
  BY <1>1, <1>2

LEMMA RequestStays ==
  ASSUME NEW W, NEW F, NEW L, NEW R, Closed(W, F, L, R), NEW w \in W,
         NEW e \in Ends, NEW o \in Options \cap Requestable
  PROVE  Request(w, e, o) \in W
<1>1. CASE o \in {"TTYPE", "TSPEED", "XDISPLOC", "STATUS"}
  BY <1>1, RequestSubStays DEF Request, Payloads, Questioned, Silent, Queried
<1>2. CASE o = "CHARSET"
  BY <1>2, request_charsetStays DEF Request
<1>3. CASE o = "NEW_ENVIRON"
  BY <1>3, request_environStays DEF Request
<1>4. CASE o = "LFLOW"
  <2>1. Send(w, Sub("LFLOW", "MODE")) \in W
    BY <1>4, SubStays DEF Payloads
  <2> QED
    BY <1>4, <2>1 DEF Request, send_lineflow_mode
<1> QED
  BY <1>1, <1>2, <1>3, <1>4 DEF Requestable

LEMMA request_comport_signatureStays ==
  ASSUME NEW W, NEW F, NEW L, NEW R, Closed(W, F, L, R), NEW w \in W,
         "COM_PORT_OPTION" \in Options
  PROVE  request_comport_signature(w) \in W
BY SubStays DEF request_comport_signature, Payloads

LEMMA _send_nawsStays ==
  ASSUME NEW W, NEW F, NEW L, NEW R, Closed(W, F, L, R), NEW w \in W, "NAWS" \in Options
  PROVE  _send_naws(w) \in W
BY SubStays DEF _send_naws, Payloads

LEMMA AnswerIsStays ==
  ASSUME NEW W, NEW F, NEW L, NEW R, Closed(W, F, L, R), NEW w \in W, NEW o \in F, o # "NAWS"
  PROVE  AnswerIs(w, o) \in W
<1>1. o \in Options
  BY DEF Closed
<1>2. Send(w, Sub(o, "IS")) \in W
  BY <1>1, SubStays DEF Payloads
<1> QED
  BY <1>2, ClearStays DEF AnswerIs

LEMMA _send_statusStays ==
  ASSUME NEW W, NEW F, NEW L, NEW R, Closed(W, F, L, R), NEW w \in W, "STATUS" \in Options
  PROVE  _send_status(w) \in W
<1>1. "STATUS" \in F
  BY FreeOptions DEF Silent
<1> QED
  BY <1>1, AnswerIsStays DEF _send_status, AnswerIs

-----------------------------------------------------------------------------
(***************************************************************************)
(* The handlers.  Each switches on, of its own option, what it stores by   *)
(* itself, and nothing else.                                               *)
(***************************************************************************)
LEMMA WillUnlessLocalStays ==
  ASSUME NEW W, NEW F, NEW L, NEW R, Closed(W, F, L, R), NEW w \in W, NEW o \in F
  PROVE  WillUnlessLocal(w, o) \in W
BY IacWillStays DEF WillUnlessLocal

LEMMA WontUnlessLocalStays ==
  ASSUME NEW W, NEW F, NEW L, NEW R, Closed(W, F, L, R), NEW w \in W, NEW o \in F
  PROVE  WontUnlessLocal(w, o) \in W
BY IacWontStays DEF WontUnlessLocal

LEMMA FollowWillStays ==
  ASSUME NEW W, NEW F, NEW L, NEW R, Closed(W, F, L, R), NEW w \in W, NEW o \in Options
  PROVE  FollowWill(w, o) \in W
<1>1. o \in Questioned => SetPending(w, "SB", o, "on") \in W
  BY SetAskedStays DEF Flag
<1> QED
  BY <1>1, _send_nawsStays, _send_statusStays DEF FollowWill, Questioned, Silent, Queried

\* The sets and the closing flag that the verdicts of handle_do change.
LEMMA RefusedStays ==
  ASSUME NEW W, NEW F, NEW L, NEW R, Closed(W, F, L, R), NEW w \in W, NEW o \in Options
  PROVE  /\ [w EXCEPT !.rejected_do = @ \cup {o}] \in W
         /\ [w EXCEPT !.rejected_will = @ \cup {o}] \in W
         /\ [w EXCEPT !.directional_refusals = @ \cup {o}] \in W
         /\ "LOGOUT" \in L => [w EXCEPT !.closing = TRUE] \in W
BY DEF Closed

LEMMA HandleDoStays ==
  ASSUME NEW W, NEW F, NEW L, NEW R, Closed(W, F, L, R), NEW w \in W, NEW e, NEW o \in F,
         DoVerdict(e, o) = "logout" => o \in L
  PROVE  HandleDo(w, e, o) \in W
<1>0. o \in Options
  BY DEF Closed
<1> DEFINE v == DoVerdict(e, o)
<1>1. v \in {"decline", "echo", "misdirected", "illegal", "mark", "logout",
             "offer", "withhold", "agree", "unsupported"}
  BY DEF DoVerdict
<1>2. CASE v = "decline"
  BY <1>2, WontUnlessLocalStays DEF HandleDo
<1>3. CASE v \in {"echo", "withhold"}
  BY <1>3, IacWontStays DEF HandleDo
<1>4. CASE v = "misdirected"
  <2>1. IacWont(w, o) \in W
    BY IacWontStays
  <2>2. [IacWont(w, o) EXCEPT !.directional_refusals = @ \cup {o}] \in W
    BY <1>0, <2>1, RefusedStays
  <2> QED
    BY <1>4, <2>2 DEF HandleDo
<1>5. CASE v = "illegal"
  BY <1>5 DEF HandleDo
<1>6. CASE v = "mark"
  BY <1>6, IacWillStays DEF HandleDo
<1>7. CASE v = "logout"
  <2>1. o = "LOGOUT"
    BY <1>7 DEF DoVerdict
  <2> QED
    BY <2>1, <1>0, <1>7, RefusedStays DEF HandleDo
<1>8. CASE v = "agree"
  BY <1>0, <1>8, WillUnlessLocalStays, FollowWillStays DEF HandleDo
<1>9. CASE v = "offer"
  BY <1>9, WillUnlessLocalStays DEF HandleDo
<1>10. CASE v = "unsupported"
  <2>1. [w EXCEPT !.rejected_do = @ \cup {o}] \in W
    BY <1>0, RefusedStays
  <2> QED
    BY <1>10, <2>1, WontUnlessLocalStays DEF HandleDo
<1> QED
  BY <1>1, <1>2, <1>3, <1>4, <1>5, <1>6, <1>7, <1>8, <1>9, <1>10

LEMMA FeedDoStays ==
  ASSUME NEW W, NEW F, NEW L, NEW R, Closed(W, F, L, R), NEW w \in W, NEW e, NEW o \in F,
         DoAnswer(e, o) /\ DoVerdict(e, o) # "illegal" => o \in L
  PROVE  FeedDo(w, e, o) \in W
<1> DEFINE g == HandleDo(w, e, o)
<1>1. g \in W
  BY HandleDoStays DEF DoAnswer
<1>2. CASE DoVerdict(e, o) = "illegal"
  BY <1>1, <1>2, ClearStays DEF FeedDo
<1>3. CASE DoVerdict(e, o) # "illegal"
  <2>1. OnOff(DoAnswer(e, o)) \in Flag /\ (OnOff(DoAnswer(e, o)) = "on" => o \in L)
    BY <1>3 DEF OnOff, Flag
  <2>2. SetLocal(g, o, OnOff(DoAnswer(e, o))) \in W
    BY <1>1, <2>1, SetLocalStays
  <2> QED
    BY <1>3, <2>2, ClearStays DEF FeedDo
<1> QED
  BY <1>2, <1>3

LEMMA FeedDontStays ==
  ASSUME NEW W, NEW F, NEW L, NEW R, Closed(W, F, L, R), NEW w \in W, NEW o \in F
  PROVE  FeedDont(w, o) \in W
<1>1. SetPending(w, "WILL", o, "off") \in W
  BY SetPendingStays DEF Flag
<1> QED
  BY <1>1, SetLocalStays DEF FeedDont, Flag

LEMMA AcceptStays ==
  ASSUME NEW W, NEW F, NEW L, NEW R, Closed(W, F, L, R), NEW w \in W, NEW o \in F, o \in R
  PROVE  Accept(w, o) \in W
<1>1. IacDo(w, o) \in W
  BY IacDoStays
<1> QED
  BY <1>1, SetRemoteStays DEF Accept, Flag

LEMMA MccpStays ==
  ASSUME NEW W, NEW F, NEW L, NEW R, Closed(W, F, L, R), NEW w \in W, NEW o \in {"MCCP2", "MCCP3"}
  PROVE  [w EXCEPT !.mccp = @ \cup {o}] \in W
BY DEF Closed

LEMMA FollowDoStays ==
  ASSUME NEW W, NEW F, NEW L, NEW R, Closed(W, F, L, R), NEW w \in W, NEW e, NEW o \in Options
  PROVE  FollowDo(w, e, o) \in W
<1>1. o \in Questioned => SetPending(w, "SB", o, "on") \in W
  BY SetAskedStays DEF Flag
<1>2. CASE o = "MCCP3"
  <2>1. Send(w, Sub("MCCP3", "START")) \in W
    BY <1>2, SubStays DEF Payloads
  <2>2. [Send(w, Sub("MCCP3", "START")) EXCEPT !.mccp = @ \cup {"MCCP3"}] \in W
    BY <2>1, MccpStays
  <2> QED
    BY <1>2, <2>2 DEF FollowDo
<1> QED
  BY <1>1, <1>2, request_comport_signatureStays DEF FollowDo, Questioned

LEMMA WillCharsetStays ==
  ASSUME NEW W, NEW F, NEW L, NEW R, Closed(W, F, L, R), NEW w \in W, NEW e,
         "CHARSET" \in Options, "CHARSET" \in R, e = "client" \/ "CHARSET" \in L
  PROVE  WillCharset(w, e) \in W
<1>0. "CHARSET" \in F
  BY FreeOptions DEF Silent, Queried
<1>1. CASE e = "client"
  BY <1>0, <1>1, IacDoStays, SetRemoteStays DEF WillCharset, Flag
<1>2. CASE e # "client"
  <2> DEFINE r == SetRemote(w, "CHARSET", "on")
             s == Send(SetLocal(r, "CHARSET", "on"), Cmd("WILL", "CHARSET"))
  <2>1. r \in W
    BY <1>0, SetRemoteStays DEF Flag
  <2>2. SetLocal(r, "CHARSET", "on") \in W
    BY <1>0, <1>2, <2>1, SetLocalStays DEF Flag
  <2>3. s \in W
    BY <1>0, <2>2, CmdStays DEF Verbs
  <2> QED
    BY <1>2, <2>1, <2>3, request_charsetStays DEF WillCharset
<1> QED
  BY <1>1, <1>2

\* The verdicts on which handle_will records that the peer performs o.
Believed == {"accept", "agree", "mark", "status", "charset", "query"}

LEMMA HandleWillStays ==
  ASSUME NEW W, NEW F, NEW L, NEW R, Closed(W, F, L, R), NEW w \in W, NEW e \in Ends, NEW o \in F,
         WillVerdict(e, o) \in Believed => o \in R,
         WillVerdict(e, o) = "charset" => e = "client" \/ o \in L
  PROVE  HandleWill(w, e, o) \in W
<1>0. o \in Options
  BY DEF Closed
<1> DEFINE v == WillVerdict(e, o)
<1>1. v \in Believed \cup {"refuse", "illegal", "misdirected", "logout", "unhandled"}
  BY DEF WillVerdict, Believed
<1>2. IacDont(w, o) \in W
  BY IacDontStays
<1>3. CASE v = "refuse"
  BY <1>2, <1>3, SetRemoteStays DEF HandleWill, Flag
<1>4. CASE v = "illegal"
  BY <1>4 DEF HandleWill
<1>5. CASE v = "misdirected"
  <2>1. [IacDont(w, o) EXCEPT !.directional_refusals = @ \cup {o}] \in W
    BY <1>0, <1>2, RefusedStays
  <2> QED
    BY <1>5, <2>1 DEF HandleWill
<1>6. CASE v = "logout"
  BY <1>2, <1>6 DEF HandleWill
<1>7. CASE v = "unhandled"
  <2>1. [IacDont(w, o) EXCEPT !.rejected_will = @ \cup {o}] \in W
    BY <1>0, <1>2, RefusedStays
  <2> QED
    BY <1>7, <2>1, ClearStays DEF HandleWill
<1>8. CASE v \in {"accept", "agree"}
  <2>1. Accept(w, o) \in W
    BY <1>8, AcceptStays DEF Believed
  <2> QED
    BY <1>0, <1>8, <2>1, FollowDoStays DEF HandleWill
<1>9. CASE v \in {"mark", "status", "query"}
  <2>1. SetRemote(w, o, "on") \in W
    BY <1>9, SetRemoteStays DEF Believed, Flag
  <2>2. v # "mark" => o \in Requestable
    BY <1>9 DEF WillVerdict, Requestable, Queried
  <2> QED
    BY <1>0, <1>9, <2>1, <2>2, RequestStays DEF HandleWill
<1>10. CASE v = "charset"
  <2>1. o = "CHARSET"
    BY <1>10 DEF WillVerdict
  <2> QED
    BY <1>0, <1>10, <2>1, WillCharsetStays DEF HandleWill, Believed
<1> QED
  BY <1>1, <1>3, <1>4, <1>5, <1>6, <1>7, <1>8, <1>9, <1>10 DEF Believed

LEMMA FeedWillStays ==
  ASSUME NEW W, NEW F, NEW L, NEW R, Closed(W, F, L, R), NEW w \in W, NEW e \in Ends, NEW o \in F,
         WillVerdict(e, o) \in Believed => o \in R,
         WillVerdict(e, o) = "charset" => e = "client" \/ o \in L
  PROVE  FeedWill(w, e, o) \in W
<1>1. HandleWill(w, e, o) \in W
  BY HandleWillStays
<1> QED
  BY <1>1, ClearStays DEF FeedWill

LEMMA FeedWontStays ==
  ASSUME NEW W, NEW F, NEW L, NEW R, Closed(W, F, L, R), NEW w \in W, NEW o \in F
  PROVE  FeedWont(w, o) \in W
<1>1. HandleWont(w, o) \in W
  BY SetRemoteStays DEF HandleWont, Flag
<1> QED
  BY <1>1, SetPendingStays DEF FeedWont, Flag

LEMMA EncodingStays ==
  ASSUME NEW W, NEW F, NEW L, NEW R, Closed(W, F, L, R), NEW w \in W, NEW n \in {"named", "empty"}
  PROVE  [w EXCEPT !.encoding = n] \in W
BY DEF Closed

LEMMA SbCharsetStays ==
  ASSUME NEW W, NEW F, NEW L, NEW R, Closed(W, F, L, R), NEW w \in W, NEW e \in Ends, NEW s,
         "CHARSET" \in Options
  PROVE  SbCharset(w, e, s) \in W
<1>1. CASE s = "REQUEST"
  <2>1. CharsetAnswer[e] \in {"ACCEPTED", "EMPTY", "REJECTED"}
    BY PolicyAssumption
  <2>2. Send(w, Sub("CHARSET", CharsetAnswer[e])) \in W
    BY <2>1, SubStays DEF Payloads
  <2> QED
    BY <1>1, <2>2, EncodingStays DEF SbCharset
<1> QED
  BY <1>1, EncodingStays DEF SbCharset

LEMMA SbEnvironStays ==
  ASSUME NEW W, NEW F, NEW L, NEW R, Closed(W, F, L, R), NEW w \in W, NEW s,
         "NEW_ENVIRON" \in Options
  PROVE  SbEnviron(w, s) \in W
<1>1. \A x \in W, t \in {"IS", "SEND"} : Send(x, Sub("NEW_ENVIRON", t)) \in W
  BY SubStays DEF Payloads
<1>2. CASE s = "SEND"
  <2>1. "TTYPE" \in F
    BY OptionsAssumption, FreeOptions DEF Silent, Queried
  <2> QED
    BY <1>1, <1>2, <2>1, ClearStays DEF SbEnviron
<1>3. CASE s = "IS"
  <2> DEFINE v == SetPending(w, "SB", "NEW_ENVIRON", "off")
             u == SetPending([v EXCEPT !.batches = @ - 1], "SB", "NEW_ENVIRON", "on")
  <2>1. v \in W
    BY SetAskedStays DEF Flag
  <2>2. CASE v.batches = 0
    BY <1>3, <2>1, <2>2 DEF SbEnviron
  <2>3. CASE v.batches # 0
    <3>0. v \in Writer
      BY <2>1 DEF Closed
    <3>1. v.batches - 1 \in Nat
      <4> HIDE DEF v
      <4> QED
        BY <3>0, <2>3 DEF Writer
    <3>2. [v EXCEPT !.batches = v.batches - 1] \in W
      <4> HIDE DEF v
      <4> QED
        BY <2>1, <3>1, BatchesStays
    <3>3. u \in W
      BY <3>2, SetAskedStays DEF Flag, Questioned, Silent, Queried
    <3>4. Send(u, Sub("NEW_ENVIRON", "SEND")) \in W
      BY <1>1, <3>3
    <3> QED
      BY <1>3, <2>3, <3>4 DEF SbEnviron
  <2> QED
    BY <2>2, <2>3
<1> QED
  BY <1>2, <1>3 DEF SbEnviron

LEMMA FeedSubStays ==
  ASSUME NEW W, NEW F, NEW L, NEW R, Closed(W, F, L, R), NEW w \in W,
         NEW e \in Ends, NEW o \in Options,
         NEW s, o = "NAWS" => o \in R
  PROVE  FeedSub(w, e, o, s) \in W
<1> DEFINE v == Clear(w, "SB", o)
<1>0. o \in Silent \cup {"NAWS"} => o \in F
  BY FreeOptions
<1>1. v \in W
  BY ClearAskedStays
<1>2. CASE o \in {"TTYPE", "TSPEED", "XDISPLOC"}
  <2>1. o \in F
    BY <1>0, <1>2 DEF Silent, Queried
  <2> QED
    BY <2>1, <1>1, <1>2, AnswerIsStays DEF FeedSub
<1>3. CASE o = "STATUS"
  BY <1>1, <1>3, _send_statusStays DEF FeedSub, SbStatus
<1>4. CASE o = "CHARSET"
  BY <1>1, <1>4, SbCharsetStays DEF FeedSub
<1>5. CASE o = "NEW_ENVIRON"
  BY <1>1, <1>5, SbEnvironStays DEF FeedSub
<1>6. CASE o = "NAWS"
  BY <1>0, <1>1, <1>6, SetRemoteStays DEF FeedSub, SbNaws, Flag
<1>7. CASE o \in {"MCCP2", "MCCP3"}
  BY <1>1, <1>7, MccpStays DEF FeedSub
<1> QED
  BY <1>1, <1>2, <1>3, <1>4, <1>5, <1>6, <1>7 DEF FeedSub

\* What a command may switch on, as the bound that L and R must respect.
LEMMA FeedStays ==
  ASSUME NEW W, NEW F, NEW L, NEW R, Closed(W, F, L, R), NEW w \in W, NEW e \in Ends,
         NEW m, m.opt \in Options, m.cmd \in Verbs \cup {"SB"}, m.cmd = "SB" \/ m.opt \in F,
         m.cmd = "DO" /\ DoAnswer(e, m.opt) /\ DoVerdict(e, m.opt) # "illegal" => m.opt \in L,
         m.cmd = "WILL" /\ WillVerdict(e, m.opt) \in Believed => m.opt \in R,
         m.cmd = "WILL" /\ WillVerdict(e, m.opt) = "charset" => e = "client" \/ m.opt \in L,
         m.cmd = "SB" /\ m.opt = "NAWS" => m.opt \in R
  PROVE  Feed(w, e, m) \in W
<1>1. m.opt \in Options /\ m.cmd \in Verbs \cup {"SB"}
  OBVIOUS
<1>2. CASE m.cmd = "DO"
  BY <1>1, <1>2, FeedDoStays DEF Feed
<1>3. CASE m.cmd = "DONT"
  BY <1>1, <1>3, FeedDontStays DEF Feed
<1>4. CASE m.cmd = "WILL"
  BY <1>1, <1>4, FeedWillStays DEF Feed
<1>5. CASE m.cmd = "WONT"
  BY <1>1, <1>5, FeedWontStays DEF Feed
<1>6. CASE m.cmd = "SB"
  BY <1>1, <1>6, FeedSubStays DEF Feed
<1> QED
  BY <1>1, <1>2, <1>3, <1>4, <1>5, <1>6 DEF Verbs

-----------------------------------------------------------------------------
(***************************************************************************)
(* The bounds of this module.                                              *)
(***************************************************************************)
\* A question is marked pending for the options that have one only.
Modest(w) ==
  /\ \A o \in Options : Pending(w, "SB", o) => o \in Questioned
  /\ w.batches > 0 => "NEW_ENVIRON" \in Options

Within(L, R, h) ==
  {w \in Writer :
     /\ w.out \in Seq(WellFormed)
     /\ \A o \in Options : w.local[o] = "on" => o \in L
     /\ \A o \in Options : w.remote[o] = "on" => o \in R
     /\ Modest(w)
     /\ h => w.closing /\ w.out = <<>>}

LEMMA SetWithin ==
  ASSUME NEW L, NEW R, NEW h, NEW w \in Within(L, R, h), NEW o \in Options, NEW f \in Flag
  PROVE  /\ (f = "on" => o \in L) => SetLocal(w, o, f) \in Within(L, R, h)
         /\ (f = "on" => o \in R) => SetRemote(w, o, f) \in Within(L, R, h)
<1>1. (f = "on" => o \in L) => SetLocal(w, o, f) \in Within(L, R, h)
  BY DEF SetLocal, Within, Writer, Modest, Pending
<1>2. (f = "on" => o \in R) => SetRemote(w, o, f) \in Within(L, R, h)
  BY DEF SetRemote, Within, Writer, Modest, Pending
<1> QED
  BY <1>1, <1>2

LEMMA SetPendingWithin ==
  ASSUME NEW L, NEW R, NEW h, NEW w \in Within(L, R, h), NEW o \in Options, NEW f \in Flag,
         NEW c \in {"DO", "WILL", "SB"}, c = "SB" /\ f = "on" => o \in Questioned
  PROVE  SetPending(w, c, o, f) \in Within(L, R, h)
<1> DEFINE v == SetPending(w, c, o, f)
<1>1. <<c, o>> \in Requests
  BY DEF Requests
<1>2. v \in Writer
  BY <1>1 DEF SetPending, Within, Writer
<1>3. /\ v.local = w.local /\ v.remote = w.remote /\ v.batches = w.batches
      /\ v.closing = w.closing /\ v.out = w.out
      /\ v.pending = [w.pending EXCEPT ![<<c, o>>] = f]
  BY DEF SetPending, Within, Writer
<1>4. Modest(v)
  <2> SUFFICES ASSUME NEW p \in Options, v.pending[<<"SB", p>>] = "on"
               PROVE  p \in Questioned
    BY <1>3 DEF Modest, Pending, Within
  <2>1. <<"SB", p>> \in Requests /\ w.pending \in [Requests -> Flag]
    BY DEF Requests, Within, Writer
  <2>2. CASE <<"SB", p>> = <<c, o>>
    BY <1>1, <1>3, <2>1, <2>2
  <2>3. CASE <<"SB", p>> # <<c, o>>
    BY <1>3, <2>1, <2>3 DEF Modest, Pending, Within
  <2> QED
    BY <2>2, <2>3
<1> QED
  BY <1>2, <1>3, <1>4 DEF Within

LEMMA SendWithin ==
  ASSUME NEW L, NEW R, NEW h, NEW w \in Within(L, R, h), NEW m \in WellFormed
  PROVE  Send(w, m) \in Within(L, R, h)
<1>1. CASE w.closing
  BY <1>1 DEF Send
<1>2. CASE ~w.closing
  <2>1. ~h
    BY <1>2 DEF Within
  <2>2. w.out \in Seq(Message) /\ w.out \in Seq(WellFormed) /\ m \in Message
    BY DEF Within, Writer, WellFormed
  <2>3. Append(w.out, m) \in Seq(Message) /\ Append(w.out, m) \in Seq(WellFormed)
    BY <2>2
  <2> QED
    BY <1>2, <2>1, <2>3 DEF Send, Within, Writer, Modest, Pending
<1> QED
  BY <1>1, <1>2 DEF Within, Writer

\* The fields that the bounds do not speak of.
LEMMA RestWithin ==
  ASSUME NEW L, NEW R, NEW h, NEW w \in Within(L, R, h)
  PROVE  /\ \A o \in Options :
              /\ [w EXCEPT !.rejected_do = @ \cup {o}] \in Within(L, R, h)
              /\ [w EXCEPT !.rejected_will = @ \cup {o}] \in Within(L, R, h)
              /\ [w EXCEPT !.directional_refusals = @ \cup {o}] \in Within(L, R, h)
         /\ \A o \in {"MCCP2", "MCCP3"} : [w EXCEPT !.mccp = @ \cup {o}] \in Within(L, R, h)
         /\ "NEW_ENVIRON" \in Options =>
              \A b \in Nat : [w EXCEPT !.batches = b] \in Within(L, R, h)
         /\ \A n \in {"named", "empty"} : [w EXCEPT !.encoding = n] \in Within(L, R, h)
         /\ [w EXCEPT !.closing = TRUE] \in Within(L, R, h)
BY ZenonT(40) DEF Within, Writer, Modest, Pending

LEMMA WithinClosed ==
  ASSUME NEW L, NEW R, NEW h
  PROVE  Closed(Within(L, R, h), Options, L, R)
<1>1. Within(L, R, h) \subseteq Writer
  BY DEF Within
<1> QED
  BY <1>1, SetWithin, SetPendingWithin, SendWithin, RestWithin DEF Closed, Plain, Flag

-----------------------------------------------------------------------------
(***************************************************************************)
(* Steps of the two ends.                                                  *)
(***************************************************************************)
LEMMA TailOfWire ==
  ASSUME NEW S, NEW s \in Seq(S), s # <<>>
  PROVE  /\ Head(s) \in S /\ Head(s) \in Range(s)
         /\ Tail(s) \in Seq(S) /\ Range(Tail(s)) \subseteq Range(s)
<1>1. /\ Head(s) \in S /\ Tail(s) \in Seq(S) /\ Len(Tail(s)) = Len(s) - 1
      /\ \A i \in 1 .. Len(Tail(s)) : Tail(s)[i] = s[i+1]
      /\ Head(s) = s[1] /\ Len(s) \in Nat /\ Len(s) # 0
  BY HeadTailProperties
<1>2. /\ Range(s) = {s[i] : i \in 1 .. Len(s)}
      /\ Range(Tail(s)) = {Tail(s)[i] : i \in 1 .. Len(Tail(s))}
  BY <1>1, RangeEquality
<1>3. \A i \in 1 .. Len(Tail(s)) : i + 1 \in 1 .. Len(s)
  BY <1>1
<1>4. 1 \in 1 .. Len(s)
  BY <1>1
<1> QED
  BY <1>1, <1>2, <1>3, <1>4

LEMMA NothingWritten == Range(<<>>) = {}
BY DEF Range

\* What is in flight is well-formed and was sent by the peer, and the writers
\* ask only what has an answer.
Carried ==
  \A e \in Ends :
    wire[e] \in Seq(WellFormed) /\ Range(wire[e]) \subseteq sent[Peer(e)] /\ Modest(writer[e])

LEMMA PeerOfPeer == \A e \in Ends : Peer(e) \in Ends /\ Peer(e) # e
BY DEF Ends, Peer

\* Before a callback, the writer of an end has written nothing.
LEMMA TypeWithin ==
  ASSUME TypeOK, Carried, NEW e \in Ends
  PROVE  writer[e] \in Within(Options, Options, writer[e].closing)
<1>1. <<>> \in Seq(WellFormed)
  OBVIOUS
<1> QED
  BY <1>1 DEF TypeOK, Carried, Within

\* A callback that leaves a writer w behind.
LEMMA BecomesWithin ==
  ASSUME TypeOK, Carried, NEW L, NEW R, NEW h, NEW e \in Ends, NEW w \in Within(L, R, h),
         NEW rest \in Seq(WellFormed), Range(rest) \subseteq sent[Peer(e)],
         calls' \in 0..MaxCalls, Becomes(e, w, rest)
  PROVE  /\ TypeOK' /\ Carried'
         /\ writer'[e] \in Within(L, R, h)
         /\ \A d \in Ends : d # e => writer'[d] = writer[d] /\ sent'[d] = sent[d]
         /\ \A d \in Ends : sent[d] \subseteq sent'[d]
         /\ sent'[e] = sent[e] \cup Range(w.out)
<1> DEFINE v == [w EXCEPT !.out = <<>>]
<1>1. v \in Within(L, R, h) /\ v \in Writer /\ v.out = <<>>
  <2>1. <<>> \in Seq(WellFormed) /\ <<>> \in Seq(Message)
    OBVIOUS
  <2> QED
    BY <2>1 DEF Within, Writer, Modest, Pending
<1>2. writer' = [writer EXCEPT ![e] = v] /\ writer \in [Ends -> Writer]
  BY DEF Becomes, TypeOK
<1>3. /\ \A d \in Ends : d # e => writer'[d] = writer[d]
      /\ writer'[e] = v /\ writer' \in [Ends -> Writer]
  BY <1>1, <1>2
<1>4. w.out \in Seq(WellFormed) /\ WellFormed \subseteq Message
  BY DEF Within, WellFormed
<1>5. Range(w.out) \subseteq Message
  BY <1>4, RangeOfSeq
<1>6. /\ sent' \in [Ends -> SUBSET Message]
      /\ sent'[e] = sent[e] \cup Range(w.out)
      /\ \A d \in Ends : d # e => sent'[d] = sent[d]
  BY <1>5 DEF Becomes, TypeOK
<1>7. /\ wire'[e] = rest /\ \A d \in Ends : d # e => wire'[d] = wire[d] \o w.out
      /\ DOMAIN wire' = Ends /\ wire' = [d \in Ends |-> wire'[d]]
  BY DEF Becomes
<1>8. ASSUME NEW d \in Ends
      PROVE  wire'[d] \in Seq(WellFormed) /\ Range(wire'[d]) \subseteq sent'[Peer(d)]
  <2>1. CASE d = e
    BY <1>6, <1>7, <2>1, PeerOfPeer
  <2>2. CASE d # e
    <3>1. Peer(d) = e
      BY <2>2 DEF Peer, Ends
    <3>2. wire[d] \in Seq(WellFormed) /\ Range(wire[d]) \subseteq sent[e]
      BY <3>1 DEF Carried
    <3>3. wire[d] \o w.out \in Seq(WellFormed)
      BY <1>4, <3>2
    <3>4. Range(wire[d] \o w.out) = Range(wire[d]) \cup Range(w.out)
      BY <1>4, <3>2, RangeConcatenation
    <3> QED
      BY <1>6, <1>7, <2>2, <3>1, <3>2, <3>3, <3>4
  <2> QED
    BY <2>1, <2>2
<1>9. Carried'
  <2>1. \A d \in Ends : Modest(writer'[d])
    BY <1>1, <1>3 DEF Carried, Within
  <2> QED
    BY <1>8, <2>1 DEF Carried, Modest, Pending
<1>10. wire' \in [Ends -> Seq(Message)]
  <2>1. Seq(WellFormed) \subseteq Seq(Message)
    BY <1>4
  <2> QED
    BY <1>7, <1>8, <2>1
<1>11. \A d \in Ends : writer'[d].out = <<>>
  BY <1>1, <1>3 DEF TypeOK
<1> QED
  BY <1>1, <1>3, <1>6, <1>9, <1>10, <1>11 DEF TypeOK

\* A call of end e's application, or a resize of its window.
Calls(e) ==
  \/ \E c \in Verbs, o \in Options : CallIac(e, c, o)
  \/ \E o \in Options \cap Requestable : CallRequest(e, o)
  \/ e = "client" /\ Resize

LEMMA CallsWithin ==
  ASSUME NEW L, NEW R, NEW h, NEW e \in Ends, writer[e] \in Within(L, R, h), Calls(e)
  PROVE  /\ \E w \in Within(L, R, h) : Becomes(e, w, wire[e])
         /\ Call(e)
<1>1. ASSUME NEW c \in Verbs, NEW o \in Options, CallIac(e, c, o)
      PROVE  Iac(writer[e], c, o) \in Within(L, R, h)
               /\ Becomes(e, Iac(writer[e], c, o), wire[e]) /\ Call(e)
  BY <1>1, IacStays, WithinClosed DEF CallIac
<1>2. ASSUME NEW o \in Options \cap Requestable, CallRequest(e, o)
      PROVE  Request(writer[e], e, o) \in Within(L, R, h)
               /\ Becomes(e, Request(writer[e], e, o), wire[e]) /\ Call(e)
  BY <1>2, RequestStays, WithinClosed DEF CallRequest
<1>3. ASSUME e = "client", Resize
      PROVE  _send_naws(writer[e]) \in Within(L, R, h)
               /\ Becomes(e, _send_naws(writer[e]), wire[e]) /\ Call(e)
  BY <1>3, _send_nawsStays, WithinClosed DEF Resize
<1> QED
  BY <1>1, <1>2, <1>3 DEF Calls

\* Next is a call or a receipt of one of the ends.
LEMMA NextCases ==
  ASSUME Next
  PROVE  \E e \in Ends : Calls(e) \/ Receive(e)
<1>1. "client" \in Ends
  BY DEF Ends
<1> QED
  BY <1>1 DEF Next, Calls

\* The bounds L and R of a theorem hold at an end, of what it receives.
Bounded(L, R, e) ==
  \A m \in Range(wire[e]) :
    /\ m.cmd = "DO" /\ DoAnswer(e, m.opt) /\ DoVerdict(e, m.opt) # "illegal" => m.opt \in L
    /\ m.cmd = "WILL" /\ WillVerdict(e, m.opt) \in Believed => m.opt \in R
    /\ m.cmd = "WILL" /\ WillVerdict(e, m.opt) = "charset" => e = "client" \/ m.opt \in L
    /\ m.cmd = "SB" /\ m.opt = "NAWS" => m.opt \in R

\* A step keeps the bounds of every end, and the types.
LEMMA StepWithin ==
  ASSUME TypeOK, Carried, Next,
         NEW L, NEW R, NEW h,
         \A e \in Ends : writer[e] \in Within(L[e], R[e], h[e]),
         \A e \in Ends : Bounded(L[e], R[e], e)
  PROVE  /\ TypeOK' /\ Carried'
         /\ \A e \in Ends : writer'[e] \in Within(L[e], R[e], h[e])
         /\ \A e \in Ends : sent[e] \subseteq sent'[e]
         /\ \A e \in Ends : h[e] => sent'[e] = sent[e]
<1>1. PICK e \in Ends : Calls(e) \/ Receive(e)
  BY NextCases
<1>2. \E w \in Within(L[e], R[e], h[e]), rest \in Seq(WellFormed) :
         /\ Range(rest) \subseteq sent[Peer(e)] /\ calls' \in 0..MaxCalls
         /\ Becomes(e, w, rest)
  <2>1. wire[e] \in Seq(WellFormed) /\ Range(wire[e]) \subseteq sent[Peer(e)]
    BY DEF Carried
  <2>2. CASE Calls(e)
    <3>1. \E w \in Within(L[e], R[e], h[e]) : Becomes(e, w, wire[e])
      BY <2>2, CallsWithin
    <3>2. Call(e)
      BY <2>2, CallsWithin
    <3>3. calls' \in 0..MaxCalls
      BY <3>2, AppAssumption DEF Call, TypeOK
    <3> QED
      BY <2>1, <3>1, <3>3
  <2>3. CASE Receive(e)
    <3> DEFINE m == Head(wire[e])
               rest == Tail(wire[e])
    <3>1. wire[e] # <<>> /\ Becomes(e, Feed(writer[e], e, m), rest) /\ calls' = calls
      BY <2>3 DEF Receive
    <3>2. /\ m \in WellFormed /\ m \in Range(wire[e])
          /\ rest \in Seq(WellFormed) /\ Range(rest) \subseteq Range(wire[e])
      BY <2>1, <3>1, TailOfWire
    <3>3. Bounded(L[e], R[e], e)
      OBVIOUS
    <3>4. Feed(writer[e], e, m) \in Within(L[e], R[e], h[e])
      <4> HIDE DEF m
      <4> QED
        <5> DEFINE W == Within(L[e], R[e], h[e])
        <5>1. Closed(W, Options, L[e], R[e]) /\ writer[e] \in W
          BY WithinClosed
        <5>2. m.opt \in Options /\ m.cmd \in Verbs \cup {"SB"}
          BY <3>2 DEF WellFormed, Message
        <5> HIDE DEF W
        <5>3. Feed(writer[e], e, m) \in W
          BY <3>2, <3>3, <5>1, <5>2, FeedStays DEF Bounded
        <5> QED
          BY <5>3 DEF W
    <3> QED
      BY <2>1, <3>1, <3>2, <3>4 DEF TypeOK
  <2> QED
    BY <1>1, <2>2, <2>3
<1>3. PICK w \in Within(L[e], R[e], h[e]), rest \in Seq(WellFormed) :
         /\ Range(rest) \subseteq sent[Peer(e)] /\ calls' \in 0..MaxCalls
         /\ Becomes(e, w, rest)
  BY <1>2
<1>4. /\ TypeOK' /\ Carried'
      /\ writer'[e] \in Within(L[e], R[e], h[e])
      /\ \A d \in Ends : d # e => writer'[d] = writer[d] /\ sent'[d] = sent[d]
      /\ \A d \in Ends : sent[d] \subseteq sent'[d]
      /\ sent'[e] = sent[e] \cup Range(w.out)
  <2> DEFINE Le == L[e]  Re == R[e]  he == h[e]
  <2>1. w \in Within(Le, Re, he)
    OBVIOUS
  <2> HIDE DEF Le, Re, he
  <2>2. writer'[e] \in Within(Le, Re, he)
    BY <1>3, <2>1, BecomesWithin
  <2> QED
    BY <1>3, <2>2, BecomesWithin
<1>5. h[e] => Range(w.out) = {}
  BY NothingWritten DEF Within
<1> QED
  BY <1>4, <1>5

LEMMA InitTypes == Init => TypeOK /\ Carried
<1> SUFFICES ASSUME Init PROVE TypeOK /\ Carried
  OBVIOUS
<1>1. <<>> \in Seq(Message) /\ <<>> \in Seq(WellFormed) /\ Range(<<>>) = {}
  BY NothingWritten
<1>2. NewWriter \in Writer /\ NewWriter.out = <<>>
  BY <1>1 DEF NewWriter, Writer, Flag
<1>3. Modest(NewWriter)
  BY DEF NewWriter, Modest, Pending, Requests
<1>4. \A e \in Ends : writer[e] = NewWriter
  BY DEF Init
<1> QED
  BY <1>1, <1>2, <1>3, <1>4, AppAssumption, PeerOfPeer DEF Init, TypeOK, Carried

LEMMA InitWithin ==
  ASSUME Init, NEW L, NEW R, NEW e \in Ends
  PROVE  writer[e] \in Within(L, R, FALSE)
<1>1. writer[e] = NewWriter /\ NewWriter \in Writer
  BY InitTypes DEF Init, TypeOK
<1>0. Modest(NewWriter)
  BY <1>1, InitTypes DEF Carried
<1>2. <<>> \in Seq(WellFormed)
  OBVIOUS
<1>3. \A o \in Options : NewWriter.local[o] = "unset" /\ NewWriter.remote[o] = "unset"
  BY DEF NewWriter
<1>4. NewWriter.out = <<>>
  BY DEF NewWriter
<1> QED
  BY <1>0, <1>1, <1>2, <1>3, <1>4 DEF Within

-----------------------------------------------------------------------------
(***************************************************************************)
(* The theorems.                                                           *)
(***************************************************************************)
\* Nothing that is done to a writer, nor any command it writes, leaves the
\* types: the handlers of stream_writer.py never store under another key, and
\* every command on the wire is one that its receiver knows.
THEOREM TypeCorrect == Spec => [](TypeOK /\ Carried)
<1>1. Init => TypeOK /\ Carried
  BY InitTypes
<1>2. TypeOK /\ Carried /\ [Next]_vars => TypeOK' /\ Carried'
  <2> SUFFICES ASSUME TypeOK, Carried, [Next]_vars PROVE TypeOK' /\ Carried'
    OBVIOUS
  <2>1. CASE Next
    <3> DEFINE A == [e \in Ends |-> Options]
               h == [e \in Ends |-> FALSE]
    <3>1. \A e \in Ends : writer[e] \in Within(A[e], A[e], h[e])
      BY TypeWithin DEF Within
    <3>2. \A e \in Ends : Bounded(A[e], A[e], e)
      <4>1. \A e \in Ends : Range(wire[e]) \subseteq Message
        BY RangeOfSeq DEF TypeOK
      <4> QED
        BY <4>1 DEF Bounded, Message
    <3> HIDE DEF A, h
    <3> QED
      BY <2>1, <3>1, <3>2, StepWithin
  <2>2. CASE UNCHANGED vars
    BY <2>2 DEF vars, TypeOK, Carried
  <2> QED
    BY <2>1, <2>2
<1> QED
  BY <1>1, <1>2, PTL DEF Spec

THEOREM TypeInvariant == Spec => []TypeOK
BY TypeCorrect, PTL

\* The options an end may believe on, its own and its peer's, for what its
\* peer has sent.
Asked(e) ==
  {o \in Options : \/ Cmd("DO", o) \in sent[Peer(e)]
                   \/ e = "server" /\ o = "CHARSET" /\ Cmd("WILL", o) \in sent["client"]}
Offered(e) ==
  {o \in Options : \/ Cmd("WILL", o) \in sent[Peer(e)]
                   \/ o = "NAWS" /\ Sub("NAWS", "SIZE") \in sent[Peer(e)]}
WithinConsent == \A e \in Ends : writer[e] \in Within(Asked(e), Offered(e), FALSE)

\* A command in flight is among those that justify what it switches on.
LEMMA ConsentBounded ==
  ASSUME TypeOK, Carried, NEW e \in Ends
  PROVE  Bounded(Asked(e), Offered(e), e)
<1> SUFFICES ASSUME NEW m \in Range(wire[e])
             PROVE  /\ m.cmd = "DO" => m.opt \in Asked(e)
                    /\ m.cmd = "WILL" => m.opt \in Offered(e)
                    /\ m.cmd = "WILL" /\ WillVerdict(e, m.opt) = "charset"
                         => e = "client" \/ m.opt \in Asked(e)
                    /\ m.cmd = "SB" /\ m.opt = "NAWS" => m.opt \in Offered(e)
  BY DEF Bounded
<1>1. m \in sent[Peer(e)] /\ m \in WellFormed
  BY RangeOfSeq DEF Carried
<1>2. m \in Message /\ m.opt \in Options
  BY <1>1 DEF WellFormed, Message
<1>3. m = [cmd |-> m.cmd, opt |-> m.opt, sub |-> m.sub]
  BY <1>2 DEF Message
<1>4. m.cmd \in Verbs => m = Cmd(m.cmd, m.opt)
  BY <1>1, <1>3 DEF Cmd, WellFormed, Verbs
<1>5. m.cmd = "SB" /\ m.opt = "NAWS" => m = Sub("NAWS", "SIZE")
  BY <1>1, <1>3 DEF Sub, WellFormed
<1>6. WillVerdict(e, m.opt) = "charset" => m.opt = "CHARSET"
  BY DEF WillVerdict
<1>7. e = "client" \/ (e = "server" /\ Peer(e) = "client")
  BY DEF Ends, Peer
<1> QED
  BY <1>1, <1>2, <1>4, <1>5, <1>6, <1>7 DEF Asked, Offered, Verbs

\* No end believes an option on, its own or its peer's, that the peer's own
\* command did not put there (feed_byte, handle_do, handle_will).
THEOREM ConsentHolds == Spec => []Consent
<1>1. Init => WithinConsent
  BY InitWithin DEF WithinConsent
<1>2. TypeOK /\ Carried /\ WithinConsent /\ [Next]_vars => WithinConsent'
  <2> SUFFICES ASSUME TypeOK, Carried, WithinConsent, [Next]_vars
               PROVE  WithinConsent'
    OBVIOUS
  <2>1. CASE Next
    <3> DEFINE L == [e \in Ends |-> Asked(e)]
               R == [e \in Ends |-> Offered(e)]
               h == [e \in Ends |-> FALSE]
    <3>1. \A e \in Ends : writer[e] \in Within(L[e], R[e], h[e])
      BY DEF WithinConsent
    <3>2. \A e \in Ends : Bounded(L[e], R[e], e)
      BY ConsentBounded
    <3>3. \A e \in Ends : L[e] = Asked(e) /\ R[e] = Offered(e) /\ h[e] = FALSE
      OBVIOUS
    <3> HIDE DEF L, R, h
    <3>4. /\ \A e \in Ends : writer'[e] \in Within(L[e], R[e], h[e])
          /\ \A e \in Ends : sent[e] \subseteq sent'[e]
      BY <2>1, <3>1, <3>2, StepWithin
    <3>5. \A e \in Ends : L[e] \subseteq Asked(e)' /\ R[e] \subseteq Offered(e)'
      BY <3>3, <3>4, PeerOfPeer DEF Asked, Offered, Ends
    <3>6. \A e \in Ends : writer'[e] \in Within(Asked(e)', Offered(e)', FALSE)
      BY <3>3, <3>4, <3>5 DEF Within
    <3> QED
      BY <3>6 DEF WithinConsent
  <2>2. CASE UNCHANGED vars
    BY <2>2 DEF vars, WithinConsent, Asked, Offered
  <2> QED
    BY <2>1, <2>2
<1>3. WithinConsent => Consent
  BY DEF WithinConsent, Within, Consent, Local, Remote, Asked, Offered
<1> QED
  BY <1>1, <1>2, <1>3, TypeCorrect, PTL DEF Spec

\* An end that is closing sends nothing more, although it still reads
\* (send_iac and is_closing).
THEOREM SilenceHolds == Spec => SilentAfterClose
<1>1. TypeOK /\ Carried /\ [Next]_vars
        => [\A e \in Ends : writer[e].closing => sent'[e] = sent[e]]_vars
  <2> SUFFICES ASSUME TypeOK, Carried, Next
               PROVE  \A e \in Ends : writer[e].closing => sent'[e] = sent[e]
    OBVIOUS
  <2> DEFINE A == [e \in Ends |-> Options]
             h == [e \in Ends |-> writer[e].closing]
  <2>1. \A e \in Ends : writer[e] \in Within(A[e], A[e], h[e])
    BY TypeWithin
  <2>2. \A e \in Ends : Bounded(A[e], A[e], e)
    <3>1. \A e \in Ends : Range(wire[e]) \subseteq Message
      BY RangeOfSeq DEF TypeOK
    <3> QED
      BY <3>1 DEF Bounded, Message
  <2>3. \A e \in Ends : h[e] = writer[e].closing
    OBVIOUS
  <2> HIDE DEF A, h
  <2>4. \A e \in Ends : h[e] => sent'[e] = sent[e]
    BY <2>1, <2>2, StepWithin
  <2> QED
    BY <2>3, <2>4
<1> QED
  BY <1>1, TypeCorrect, PTL DEF Spec, SilentAfterClose


\* What the configuration of an end lets it perform, and believe.
Permitted(e) ==
  {o \in Options : /\ o \notin always_wont[e]
                   /\ e = "client" /\ o \in MudOptions => o \in always_will[e]}
Acceptable(e) ==
  {o \in Options : /\ o \notin always_dont[e]
                   /\ e = "client" /\ o \in MudOptions => o \in always_do[e] \cup passive_do[e]}
WithinPolicy == \A e \in Ends : writer[e] \in Within(Permitted(e), Acceptable(e), FALSE)

\* handle_do and handle_will look at the configuration before anything else.
\* The server's own WILL CHARSET, and a window size nobody announced, do not:
\* hence the two exceptions of RefusalsHonoured.
LEMMA PolicyBounded ==
  ASSUME TypeOK, NEW e \in Ends,
         "CHARSET" \notin always_wont["server"], "NAWS" \notin always_dont[e]
  PROVE  Bounded(Permitted(e), Acceptable(e), e)
<1> SUFFICES ASSUME NEW m \in Range(wire[e])
             PROVE  /\ DoAnswer(e, m.opt) /\ DoVerdict(e, m.opt) # "illegal"
                         => m.opt \in Permitted(e)
                    /\ WillVerdict(e, m.opt) \in Believed => m.opt \in Acceptable(e)
                    /\ WillVerdict(e, m.opt) = "charset"
                         => e = "client" \/ m.opt \in Permitted(e)
                    /\ m.opt = "NAWS" => m.opt \in Acceptable(e)
  BY DEF Bounded
<1>1. m.opt \in Options
  <2>1. wire[e] \in Seq(Message)
    BY DEF TypeOK
  <2>2. m \in Message
    BY <2>1, RangeOfSeq
  <2> QED
    BY <2>2 DEF Message
<1>2. "NAWS" \notin MudOptions /\ "CHARSET" \notin MudOptions
  BY DEF MudOptions
<1>3. "ECHO" \notin MudOptions /\ "LOGOUT" \notin MudOptions /\ "TM" \notin MudOptions
  BY DEF MudOptions
<1>4. DoAnswer(e, m.opt) /\ DoVerdict(e, m.opt) # "illegal" => m.opt \in Permitted(e)
  BY <1>1, <1>3 DEF DoAnswer, DoVerdict, Permitted
<1>5. WillVerdict(e, m.opt) \in Believed => m.opt \in Acceptable(e)
  BY <1>1 DEF WillVerdict, Believed, Acceptable
<1>6. WillVerdict(e, m.opt) = "charset" => m.opt = "CHARSET"
  BY DEF WillVerdict
<1> QED
  BY <1>1, <1>2, <1>4, <1>5, <1>6 DEF Permitted, Acceptable, Ends

\* What an end is configured to refuse never becomes active, whatever its peer
\* and its own application do, provided CHARSET is not among the server's
\* always_wont nor NAWS in an always_dont: those two the code does not honour.
THEOREM RefusalsHonoured ==
  ASSUME "CHARSET" \notin always_wont["server"],
         \A e \in Ends : "NAWS" \notin always_dont[e]
  PROVE  Spec => []RefusalsHold
<1>1. Init => WithinPolicy
  BY InitWithin DEF WithinPolicy
<1>2. TypeOK /\ Carried /\ WithinPolicy /\ [Next]_vars => WithinPolicy'
  <2> SUFFICES ASSUME TypeOK, Carried, WithinPolicy, [Next]_vars
               PROVE  WithinPolicy'
    OBVIOUS
  <2>1. CASE Next
    <3> DEFINE L == [e \in Ends |-> Permitted(e)]
               R == [e \in Ends |-> Acceptable(e)]
               h == [e \in Ends |-> FALSE]
    <3>1. \A e \in Ends : writer[e] \in Within(L[e], R[e], h[e])
      BY DEF WithinPolicy
    <3>2. \A e \in Ends : Bounded(L[e], R[e], e)
      BY PolicyBounded
    <3>3. \A e \in Ends : L[e] = Permitted(e) /\ R[e] = Acceptable(e) /\ h[e] = FALSE
      OBVIOUS
    <3> HIDE DEF L, R, h
    <3>4. \A e \in Ends : writer'[e] \in Within(L[e], R[e], h[e])
      BY <2>1, <3>1, <3>2, StepWithin
    <3> QED
      BY <3>3, <3>4 DEF WithinPolicy
  <2>2. CASE UNCHANGED vars
    BY <2>2 DEF vars, WithinPolicy
  <2> QED
    BY <2>1, <2>2
<1>3. WithinPolicy => RefusalsHold
  BY DEF WithinPolicy, Within, RefusalsHold, Local, Remote, Permitted, Acceptable
<1> QED
  BY <1>1, <1>2, <1>3, TypeCorrect, PTL DEF Spec

-----------------------------------------------------------------------------
(***************************************************************************)
(* The option tables of the two ends agree when nothing is in flight, and  *)
(* every pending request or offer has its answer coming.                   *)
(*                                                                         *)
(* Agreed(e, o, w, v, q, p) says of one option o and one direction how the *)
(* performer's table (w, of e), the believer's (v, of its peer) and what   *)
(* is on the two wires hang together: whatever the tables differ in is     *)
(* made up for by the last command about o on one of the wires.  One       *)
(* callback takes at most one command about o from a wire (Taken), adds at *)
(* most a few to the other (Added) and changes the tables; Performed says  *)
(* how it may change those of a performer and Accepted those of a          *)
(* believer, and PerformerKeeps and BelieverKeeps that the invariant       *)
(* survives either.  That every handler of the code does no more than that *)
(* is proved handler by handler with the sets Showing, which are Closed in *)
(* the sense of the first part of this module.                             *)
(***************************************************************************)

-----------------------------------------------------------------------------
(***************************************************************************)
(* What is on its way.                                                     *)
(***************************************************************************)
Has(q, m) == \E i \in DOMAIN q : q[i] = m

\* m is on its way, and no n after it.
EndsIn(q, m, n) == \E i \in DOMAIN q : q[i] = m /\ \A j \in DOMAIN q : j > i => q[j] # n

LEMMA EndsInHas ==
  ASSUME NEW q, NEW m, NEW n
  PROVE  /\ EndsIn(q, m, n) => Has(q, m)
         /\ Has(q, m) /\ ~Has(q, n) => EndsIn(q, m, n)
BY DEF Has, EndsIn

LEMMA NothingOnItsWay ==
  ASSUME NEW m, NEW n
  PROVE  ~Has(<<>>, m) /\ ~EndsIn(<<>>, m, n)
BY DEF Has, EndsIn

LEMMA HasAdded ==
  ASSUME NEW S, NEW q \in Seq(S), NEW s \in Seq(S), NEW m
  PROVE  Has(q \o s, m) <=> Has(q, m) \/ Has(s, m)
<1>1. /\ q \o s \in Seq(S) /\ Len(q \o s) = Len(q) + Len(s)
      /\ \A i \in 1 .. Len(q) + Len(s) :
           (q \o s)[i] = IF i <= Len(q) THEN q[i] ELSE s[i - Len(q)]
  BY ConcatProperties
<1>2. /\ DOMAIN q = 1 .. Len(q) /\ DOMAIN s = 1 .. Len(s) /\ DOMAIN (q \o s) = 1 .. Len(q \o s)
      /\ Len(q) \in Nat /\ Len(s) \in Nat
  BY <1>1, LenProperties
<1>3. ASSUME NEW i \in DOMAIN q PROVE i \in DOMAIN (q \o s) /\ (q \o s)[i] = q[i]
  BY <1>1, <1>2
<1>4. ASSUME NEW i \in DOMAIN s
      PROVE  Len(q) + i \in DOMAIN (q \o s) /\ (q \o s)[Len(q) + i] = s[i]
  BY <1>1, <1>2
<1>5. ASSUME NEW i \in DOMAIN (q \o s)
      PROVE  \/ i \in DOMAIN q /\ (q \o s)[i] = q[i]
             \/ i - Len(q) \in DOMAIN s /\ (q \o s)[i] = s[i - Len(q)]
  BY <1>1, <1>2
<1> QED
  BY <1>3, <1>4, <1>5 DEF Has

LEMMA EndsInAdded ==
  ASSUME NEW S, NEW q \in Seq(S), NEW s \in Seq(S), NEW m, NEW n
  PROVE  EndsIn(q \o s, m, n) <=> EndsIn(s, m, n) \/ (EndsIn(q, m, n) /\ ~Has(s, n))
<1> DEFINE t == q \o s
<1>1. /\ t \in Seq(S) /\ Len(t) = Len(q) + Len(s)
      /\ \A i \in 1 .. Len(q) + Len(s) : t[i] = IF i <= Len(q) THEN q[i] ELSE s[i - Len(q)]
  BY ConcatProperties
<1>2. /\ DOMAIN q = 1 .. Len(q) /\ DOMAIN s = 1 .. Len(s) /\ DOMAIN t = 1 .. Len(t)
      /\ Len(q) \in Nat /\ Len(s) \in Nat
  BY <1>1, LenProperties
<1> HIDE DEF t
<1>3. ASSUME EndsIn(s, m, n) PROVE EndsIn(t, m, n)
  <2>1. PICK i \in DOMAIN s : s[i] = m /\ \A j \in DOMAIN s : j > i => s[j] # n
    BY <1>3 DEF EndsIn
  <2>2. Len(q) + i \in DOMAIN t /\ t[Len(q) + i] = m
    BY <1>1, <1>2, <2>1
  <2>3. ASSUME NEW j \in DOMAIN t, j > Len(q) + i PROVE t[j] # n
    <3>1. j - Len(q) \in DOMAIN s /\ j - Len(q) > i /\ t[j] = s[j - Len(q)]
      BY <1>1, <1>2, <2>3
    <3> QED
      BY <2>1, <3>1
  <2> QED
    BY <2>2, <2>3 DEF EndsIn
<1>4. ASSUME EndsIn(q, m, n), ~Has(s, n) PROVE EndsIn(t, m, n)
  <2>1. PICK i \in DOMAIN q : q[i] = m /\ \A j \in DOMAIN q : j > i => q[j] # n
    BY <1>4 DEF EndsIn
  <2>2. i \in DOMAIN t /\ t[i] = m
    BY <1>1, <1>2, <2>1
  <2>3. ASSUME NEW j \in DOMAIN t, j > i PROVE t[j] # n
    <3>1. CASE j <= Len(q)
      BY <1>1, <1>2, <2>1, <2>3, <3>1
    <3>2. CASE j > Len(q)
      <4>1. j - Len(q) \in DOMAIN s /\ t[j] = s[j - Len(q)]
        BY <1>1, <1>2, <3>2
      <4> QED
        BY <1>4, <4>1 DEF Has
    <3> QED
      BY <1>2, <3>1, <3>2
  <2> QED
    BY <2>2, <2>3 DEF EndsIn
<1>5. ASSUME EndsIn(t, m, n) PROVE EndsIn(s, m, n) \/ (EndsIn(q, m, n) /\ ~Has(s, n))
  <2>1. PICK i \in DOMAIN t : t[i] = m /\ \A j \in DOMAIN t : j > i => t[j] # n
    BY <1>5 DEF EndsIn
  <2>2. ASSUME NEW j \in DOMAIN s, s[j] = n PROVE Len(q) + j <= i
    <3>1. Len(q) + j \in DOMAIN t /\ t[Len(q) + j] = n
      BY <1>1, <1>2, <2>2
    <3> QED
      BY <1>2, <2>1, <3>1
  <2>3. CASE i <= Len(q)
    <3>1. i \in DOMAIN q /\ q[i] = m
      BY <1>1, <1>2, <2>1, <2>3
    <3>2. ~Has(s, n)
      BY <1>2, <2>2, <2>3 DEF Has
    <3>3. ASSUME NEW j \in DOMAIN q, j > i PROVE q[j] # n
      BY <1>1, <1>2, <2>1, <3>3
    <3> QED
      BY <3>1, <3>2, <3>3 DEF EndsIn
  <2>4. CASE i > Len(q)
    <3>1. i - Len(q) \in DOMAIN s /\ s[i - Len(q)] = m
      BY <1>1, <1>2, <2>1, <2>4
    <3>2. ASSUME NEW j \in DOMAIN s, j > i - Len(q) PROVE s[j] # n
      BY <1>2, <2>1, <2>2, <3>2
    <3> QED
      BY <3>1, <3>2 DEF EndsIn
  <2> QED
    BY <1>2, <2>1, <2>3, <2>4
<1> QED
  BY <1>3, <1>4, <1>5 DEF t

LEMMA HasTaken ==
  ASSUME NEW S, NEW q \in Seq(S), q # <<>>, NEW m
  PROVE  Has(q, m) <=> Head(q) = m \/ Has(Tail(q), m)
<1>1. /\ Head(q) = q[1] /\ Tail(q) \in Seq(S) /\ Len(Tail(q)) = Len(q) - 1
      /\ \A i \in 1 .. Len(Tail(q)) : Tail(q)[i] = q[i+1]
      /\ Len(q) \in Nat /\ Len(q) # 0
  BY HeadTailProperties
<1>2. DOMAIN q = 1 .. Len(q) /\ DOMAIN Tail(q) = 1 .. Len(Tail(q))
  BY <1>1, LenProperties
<1>3. 1 \in DOMAIN q
  BY <1>1, <1>2
<1>4. ASSUME NEW i \in DOMAIN Tail(q) PROVE i + 1 \in DOMAIN q /\ q[i+1] = Tail(q)[i]
  BY <1>1, <1>2
<1>5. ASSUME NEW i \in DOMAIN q, i # 1 PROVE i - 1 \in DOMAIN Tail(q) /\ q[i] = Tail(q)[i-1]
  <2>1. i - 1 \in 1 .. Len(Tail(q))
    BY <1>1, <1>2, <1>5
  <2>2. Tail(q)[i-1] = q[(i-1)+1] /\ (i-1)+1 = i
    BY <1>1, <1>2, <2>1
  <2> QED
    BY <1>2, <2>1, <2>2
<1>6. ASSUME Has(q, m) PROVE Head(q) = m \/ Has(Tail(q), m)
  <2>1. PICK i \in DOMAIN q : q[i] = m
    BY <1>6 DEF Has
  <2>2. CASE i = 1
    BY <1>1, <2>1, <2>2
  <2>3. CASE i # 1
    <3>1. i - 1 \in DOMAIN Tail(q) /\ Tail(q)[i-1] = m
      BY <1>5, <2>1, <2>3
    <3> QED
      BY <3>1 DEF Has
  <2> QED
    BY <2>2, <2>3
<1>7. ASSUME Has(Tail(q), m) PROVE Has(q, m)
  BY <1>4, <1>7 DEF Has
<1>8. Head(q) = m => Has(q, m)
  BY <1>1, <1>3 DEF Has
<1> QED
  BY <1>6, <1>7, <1>8

LEMMA EndsInTaken ==
  ASSUME NEW S, NEW q \in Seq(S), q # <<>>, NEW m, NEW n
  PROVE  EndsIn(q, m, n) <=> EndsIn(Tail(q), m, n) \/ (Head(q) = m /\ ~Has(Tail(q), n))
<1> DEFINE t == Tail(q)
<1>1. /\ Head(q) = q[1] /\ t \in Seq(S) /\ Len(t) = Len(q) - 1
      /\ \A i \in 1 .. Len(t) : t[i] = q[i+1]
      /\ Len(q) \in Nat /\ Len(q) # 0
  BY HeadTailProperties
<1>2. DOMAIN q = 1 .. Len(q) /\ DOMAIN t = 1 .. Len(t) /\ 1 \in DOMAIN q
  BY <1>1, LenProperties
<1>3. ASSUME NEW i \in DOMAIN t PROVE i + 1 \in DOMAIN q /\ q[i+1] = t[i]
  BY <1>1, <1>2
<1>4. ASSUME NEW i \in DOMAIN q, i # 1 PROVE i - 1 \in DOMAIN t /\ q[i] = t[i-1]
  <2>1. i - 1 \in 1 .. Len(t)
    BY <1>1, <1>2, <1>4
  <2>2. t[i-1] = q[(i-1)+1] /\ (i-1)+1 = i
    BY <1>1, <1>2, <2>1
  <2> QED
    BY <1>2, <2>1, <2>2
<1>5. DOMAIN q \subseteq Nat /\ DOMAIN t \subseteq Nat /\ \A i \in DOMAIN q : i >= 1
  BY <1>1, <1>2
<1> HIDE DEF t
<1>6. ASSUME EndsIn(t, m, n) PROVE EndsIn(q, m, n)
  <2>1. PICK i \in DOMAIN t : t[i] = m /\ \A j \in DOMAIN t : j > i => t[j] # n
    BY <1>6 DEF EndsIn
  <2>2. i + 1 \in DOMAIN q /\ q[i+1] = m
    BY <1>3, <2>1
  <2>3. ASSUME NEW j \in DOMAIN q, j > i + 1 PROVE q[j] # n
    <3>1. j # 1 /\ j - 1 > i
      BY <1>5, <2>1, <2>3
    <3> QED
      BY <1>4, <2>1, <3>1
  <2> QED
    BY <2>2, <2>3 DEF EndsIn
<1>7. ASSUME Head(q) = m, ~Has(t, n) PROVE EndsIn(q, m, n)
  <2>1. ASSUME NEW j \in DOMAIN q, j > 1 PROVE q[j] # n
    BY <1>4, <1>5, <1>7, <2>1 DEF Has
  <2> QED
    BY <1>1, <1>2, <1>7, <2>1 DEF EndsIn
<1>8. ASSUME EndsIn(q, m, n) PROVE EndsIn(t, m, n) \/ (Head(q) = m /\ ~Has(t, n))
  <2>1. PICK i \in DOMAIN q : q[i] = m /\ \A j \in DOMAIN q : j > i => q[j] # n
    BY <1>8 DEF EndsIn
  <2>2. ASSUME NEW j \in DOMAIN t, j + 1 > i PROVE t[j] # n
    BY <1>3, <2>1, <2>2
  <2>3. CASE i = 1
    <3>1. \A j \in DOMAIN t : j + 1 > i
      BY <1>1, <1>2, <2>3
    <3> QED
      BY <1>1, <2>1, <2>2, <2>3, <3>1 DEF Has
  <2>4. CASE i # 1
    <3>1. i - 1 \in DOMAIN t /\ t[i-1] = m
      BY <1>4, <2>1, <2>4
    <3>2. ASSUME NEW j \in DOMAIN t, j > i - 1 PROVE t[j] # n
      <4>1. j + 1 > i
        BY <1>5, <2>1, <3>2
      <4> QED
        BY <2>2, <4>1
    <3> QED
      BY <3>1, <3>2 DEF EndsIn
  <2> QED
    BY <2>3, <2>4
<1> QED
  BY <1>6, <1>7, <1>8 DEF t

-----------------------------------------------------------------------------
(***************************************************************************)
(* The invariant of one direction of one option.                           *)
(***************************************************************************)
\* w is the writer of e, which may perform o, and q what is on its way to e;
\* v and p are those of its peer, which may believe that e performs o.
Agreed(e, o, w, v, q, p) ==
  LET performs == Local(w, o)
      offers   == Pending(w, "WILL", o)
      believes == Remote(v, o)
      asks     == Pending(v, "DO", o)
      do == Has(q, Cmd("DO", o))       dont == Has(q, Cmd("DONT", o))
      will == Has(p, Cmd("WILL", o))   wont == Has(p, Cmd("WONT", o))
  IN IF Agrees(Peer(e), o)
     THEN /\ ~(performs /\ offers) /\ ~(believes /\ asks)
          /\ performs => DoAnswer(e, o)
          /\ EndsIn(q, Cmd("DONT", o), Cmd("DO", o)) => ~believes /\ ~asks
          /\ EndsIn(p, Cmd("WONT", o), Cmd("WILL", o)) => ~performs /\ ~offers
          /\ (performs \/ offers) /\ ~will /\ ~wont /\ ~believes => dont
          /\ (believes \/ asks) /\ ~do /\ ~dont /\ ~performs => wont
          /\ asks \/ offers => do \/ dont \/ will \/ wont
     ELSE /\ ~do /\ ~performs /\ ~believes /\ ~asks
          /\ offers => <<e, "WILL", o>> \in AppCalls

\* Of the commands about o, k is taken from q and leaves t; s is added to p
\* and makes r.
Taken(o, q, t, k) ==
  \A c, d \in Verbs :
    /\ Has(q, Cmd(c, o)) <=> c = k \/ Has(t, Cmd(c, o))
    /\ EndsIn(q, Cmd(c, o), Cmd(d, o)) <=>
         EndsIn(t, Cmd(c, o), Cmd(d, o)) \/ (c = k /\ ~Has(t, Cmd(d, o)))
Added(o, p, s, r) ==
  \A c, d \in Verbs :
    /\ Has(r, Cmd(c, o)) <=> Has(p, Cmd(c, o)) \/ Has(s, Cmd(c, o))
    /\ EndsIn(r, Cmd(c, o), Cmd(d, o)) <=>
         \/ EndsIn(s, Cmd(c, o), Cmd(d, o))
         \/ EndsIn(p, Cmd(c, o), Cmd(d, o)) /\ ~Has(s, Cmd(d, o))

\* What a callback may do to the performer's side of an option, from writer w
\* to u, when the command about o that it has taken is k.
Performed(e, o, w, u, k) ==
  LET will == Has(u.out, Cmd("WILL", o))
      wont == Has(u.out, Cmd("WONT", o))
  IN \/ /\ k = "DO" /\ DoAnswer(e, o)
        /\ Local(u, o) /\ ~Pending(u, "WILL", o)
        /\ ~wont /\ (will <=> ~Local(w, o) /\ ~Pending(w, "WILL", o))
     \/ /\ k = "DO" /\ ~DoAnswer(e, o)
        /\ ~Local(w, o) => ~Local(u, o) /\ ~Pending(u, "WILL", o) /\ wont /\ ~will
     \/ /\ k = "DONT" /\ ~Local(u, o) /\ ~Pending(u, "WILL", o) /\ ~will /\ ~wont
     \/ /\ k \notin {"DO", "DONT"} /\ ~will /\ ~wont
        /\ (Local(u, o) <=> Local(w, o)) /\ (Pending(u, "WILL", o) <=> Pending(w, "WILL", o))
     \/ /\ k = "none" /\ <<e, "WILL", o>> \in AppCalls /\ will /\ ~wont
        /\ ~Local(w, o) /\ ~Pending(w, "WILL", o)
        /\ ~Local(u, o) /\ Pending(u, "WILL", o)
     \/ /\ k = "none" /\ ~will /\ wont /\ Local(w, o) /\ ~Local(u, o)
        /\ Pending(u, "WILL", o) <=> Pending(w, "WILL", o)

\* And to the believer's side.
Accepted(d, o, w, u, k) ==
  LET do   == Has(u.out, Cmd("DO", o))
      dont == Has(u.out, Cmd("DONT", o))
  IN \/ /\ k = "WILL" /\ Agrees(d, o) /\ Remote(u, o) /\ ~Pending(u, "DO", o)
        /\ ~dont /\ (do <=> ~Remote(w, o) /\ ~Pending(w, "DO", o))
     \/ /\ k = "WILL" /\ ~Agrees(d, o) /\ ~do
        /\ (Remote(u, o) => Remote(w, o)) /\ (Pending(u, "DO", o) => Pending(w, "DO", o))
     \/ /\ k = "WONT" /\ ~Remote(u, o) /\ ~Pending(u, "DO", o) /\ ~do /\ ~dont
     \/ /\ k \notin {"WILL", "WONT"} /\ ~do /\ ~dont
        /\ Remote(u, o) <=> Remote(w, o)
        /\ Pending(u, "DO", o) => Pending(w, "DO", o)
        /\ Pending(w, "DO", o) => Pending(u, "DO", o) \/ Remote(w, o)
     \/ /\ k = "none" /\ Agrees(d, o) /\ do /\ ~dont
        /\ ~Remote(w, o) /\ ~Pending(w, "DO", o)
        /\ ~Remote(u, o) /\ Pending(u, "DO", o)
     \/ /\ k = "none" /\ ~do /\ dont /\ Remote(w, o) /\ ~Remote(u, o)
        /\ Pending(u, "DO", o) <=> Pending(w, "DO", o)

LEMMA PerformerKeeps ==
  ASSUME NEW e, NEW o, NEW w, NEW u, NEW v, NEW q, NEW t, NEW p, NEW r, NEW k,
         Agreed(e, o, w, v, q, p),
         Taken(o, q, t, k), Added(o, p, u.out, r), Performed(e, o, w, u, k)
  PROVE  Agreed(e, o, u, v, t, r)
<1> DEFINE D == Cmd("DO", o)  X == Cmd("DONT", o)  Y == Cmd("WILL", o)  N == Cmd("WONT", o)
<1>1. /\ Has(q, D) <=> k = "DO" \/ Has(t, D)
      /\ Has(q, X) <=> k = "DONT" \/ Has(t, X)
      /\ EndsIn(q, X, D) <=> EndsIn(t, X, D) \/ (k = "DONT" /\ ~Has(t, D))
  BY DEF Taken, Verbs
<1>2. /\ Has(r, Y) <=> Has(p, Y) \/ Has(u.out, Y)
      /\ Has(r, N) <=> Has(p, N) \/ Has(u.out, N)
      /\ EndsIn(r, N, Y) <=> EndsIn(u.out, N, Y) \/ (EndsIn(p, N, Y) /\ ~Has(u.out, Y))
  BY DEF Added, Verbs
<1>3. /\ EndsIn(u.out, N, Y) => Has(u.out, N)
      /\ Has(t, X) /\ ~Has(t, D) => EndsIn(t, X, D)
      /\ Has(p, N) /\ ~Has(p, Y) => EndsIn(p, N, Y)
  BY EndsInHas
<1> QED
  BY <1>1, <1>2, <1>3 DEF Agreed, Performed

LEMMA BelieverKeeps ==
  ASSUME NEW e, NEW o, NEW w, NEW v, NEW u, NEW q, NEW p, NEW t, NEW r, NEW k,
         Agreed(e, o, w, v, q, p),
         Taken(o, p, t, k), Added(o, q, u.out, r), Accepted(Peer(e), o, v, u, k)
  PROVE  Agreed(e, o, w, u, r, t)
<1> DEFINE D == Cmd("DO", o)  X == Cmd("DONT", o)  Y == Cmd("WILL", o)  N == Cmd("WONT", o)
<1>1. /\ Has(p, Y) <=> k = "WILL" \/ Has(t, Y)
      /\ Has(p, N) <=> k = "WONT" \/ Has(t, N)
      /\ EndsIn(p, N, Y) <=> EndsIn(t, N, Y) \/ (k = "WONT" /\ ~Has(t, Y))
  BY DEF Taken, Verbs
<1>2. /\ Has(r, D) <=> Has(q, D) \/ Has(u.out, D)
      /\ Has(r, X) <=> Has(q, X) \/ Has(u.out, X)
      /\ EndsIn(r, X, D) <=> EndsIn(u.out, X, D) \/ (EndsIn(q, X, D) /\ ~Has(u.out, D))
  BY DEF Added, Verbs
<1>3. /\ EndsIn(u.out, X, D) => Has(u.out, X)
      /\ Has(t, N) /\ ~Has(t, Y) => EndsIn(t, N, Y)
      /\ Has(q, X) /\ ~Has(q, D) => EndsIn(q, X, D)
  BY EndsInHas
<1> QED
  BY <1>1, <1>2, <1>3 DEF Agreed, Accepted

-----------------------------------------------------------------------------
(***************************************************************************)
(* What a writer shows of one option.                                      *)
(***************************************************************************)
\* The open writers with these entries in their tables for o, and with the
\* command c about o among what they have written, or none.
Showing(o, l, a, r, b, c) ==
  {w \in Writer :
     /\ w.out \in Seq(WellFormed) /\ ~w.closing
     /\ w.local[o] = l /\ w.pending[<<"WILL", o>>] = a
     /\ w.remote[o] = r /\ w.pending[<<"DO", o>>] = b
     /\ \A k \in Verbs : Has(w.out, Cmd(k, o)) <=> k = c}

\* A writer between callbacks shows its own entries and no command.
LEMMA Reveals ==
  ASSUME NEW w \in Writer, NEW o \in Options, w.out = <<>>, ~w.closing
  PROVE  w \in Showing(o, w.local[o], w.pending[<<"WILL", o>>],
                        w.remote[o], w.pending[<<"DO", o>>], "none")
<1>1. w.out \in Seq(WellFormed)
  OBVIOUS
<1>2. \A k \in Verbs : ~Has(w.out, Cmd(k, o)) /\ k # "none"
  BY NothingOnItsWay DEF Verbs
<1> QED
  BY <1>1, <1>2 DEF Showing

\* An assignment to o changes what is shown accordingly.
LEMMA ShowsLocal ==
  ASSUME NEW o \in Options, NEW l, NEW a, NEW r, NEW b, NEW c,
         NEW w \in Showing(o, l, a, r, b, c), NEW f \in Flag
  PROVE  SetLocal(w, o, f) \in Showing(o, f, a, r, b, c)
BY DEF SetLocal, Showing, Writer

LEMMA ShowsRemote ==
  ASSUME NEW o \in Options, NEW l, NEW a, NEW r, NEW b, NEW c,
         NEW w \in Showing(o, l, a, r, b, c), NEW f \in Flag
  PROVE  SetRemote(w, o, f) \in Showing(o, l, a, f, b, c)
BY DEF SetRemote, Showing, Writer

\* One entry of an option table set, or one pending flag, as the record it makes.
LEMMA SetOptionFields ==
  ASSUME NEW w \in Writer, NEW o \in Options, NEW f \in Flag
  PROVE  /\ LET v == SetLocal(w, o, f) IN
            /\ v \in Writer /\ v.out = w.out /\ v.closing = w.closing
            /\ v.remote = w.remote /\ v.pending = w.pending
            /\ \A p \in Options : p # o => v.local[p] = w.local[p]
         /\ LET v == SetRemote(w, o, f) IN
            /\ v \in Writer /\ v.out = w.out /\ v.closing = w.closing
            /\ v.local = w.local /\ v.pending = w.pending
            /\ \A p \in Options : p # o => v.remote[p] = w.remote[p]
BY DEF SetLocal, SetRemote, Writer

LEMMA SetPendingFields ==
  ASSUME NEW w \in Writer, NEW c, NEW o, <<c, o>> \in Requests, NEW f \in Flag
  PROVE  LET v == SetPending(w, c, o, f) IN
         /\ v \in Writer /\ v.out = w.out /\ v.closing = w.closing
         /\ v.local = w.local /\ v.remote = w.remote
         /\ v.pending[<<c, o>>] = f
         /\ \A x \in Requests : x # <<c, o>> => v.pending[x] = w.pending[x]
BY DEF SetPending, Writer

LEMMA ShowsPending ==
  ASSUME NEW o \in Options, NEW l, NEW a, NEW r, NEW b, NEW c,
         NEW w \in Showing(o, l, a, r, b, c), NEW f \in Flag
  PROVE  /\ SetPending(w, "WILL", o, f) \in Showing(o, l, f, r, b, c)
         /\ SetPending(w, "DO", o, f) \in Showing(o, l, a, r, f, c)
<1>1. <<"WILL", o>> \in Requests /\ <<"DO", o>> \in Requests /\ <<"WILL", o>> # <<"DO", o>>
  BY DEF Requests
<1>2. w \in Writer
  BY DEF Showing
<1> QED
  BY <1>1, <1>2, SetPendingFields DEF Showing

\* A command appended to what is written.
LEMMA SendFields ==
  ASSUME NEW w \in Writer, w.out \in Seq(WellFormed), ~w.closing, NEW m \in WellFormed
  PROVE  LET v == Send(w, m) IN
         /\ v \in Writer /\ v.out \in Seq(WellFormed) /\ ~v.closing
         /\ v.local = w.local /\ v.remote = w.remote /\ v.pending = w.pending
         /\ \A n : Has(v.out, n) <=> Has(w.out, n) \/ n = m
<1> DEFINE s == Append(w.out, m)
<1>1. m \in Message /\ w.out \in Seq(Message)
  BY DEF WellFormed, Writer
<1>2. s \in Seq(WellFormed) /\ s \in Seq(Message)
  BY <1>1
<1>3. ASSUME NEW n PROVE Has(s, n) <=> Has(w.out, n) \/ n = m
  <2>1. /\ DOMAIN w.out = 1 .. Len(w.out) /\ DOMAIN s = 1 .. Len(w.out) + 1
        /\ Len(w.out) \in Nat /\ s[Len(w.out) + 1] = m
        /\ \A i \in 1 .. Len(w.out) : s[i] = w.out[i]
    BY <1>1
  <2> QED
    BY <2>1 DEF Has
<1>4. Send(w, m) = [w EXCEPT !.out = s]
  BY DEF Send
<1> HIDE DEF s
<1>5. /\ Send(w, m) \in Writer /\ Send(w, m).out = s /\ Send(w, m).closing = w.closing
      /\ Send(w, m).local = w.local /\ Send(w, m).remote = w.remote
      /\ Send(w, m).pending = w.pending
  BY <1>2, <1>4 DEF Writer
<1> QED
  BY <1>2, <1>3, <1>5

LEMMA ShowsSend ==
  ASSUME NEW o \in Options, NEW l, NEW a, NEW r, NEW b, NEW k \in Verbs,
         NEW w \in Showing(o, l, a, r, b, "none")
  PROVE  Send(w, Cmd(k, o)) \in Showing(o, l, a, r, b, k)
<1>1. Cmd(k, o) \in WellFormed
  BY CmdWellFormed
<1>2. \A j \in Verbs : Cmd(j, o) = Cmd(k, o) <=> j = k
  BY DEF Cmd
<1>3. \A j \in Verbs : ~Has(w.out, Cmd(j, o))
  BY DEF Showing, Verbs
<1> QED
  BY <1>1, <1>2, <1>3, SendFields DEF Showing

\* The assignments to every other option leave it as it is.
LEMMA ShowingClosed ==
  ASSUME NEW o \in Plain, NEW l, NEW a, NEW r, NEW b, NEW c
  PROVE  Closed(Showing(o, l, a, r, b, c), Options \ {o}, Options \ {"LOGOUT"}, Options)
<1> DEFINE W == Showing(o, l, a, r, b, c)
<1>1. W \subseteq Writer /\ o \in Options
  BY DEF Showing, Plain
<1> SUFFICES ASSUME NEW w \in W
             PROVE  /\ \A p \in Options \ {o}, f \in Flag : SetLocal(w, p, f) \in W
                    /\ \A p \in Options \ {o}, f \in Flag : SetRemote(w, p, f) \in W
                    /\ \A p \in Options \ {o}, k \in {"DO", "WILL"}, f \in Flag :
                         SetPending(w, k, p, f) \in W
                    /\ \A p \in Options, f \in Flag : SetPending(w, "SB", p, f) \in W
                    /\ \A m \in WellFormed : m.cmd = "SB" \/ m.opt # o => Send(w, m) \in W
                    /\ \A p \in Options :
                         /\ [w EXCEPT !.rejected_do = @ \cup {p}] \in W
                         /\ [w EXCEPT !.rejected_will = @ \cup {p}] \in W
                         /\ [w EXCEPT !.directional_refusals = @ \cup {p}] \in W
                    /\ \A p \in {"MCCP2", "MCCP3"} : [w EXCEPT !.mccp = @ \cup {p}] \in W
                    /\ \A n \in Nat : [w EXCEPT !.batches = n] \in W
                    /\ \A n \in {"named", "empty"} : [w EXCEPT !.encoding = n] \in W
  BY <1>1 DEF Closed, Plain, Flag
<1>2. ASSUME NEW p \in Options \ {o}, NEW f \in Flag
      PROVE  SetLocal(w, p, f) \in W /\ SetRemote(w, p, f) \in W
  BY <1>1, <1>2, SetOptionFields DEF Showing
<1>3. ASSUME NEW p \in Options, NEW k \in {"DO", "WILL", "SB"}, NEW f \in Flag,
             p # o \/ k = "SB"
      PROVE  SetPending(w, k, p, f) \in W
  <2>1. /\ <<"WILL", o>> \in Requests /\ <<"DO", o>> \in Requests
        /\ <<"WILL", o>> # <<k, p>> /\ <<"DO", o>> # <<k, p>>
    BY <1>1, <1>3 DEF Requests
  <2>2. w \in Writer
    BY <1>1
  <2>3. <<k, p>> \in Requests
    BY DEF Requests
  <2> QED
    BY <2>1, <2>2, <2>3, SetPendingFields DEF Showing
<1>4. ASSUME NEW m \in WellFormed, m.cmd = "SB" \/ m.opt # o PROVE Send(w, m) \in W
  <2>1. \A k \in Verbs : Cmd(k, o) # m
    BY <1>4 DEF Cmd, Verbs
  <2> QED
    BY <1>1, <2>1, SendFields DEF Showing
<1>5. /\ \A p \in Options :
           /\ [w EXCEPT !.rejected_do = @ \cup {p}] \in W
           /\ [w EXCEPT !.rejected_will = @ \cup {p}] \in W
           /\ [w EXCEPT !.directional_refusals = @ \cup {p}] \in W
      /\ \A p \in {"MCCP2", "MCCP3"} : [w EXCEPT !.mccp = @ \cup {p}] \in W
  BY DEF Showing, Writer
<1>6. /\ \A n \in Nat : [w EXCEPT !.batches = n] \in W
      /\ \A n \in {"named", "empty"} : [w EXCEPT !.encoding = n] \in W
  BY DEF Showing, Writer
<1> QED
  BY <1>2, <1>3, <1>4, <1>5, <1>6

-----------------------------------------------------------------------------
(***************************************************************************)
(* iac() and feed_byte on the option itself.                               *)
(***************************************************************************)
LEMMA NegotiableOption ==
  ASSUME NEW o \in Negotiable
  PROVE  o \in Plain /\ o \in Options /\ o \notin {"TM", "LOGOUT"} /\ o \notin Silent
BY DEF Negotiable, Plain, Stateless

LEMMA IacDoShows ==
  ASSUME NEW o \in Negotiable, NEW l, NEW a, NEW r, NEW b,
         NEW w \in Showing(o, l, a, r, b, "none")
  PROVE  /\ r = "on" => IacDo(w, o) \in Showing(o, l, a, r, "off", "none")
         /\ r # "on" /\ b = "on" => IacDo(w, o) \in Showing(o, l, a, r, b, "none")
         /\ r # "on" /\ b # "on" => IacDo(w, o) \in Showing(o, l, a, r, "on", "DO")
<1>1. o \in Options /\ o \notin {"TM", "LOGOUT"}
  BY NegotiableOption
<1>2. \A f \in {"on", "off"} : SetPending(w, "DO", o, f) \in Showing(o, l, a, r, f, "none")
  BY <1>1, ShowsPending DEF Flag
<1>3. (Remote(w, o) <=> r = "on") /\ (Pending(w, "DO", o) <=> b = "on")
  BY DEF Showing, Remote, Pending
<1>4. Send(SetPending(w, "DO", o, "on"), Cmd("DO", o)) \in Showing(o, l, a, r, "on", "DO")
  BY <1>1, <1>2, ShowsSend DEF Flag, Verbs
<1> QED
  BY <1>1, <1>2, <1>3, <1>4 DEF IacDo, Flag

LEMMA IacWillShows ==
  ASSUME NEW o \in Negotiable, NEW l, NEW a, NEW r, NEW b,
         NEW w \in Showing(o, l, a, r, b, "none")
  PROVE  /\ a = "on" => IacWill(w, o) \in Showing(o, l, a, r, b, "none")
         /\ a # "on" /\ l = "on" => IacWill(w, o) \in Showing(o, l, "off", r, b, "none")
         /\ a # "on" /\ l # "on" => IacWill(w, o) \in Showing(o, l, "on", r, b, "WILL")
<1>1. o \in Options /\ o \notin {"TM", "LOGOUT"}
  BY NegotiableOption
<1>2. \A f \in {"on", "off"} : SetPending(w, "WILL", o, f) \in Showing(o, l, f, r, b, "none")
  BY <1>1, ShowsPending DEF Flag
<1>3. (Local(w, o) <=> l = "on") /\ (Pending(w, "WILL", o) <=> a = "on")
  BY DEF Showing, Local, Pending
<1>4. Send(SetPending(w, "WILL", o, "on"), Cmd("WILL", o)) \in Showing(o, l, "on", r, b, "WILL")
  BY <1>1, <1>2, ShowsSend DEF Flag, Verbs
<1> QED
  BY <1>1, <1>2, <1>3, <1>4 DEF IacWill, Flag

LEMMA IacDontShows ==
  ASSUME NEW o \in Negotiable, NEW l, NEW a, NEW r, NEW b,
         NEW w \in Showing(o, l, a, r, b, "none")
  PROVE  /\ r = "off" => IacDont(w, o) \in Showing(o, l, a, r, b, "none")
         /\ r # "off" => IacDont(w, o) \in Showing(o, l, a, "off", b, "DONT")
<1>1. o \in Options /\ o \notin {"TM", "LOGOUT"}
  BY NegotiableOption
<1>2. SetRemote(w, o, "off") \in Showing(o, l, a, "off", b, "none")
  BY <1>1, ShowsRemote DEF Flag
<1>3. Send(SetRemote(w, o, "off"), Cmd("DONT", o)) \in Showing(o, l, a, "off", b, "DONT")
  BY <1>1, <1>2, ShowsSend DEF Verbs
<1>4. w.remote[o] = r
  BY DEF Showing
<1> QED
  BY <1>1, <1>3, <1>4 DEF IacDont

LEMMA IacWontShows ==
  ASSUME NEW o \in Negotiable, NEW l, NEW a, NEW r, NEW b,
         NEW w \in Showing(o, l, a, r, b, "none")
  PROVE  IacWont(w, o) \in Showing(o, "off", a, r, b, "WONT")
<1>1. o \in Options
  BY NegotiableOption
<1>2. SetLocal(w, o, "off") \in Showing(o, "off", a, r, b, "none")
  BY <1>1, ShowsLocal DEF Flag
<1> QED
  BY <1>1, <1>2, ShowsSend DEF IacWont, Verbs

\* Clear leaves the flag as it was or off, and never on.
LEMMA ClearShows ==
  ASSUME NEW o \in Options, NEW l, NEW a, NEW r, NEW b, NEW c,
         NEW w \in Showing(o, l, a, r, b, c)
  PROVE  /\ \E x \in {a, "off"} : x # "on" /\ Clear(w, "WILL", o) \in Showing(o, l, x, r, b, c)
         /\ \E x \in {b, "off"} : x # "on" /\ Clear(w, "DO", o) \in Showing(o, l, a, r, x, c)
<1>1. /\ SetPending(w, "WILL", o, "off") \in Showing(o, l, "off", r, b, c)
      /\ SetPending(w, "DO", o, "off") \in Showing(o, l, a, r, "off", c)
  BY ShowsPending DEF Flag
<1>2. (Pending(w, "WILL", o) <=> a = "on") /\ (Pending(w, "DO", o) <=> b = "on")
  BY DEF Showing, Pending
<1> QED
  BY <1>1, <1>2 DEF Clear

\* What an option's own agreement makes a writer do next does not change what
\* it shows of the option.
LEMMA FollowShows ==
  ASSUME NEW o \in Negotiable, NEW l, NEW a, NEW r, NEW b, NEW c, NEW e \in Ends,
         NEW w \in Showing(o, l, a, r, b, c)
  PROVE  /\ FollowWill(w, o) \in Showing(o, l, a, r, b, c)
         /\ FollowDo(w, e, o) \in Showing(o, l, a, r, b, c)
         /\ \A s : FeedSub(w, e, o, s) \in Showing(o, l, a, r, b, c)
         /\ /\ [w EXCEPT !.rejected_do = @ \cup {o}] \in Showing(o, l, a, r, b, c)
            /\ [w EXCEPT !.rejected_will = @ \cup {o}] \in Showing(o, l, a, r, b, c)
            /\ [w EXCEPT !.directional_refusals = @ \cup {o}] \in Showing(o, l, a, r, b, c)
<1> DEFINE W == Showing(o, l, a, r, b, c)
<1>1. o \in Plain /\ o \in Options
  BY NegotiableOption
<1>2. Closed(W, Options \ {o}, Options \ {"LOGOUT"}, Options) /\ w \in W
  BY <1>1, ShowingClosed
<1> HIDE DEF W
<1>3. FollowWill(w, o) \in W
  BY <1>1, <1>2, FollowWillStays
<1>4. FollowDo(w, e, o) \in W
  BY <1>1, <1>2, FollowDoStays
<1>5. \A s : FeedSub(w, e, o, s) \in W
  BY <1>1, <1>2, FeedSubStays
<1>6. /\ [w EXCEPT !.rejected_do = @ \cup {o}] \in W
      /\ [w EXCEPT !.rejected_will = @ \cup {o}] \in W
      /\ [w EXCEPT !.directional_refusals = @ \cup {o}] \in W
  BY <1>1, <1>2, RefusedStays
<1> QED
  BY <1>3, <1>4, <1>5, <1>6 DEF W

\* What two showings of the same option, before and after, say of a callback.
LEMMA SidesOf ==
  ASSUME NEW o, NEW l, NEW a, NEW r, NEW b, NEW w \in Showing(o, l, a, r, b, "none"),
         NEW m, NEW x, NEW s, NEW y, NEW c, NEW u \in Showing(o, m, x, s, y, c)
  PROVE  /\ (Local(w, o) <=> l = "on") /\ (Pending(w, "WILL", o) <=> a = "on")
         /\ (Remote(w, o) <=> r = "on") /\ (Pending(w, "DO", o) <=> b = "on")
         /\ (Local(u, o) <=> m = "on") /\ (Pending(u, "WILL", o) <=> x = "on")
         /\ (Remote(u, o) <=> s = "on") /\ (Pending(u, "DO", o) <=> y = "on")
         /\ Has(u.out, Cmd("WILL", o)) <=> c = "WILL"
         /\ Has(u.out, Cmd("WONT", o)) <=> c = "WONT"
         /\ (Has(u.out, Cmd("DO", o)) <=> c = "DO") /\ (Has(u.out, Cmd("DONT", o)) <=> c = "DONT")
BY DEF Showing, Local, Remote, Pending, Verbs

\* The verdicts of an end that is asked for what its peer would accept.
LEMMA VerdictOfAsked ==
  ASSUME NEW e \in Ends, NEW o \in Negotiable, Agrees(Peer(e), o)
  PROVE  DoVerdict(e, o) \in {"decline", "withhold", "agree", "offer", "unsupported"}
<1>1. o \notin {"TM", "LOGOUT"} /\ o \notin Silent
  BY NegotiableOption
<1>2. e = "client" => o # "ECHO"
  BY DEF Agrees, WillVerdict, Peer
<1>3. e = "server" => o \notin ServerWont
  BY DEF Agrees, WillVerdict, Peer, ServerWont, Queried
<1> QED
  BY <1>1, <1>2, <1>3 DEF DoVerdict

LEMMA FeedDoShows ==
  ASSUME NEW e \in Ends, NEW o \in Negotiable, Agrees(Peer(e), o),
         NEW l, NEW a, NEW r, NEW b, NEW w \in Showing(o, l, a, r, b, "none")
  PROVE  \E x, c :
           /\ FeedDo(w, e, o) \in Showing(o, OnOff(DoAnswer(e, o)), x, r, b, c) /\ x # "on"
           /\ DoAnswer(e, o) => c = IF l = "on" \/ a = "on" THEN "none" ELSE "WILL"
           /\ ~DoAnswer(e, o) /\ l # "on" => c = "WONT"
           /\ c \in {"none", "WILL", "WONT"}
<1> DEFINE v == DoVerdict(e, o)
           h == HandleDo(w, e, o)
<1>1. o \in Options
  BY NegotiableOption
<1>2. v \in {"decline", "withhold", "agree", "offer", "unsupported"}
  BY VerdictOfAsked
<1>3. Local(w, o) <=> l = "on"
  BY DEF Showing, Local
<1>4. ASSUME NEW y, NEW c, NEW m, h \in Showing(o, m, y, r, b, c)
      PROVE  \E x : FeedDo(w, e, o) \in Showing(o, OnOff(DoAnswer(e, o)), x, r, b, c) /\ x # "on"
  <2>1. OnOff(DoAnswer(e, o)) \in Flag
    BY DEF OnOff, Flag
  <2>2. SetLocal(h, o, OnOff(DoAnswer(e, o))) \in Showing(o, OnOff(DoAnswer(e, o)), y, r, b, c)
    BY <1>1, <1>4, <2>1, ShowsLocal
  <2>3. FeedDo(w, e, o) = Clear(SetLocal(h, o, OnOff(DoAnswer(e, o))), "WILL", o)
    BY <1>2 DEF FeedDo
  <2> QED
    BY <1>1, <2>2, <2>3, ClearShows
<1>5. CASE v \in {"agree", "offer"}
  <2> DEFINE g == WillUnlessLocal(w, o)
             c == IF l = "on" \/ a = "on" THEN "none" ELSE "WILL"
  <2>1. \E y, m : g \in Showing(o, m, y, r, b, c)
    BY <1>3, IacWillShows DEF WillUnlessLocal
  <2>2. PICK y, m : g \in Showing(o, m, y, r, b, c)
    BY <2>1
  <2>3. h \in Showing(o, m, y, r, b, c)
    BY <1>5, <2>2, FollowShows DEF HandleDo
  <2>4. DoAnswer(e, o)
    BY <1>5 DEF DoAnswer
  <2> QED
    BY <1>4, <2>3, <2>4
<1>6. CASE v \in {"decline", "withhold", "unsupported"}
  <2>1. ~DoAnswer(e, o)
    BY <1>6 DEF DoAnswer
  <2>2. ASSUME NEW z \in Showing(o, l, a, r, b, "none")
        PROVE  \E m, c : /\ WontUnlessLocal(z, o) \in Showing(o, m, a, r, b, c)
                         /\ c \in {"none", "WONT"} /\ (l # "on" => c = "WONT")
    <3>1. Local(z, o) <=> l = "on"
      BY DEF Showing, Local
    <3> QED
      BY <3>1, IacWontShows DEF WontUnlessLocal
  <2>3. \E m, c : /\ h \in Showing(o, m, a, r, b, c)
                  /\ c \in {"none", "WONT"} /\ (l # "on" => c = "WONT")
    <3>1. CASE v = "decline"
      BY <2>2, <3>1 DEF HandleDo
    <3>2. CASE v = "withhold"
      BY <3>2, IacWontShows DEF HandleDo
    <3>3. CASE v = "unsupported"
      BY <2>2, <3>3, FollowShows DEF HandleDo
    <3> QED
      BY <1>6, <3>1, <3>2, <3>3
  <2> QED
    BY <1>4, <2>1, <2>3
<1> QED
  BY <1>2, <1>5, <1>6

LEMMA FeedWillShows ==
  ASSUME NEW e \in Ends, NEW o \in Negotiable,
         NEW l, NEW a, NEW r, NEW b, NEW w \in Showing(o, l, a, r, b, "none")
  PROVE  \E s, y, c :
           /\ FeedWill(w, e, o) \in Showing(o, l, a, s, y, c) /\ y # "on"
           /\ Agrees(e, o) => s = "on" /\ c = IF r = "on" \/ b = "on" THEN "none" ELSE "DO"
           /\ ~Agrees(e, o) => (s = "on" => r = "on") /\ c \in {"none", "DONT"}
<1> DEFINE v == WillVerdict(e, o)
           h == HandleWill(w, e, o)
<1>1. o \in Options /\ o \notin {"TM", "LOGOUT"} /\ o \notin Silent
  BY NegotiableOption
<1>2. v \in {"agree", "accept", "refuse", "illegal", "misdirected", "unhandled"}
  BY <1>1 DEF WillVerdict, Silent, Queried
<1>3. \A s, y, c : h \in Showing(o, l, a, s, y, c) =>
        \E z : FeedWill(w, e, o) \in Showing(o, l, a, s, z, c) /\ z # "on"
  BY <1>1, ClearShows DEF FeedWill
<1>4. CASE Agrees(e, o)
  <2> DEFINE c == IF r = "on" \/ b = "on" THEN "none" ELSE "DO"
  <2>1. Remote(w, o) <=> r = "on"
    BY DEF Showing, Remote
  <2>2. r # "on" => \E y : IacDo(w, o) \in Showing(o, l, a, r, y, c)
    BY IacDoShows
  <2>3. \E y : Accept(w, o) \in Showing(o, l, a, "on", y, c)
    BY <1>1, <2>1, <2>2, ShowsRemote DEF Accept, Flag
  <2>4. \E y : h \in Showing(o, l, a, "on", y, c)
    BY <1>4, <2>3, FollowShows DEF HandleWill, Agrees
  <2> QED
    BY <1>3, <1>4, <2>4
<1>5. CASE ~Agrees(e, o)
  <2>1. v \in {"refuse", "illegal", "misdirected", "unhandled"}
    BY <1>2, <1>5 DEF Agrees
  <2>2. \E s, c : /\ IacDont(w, o) \in Showing(o, l, a, s, b, c)
                  /\ (s = "on" => r = "on") /\ c \in {"none", "DONT"}
    BY IacDontShows
  <2>3. \E s, y, c : /\ h \in Showing(o, l, a, s, y, c)
                     /\ (s = "on" => r = "on") /\ c \in {"none", "DONT"}
    <3>1. CASE v = "illegal"
      BY <3>1 DEF HandleWill
    <3>2. CASE v = "refuse"
      BY <1>1, <2>2, <3>2, ShowsRemote DEF HandleWill, Flag
    <3>3. CASE v = "misdirected"
      BY <2>2, <3>3, FollowShows DEF HandleWill
    <3>4. CASE v = "unhandled"
      BY <1>1, <2>2, <3>4, FollowShows, ClearShows, ZenonT(40) DEF HandleWill
    <3> QED
      BY <2>1, <3>1, <3>2, <3>3, <3>4
  <2> QED
    BY <1>3, <1>5, <2>3
<1> QED
  BY <1>4, <1>5

LEMMA FeedDontShows ==
  ASSUME NEW o \in Negotiable, NEW l, NEW a, NEW r, NEW b,
         NEW w \in Showing(o, l, a, r, b, "none")
  PROVE  /\ FeedDont(w, o) \in Showing(o, "off", "off", r, b, "none")
         /\ FeedWont(w, o) \in Showing(o, l, a, "off", "off", "none")
<1>1. o \in Options /\ o \notin {"TM", "LOGOUT"}
  BY NegotiableOption
<1>2. SetPending(w, "WILL", o, "off") \in Showing(o, l, "off", r, b, "none")
  BY <1>1, ShowsPending DEF Flag
<1>3. HandleWont(w, o) \in Showing(o, l, a, "off", b, "none")
  BY <1>1, ShowsRemote DEF HandleWont, Flag
<1> QED
  BY <1>1, <1>2, <1>3, ShowsLocal, ShowsPending DEF FeedDont, FeedWont, Flag

-----------------------------------------------------------------------------
(***************************************************************************)
(* Callbacks.                                                              *)
(***************************************************************************)
\* A callback that shows nothing new of o.
LEMMA AsideMoves ==
  ASSUME NEW e, NEW o, NEW l, NEW a, NEW r, NEW b, NEW w \in Showing(o, l, a, r, b, "none"),
         NEW u \in Showing(o, l, a, r, b, "none"), NEW k, k \notin Verbs
  PROVE  Performed(e, o, w, u, k) /\ Accepted(e, o, w, u, k)
<1>1. k \notin {"DO", "DONT", "WILL", "WONT"}
  BY DEF Verbs
<1> QED
  BY <1>1, SidesOf DEF Performed, Accepted

\* A command about o taken from the wire.
LEMMA FeedMoves ==
  ASSUME NEW e \in Ends, NEW o \in Negotiable,
         NEW l, NEW a, NEW r, NEW b, NEW w \in Showing(o, l, a, r, b, "none"),
         NEW m \in WellFormed, m.opt = o, m.cmd = "DO" => Agrees(Peer(e), o)
  PROVE  /\ Feed(w, e, m) \in Writer /\ Feed(w, e, m).out \in Seq(WellFormed)
         /\ Performed(e, o, w, Feed(w, e, m), m.cmd)
         /\ Accepted(e, o, w, Feed(w, e, m), m.cmd)
<1> DEFINE u == Feed(w, e, m)
<1>1. m.cmd \in Verbs \cup {"SB"}
  BY DEF WellFormed, Message
<1>2. \A n, x, s, y, c : u \in Showing(o, n, x, s, y, c) =>
        u \in Writer /\ u.out \in Seq(WellFormed)
  BY DEF Showing
<1>3. CASE m.cmd = "DO"
  <2>1. u = FeedDo(w, e, o)
    BY <1>3 DEF Feed
  <2>2. PICK x, c :
          /\ u \in Showing(o, OnOff(DoAnswer(e, o)), x, r, b, c) /\ x # "on"
          /\ DoAnswer(e, o) => c = IF l = "on" \/ a = "on" THEN "none" ELSE "WILL"
          /\ ~DoAnswer(e, o) /\ l # "on" => c = "WONT"
          /\ c \in {"none", "WILL", "WONT"}
    BY <1>3, <2>1, FeedDoShows
  <2>3. OnOff(DoAnswer(e, o)) = "on" <=> DoAnswer(e, o)
    BY DEF OnOff
  <2> HIDE DEF u
  <2>4. Performed(e, o, w, u, "DO")
    BY <2>2, <2>3, SidesOf DEF Performed
  <2>5. Accepted(e, o, w, u, "DO")
    BY <2>2, SidesOf DEF Accepted
  <2> QED
    BY <1>2, <1>3, <2>2, <2>4, <2>5 DEF u
<1>4. CASE m.cmd = "DONT"
  <2>1. u \in Showing(o, "off", "off", r, b, "none")
    BY <1>4, FeedDontShows DEF Feed
  <2> HIDE DEF u
  <2>2. Performed(e, o, w, u, "DONT") /\ Accepted(e, o, w, u, "DONT")
    BY <2>1, SidesOf DEF Performed, Accepted
  <2> QED
    BY <1>2, <1>4, <2>1, <2>2 DEF u
<1>5. CASE m.cmd = "WILL"
  <2>1. u = FeedWill(w, e, o)
    BY <1>5 DEF Feed
  <2>2. PICK s, y, c :
          /\ u \in Showing(o, l, a, s, y, c) /\ y # "on"
          /\ Agrees(e, o) => s = "on" /\ c = IF r = "on" \/ b = "on" THEN "none" ELSE "DO"
          /\ ~Agrees(e, o) => (s = "on" => r = "on") /\ c \in {"none", "DONT"}
    BY <2>1, FeedWillShows
  <2> HIDE DEF u
  <2>3. Performed(e, o, w, u, "WILL")
    BY <2>2, SidesOf DEF Performed
  <2>4. Accepted(e, o, w, u, "WILL")
    BY <2>2, SidesOf DEF Accepted
  <2> QED
    BY <1>2, <1>5, <2>2, <2>3, <2>4 DEF u
<1>6. CASE m.cmd = "WONT"
  <2>1. u \in Showing(o, l, a, "off", "off", "none")
    BY <1>6, FeedDontShows DEF Feed
  <2> HIDE DEF u
  <2>2. Performed(e, o, w, u, "WONT") /\ Accepted(e, o, w, u, "WONT")
    BY <2>1, SidesOf DEF Performed, Accepted
  <2> QED
    BY <1>2, <1>6, <2>1, <2>2 DEF u
<1>7. CASE m.cmd = "SB"
  <2>1. u \in Showing(o, l, a, r, b, "none")
    BY <1>7, FollowShows DEF Feed
  <2> HIDE DEF u
  <2>2. Performed(e, o, w, u, "SB") /\ Accepted(e, o, w, u, "SB")
    BY <2>1, AsideMoves DEF Verbs
  <2> QED
    BY <1>2, <1>7, <2>1, <2>2 DEF u
<1> QED
  BY <1>1, <1>3, <1>4, <1>5, <1>6, <1>7 DEF Verbs

\* iac() on o itself.
LEMMA IacMoves ==
  ASSUME NEW e \in Ends, NEW o \in Negotiable, NEW c \in Verbs,
         NEW l, NEW a, NEW r, NEW b, NEW w \in Showing(o, l, a, r, b, "none"),
         <<e, c, o>> \in AppCalls, c = "DO" => Agrees(e, o),
         c = "DONT" => Remote(w, o), c = "WONT" => Local(w, o)
  PROVE  /\ Iac(w, c, o) \in Writer /\ Iac(w, c, o).out \in Seq(WellFormed)
         /\ Performed(e, o, w, Iac(w, c, o), "none")
         /\ Accepted(e, o, w, Iac(w, c, o), "none")
<1> DEFINE u == Iac(w, c, o)
<1>1. \A n, x, s, y, d : u \in Showing(o, n, x, s, y, d) =>
        u \in Writer /\ u.out \in Seq(WellFormed)
  BY DEF Showing
<1>2. (Local(w, o) <=> l = "on") /\ (Remote(w, o) <=> r = "on")
  BY DEF Showing, Local, Remote
<1>3. CASE c = "DO"
  <2>1. \E y, d : /\ u \in Showing(o, l, a, r, y, d)
                  /\ \/ d = "none" /\ y = b
                     \/ d = "none" /\ y = "off" /\ r = "on"
                     \/ d = "DO" /\ y = "on" /\ r # "on" /\ b # "on"
    BY <1>3, IacDoShows DEF Iac
  <2>2. PICK y, d : /\ u \in Showing(o, l, a, r, y, d)
                    /\ \/ d = "none" /\ y = b
                       \/ d = "none" /\ y = "off" /\ r = "on"
                       \/ d = "DO" /\ y = "on" /\ r # "on" /\ b # "on"
    BY <2>1
  <2> HIDE DEF u
  <2>3. Performed(e, o, w, u, "none") /\ Accepted(e, o, w, u, "none")
    BY <1>3, <2>2, SidesOf DEF Performed, Accepted
  <2> QED
    BY <1>1, <2>2, <2>3 DEF u
<1>4. CASE c = "WILL"
  <2>1. \E x, d : /\ u \in Showing(o, l, x, r, b, d)
                  /\ \/ d = "none" /\ (x = "on" <=> a = "on")
                     \/ d = "WILL" /\ x = "on" /\ l # "on" /\ a # "on"
    BY <1>4, IacWillShows DEF Iac
  <2>2. PICK x, d : /\ u \in Showing(o, l, x, r, b, d)
                    /\ \/ d = "none" /\ (x = "on" <=> a = "on")
                       \/ d = "WILL" /\ x = "on" /\ l # "on" /\ a # "on"
    BY <2>1
  <2> HIDE DEF u
  <2>3. Performed(e, o, w, u, "none") /\ Accepted(e, o, w, u, "none")
    BY <1>4, <2>2, SidesOf DEF Performed, Accepted
  <2> QED
    BY <1>1, <2>2, <2>3 DEF u
<1>5. CASE c = "DONT"
  <2>1. u \in Showing(o, l, a, "off", b, "DONT") /\ r = "on"
    BY <1>2, <1>5, IacDontShows DEF Iac
  <2> HIDE DEF u
  <2>2. Performed(e, o, w, u, "none") /\ Accepted(e, o, w, u, "none")
    BY <2>1, SidesOf DEF Performed, Accepted
  <2> QED
    BY <1>1, <2>1, <2>2 DEF u
<1>6. CASE c = "WONT"
  <2>1. u \in Showing(o, "off", a, r, b, "WONT") /\ l = "on"
    BY <1>2, <1>6, IacWontShows DEF Iac
  <2> HIDE DEF u
  <2>2. Performed(e, o, w, u, "none") /\ Accepted(e, o, w, u, "none")
    BY <2>1, SidesOf DEF Performed, Accepted
  <2> QED
    BY <1>1, <2>1, <2>2 DEF u
<1> QED
  BY <1>3, <1>4, <1>5, <1>6 DEF Verbs

\* A command that is taken, or none, leaves the rest of the wire.
LEMMA TakenFromWire ==
  ASSUME NEW o \in Options, NEW q \in Seq(WellFormed), q # <<>>
  PROVE  Taken(o, q, Tail(q), IF Head(q).opt = o THEN Head(q).cmd ELSE "none")
<1> DEFINE m == Head(q)
           k == IF m.opt = o THEN m.cmd ELSE "none"
<1>1. m \in WellFormed
  BY HeadTailProperties
<1>2. ASSUME NEW c \in Verbs PROVE m = Cmd(c, o) <=> c = k
  <2>1. m = [cmd |-> m.cmd, opt |-> m.opt, sub |-> m.sub]
    BY <1>1 DEF WellFormed, Message
  <2>2. c # "SB" /\ c # "none"
    BY DEF Verbs
  <2>3. m.cmd # "SB" => m.sub = "none"
    BY <1>1 DEF WellFormed
  <2>4. Cmd(c, o) = [cmd |-> c, opt |-> o, sub |-> "none"]
    BY DEF Cmd
  <2>5. m.cmd = c /\ m.opt = o => m = Cmd(c, o)
    BY <2>1, <2>2, <2>3, <2>4
  <2>6. m = Cmd(c, o) => m.cmd = c /\ m.opt = o
    BY <2>4
  <2> QED
    BY <2>2, <2>5, <2>6
<1>3. ASSUME NEW c \in Verbs, NEW d \in Verbs
      PROVE  /\ Has(q, Cmd(c, o)) <=> m = Cmd(c, o) \/ Has(Tail(q), Cmd(c, o))
             /\ EndsIn(q, Cmd(c, o), Cmd(d, o)) <=>
                  \/ EndsIn(Tail(q), Cmd(c, o), Cmd(d, o))
                  \/ m = Cmd(c, o) /\ ~Has(Tail(q), Cmd(d, o))
  BY HasTaken, EndsInTaken
<1> HIDE DEF m, k
<1>4. Taken(o, q, Tail(q), k)
  BY <1>2, <1>3 DEF Taken
<1> QED
  BY <1>4 DEF m, k

LEMMA NothingTaken == ASSUME NEW o, NEW q PROVE Taken(o, q, q, "none")
BY DEF Taken, Verbs

LEMMA AddedToWire ==
  ASSUME NEW o, NEW p \in Seq(WellFormed), NEW s \in Seq(WellFormed)
  PROVE  Added(o, p, s, p \o s)
BY HasAdded, EndsInAdded DEF Added

\* The server that obeys DO LOGOUT closes.
LEMMA LogoutCloses ==
  ASSUME NEW w \in Writer, NEW e \in Ends, "LOGOUT" \in Options,
         DoVerdict(e, "LOGOUT") = "logout"
  PROVE  FeedDo(w, e, "LOGOUT").closing
<1> DEFINE h == [w EXCEPT !.closing = TRUE]
           g == SetLocal(h, "LOGOUT", OnOff(DoAnswer(e, "LOGOUT")))
<1>1. FeedDo(w, e, "LOGOUT") = Clear(g, "WILL", "LOGOUT")
  BY DEF FeedDo, HandleDo
<1>2. h \in Writer /\ h.closing
  BY DEF Writer
<1>3. OnOff(DoAnswer(e, "LOGOUT")) \in Flag /\ "off" \in Flag
  BY DEF OnOff, Flag
<1> HIDE DEF h
<1>4. g \in Writer /\ g.closing
  BY <1>2, <1>3, SetOptionFields
<1> HIDE DEF g
<1>5. <<"WILL", "LOGOUT">> \in Requests
  BY DEF Requests
<1>6. SetPending(g, "WILL", "LOGOUT", "off").closing
  BY <1>3, <1>4, <1>5, SetPendingFields
<1> QED
  BY <1>1, <1>4, <1>6 DEF Clear

\* A command about another option.
LEMMA FeedOther ==
  ASSUME NEW e \in Ends, NEW o \in Negotiable,
         NEW l, NEW a, NEW r, NEW b, NEW c, NEW w \in Showing(o, l, a, r, b, c),
         NEW m \in WellFormed, m.opt # o, ~Feed(w, e, m).closing
  PROVE  Feed(w, e, m) \in Showing(o, l, a, r, b, c)
<1> DEFINE W == Showing(o, l, a, r, b, c)
<1>1. Closed(W, Options \ {o}, Options \ {"LOGOUT"}, Options) /\ w \in W
  BY NegotiableOption, ShowingClosed
<1>2. m.opt \in Options \ {o} /\ m.cmd \in Verbs \cup {"SB"}
  BY DEF WellFormed, Message
<1>3. m.cmd = "DO" /\ DoAnswer(e, m.opt) /\ DoVerdict(e, m.opt) # "illegal"
        => m.opt \in Options \ {"LOGOUT"}
  <2> SUFFICES ASSUME m.cmd = "DO", m.opt = "LOGOUT",
                      DoAnswer(e, "LOGOUT"), DoVerdict(e, "LOGOUT") # "illegal"
               PROVE  FALSE
    BY <1>2
  <2>1. DoVerdict(e, "LOGOUT") = "logout"
    BY DEF DoVerdict, DoAnswer, MudOptions, DoSupported, ServerWont
  <2>2. w \in Writer
    BY DEF Showing
  <2>3. FeedDo(w, e, "LOGOUT").closing
    BY <1>2, <2>1, <2>2, LogoutCloses
  <2> QED
    BY <2>3 DEF Feed
<1>4. WillVerdict(e, m.opt) = "charset" => m.opt \in Options \ {"LOGOUT"}
  BY <1>2 DEF WillVerdict
<1> HIDE DEF W
<1>5. Feed(w, e, m) \in W
  BY <1>1, <1>2, <1>3, <1>4, FeedStays
<1> QED
  BY <1>5 DEF W

\* A call about another option, or a question.
LEMMA CallOther ==
  ASSUME NEW e \in Ends, NEW o \in Negotiable,
         NEW l, NEW a, NEW r, NEW b, NEW c, NEW w \in Showing(o, l, a, r, b, c)
  PROVE  /\ \A k \in Verbs, p \in Options \ {o} : Iac(w, k, p) \in Showing(o, l, a, r, b, c)
         /\ \A p \in Options \cap Requestable : Request(w, e, p) \in Showing(o, l, a, r, b, c)
         /\ "NAWS" \in Options => _send_naws(w) \in Showing(o, l, a, r, b, c)
<1> DEFINE W == Showing(o, l, a, r, b, c)
<1>1. Closed(W, Options \ {o}, Options \ {"LOGOUT"}, Options) /\ w \in W
  BY NegotiableOption, ShowingClosed
<1> HIDE DEF W
<1>2. /\ \A k \in Verbs, p \in Options \ {o} : Iac(w, k, p) \in W
      /\ \A p \in Options \cap Requestable : Request(w, e, p) \in W
      /\ "NAWS" \in Options => _send_naws(w) \in W
  BY <1>1, IacStays, RequestStays, _send_nawsStays
<1> QED
  BY <1>2 DEF W

\* Every callback of an end that stays open, as it concerns o.
LEMMA StepMoves ==
  ASSUME TypeOK, Carried, AsksInEarnest, NEW e \in Ends, NEW o \in Negotiable,
         ~writer[e].closing, ~writer'[e].closing,
         Has(wire[e], Cmd("DO", o)) => Agrees(Peer(e), o),
         Calls(e) \/ Receive(e)
  PROVE  \E u, t, k :
           /\ Becomes(e, u, t) /\ u \in Writer /\ u.out \in Seq(WellFormed)
           /\ Taken(o, wire[e], t, k)
           /\ Performed(e, o, writer[e], u, k) /\ Accepted(e, o, writer[e], u, k)
<1> DEFINE w == writer[e]
           l == w.local[o]
           a == w.pending[<<"WILL", o>>]
           r == w.remote[o]
           b == w.pending[<<"DO", o>>]
<1>1. w \in Writer /\ w.out = <<>> /\ o \in Options
  BY NegotiableOption DEF TypeOK
<1>2. w \in Showing(o, l, a, r, b, "none")
  BY <1>1, Reveals
<1>3. ASSUME NEW u, NEW t, Becomes(e, u, t), u \in Writer PROVE ~u.closing
  <2> DEFINE v == [u EXCEPT !.out = <<>>]
  <2>1. v.closing = u.closing
    BY <1>3 DEF Writer
  <2>2. writer'[e] = v
    <3>1. writer' = [writer EXCEPT ![e] = v] /\ writer \in [Ends -> Writer]
      BY <1>3 DEF Becomes, TypeOK
    <3> QED
      BY <3>1
  <2> QED
    BY <2>1, <2>2
<1> HIDE DEF w, l, a, r, b
<1>4. ASSUME NEW u, u \in Showing(o, l, a, r, b, "none"), Becomes(e, u, wire[e])
      PROVE  \E t, k :
               /\ Becomes(e, u, t) /\ u \in Writer /\ u.out \in Seq(WellFormed)
               /\ Taken(o, wire[e], t, k) /\ Performed(e, o, w, u, k) /\ Accepted(e, o, w, u, k)
  <2>1. u \in Writer /\ u.out \in Seq(WellFormed)
    BY <1>4 DEF Showing
  <2>2. "none" \notin Verbs
    BY DEF Verbs
  <2>3. Performed(e, o, w, u, "none") /\ Accepted(e, o, w, u, "none")
    BY <1>2, <1>4, <2>2, AsideMoves
  <2> QED
    BY <1>4, <2>1, <2>3, NothingTaken
<1>5. ASSUME NEW c \in Verbs, NEW p \in Options, CallIac(e, c, p)
      PROVE  \E u, t, k :
               /\ Becomes(e, u, t) /\ u \in Writer /\ u.out \in Seq(WellFormed)
               /\ Taken(o, wire[e], t, k) /\ Performed(e, o, w, u, k) /\ Accepted(e, o, w, u, k)
  <2> DEFINE u == Iac(w, c, p)
  <2>1. /\ <<e, c, p>> \in AppCalls /\ Becomes(e, u, wire[e])
        /\ c = "DONT" => Remote(w, p)
        /\ c = "WONT" => Local(w, p)
    BY <1>5 DEF CallIac, w
  <2>2. CASE p = o
    <3>1. /\ u \in Writer /\ u.out \in Seq(WellFormed)
          /\ Performed(e, o, w, u, "none") /\ Accepted(e, o, w, u, "none")
      BY <1>2, <2>1, <2>2, IacMoves DEF AsksInEarnest
    <3> QED
      BY <2>1, <3>1, NothingTaken
  <2>3. CASE p # o
    <3>1. u \in Showing(o, l, a, r, b, "none")
      BY <1>2, <2>3, CallOther
    <3> QED
      BY <1>4, <2>1, <3>1
  <2> QED
    BY <2>2, <2>3
<1>6. ASSUME NEW p \in Options \cap Requestable, CallRequest(e, p)
      PROVE  \E u, t, k :
               /\ Becomes(e, u, t) /\ u \in Writer /\ u.out \in Seq(WellFormed)
               /\ Taken(o, wire[e], t, k) /\ Performed(e, o, w, u, k) /\ Accepted(e, o, w, u, k)
  <2>1. Becomes(e, Request(w, e, p), wire[e])
    BY <1>6 DEF CallRequest, w
  <2>2. Request(w, e, p) \in Showing(o, l, a, r, b, "none")
    BY <1>2, CallOther
  <2> QED
    BY <1>4, <2>1, <2>2
<1>7. ASSUME e = "client", Resize
      PROVE  \E u, t, k :
               /\ Becomes(e, u, t) /\ u \in Writer /\ u.out \in Seq(WellFormed)
               /\ Taken(o, wire[e], t, k) /\ Performed(e, o, w, u, k) /\ Accepted(e, o, w, u, k)
  <2>1. Becomes(e, _send_naws(w), wire[e]) /\ "NAWS" \in Options
    BY <1>7 DEF Resize, w
  <2>2. _send_naws(w) \in Showing(o, l, a, r, b, "none")
    BY <1>2, <2>1, CallOther
  <2> QED
    BY <1>4, <2>1, <2>2
<1>8. ASSUME Receive(e)
      PROVE  \E u, t, k :
               /\ Becomes(e, u, t) /\ u \in Writer /\ u.out \in Seq(WellFormed)
               /\ Taken(o, wire[e], t, k) /\ Performed(e, o, w, u, k) /\ Accepted(e, o, w, u, k)
  <2> DEFINE q == wire[e]
             m == Head(q)
             u == Feed(w, e, m)
             k == IF m.opt = o THEN m.cmd ELSE "none"
  <2>1. q # <<>> /\ Becomes(e, u, Tail(q))
    BY <1>8 DEF Receive, w
  <2>2. q \in Seq(WellFormed)
    BY DEF Carried
  <2>3. m \in WellFormed /\ Taken(o, q, Tail(q), k)
    BY <1>1, <2>1, <2>2, HeadTailProperties, TakenFromWire
  <2>4. CASE m.opt = o
    <3>1. m.cmd = "DO" => Agrees(Peer(e), o)
      <4> SUFFICES ASSUME m.cmd = "DO" PROVE Agrees(Peer(e), o)
        OBVIOUS
      <4>1. Has(q, Cmd("DO", o))
        BY <2>3, <2>4 DEF Taken, Verbs
      <4> QED
        BY <4>1
    <3>2. /\ u \in Writer /\ u.out \in Seq(WellFormed)
          /\ Performed(e, o, w, u, m.cmd) /\ Accepted(e, o, w, u, m.cmd)
      <4> HIDE DEF m
      <4> QED
        BY <1>2, <2>3, <2>4, <3>1, FeedMoves
    <3> HIDE DEF u
    <3> QED
      BY <2>1, <2>3, <2>4, <3>2
  <2>5. CASE m.opt # o
    <3>1. u \in Writer
      <4>1. writer[e] \in Within(Options, Options, writer[e].closing)
        BY TypeWithin
      <4>2. w \in Within(Options, Options, FALSE)
        BY <4>1 DEF Within, w
      <4>3. Closed(Within(Options, Options, FALSE), Options, Options, Options)
        BY WithinClosed
      <4>4. m.opt \in Options /\ m.cmd \in Verbs \cup {"SB"}
        BY <2>3 DEF WellFormed, Message
      <4> HIDE DEF m
      <4>5. u \in Within(Options, Options, FALSE)
        BY <2>3, <4>2, <4>3, <4>4, FeedStays
      <4> QED
        BY <4>5 DEF Within
    <3>2. ~u.closing
      BY <1>3, <2>1, <3>1
    <3>3. u \in Showing(o, l, a, r, b, "none")
      BY <1>2, <2>3, <2>5, <3>2, FeedOther
    <3> HIDE DEF u
    <3>4. u.out \in Seq(WellFormed)
      BY <3>3 DEF Showing
    <3>5. Performed(e, o, w, u, "none") /\ Accepted(e, o, w, u, "none")
      BY <1>2, <3>3, AsideMoves DEF Verbs
    <3> QED
      BY <2>1, <2>3, <2>5, <3>1, <3>4, <3>5
  <2> QED
    BY <2>4, <2>5
<1> QED
  BY <1>5, <1>6, <1>7, <1>8 DEF Calls, w

-----------------------------------------------------------------------------
(***************************************************************************)
(* The invariant, and what follows from it.                                *)
(***************************************************************************)
AllAgreed ==
  Open => \A e \in Ends, o \in Negotiable :
            Agreed(e, o, writer[e], writer[Peer(e)], wire[e], wire[Peer(e)])

\* Agreed looks at no more of a writer than its tables.
LEMMA SameTables ==
  ASSUME NEW e, NEW o, NEW w, NEW v, NEW x, NEW y, NEW q, NEW p,
         w.local = x.local, w.pending = x.pending,
         v.remote = y.remote, v.pending = y.pending,
         Agreed(e, o, w, v, q, p)
  PROVE  Agreed(e, o, x, y, q, p)
BY DEF Agreed, Local, Remote, Pending

LEMMA InitAgreed == Init => AllAgreed
<1> SUFFICES ASSUME Init, NEW e \in Ends, NEW o \in Negotiable
             PROVE  Agreed(e, o, writer[e], writer[Peer(e)], wire[e], wire[Peer(e)])
  BY DEF AllAgreed
<1>1. /\ writer[e] = NewWriter /\ writer[Peer(e)] = NewWriter
      /\ wire[e] = <<>> /\ wire[Peer(e)] = <<>>
  BY PeerOfPeer DEF Init
<1>2. /\ ~Local(NewWriter, o) /\ ~Remote(NewWriter, o)
      /\ ~Pending(NewWriter, "WILL", o) /\ ~Pending(NewWriter, "DO", o)
  BY NegotiableOption DEF NewWriter, Local, Remote, Pending, Requests
<1> QED
  BY <1>1, <1>2, NothingOnItsWay DEF Agreed

LEMMA StaysOpen ==
  ASSUME TypeOK, Carried, Next, Open'
  PROVE  Open
<1> DEFINE A == [e \in Ends |-> Options]
           h == [e \in Ends |-> writer[e].closing]
<1>1. \A e \in Ends : writer[e] \in Within(A[e], A[e], h[e])
  BY TypeWithin
<1>2. \A e \in Ends : Bounded(A[e], A[e], e)
  <2>1. \A e \in Ends : Range(wire[e]) \subseteq Message
    BY RangeOfSeq DEF TypeOK
  <2> QED
    BY <2>1 DEF Bounded, Message
<1>3. \A e \in Ends : h[e] = writer[e].closing
  OBVIOUS
<1> HIDE DEF A, h
<1>4. \A e \in Ends : writer'[e] \in Within(A[e], A[e], h[e])
  BY <1>1, <1>2, StepWithin
<1> QED
  BY <1>3, <1>4 DEF Within, Open

LEMMA StepAgreed ==
  ASSUME TypeOK, Carried, AsksInEarnest, AllAgreed, Next
  PROVE  AllAgreed'
<1> SUFFICES ASSUME Open', NEW o \in Negotiable
             PROVE  \A e \in Ends :
                      Agreed(e, o, writer'[e], writer'[Peer(e)], wire'[e], wire'[Peer(e)])
  BY DEF AllAgreed
<1>1. \A e \in Ends : Agreed(e, o, writer[e], writer[Peer(e)], wire[e], wire[Peer(e)])
  BY StaysOpen DEF AllAgreed
<1>2. PICK x \in Ends : Calls(x) \/ Receive(x)
  BY NextCases
<1>3. ~writer[x].closing /\ ~writer'[x].closing
  BY StaysOpen DEF Open
<1>4. Has(wire[x], Cmd("DO", o)) => Agrees(Peer(x), o)
  BY <1>1 DEF Agreed
<1>5. PICK u, t, k :
        /\ Becomes(x, u, t) /\ u \in Writer /\ u.out \in Seq(WellFormed)
        /\ Taken(o, wire[x], t, k)
        /\ Performed(x, o, writer[x], u, k) /\ Accepted(x, o, writer[x], u, k)
  BY <1>2, <1>3, <1>4, StepMoves
<1> DEFINE d == Peer(x)
<1>6. d \in Ends /\ d # x /\ Peer(d) = x /\ \A e \in Ends : e = x \/ e = d
  BY DEF Ends, Peer
<1>7. /\ writer'[d] = writer[d]
      /\ writer'[x] = [u EXCEPT !.out = <<>>]
      /\ wire'[x] = t /\ wire'[d] = wire[d] \o u.out
  BY <1>5, <1>6 DEF Becomes, TypeOK
<1>8. /\ writer'[x].local = u.local /\ writer'[x].remote = u.remote
      /\ writer'[x].pending = u.pending
  BY <1>7 DEF Writer
<1>9. Added(o, wire[d], u.out, wire'[d])
  BY <1>5, <1>6, <1>7, AddedToWire DEF Carried
<1>10. Agreed(x, o, writer'[x], writer'[d], wire'[x], wire'[d])
  <2>1. Agreed(x, o, u, writer[d], t, wire'[d])
    BY <1>1, <1>5, <1>9, PerformerKeeps
  <2> QED
    BY <1>7, <1>8, <2>1, SameTables
<1>11. Agreed(d, o, writer'[d], writer'[x], wire'[d], wire'[x])
  <2>1. Agreed(d, o, writer[d], writer[x], wire[d], wire[x])
    BY <1>1, <1>6
  <2>2. Agreed(d, o, writer[d], u, wire'[d], t)
    BY <1>5, <1>6, <1>9, <2>1, BelieverKeeps
  <2> QED
    BY <1>7, <1>8, <2>2, SameTables
<1> QED
  BY <1>6, <1>10, <1>11

\* Where no end asks for what it would refuse, the invariant holds.
THEOREM AgreedInvariant == ASSUME AsksInEarnest PROVE Spec => []AllAgreed
<1>1. TypeOK /\ Carried /\ AllAgreed /\ [Next]_vars => AllAgreed'
  <2> SUFFICES ASSUME TypeOK, Carried, AllAgreed, [Next]_vars PROVE AllAgreed'
    OBVIOUS
  <2>1. CASE Next
    BY <2>1, StepAgreed
  <2>2. CASE UNCHANGED vars
    BY <2>2 DEF vars, AllAgreed, Open
  <2> QED
    BY <2>1, <2>2
<1> QED
  BY <1>1, InitAgreed, TypeCorrect, PTL DEF Spec

\* Agreement, of the options of S alone.
AgreementOf(S) ==
  Quiet => \A e \in Ends, o \in S :
    /\ Local(writer[e], o) /\ e \in Performers(o) => Remote(writer[Peer(e)], o)
    /\ Remote(writer[e], o) /\ o \notin Silent \cup Stateless => Local(writer[Peer(e)], o)

LEMMA AgreedAgree == AllAgreed => AgreementOf(Plain)
<1> SUFFICES ASSUME AllAgreed, Quiet, NEW e \in Ends, NEW o \in Plain
             PROVE  /\ Local(writer[e], o) /\ e \in Performers(o) => Remote(writer[Peer(e)], o)
                    /\ Remote(writer[e], o) /\ o \notin Silent \cup Stateless
                         => Local(writer[Peer(e)], o)
  BY DEF AgreementOf
<1>1. CASE o \in Stateless
  <2>1. Performers(o) = {}
    BY <1>1 DEF Performers, Stateless, ServerOnly, ServerWont
  <2> QED
    BY <1>1, <2>1
<1>2. CASE o \notin Stateless
  <2>1. o \in Negotiable /\ Open /\ wire[e] = <<>> /\ wire[Peer(e)] = <<>>
    BY <1>2, PeerOfPeer DEF Negotiable, Quiet
  <2>2. /\ Peer(e) \in Ends /\ Peer(Peer(e)) = e
        /\ Agreed(e, o, writer[e], writer[Peer(e)], <<>>, <<>>)
        /\ Agreed(Peer(e), o, writer[Peer(e)], writer[e], <<>>, <<>>)
    BY <2>1 DEF AllAgreed, Peer, Ends
  <2> QED
    BY <2>2, NothingOnItsWay DEF Agreed
<1> QED
  BY <1>1, <1>2

\* When nothing is in flight the tables of the two ends agree on every option
\* that is negotiated by its own commands alone, whatever else is negotiated.
THEOREM PlainOptionsAgree == ASSUME AsksInEarnest PROVE Spec => []AgreementOf(Plain)
BY AgreedInvariant, AgreedAgree, PTL

\* The whole of Agreement, where those are all the options there are.
THEOREM AgreementHolds ==
  ASSUME AsksInEarnest, Options \cap (Silent \cup {"NAWS"}) = {}
  PROVE  Spec => []Agreement
<1>1. AgreementOf(Plain) => Agreement
  BY DEF AgreementOf, Agreement, Plain
<1> QED
  BY <1>1, PlainOptionsAgree, PTL

LEMMA FlyingHas == ASSUME NEW e, NEW m PROVE Flying(e, m) <=> Has(wire[e], m)
BY DEF Flying, Has, Range

\* A pending request or offer has its answer coming, from the invariant; and
\* no question is pending where no option has one.
LEMMA AgreedAnswered ==
  ASSUME AllAgreed, Carried, OffersInEarnest, Options \cap Questioned = {}
  PROVE  Answered
<1> SUFFICES ASSUME Open
             PROVE  RequestsAnswered /\ OffersAnswered /\ QuestionsAnswered /\ BatchesFollow
  BY DEF Answered, RequestsAnswered, OffersAnswered, QuestionsAnswered, BatchesFollow
<1>1. Options \ Stateless = Negotiable
  BY DEF Negotiable, Plain, Questioned
<1>2. \A e \in Ends, o \in Negotiable :
        Agreed(e, o, writer[e], writer[Peer(e)], wire[e], wire[Peer(e)])
  BY DEF AllAgreed
<1>3. RequestsAnswered
  <2> SUFFICES ASSUME NEW e \in Ends, NEW o \in Negotiable, Pending(writer[e], "DO", o)
               PROVE  \/ Has(wire[Peer(e)], Cmd("DO", o))
                      \/ Has(wire[e], Cmd("WILL", o)) \/ Has(wire[e], Cmd("WONT", o))
    BY <1>1, FlyingHas DEF RequestsAnswered
  <2>1. Agreed(Peer(e), o, writer[Peer(e)], writer[e], wire[Peer(e)], wire[e])
    BY <1>2 DEF Peer, Ends
  <2> QED
    BY <2>1, EndsInHas DEF Agreed
<1>4. OffersAnswered
  <2> SUFFICES ASSUME NEW e \in Ends, NEW o \in Negotiable, Pending(writer[e], "WILL", o)
               PROVE  \/ Has(wire[Peer(e)], Cmd("WILL", o))
                      \/ Has(wire[e], Cmd("DO", o)) \/ Has(wire[e], Cmd("DONT", o))
    BY <1>1, FlyingHas DEF OffersAnswered
  <2>1. Agreed(e, o, writer[e], writer[Peer(e)], wire[e], wire[Peer(e)])
    BY <1>2
  <2> QED
    BY <2>1, EndsInHas DEF Agreed, OffersInEarnest
<1>5. QuestionsAnswered
  BY DEF QuestionsAnswered, Carried, Modest
<1>6. BatchesFollow
  <2>1. "NEW_ENVIRON" \notin Options
    BY DEF Questioned, Silent, Queried
  <2> QED
    BY <2>1 DEF BatchesFollow, Carried, Modest
<1> QED
  BY <1>3, <1>4, <1>5, <1>6

\* Every request and offer that is marked pending has an answer coming, where
\* no end asks for or offers what would be refused and no option has questions.
THEOREM AnsweredHolds ==
  ASSUME AsksInEarnest, OffersInEarnest, Options \cap Questioned = {}
  PROVE  Spec => []Answered
<1>1. AllAgreed /\ Carried => Answered
  BY AgreedAnswered
<1> QED
  BY <1>1, AgreedInvariant, TypeCorrect, PTL

-----------------------------------------------------------------------------
(***************************************************************************)
(* ServerNegotiation: the server's negotiation with one client.            *)
(***************************************************************************)
Futures == {"pending", "done", "cancelled"}

\* The names a client sends: of its terminal, of the variable LANG, or none.
Names == {NoName, "LANG"} \cup UNION {Range(k.terminal) : k \in Clients}

\* A server whose writer is one of W.
Server(W) ==
  [writer : W, advanced : BOOLEAN, force_binary : BOOLEAN,
   waiter_connected : Futures, check_later : {"none", "soon", "later"}, closing : BOOLEAN,
   shell : {"none", "live", "dead"}, raised : BOOLEAN,
   environ_requested : BOOLEAN, echo_negotiated : BOOLEAN,
   ttype_count : 1..(TTYPE_LOOPMAX + 1), ttype : [1..(TTYPE_LOOPMAX + 1) -> Names],
   waiter_encoding : Futures, asked_user : BOOLEAN, closed_early : BOOLEAN]
Here(W) == [server : Server(W), ready : Seq(Handles)]

\* The writers that, while the negotiation of s0 goes on, have asked what can
\* be asked of CHARSET and have not forgotten any request of s0.
HasAsked(w, s0) ==
  s0.waiter_connected = "pending" =>
    /\ Remote(w, "CHARSET") => w.pending[<<"SB", "CHARSET">>] # "unset"
    /\ \A r \in Requests : w.pending[r] = "unset" => s0.writer.pending[r] = "unset"
Asks(s0) == {w \in Writer : HasAsked(w, s0)}

\* The handlers may do anything to them but take CHARSET for agreed.
Kept(W) == Closed(W, Options, Options, Options \ {"CHARSET"})

LEMMA ServerOptions ==
  /\ {"TTYPE", "NEW_ENVIRON", "ECHO", "BINARY", "CHARSET"} \subseteq Options
  /\ "CHARSET" \in Options /\ "TTYPE" \in Options
BY ServerAssumption

LEMMA AskedRequests == <<"SB", "CHARSET">> \in Requests
BY ServerOptions DEF Requests

LEMMA SetAsks ==
  ASSUME NEW s0, NEW w \in Asks(s0), NEW o \in Options, NEW f \in Flag
  PROVE  /\ SetLocal(w, o, f) \in Asks(s0)
         /\ (f = "on" => o # "CHARSET") => SetRemote(w, o, f) \in Asks(s0)
<1> DEFINE l == SetLocal(w, o, f)
           r == SetRemote(w, o, f)
<1>1. w \in Writer /\ HasAsked(w, s0) /\ "CHARSET" \in Options
  BY ServerOptions DEF Asks
<1>2. l \in Writer /\ l.pending = w.pending /\ l.remote = w.remote
  BY <1>1, SetOptionFields
<1>3. /\ r \in Writer /\ r.pending = w.pending /\ r.remote[o] = f
      /\ \A p \in Options : p # o => r.remote[p] = w.remote[p]
  BY <1>1 DEF SetRemote, Writer
<1> HIDE DEF l, r
<1>4. HasAsked(l, s0)
  BY <1>1, <1>2 DEF HasAsked, Remote
<1>5. (f = "on" => o # "CHARSET") => HasAsked(r, s0)
  BY <1>1, <1>3 DEF HasAsked, Remote
<1> QED
  BY <1>2, <1>3, <1>4, <1>5 DEF Asks, l, r

LEMMA SetPendingAsks ==
  ASSUME NEW s0, NEW w \in Asks(s0), NEW o \in Options, NEW c \in {"DO", "WILL", "SB"},
         NEW f \in {"on", "off"}
  PROVE  SetPending(w, c, o, f) \in Asks(s0)
<1> DEFINE v == SetPending(w, c, o, f)
<1>1. w \in Writer /\ HasAsked(w, s0) /\ <<c, o>> \in Requests /\ f \in Flag
  BY DEF Asks, Requests, Flag
<1>2. /\ v \in Writer /\ v.remote = w.remote /\ v.pending[<<c, o>>] = f
      /\ \A x \in Requests : x # <<c, o>> => v.pending[x] = w.pending[x]
  BY <1>1, SetPendingFields
<1> HIDE DEF v
<1>3. HasAsked(v, s0)
  BY <1>1, <1>2, AskedRequests DEF HasAsked, Remote
<1> QED
  BY <1>2, <1>3 DEF Asks, v

\* The fields that what is asked does not depend on.
LEMMA RestAsks ==
  ASSUME NEW s0, NEW w \in Asks(s0), NEW v \in Writer, v.remote = w.remote, v.pending = w.pending
  PROVE  v \in Asks(s0)
BY DEF Asks, HasAsked, Remote

LEMMA SendAsks ==
  ASSUME NEW w \in Writer, NEW m \in Message
  PROVE  LET v == Send(w, m) IN v \in Writer /\ v.remote = w.remote /\ v.pending = w.pending
<1>1. CASE w.closing
  BY <1>1 DEF Send
<1>2. CASE ~w.closing
  <2>1. Append(w.out, m) \in Seq(Message)
    BY DEF Writer
  <2> QED
    BY <1>2, <2>1 DEF Send, Writer
<1> QED
  BY <1>1, <1>2 DEF Writer

LEMMA AsksClosed == ASSUME NEW s0 PROVE Kept(Asks(s0))
<1> DEFINE W == Asks(s0)
<1> SUFFICES ASSUME NEW w \in W
             PROVE  /\ \A o \in Options, f \in Flag : SetLocal(w, o, f) \in W
                    /\ \A o \in Options, f \in Flag :
                         (f = "on" => o # "CHARSET") => SetRemote(w, o, f) \in W
                    /\ \A o \in Options, c \in {"DO", "WILL", "SB"}, f \in {"on", "off"} :
                         SetPending(w, c, o, f) \in W
                    /\ \A m \in Message : Send(w, m) \in W
                    /\ \A o \in Options :
                         /\ [w EXCEPT !.rejected_do = @ \cup {o}] \in W
                         /\ [w EXCEPT !.rejected_will = @ \cup {o}] \in W
                         /\ [w EXCEPT !.directional_refusals = @ \cup {o}] \in W
                    /\ \A o \in {"MCCP2", "MCCP3"} : [w EXCEPT !.mccp = @ \cup {o}] \in W
                    /\ \A n \in Nat : [w EXCEPT !.batches = n] \in W
                    /\ \A n \in {"named", "empty"} : [w EXCEPT !.encoding = n] \in W
                    /\ [w EXCEPT !.closing = TRUE] \in W
  <2>1. W \subseteq Writer
    BY DEF Asks
  <2>2. WellFormed \subseteq Message
    BY DEF WellFormed
  <2> HIDE DEF W
  <2>3. Closed(W, Options, Options, Options \ {"CHARSET"})
    BY <2>1, <2>2 DEF Closed, Plain
  <2> QED
    BY <2>3 DEF Kept, W
<1>1. w \in Writer
  BY DEF Asks
<1>2. \A m \in Message : Send(w, m) \in W
  BY <1>1, SendAsks, RestAsks
<1>3. ASSUME NEW o \in Options
      PROVE  /\ [w EXCEPT !.rejected_do = @ \cup {o}] \in W
             /\ [w EXCEPT !.rejected_will = @ \cup {o}] \in W
             /\ [w EXCEPT !.directional_refusals = @ \cup {o}] \in W
  <2>1. /\ [w EXCEPT !.rejected_do = @ \cup {o}] \in Writer
        /\ [w EXCEPT !.rejected_will = @ \cup {o}] \in Writer
        /\ [w EXCEPT !.directional_refusals = @ \cup {o}] \in Writer
    BY <1>1 DEF Writer
  <2> QED
    BY <1>1, <2>1, RestAsks DEF Writer
<1>4. ASSUME NEW o \in {"MCCP2", "MCCP3"} PROVE [w EXCEPT !.mccp = @ \cup {o}] \in W
  <2>1. [w EXCEPT !.mccp = @ \cup {o}] \in Writer
    BY <1>1 DEF Writer
  <2> QED
    BY <1>1, <2>1, RestAsks DEF Writer
<1>5. ASSUME NEW n \in Nat PROVE [w EXCEPT !.batches = n] \in W
  <2>1. [w EXCEPT !.batches = n] \in Writer
    BY <1>1 DEF Writer
  <2> QED
    BY <1>1, <2>1, RestAsks DEF Writer
<1>6. ASSUME NEW n \in {"named", "empty"} PROVE [w EXCEPT !.encoding = n] \in W
  <2>1. [w EXCEPT !.encoding = n] \in Writer
    BY <1>1 DEF Writer
  <2> QED
    BY <1>1, <2>1, RestAsks DEF Writer
<1>7. [w EXCEPT !.closing = TRUE] \in W
  <2>1. [w EXCEPT !.closing = TRUE] \in Writer
    BY <1>1 DEF Writer
  <2> QED
    BY <1>1, <2>1, RestAsks DEF Writer
<1> QED
  BY <1>2, <1>3, <1>4, <1>5, <1>6, <1>7, SetAsks, SetPendingAsks

\* WILL CHARSET is followed by the question, unless that was asked before.
LEMMA WillCharsetAsks ==
  ASSUME NEW s0, NEW w \in Asks(s0)
  PROVE  WillCharset(w, "server") \in Asks(s0)
<1> DEFINE r == SetRemote(w, "CHARSET", "on")
           l == SetLocal(r, "CHARSET", "on")
           s == Send(l, Cmd("WILL", "CHARSET"))
           x == IF Local(r, "CHARSET") THEN r ELSE s
           p == SetPending(x, "SB", "CHARSET", "on")
           v == Send(p, Sub("CHARSET", "REQUEST"))
<1>1. w \in Writer /\ HasAsked(w, s0) /\ "CHARSET" \in Options /\ "on" \in Flag
  BY ServerOptions DEF Asks, Flag
<1>2. r \in Writer /\ r.pending = w.pending /\ r.remote["CHARSET"] = "on"
  BY <1>1 DEF SetRemote, Writer
<1> HIDE DEF r
<1>3. l \in Writer /\ l.pending = w.pending /\ l.remote = r.remote
  BY <1>1, <1>2, SetOptionFields
<1>4. Cmd("WILL", "CHARSET") \in Message /\ Sub("CHARSET", "REQUEST") \in Message
  BY <1>1 DEF Cmd, Sub, Message, Verbs, Payloads
<1> HIDE DEF l
<1>5. x \in Writer /\ x.pending = w.pending /\ x.remote["CHARSET"] = "on"
  BY <1>2, <1>3, <1>4, SendAsks
<1> HIDE DEF x
<1>6. /\ p \in Writer /\ p.remote = x.remote /\ p.pending[<<"SB", "CHARSET">>] = "on"
      /\ \A q \in Requests : q # <<"SB", "CHARSET">> => p.pending[q] = x.pending[q]
  BY <1>1, <1>5, SetPendingFields, AskedRequests
<1> HIDE DEF p
<1>7. v \in Writer /\ v.remote = p.remote /\ v.pending = p.pending
  BY <1>4, <1>6, SendAsks
<1>8. HasAsked(v, s0)
  BY <1>1, <1>5, <1>6, <1>7 DEF HasAsked
<1>9. Pending(x, "SB", "CHARSET") => HasAsked(x, s0)
  BY <1>1, <1>5 DEF HasAsked, Pending
<1>10. WillCharset(w, "server") = IF Pending(x, "SB", "CHARSET") THEN x ELSE v
  <2>1. Remote(x, "CHARSET")
    BY <1>5 DEF Remote
  <2> QED
    BY <2>1 DEF WillCharset, request_charset, x, s, l, p, r
<1> QED
  BY <1>5, <1>7, <1>8, <1>9, <1>10 DEF Asks

\* What a client says: a command with a name in it.
Said == [cmd : Verbs \cup {"SB"}, opt : Options, sub : Payloads, name : Names]

LEMMA FeedAsks ==
  ASSUME NEW s0, NEW w \in Asks(s0), NEW m \in Said
  PROVE  Feed(w, "server", m) \in Asks(s0)
<1> DEFINE W == Asks(s0)
<1>1. Closed(W, Options, Options, Options \ {"CHARSET"})
  BY AsksClosed DEF Kept
<1>2. m.opt \in Options /\ m.cmd \in Verbs \cup {"SB"} /\ "server" \in Ends
  BY DEF Said, Ends
<1>3. CASE m.cmd = "WILL" /\ m.opt = "CHARSET" /\ WillVerdict("server", "CHARSET") = "charset"
  <2>1. WillCharset(w, "server") \in W
    BY WillCharsetAsks
  <2>2. Clear(WillCharset(w, "server"), "DO", "CHARSET") \in W
    BY <1>1, <1>2, <1>3, <2>1, ClearStays
  <2> QED
    BY <1>3, <2>2 DEF Feed, FeedWill, HandleWill
<1>4. CASE ~(m.cmd = "WILL" /\ m.opt = "CHARSET" /\ WillVerdict("server", "CHARSET") = "charset")
  <2>1. WillVerdict("server", "CHARSET") \in {"refuse", "charset"}
    BY DEF WillVerdict, MudOptions, WillSupported
  <2>2. m.cmd = "WILL" /\ WillVerdict("server", m.opt) \in Believed => m.opt \in Options \ {"CHARSET"}
    BY <1>2, <1>4, <2>1 DEF Believed
  <2>3. w \in W
    OBVIOUS
  <2> HIDE DEF W
  <2> QED
    BY <1>1, <1>2, <2>2, <2>3, FeedStays DEF W
<1> QED
  BY <1>3, <1>4

-----------------------------------------------------------------------------
(***************************************************************************)
(* The handlers of the server.  Which of a handle's effects matter to the  *)
(* end of the negotiation: its two futures, its timer and the loop.        *)
(***************************************************************************)
Same(c, d) ==
  /\ d.ready = c.ready
  /\ \A f \in {"waiter_connected", "waiter_encoding", "check_later", "raised", "shell",
               "closing", "closed_early"} :
       d.server[f] = c.server[f]

LEMMA WithWriterKeeps ==
  ASSUME NEW W, NEW c \in Here(W), NEW w \in W
  PROVE  WithWriter(c, w) \in Here(W) /\ Same(c, WithWriter(c, w)) /\ WriterOf(WithWriter(c, w)) = w
BY DEF WithWriter, WriterOf, Here, Server, Same

LEMMA IacCKeeps ==
  ASSUME NEW W, Kept(W), NEW c \in Here(W), NEW k \in Verbs, NEW o
  PROVE  IacC(c, k, o) \in Here(W) /\ Same(c, IacC(c, k, o))
<1>1. CASE o \in Options
  <2>1. WriterOf(c) \in W
    BY DEF WriterOf, Here, Server
  <2>2. Iac(WriterOf(c), k, o) \in W
    BY <1>1, <2>1, IacStays DEF Kept
  <2> QED
    BY <1>1, <2>2, WithWriterKeeps DEF IacC
<1>2. CASE o \notin Options
  BY <1>2 DEF IacC, Same
<1> QED
  BY <1>1, <1>2

LEMMA EnvironKeeps ==
  ASSUME NEW W, Kept(W), NEW c \in Here(W)
  PROVE  _negotiate_environ(c) \in Here(W) /\ Same(c, _negotiate_environ(c))
<1> DEFINE d == [c EXCEPT !.server.environ_requested = TRUE]
<1>1. d \in Here(W) /\ Same(c, d)
  BY DEF Here, Server, Same
<1>2. "DO" \in Verbs
  BY DEF Verbs
<1>3. IacC(d, "DO", "NEW_ENVIRON") \in Here(W) /\ Same(d, IacC(d, "DO", "NEW_ENVIRON"))
  BY <1>1, <1>2, IacCKeeps
<1> QED
  BY <1>1, <1>3 DEF _negotiate_environ, Same

LEMMA EchoKeeps ==
  ASSUME NEW W, Kept(W), NEW c \in Here(W)
  PROVE  _negotiate_echo(c) \in Here(W) /\ Same(c, _negotiate_echo(c))
<1> DEFINE d == [c EXCEPT !.server.echo_negotiated = TRUE]
<1>1. d \in Here(W) /\ Same(c, d)
  BY DEF Here, Server, Same
<1>2. "WILL" \in Verbs
  BY DEF Verbs
<1>3. IacC(d, "WILL", "ECHO") \in Here(W) /\ Same(d, IacC(d, "WILL", "ECHO"))
  BY <1>1, <1>2, IacCKeeps
<1> QED
  BY <1>1, <1>3 DEF _negotiate_echo, Same

LEMMA SameTrans == ASSUME NEW a, NEW b, NEW c, Same(a, b), Same(b, c) PROVE Same(a, c)
BY DEF Same

LEMMA on_ttypeKeeps ==
  ASSUME NEW W, Kept(W), NEW c \in Here(W), NEW name \in Names
  PROVE  on_ttype(c, name) \in Here(W) /\ Same(c, on_ttype(c, name))
<1> DEFINE k == c.server.ttype_count
           n == [c EXCEPT !.server.ttype[k] = name]
           d == _negotiate_echo(n)
           f == IF (k = 1 /\ name # "ANSI") \/ k = 2 THEN _negotiate_environ(d) ELSE d
           e == _negotiate_environ(f)
           g == [f EXCEPT !.server.ttype_count = k + 1]
           h == WithWriter(g, RequestSub(WriterOf(g), "TTYPE", "SEND"))
<1>1. n \in Here(W) /\ Same(c, n) /\ k \in 1 .. (TTYPE_LOOPMAX + 1)
  BY DEF Here, Server, Same
<1> HIDE DEF n, k
<1>2. d \in Here(W) /\ Same(n, d)
  BY <1>1, EchoKeeps
<1> HIDE DEF d
<1>3. f \in Here(W) /\ Same(d, f)
  <2>1. Same(d, d)
    BY DEF Same
  <2> QED
    BY <1>2, <2>1, EnvironKeeps
<1>4. Same(c, f)
  BY <1>1, <1>2, <1>3, SameTrans
<1> HIDE DEF f
<1>5. e \in Here(W) /\ Same(c, e)
  BY <1>3, <1>4, EnvironKeeps, SameTrans
<1>6. ASSUME ~(k > TTYPE_LOOPMAX) PROVE h \in Here(W) /\ Same(c, h)
  <2>1. k + 1 \in 1 .. (TTYPE_LOOPMAX + 1)
    BY <1>1, <1>6, ServerAssumption
  <2>2. g \in Here(W) /\ Same(f, g)
    BY <1>3, <2>1 DEF Here, Server, Same
  <2> HIDE DEF g
  <2>3. WriterOf(g) \in W
    BY <2>2 DEF WriterOf, Here, Server
  <2>4. "TTYPE" \in Options \cap Questioned /\ "SEND" \in Payloads
    BY ServerOptions DEF Questioned, Silent, Queried, Payloads
  <2>5. RequestSub(WriterOf(g), "TTYPE", "SEND") \in W
    BY <2>3, <2>4, RequestSubStays DEF Kept
  <2>6. h \in Here(W) /\ Same(g, h)
    BY <2>2, <2>5, WithWriterKeeps
  <2> QED
    BY <1>4, <2>2, <2>6, SameTrans
<1>7. on_ttype(c, name) = e \/ (~(k > TTYPE_LOOPMAX) /\ on_ttype(c, name) = h)
  BY DEF on_ttype, k, n, d, f
<1> QED
  BY <1>5, <1>6, <1>7

\* What a command of the client does to the loop and to what Same is about.
LEMMA SameReflexive == ASSUME NEW c PROVE Same(c, c)
BY DEF Same

Untouched(c, d) ==
  \A f \in {"waiter_connected", "waiter_encoding", "check_later", "raised", "shell",
            "closing", "closed_early"} :
    d.server[f] = c.server[f]
Checks == {"check", "begin_negotiation", "begin_shell"}
\* No check is in d that was not in c.
Unchecked(c, d) ==
  Untouched(c, d) /\ Range(d.ready) \cap Checks \subseteq Range(c.ready)

LEMMA CallSoonKeeps ==
  ASSUME NEW W, NEW c \in Here(W), NEW h \in Handles
  PROVE  LET l == CallSoon(c, h) IN
         /\ l \in Here(W) /\ l.server = c.server
         /\ l.ready = Append(c.ready, h) /\ Range(l.ready) = Range(c.ready) \cup {h}
<1> DEFINE q == Append(c.ready, h)
<1>1. c.ready \in Seq(Handles)
  BY DEF Here
<1>2. q \in Seq(Handles) /\ Range(q) = Range(c.ready) \cup {h}
  BY <1>1 DEF Range
<1> HIDE DEF q
<1>3. CallSoon(c, h) = [c EXCEPT !.ready = q]
  BY DEF CallSoon, q
<1>4. [c EXCEPT !.ready = q] \in Here(W)
  BY <1>2 DEF Here
<1>5. [c EXCEPT !.ready = q].server = c.server /\ [c EXCEPT !.ready = q].ready = q
  BY DEF Here
<1> QED
  BY <1>2, <1>3, <1>4, <1>5 DEF q

LEMMA InterpretKeeps ==
  ASSUME NEW s0, NEW c \in Here(Asks(s0)), NEW m \in Said
  PROVE  Interpret(c, m) \in Here(Asks(s0)) /\ Unchecked(c, Interpret(c, m))
<1> DEFINE W == Asks(s0)
           w == Feed(WriterOf(c), "server", m)
           d == WithWriter(c, w)
           x == [d EXCEPT !.server.force_binary = TRUE]
           l == CallSoon(d, "connection_lost")
           a == [d EXCEPT !.server.asked_user = @ \/ on_request_environ(d.server.ttype)]
<1>1. Kept(W)
  BY AsksClosed
<1>2. WriterOf(c) \in Asks(s0)
  BY DEF WriterOf, Here, Server
<1>3. w \in W
  BY <1>2, FeedAsks
<1> HIDE DEF w
<1> HIDE DEF W
<1>4. d \in Here(W) /\ Same(c, d)
  BY <1>3, WithWriterKeeps DEF W
<1>5. Unchecked(c, d)
  BY <1>4 DEF Same, Unchecked, Untouched
<1>6. m.name \in Names
  BY DEF Said
<1> HIDE DEF d
<1>7. on_ttype(d, m.name) \in Here(W) /\ Unchecked(c, on_ttype(d, m.name))
  <2>1. on_ttype(d, m.name) \in Here(W) /\ Same(d, on_ttype(d, m.name))
    BY <1>1, <1>4, <1>6, on_ttypeKeeps
  <2> QED
    BY <1>4, <2>1, SameTrans DEF Same, Unchecked, Untouched
<1>8. x \in Here(W) /\ Unchecked(c, x)
  BY <1>4, <1>5 DEF Here, Server, Unchecked, Untouched
<1>9. a \in Here(W) /\ Unchecked(c, a)
  <2>1. (d.server.asked_user \/ on_request_environ(d.server.ttype)) \in BOOLEAN
    OBVIOUS
  <2> DEFINE b == d.server.asked_user \/ on_request_environ(d.server.ttype)
  <2>2. a = [d EXCEPT !.server.asked_user = b]
    BY <1>4 DEF Here, Server
  <2>3. b \in BOOLEAN
    OBVIOUS
  <2> HIDE DEF b, a
  <2> QED
    BY <1>4, <1>5, <2>2, <2>3 DEF Here, Server, Unchecked, Untouched
<1>10. l \in Here(W) /\ Unchecked(c, l)
  <2>1. "connection_lost" \in Handles
    BY DEF Handles
  <2>2. /\ l \in Here(W) /\ l.server = d.server
        /\ Range(l.ready) = Range(d.ready) \cup {"connection_lost"}
    BY <1>4, <2>1, CallSoonKeeps
  <2> QED
    BY <1>5, <2>2 DEF Unchecked, Untouched, Checks
<1>11. Interpret(c, m) \in {on_ttype(d, m.name), x, l, a, d}
  BY DEF Interpret, d, w
<1> QED
  BY <1>4, <1>5, <1>7, <1>8, <1>9, <1>10, <1>11 DEF W

-----------------------------------------------------------------------------
(***************************************************************************)
(* The two folds: handles taken off the loop, and the commands of a chunk. *)
(***************************************************************************)
OffLoop(e, r, h) == ButThose(e[1], r, h)
Remaining(e, r) ==
  r \in Seq(Handles) /\ Range(r) \subseteq Range(e[2]) /\ Range(r) \cap e[1] = {}
Cancelling == INSTANCE FoldInduction WITH op <- OffLoop, P <- Remaining

LEMMA ButThoseRemains ==
  ASSUME NEW e, NEW r, Remaining(e, r), NEW h \in Handles, h \in Range(e[2])
  PROVE  Remaining(e, OffLoop(e, r, h))
<1>1. CASE h \in e[1]
  BY <1>1 DEF OffLoop, ButThose
<1>2. CASE h \notin e[1]
  <2>1. r \in Seq(Handles)
    BY DEF Remaining
  <2>2. Append(r, h) \in Seq(Handles) /\ Range(Append(r, h)) = Range(r) \cup {h}
    BY <2>1 DEF Range
  <2> QED
    BY <1>2, <2>2 DEF OffLoop, ButThose, Remaining
<1> QED
  BY <1>1, <1>2

\* Of the loop's handles, those that are not cancelled remain.
LEMMA CancelRemains ==
  ASSUME NEW q \in Seq(Handles), NEW hs
  PROVE  /\ Cancel(q, hs) \in Seq(Handles) /\ Range(Cancel(q, hs)) \subseteq Range(q)
         /\ Range(Cancel(q, hs)) \cap hs = {}
<1> DEFINE e == <<hs, q>>
<1>1. Cancel(q, hs) = Cancelling!Folded(e, <<>>, q)
  <2>1. e[1] = hs
    OBVIOUS
  <2> HIDE DEF e
  <2> QED
    BY <2>1 DEF Cancel, OffLoop, Cancelling!Folded, Cancelling!IsFold, Cancelling!Last,
       FoldLeft, MapThenFoldSet, Max
<1>2. Remaining(e, <<>>)
  BY NothingWritten DEF Remaining
<1>3. \A i \in DOMAIN q : q[i] \in Handles /\ q[i] \in Range(e[2])
  BY DEF Range
<1>4. \A u : \A i \in DOMAIN q : Remaining(e, u) => Remaining(e, OffLoop(e, u, q[i]))
  <2> HIDE DEF e
  <2> QED
    BY <1>3, ButThoseRemains
<1>5. Remaining(e, Cancelling!Folded(e, <<>>, q))
  <2> HIDE DEF e
  <2> QED
    BY <1>2, <1>4, Cancelling!FoldStays
<1> QED
  BY <1>1, <1>5 DEF Remaining

InterpretOf(e, c, m) == Interpret(c, m)
Interpreted(e, c) == c \in Here(Asks(e[1])) /\ Unchecked(e[2], c)
Chunks == INSTANCE FoldInduction WITH op <- InterpretOf, P <- Interpreted

LEMMA QuietTrans ==
  ASSUME NEW a, NEW b, NEW c, Unchecked(a, b), Unchecked(b, c) PROVE Unchecked(a, c)
BY DEF Unchecked, Untouched

\* What data_received has done when the chunk is interpreted.
LEMMA ChunkKeeps ==
  ASSUME NEW s0, NEW c \in Here(Asks(s0)), NEW chunk \in Seq(Said)
  PROVE  LET d == FoldLeft(Interpret, c, chunk) IN d \in Here(Asks(s0)) /\ Unchecked(c, d)
<1> DEFINE e == <<s0, c>>
<1>1. FoldLeft(Interpret, c, chunk) = Chunks!Folded(e, c, chunk)
  <2> HIDE DEF e
  <2> QED
    BY DEF InterpretOf, Chunks!Folded, Chunks!IsFold, Chunks!Last, FoldLeft, MapThenFoldSet, Max
<1>2. Interpreted(e, c)
  BY DEF Interpreted, Unchecked, Untouched
<1>3. \A u : \A i \in DOMAIN chunk : Interpreted(e, u) => Interpreted(e, InterpretOf(e, u, chunk[i]))
  <2> SUFFICES ASSUME NEW u, NEW i \in DOMAIN chunk, Interpreted(e, u)
               PROVE  Interpreted(e, Interpret(u, chunk[i]))
    BY DEF InterpretOf
  <2>1. u \in Here(Asks(s0)) /\ Unchecked(c, u) /\ chunk[i] \in Said
    BY DEF Interpreted
  <2>2. Interpret(u, chunk[i]) \in Here(Asks(s0)) /\ Unchecked(u, Interpret(u, chunk[i]))
    BY <2>1, InterpretKeeps
  <2> QED
    BY <2>1, <2>2, QuietTrans DEF Interpreted
<1>4. Interpreted(e, Chunks!Folded(e, c, chunk))
  <2> HIDE DEF e
  <2> QED
    BY <1>2, <1>3, Chunks!FoldStays
<1> QED
  BY <1>1, <1>4 DEF Interpreted

-----------------------------------------------------------------------------
(***************************************************************************)
(* The check: what it leaves open when it ends the negotiation.            *)
(***************************************************************************)
LEMMA AskDeferredKeeps ==
  ASSUME NEW W, Kept(W), NEW c \in Here(W), NEW final
  PROVE  AskDeferred(c, final) \in Here(W) /\ Same(c, AskDeferred(c, final))
<1> DEFINE give_up == Refused(c, "TTYPE") \/ final
           d == IF c.server.advanced /\ give_up THEN _negotiate_echo(c) ELSE c
<1>1. d \in Here(W) /\ Same(c, d)
  BY EchoKeeps, SameReflexive
<1>2. AskDeferred(c, final) \in {d, _negotiate_environ(d)}
  BY DEF AskDeferred
<1> HIDE DEF d
<1>3. _negotiate_environ(d) \in Here(W) /\ Same(d, _negotiate_environ(d))
  BY <1>1, EnvironKeeps
<1> QED
  BY <1>1, <1>2, <1>3, SameTrans

LEMMA AdvanceKeeps ==
  ASSUME NEW W, NEW c \in Here(W)
  PROVE  /\ Advance(c) \in Here(W) /\ Unchecked(c, Advance(c))
         /\ WriterOf(Advance(c)) = WriterOf(c)
<1> DEFINE d == [c EXCEPT !.server.advanced = TRUE]
<1>1. d \in Here(W) /\ Unchecked(c, d) /\ d.ready = c.ready /\ WriterOf(d) = WriterOf(c)
  BY DEF Here, Server, Unchecked, Untouched, WriterOf
<1>2. Advance(c) \in {c, CallSoon(d, "begin_advanced_negotiation")}
  BY DEF Advance
<1> HIDE DEF d
<1>3. "begin_advanced_negotiation" \in Handles
  BY DEF Handles
<1>4. LET l == CallSoon(d, "begin_advanced_negotiation") IN
      /\ l \in Here(W) /\ l.server = d.server
      /\ Range(l.ready) = Range(d.ready) \cup {"begin_advanced_negotiation"}
  BY <1>1, <1>3, CallSoonKeeps
<1>5. Unchecked(c, c)
  BY DEF Unchecked, Untouched
<1> QED
  BY <1>1, <1>2, <1>4, <1>5 DEF Unchecked, Untouched, Checks, WriterOf

\* The check of the encoding asks for BINARY, if anything: CHARSET has been
\* asked about wherever it was agreed.
LEMMA _check_encodingKeeps ==
  ASSUME NEW s0, NEW c \in Here(Asks(s0))
  PROVE  /\ _check_encoding(c) \in Here(Asks(s0)) /\ Same(c, _check_encoding(c))
         /\ s0.waiter_connected = "pending" /\ ~AsksBinary(c) => _check_encoding(c) = c
         /\ AsksBinary(c) =>
              /\ WriterOf(c).pending[<<"DO", "BINARY">>] = "unset"
              /\ \A r \in Requests : r # <<"DO", "BINARY">> =>
                   WriterOf(_check_encoding(c)).pending[r] = WriterOf(c).pending[r]
<1> DEFINE w == WriterOf(c)
           b == IacC(c, "DO", "BINARY")
           h == WithWriter(c, request_charset(w))
<1>1. w \in Asks(s0) /\ w \in Writer /\ HasAsked(w, s0)
  BY DEF WriterOf, Here, Server, Asks
<1>2. s0.waiter_connected = "pending"
        => ~(Remote(w, "CHARSET") /\ w.pending[<<"SB", "CHARSET">>] = "unset")
  BY <1>1 DEF HasAsked
<1>3. b \in Here(Asks(s0)) /\ Same(c, b)
  BY AsksClosed, IacCKeeps DEF Verbs
<1>7. h \in Here(Asks(s0)) /\ Same(c, h)
  BY <1>1, AsksClosed, request_charsetStays, ServerOptions, WithWriterKeeps DEF Kept
<1>4. /\ AsksBinary(c) => _check_encoding(c) = b
      /\ ~AsksBinary(c) => _check_encoding(c) \in {c, h}
      /\ s0.waiter_connected = "pending" /\ ~AsksBinary(c) => _check_encoding(c) = c
  BY <1>2 DEF _check_encoding
<1>5. AsksBinary(c) => w.pending[<<"DO", "BINARY">>] = "unset"
  BY DEF AsksBinary
<1>6. ASSUME AsksBinary(c)
      PROVE  \A r \in Requests : r # <<"DO", "BINARY">> => WriterOf(b).pending[r] = w.pending[r]
  <2> DEFINE p == SetPending(w, "DO", "BINARY", "on")
             v == Send(p, Cmd("DO", "BINARY"))
  <2>1. "BINARY" \in Options /\ <<"DO", "BINARY">> \in Requests /\ "on" \in Flag
    BY ServerOptions DEF Requests, Flag
  <2>2. ~Remote(w, "BINARY") /\ ~Pending(w, "DO", "BINARY")
    BY <1>6 DEF AsksBinary, Pending
  <2>3. WriterOf(b) = v
    <3>1. Iac(w, "DO", "BINARY") = v
      BY <2>2 DEF Iac, IacDo
    <3>2. v \in Asks(s0)
      BY <1>1, <2>1, <3>1, AsksClosed, IacStays DEF Kept, Verbs
    <3>3. b = WithWriter(c, v)
      BY <2>1, <3>1 DEF IacC
    <3> QED
      BY <3>2, <3>3, WithWriterKeeps
  <2>4. /\ p \in Writer
        /\ \A x \in Requests : x # <<"DO", "BINARY">> => p.pending[x] = w.pending[x]
    BY <1>1, <2>1, SetPendingFields
  <2>5. Cmd("DO", "BINARY") \in Message
    BY <2>1 DEF Cmd, Message, Verbs, Payloads
  <2> HIDE DEF p
  <2>6. v.pending = p.pending
    BY <2>4, <2>5, SendAsks
  <2> QED
    BY <2>3, <2>4, <2>6
<1> QED
  BY <1>3, <1>4, <1>5, <1>6, <1>7, SameReflexive

\* What may still be open when a check that time did not force ends it.
Settled(s0, w, encoding) ==
  \A r \in Requests : w.pending[r] = "on" =>
    /\ r = <<"DO", "BINARY">> /\ s0.writer.pending[r] = "unset"
    /\ encoding = "pending" /\ w.remote["TTYPE"] = "off"

LEMMA check_negotiationKeeps ==
  ASSUME NEW s0, NEW c \in Here(Asks(s0)), NEW final \in BOOLEAN
  PROVE  LET r == check_negotiation(c, final) IN
         /\ r.c \in Here(Asks(s0)) /\ r.over \in BOOLEAN
         /\ Range(r.c.ready) \cap Checks \subseteq Range(c.ready)
         /\ \A f \in {"waiter_connected", "check_later", "raised", "shell",
                      "closing", "closed_early"} :
              r.c.server[f] = c.server[f]
         /\ s0.waiter_connected = "pending" /\ r.over /\ ~final => Settled(s0, WriterOf(r.c), c.server.waiter_encoding)
<1> DEFINE a == AskDeferred(c, final)
           v == Advance(a)
           b == _check_encoding(v)
           critical == \E o \in {"NEW_ENVIRON", "CHARSET"} : Pending(WriterOf(a), "SB", o)
           parent == AllAnswered(WriterOf(a))
           result == ~AsksBinary(v) /\ Bidirectional(b)
           first == b.server.waiter_encoding = "pending"
           settles == result \/ Refused(b, "TTYPE") \/ final
           e == IF first /\ settles THEN [b EXCEPT !.server.waiter_encoding = "done"] ELSE b
           over == IF first /\ ~result /\ settles THEN parent ELSE ~critical /\ parent /\ result
<1>1. a \in Here(Asks(s0)) /\ Same(c, a)
  BY AsksClosed, AskDeferredKeeps
<1> HIDE DEF a
<1>2. v \in Here(Asks(s0)) /\ Unchecked(a, v) /\ WriterOf(v) = WriterOf(a)
  BY <1>1, AdvanceKeeps
<1> HIDE DEF v
<1>3. /\ b \in Here(Asks(s0)) /\ Same(v, b)
      /\ s0.waiter_connected = "pending" /\ ~AsksBinary(v) => b = v
      /\ AsksBinary(v) =>
           /\ WriterOf(v).pending[<<"DO", "BINARY">>] = "unset"
           /\ \A r \in Requests : r # <<"DO", "BINARY">> =>
                WriterOf(b).pending[r] = WriterOf(v).pending[r]
  BY <1>2, _check_encodingKeeps
<1> HIDE DEF b
<1>4. Unchecked(c, b)
  BY <1>1, <1>2, <1>3 DEF Same, Unchecked, Untouched
<1>5. check_negotiation(c, final) = [c |-> e, over |-> over]
  BY DEF check_negotiation, a, v, b
<1>6. /\ e \in Here(Asks(s0)) /\ e.ready = b.ready /\ WriterOf(e) = WriterOf(b)
      /\ \A f \in {"waiter_connected", "check_later", "raised", "shell",
                   "closing", "closed_early"} : e.server[f] = b.server[f]
  <2> DEFINE f == [b EXCEPT !.server.waiter_encoding = "done"]
  <2>1. /\ f \in Here(Asks(s0)) /\ f.ready = b.ready /\ WriterOf(f) = WriterOf(b)
        /\ \A x \in {"waiter_connected", "check_later", "raised", "shell",
                     "closing", "closed_early"} : f.server[x] = b.server[x]
    BY <1>3 DEF Here, Server, Futures, WriterOf
  <2>2. e \in {f, b}
    OBVIOUS
  <2> HIDE DEF f, e
  <2> QED
    BY <1>3, <2>1, <2>2
<1>7. over \in BOOLEAN
  BY DEF AllAnswered, critical
<1>8. ASSUME over, ~final, s0.waiter_connected = "pending"
      PROVE  Settled(s0, WriterOf(b), c.server.waiter_encoding)
  <2>1. parent /\ \A r \in Requests : WriterOf(v).pending[r] # "on"
    BY <1>2, <1>8 DEF AllAnswered
  <2>2. CASE ~AsksBinary(v)
    BY <1>3, <1>8, <2>1, <2>2 DEF Settled
  <2>3. CASE AsksBinary(v)
    <3>1. ~result /\ first /\ Refused(b, "TTYPE")
      BY <1>8, <2>3
    <3>2. c.server.waiter_encoding = "pending" /\ WriterOf(b).remote["TTYPE"] = "off"
      BY <1>4, <3>1 DEF Refused, Unchecked, Untouched
    <3>3. \A r \in Requests : WriterOf(b).pending[r] = "on" => r = <<"DO", "BINARY">>
      BY <1>3, <2>1, <2>3
    <3>4. <<"DO", "BINARY">> \in Requests
      BY ServerOptions DEF Requests
    <3>5. HasAsked(WriterOf(v), s0)
      BY <1>2 DEF WriterOf, Here, Server, Asks
    <3>6. s0.writer.pending[<<"DO", "BINARY">>] = "unset"
      BY <1>3, <1>8, <2>3, <3>4, <3>5 DEF HasAsked
    <3> QED
      BY <3>2, <3>3, <3>6 DEF Settled
  <2> QED
    BY <2>2, <2>3
<1> HIDE DEF over, e
<1> QED
  BY <1>4, <1>5, <1>6, <1>7, <1>8 DEF Unchecked, Untouched

-----------------------------------------------------------------------------
(***************************************************************************)
(* The handles.                                                            *)
(***************************************************************************)
\* A server whose negotiation is over is not checked again, unless its writer
\* was closed before the negotiation began.
Unarmed(s, q) ==
  /\ s.closed_early => s.closing
  /\ s.closing => s.waiter_connected # "pending"
  /\ ~s.closed_early =>
       /\ ~s.raised
       /\ s.waiter_connected # "pending" => s.check_later = "none" /\ "check" \notin Range(q)
  /\ s.waiter_connected = "pending" => s.shell = "none" /\ "begin_shell" \notin Range(q)
\* It is only of a closed server that a negotiation is still to begin.
Fine(c) ==
  Unarmed(c.server, c.ready) /\ ("begin_negotiation" \in Range(c.ready) => c.server.closing)

\* What a handle makes of a server that it found as c.
Handled(s0, c, d) ==
  /\ d \in Here(Asks(s0)) /\ Fine(d)
  /\ d.server.waiter_connected = "pending" => c.server.waiter_connected = "pending"
  /\ c.server.waiter_connected = "pending" /\ s0.waiter_connected = "pending"
       /\ d.server.waiter_connected = "done" /\ ~late
         => Settled(s0, WriterOf(d), c.server.waiter_encoding)

LEMMA CheckTimerHandles ==
  ASSUME NEW s0, NEW c \in Here(Asks(s0)), Fine(c), c.server.waiter_connected = "pending",
         late \in BOOLEAN
  PROVE  Handled(s0, c, _check_negotiation_timer(c))
<1> DEFINE q == Cancel(c.ready, {"check"})
           d == [c EXCEPT !.ready = Cancel(@, {"check"}), !.server.check_later = "none"]
           r == check_negotiation(d, late)
           s == [r.c EXCEPT !.server.waiter_connected = "done"]
           l == CallSoon(s, "begin_shell")
           e == [r.c EXCEPT !.server.check_later = "later"]
<1>1. c.ready \in Seq(Handles)
  BY DEF Here
<1>2. q \in Seq(Handles) /\ Range(q) \subseteq Range(c.ready) /\ Range(q) \cap {"check"} = {}
  BY <1>1, CancelRemains
<1>3. /\ d \in Here(Asks(s0)) /\ d.ready = q /\ d.server.check_later = "none"
      /\ \A f \in {"waiter_connected", "waiter_encoding", "raised", "shell",
                   "closing", "closed_early"} : d.server[f] = c.server[f]
  BY <1>2 DEF Here, Server
<1> HIDE DEF d, q
<1>4. /\ r.c \in Here(Asks(s0)) /\ r.over \in BOOLEAN
      /\ Range(r.c.ready) \cap Checks \subseteq Range(d.ready)
      /\ \A f \in {"waiter_connected", "check_later", "raised", "shell",
                   "closing", "closed_early"} : r.c.server[f] = d.server[f]
      /\ s0.waiter_connected = "pending" /\ r.over /\ ~late => Settled(s0, WriterOf(r.c), d.server.waiter_encoding)
  BY <1>3, check_negotiationKeeps
<1> HIDE DEF r
<1>5. Range(r.c.ready) \cap Checks = {}
  BY <1>2, <1>3, <1>4 DEF Checks, Fine, Unarmed
<1>6. /\ ~r.c.server.raised /\ r.c.server.waiter_connected = "pending"
      /\ r.c.server.check_later = "none" /\ r.c.server.shell = "none"
      /\ ~r.c.server.closing /\ ~r.c.server.closed_early
  BY <1>3, <1>4 DEF Fine, Unarmed
<1>7. CASE ~(r.over \/ late)
  <2>1. /\ e \in Here(Asks(s0)) /\ e.ready = r.c.ready /\ e.server.raised = r.c.server.raised
        /\ e.server.shell = r.c.server.shell
        /\ e.server.waiter_connected = r.c.server.waiter_connected
        /\ e.server.closing = r.c.server.closing /\ e.server.closed_early = r.c.server.closed_early
    BY <1>4 DEF Here, Server
  <2> HIDE DEF e
  <2>2. Handled(s0, c, e)
    BY <1>5, <1>6, <2>1 DEF Handled, Fine, Unarmed, Checks
  <2> QED
    BY <1>7, <2>2 DEF _check_negotiation_timer, d, r, e
<1>8. CASE r.over \/ late
  <2>1. /\ s \in Here(Asks(s0)) /\ s.ready = r.c.ready /\ s.server.raised = r.c.server.raised
        /\ s.server.waiter_connected = "done" /\ s.server.check_later = "none"
        /\ ~s.server.closing /\ ~s.server.closed_early /\ WriterOf(s) = WriterOf(r.c)
    BY <1>4, <1>6 DEF Here, Server, Futures, WriterOf
  <2> HIDE DEF s
  <2>2. "begin_shell" \in Handles
    BY DEF Handles
  <2>3. /\ l \in Here(Asks(s0)) /\ l.server = s.server
        /\ Range(l.ready) = Range(s.ready) \cup {"begin_shell"}
    BY <2>1, <2>2, CallSoonKeeps
  <2>4. _check_negotiation_timer(c) = l
    BY <1>6, <1>8 DEF _check_negotiation_timer, SetConnected, d, r, s
  <2> HIDE DEF l
  <2>5. Fine(l)
    BY <1>5, <1>6, <2>1, <2>3 DEF Fine, Unarmed, Checks
  <2>6. s0.waiter_connected = "pending" /\ ~late => Settled(s0, WriterOf(l), c.server.waiter_encoding)
    BY <1>3, <1>4, <1>8, <2>1, <2>3 DEF WriterOf
  <2> QED
    BY <2>3, <2>4, <2>5, <2>6 DEF Handled
<1> QED
  BY <1>7, <1>8

\* The check that a negotiation begun on a closed server has armed: it goes on,
\* and in the end it raises.
LEMMA EarlyCheckHandles ==
  ASSUME NEW s0, NEW c \in Here(Asks(s0)), Fine(c), c.server.closed_early, late \in BOOLEAN
  PROVE  Handled(s0, c, _check_negotiation_timer(c))
<1> DEFINE q == Cancel(c.ready, {"check"})
           d == [c EXCEPT !.ready = Cancel(@, {"check"}), !.server.check_later = "none"]
           r == check_negotiation(d, late)
           s == [r.c EXCEPT !.server.raised = TRUE]
           e == [r.c EXCEPT !.server.check_later = "later"]
<1>1. /\ c.ready \in Seq(Handles) /\ c.server.closing
      /\ c.server.waiter_connected \in Futures \ {"pending"}
  BY DEF Here, Server, Fine, Unarmed
<1>2. q \in Seq(Handles) /\ Range(q) \subseteq Range(c.ready)
  BY <1>1, CancelRemains
<1>3. /\ d \in Here(Asks(s0)) /\ d.ready = q
      /\ \A f \in {"waiter_connected", "closing", "closed_early"} : d.server[f] = c.server[f]
  BY <1>2 DEF Here, Server
<1> HIDE DEF d, q
<1>4. /\ r.c \in Here(Asks(s0))
      /\ \A f \in {"waiter_connected", "closing", "closed_early"} : r.c.server[f] = d.server[f]
  BY <1>3, check_negotiationKeeps
<1> HIDE DEF r
<1>5. \A x \in {s, e} : /\ x \in Here(Asks(s0))
                        /\ x.server.waiter_connected = c.server.waiter_connected
                        /\ x.server.closing /\ x.server.closed_early
  <2>1. /\ s \in Here(Asks(s0))
        /\ \A f \in {"waiter_connected", "closing", "closed_early"} : s.server[f] = r.c.server[f]
    BY <1>4 DEF Here, Server
  <2>2. /\ e \in Here(Asks(s0))
        /\ \A f \in {"waiter_connected", "closing", "closed_early"} : e.server[f] = r.c.server[f]
    BY <1>4 DEF Here, Server
  <2> HIDE DEF s, e
  <2> QED
    BY <1>1, <1>3, <1>4, <2>1, <2>2
<1>6. _check_negotiation_timer(c) \in {s, e}
  BY <1>1, <1>3, <1>4 DEF _check_negotiation_timer, SetConnected, d, r
<1> HIDE DEF s, e
<1> QED
  BY <1>1, <1>5, <1>6 DEF Handled, Fine, Unarmed

LEMMA data_receivedHandles ==
  ASSUME NEW s0, NEW c \in Here(Asks(s0)), Fine(c), NEW chunk \in Seq(Said), late \in BOOLEAN
  PROVE  Handled(s0, c, data_received(c, chunk))
<1> DEFINE q == Cancel(c.ready, {"timeout"})
           b == [c EXCEPT !.ready = Cancel(@, {"timeout"})]
           d == FoldLeft(Interpret, b, chunk)
<1>1. c.ready \in Seq(Handles)
  BY DEF Here
<1>2. q \in Seq(Handles) /\ Range(q) \subseteq Range(c.ready)
  BY <1>1, CancelRemains
<1>3. b \in Here(Asks(s0)) /\ b.server = c.server /\ b.ready = q
  BY <1>2 DEF Here
<1> HIDE DEF b, q
<1>4. d \in Here(Asks(s0)) /\ Unchecked(b, d)
  BY <1>3, ChunkKeeps
<1>5. data_received(c, chunk) =
        IF d.server.waiter_connected = "pending" THEN _check_negotiation_timer(d) ELSE d
  BY DEF data_received, b
<1> HIDE DEF d
<1>6. /\ Range(d.ready) \cap Checks \subseteq Range(c.ready)
      /\ \A f \in {"waiter_connected", "waiter_encoding", "check_later", "raised", "shell",
                   "closing", "closed_early"} :
           d.server[f] = c.server[f]
  BY <1>2, <1>3, <1>4 DEF Unchecked, Untouched
<1>7. Fine(d)
  BY <1>6 DEF Fine, Unarmed, Checks
<1>8. CASE d.server.waiter_connected = "pending"
  <2>1. Handled(s0, d, _check_negotiation_timer(d))
    BY <1>4, <1>7, <1>8, CheckTimerHandles
  <2> QED
    BY <1>5, <1>6, <1>8, <2>1 DEF Handled
<1>9. CASE d.server.waiter_connected # "pending"
  BY <1>4, <1>5, <1>6, <1>7, <1>9 DEF Handled
<1> QED
  BY <1>8, <1>9

LEMMA connection_lostHandles ==
  ASSUME NEW s0, NEW c \in Here(Asks(s0)), Unarmed(c.server, c.ready)
  PROVE  Handled(s0, c, connection_lost(c))
<1> DEFINE Lost(f) == IF f = "pending" THEN "cancelled" ELSE f
           q == Cancel(c.ready, {"check", "timeout"})
           w == [c.server.writer EXCEPT !.closing = TRUE]
           n == [c.server EXCEPT !.closing = TRUE, !.writer.closing = TRUE]
           s == [n EXCEPT !.check_later = "none", !.waiter_connected = Lost(@),
                          !.waiter_encoding = Lost(@)]
           d == [server |-> s, ready |-> q]
<1>1. CASE c.server.closing
  BY <1>1 DEF connection_lost, Handled, Fine, Unarmed
<1>2. CASE ~c.server.closing
  <2>1. c.ready \in Seq(Handles) /\ c.server.writer \in Asks(s0) /\ c.server.writer \in Writer
    BY DEF Here, Server, Asks
  <2>2. q \in Seq(Handles) /\ Range(q) \subseteq Range(c.ready) /\ Range(q) \cap {"check", "timeout"} = {}
    BY <2>1, CancelRemains
  <2>3. w \in Asks(s0)
    <3>1. w \in Writer /\ w.remote = c.server.writer.remote /\ w.pending = c.server.writer.pending
      BY <2>1 DEF Writer
    <3> QED
      BY <2>1, <3>1, RestAsks
  <2>4. n = [c.server EXCEPT !.closing = TRUE, !.writer = w]
    BY DEF Here, Server
  <2>5. connection_lost(c) = d
    BY <1>2 DEF connection_lost
  <2> HIDE DEF w, q, n
  <2>6. /\ n \in Server(Asks(s0)) /\ n.raised = c.server.raised /\ n.closing
        /\ n.closed_early = c.server.closed_early
    BY <2>3, <2>4 DEF Here, Server
  <2>7. /\ s \in Server(Asks(s0)) /\ s.raised = c.server.raised /\ s.check_later = "none"
        /\ s.closing /\ s.closed_early = n.closed_early
        /\ s.waiter_connected \in {"done", "cancelled"}
        /\ s.waiter_connected = Lost(n.waiter_connected)
    BY <2>6 DEF Server, Futures
  <2>8. n.waiter_connected = c.server.waiter_connected
    BY <2>4 DEF Here, Server
  <2> HIDE DEF s
  <2>9. d \in Here(Asks(s0)) /\ d.server = s /\ d.ready = q
    BY <2>2, <2>7 DEF Here
  <2> QED
    BY <1>2, <2>2, <2>5, <2>6, <2>7, <2>8, <2>9 DEF Handled, Fine, Unarmed
<1> QED
  BY <1>1, <1>2

LEMMA begin_negotiationHandles ==
  ASSUME NEW s0, NEW c \in Here(Asks(s0)), Fine(c),
         c.server.closing \/ c.server.waiter_connected = "pending"
  PROVE  Handled(s0, c, begin_negotiation(c))
<1> DEFINE s == [c EXCEPT !.server.check_later = "soon", !.server.closed_early = c.server.closing]
           l == CallSoon(s, "check")
           d == IacC(l, "DO", "TTYPE")
<1>1. /\ s \in Here(Asks(s0)) /\ s.ready = c.ready
      /\ \A f \in {"waiter_connected", "raised", "closing", "shell"} : s.server[f] = c.server[f]
      /\ s.server.closed_early = c.server.closing
  BY DEF Here, Server
<1> HIDE DEF s
<1>2. "check" \in Handles
  BY DEF Handles
<1>3. /\ l \in Here(Asks(s0)) /\ l.server = s.server /\ Range(l.ready) = Range(s.ready) \cup {"check"}
  BY <1>1, <1>2, CallSoonKeeps
<1> HIDE DEF l
<1>4. d \in Here(Asks(s0)) /\ Same(l, d)
  BY <1>3, AsksClosed, IacCKeeps DEF Verbs
<1>5. begin_negotiation(c) = d
  BY DEF begin_negotiation, d, l, s
<1> QED
  BY <1>1, <1>3, <1>4, <1>5 DEF Handled, Fine, Unarmed, Same

LEMMA begin_advanced_negotiationHandles ==
  ASSUME NEW s0, NEW c \in Here(Asks(s0)), Fine(c)
  PROVE  Handled(s0, c, begin_advanced_negotiation(c))
<1> DEFINE W == Asks(s0)
           a == IF line_mode THEN c ELSE IacC(c, "WILL", "SGA")
           x == IacC(a, "WILL", "BINARY")
           b == IacC(x, "DO", "NAWS")
           d == IF default_encoding THEN IacC(b, "DO", "CHARSET") ELSE b
<1>0. Kept(W) /\ {"WILL", "DO"} \subseteq Verbs
  BY AsksClosed DEF Verbs
<1> HIDE DEF W
<1>1. a \in Here(W) /\ Same(c, a)
  BY <1>0, IacCKeeps, SameReflexive DEF W
<1> HIDE DEF a
<1>2. x \in Here(W) /\ Same(a, x)
  BY <1>0, <1>1, IacCKeeps
<1> HIDE DEF x
<1>3. b \in Here(W) /\ Same(x, b)
  BY <1>0, <1>2, IacCKeeps
<1> HIDE DEF b
<1>4. d \in Here(W) /\ Same(b, d)
  BY <1>0, <1>3, IacCKeeps, SameReflexive
<1>5. begin_advanced_negotiation(c) = d
  BY DEF begin_advanced_negotiation, d, b, x, a
<1> HIDE DEF d
<1>6. Same(c, d)
  BY <1>1, <1>2, <1>3, <1>4, SameTrans
<1> QED
  BY <1>4, <1>5, <1>6 DEF Handled, Fine, Unarmed, Same, W

LEMMA begin_shellHandles ==
  ASSUME NEW s0, NEW c \in Here(Asks(s0)), Fine(c), c.server.waiter_connected # "pending"
  PROVE  Handled(s0, c, begin_shell(c))
<1> DEFINE d == begin_shell(c)
<1>1. /\ d \in Here(Asks(s0)) /\ d.ready = c.ready
      /\ \A f \in {"waiter_connected", "check_later", "raised", "closing", "closed_early"} :
           d.server[f] = c.server[f]
  BY DEF begin_shell, Here, Server
<1> QED
  BY <1>1 DEF Handled, Fine, Unarmed

-----------------------------------------------------------------------------
(***************************************************************************)
(* The invariant: the types of the values, that CHARSET is asked about as  *)
(* soon as it is agreed, and that a negotiation that is over left neither  *)
(* a timer nor a handle that would end it again.  The shell waits for that.  *)
(***************************************************************************)
Visitor ==
  [terminal : Seq(Names) \ {<<>>}, accepts : SUBSET Options, lang : BOOLEAN,
   volunteers : SUBSET (Verbs \X Options), loops : BOOLEAN, probed : BOOLEAN,
   shown : Nat, will : SUBSET Options, does : SUBSET Options, said : BOOLEAN, left : BOOLEAN]

ServerTypes ==
  /\ server \in Server(Asks(server)) /\ server.writer.out = <<>>
  /\ ready \in Seq(Handles) /\ late \in BOOLEAN
ClientTypes == client \in Visitor /\ toServer \in Seq(Said) /\ toClient \in Seq(Message)
Over == Unarmed(server, ready)
Begun ==
  \A i \in DOMAIN ready : ready[i] = "begin_negotiation" =>
    \/ server.closing
    \/ server.waiter_connected = "pending" /\ (i = 1 \/ (i = 2 /\ ready[1] = "close"))
NInv == ServerTypes /\ ClientTypes /\ Over /\ Begun

LEMMA NewServerType ==
  /\ NewServer \in Server(Asks(NewServer)) /\ NewServer.writer.out = <<>>
  /\ NewServer.waiter_connected = "pending" /\ ~NewServer.raised /\ NewServer.shell = "none"
  /\ ~NewServer.closing /\ ~NewServer.closed_early
<1> DEFINE names == [i \in 1 .. (TTYPE_LOOPMAX + 1) |-> NoName]
<1>1. NewServer.writer = NewWriter
  BY DEF NewServer
<1>2. NewWriter \in Writer /\ NewWriter.out = <<>>
  BY DEF NewWriter, Writer, Flag
<1>3. NewWriter \in Asks(NewServer)
  <2>1. "CHARSET" \in Options
    BY ServerOptions
  <2>2. HasAsked(NewWriter, NewServer)
    BY <1>1, <2>1 DEF HasAsked, Remote, NewWriter
  <2> QED
    BY <1>2, <2>2 DEF Asks
<1>4. names \in [1 .. (TTYPE_LOOPMAX + 1) -> Names]
  <2>1. \A S : \A x \in Names : [i \in S |-> x] \in [S -> Names]
    OBVIOUS
  <2>2. NoName \in Names
    BY DEF Names
  <2> QED
    BY <2>1, <2>2
<1>5. NewServer.ttype = names
  BY DEF NewServer
<1>6. 1 \in 1 .. (TTYPE_LOOPMAX + 1) /\ force_binary \in BOOLEAN
  BY ServerAssumption
<1> DEFINE W == Asks(NewServer)
<1> HIDE DEF names, W
<1>7. NewServer \in Server(W)
  BY <1>1, <1>3, <1>4, <1>6 DEF NewServer, Server, Futures, names, W
<1> QED
  BY <1>1, <1>2, <1>7 DEF NewServer, W

LEMMA NInitInvariant == NInit => NInv
<1> SUFFICES ASSUME NInit PROVE NInv
  OBVIOUS
<1>1. ServerTypes
  <2>1. /\ server = NewServer /\ late = FALSE
        /\ ready \in {<<"begin_negotiation">>, <<"close", "begin_negotiation">>}
    BY DEF NInit
  <2>2. ready \in Seq(Handles)
    <3>1. "begin_negotiation" \in Handles /\ "close" \in Handles
      BY DEF Handles
    <3> DEFINE H == Handles
    <3> HIDE DEF H
    <3>2. <<"begin_negotiation">> \in Seq(H)
      BY <3>1 DEF H
    <3>3. <<"close", "begin_negotiation">> \in Seq(H)
      BY <3>1 DEF H
    <3> QED
      BY <2>1, <3>2, <3>3 DEF H
  <2> QED
    BY <2>1, <2>2, NewServerType DEF ServerTypes
<1>2. ClientTypes
  <2>1. PICK k \in Clients :
          client = [terminal |-> k.terminal, accepts |-> k.accepts, lang |-> k.lang,
                    volunteers |-> k.volunteers, loops |-> k.loops, probed |-> k.probed,
                    shown |-> 0, will |-> {}, does |-> {}, said |-> FALSE, left |-> FALSE]
    BY DEF NInit
  <2>2. k \in ClientType
    BY ServerAssumption
  <2>3. k.terminal \in Seq(Names) \ {<<>>}
    <3>1. k.terminal \in Seq(STRING) \ {<<>>}
      BY <2>2 DEF ClientType
    <3>2. \A i \in DOMAIN k.terminal : k.terminal[i] \in Names
      BY DEF Names, Range
    <3> QED
      BY <3>1, <3>2
  <2>4. client \in Visitor
    BY <2>1, <2>2, <2>3 DEF Visitor, ClientType
  <2> QED
    BY <2>4 DEF NInit, ClientTypes
<1>3. Over /\ Begun
  BY NewServerType DEF NInit, Over, Unarmed, Begun, Range
<1> QED
  BY <1>1, <1>2, <1>3 DEF NInv

\* What a step may do: keep the invariant, go on from the end of the negotiation
\* no more than before, and end it in time only with everything answered but what
\* Settled names.
Steps ==
  /\ NInv'
  /\ server'.waiter_connected = "pending" => server.waiter_connected = "pending"
  /\ server.waiter_connected = "pending" /\ server'.waiter_connected = "done" /\ ~late
       => Settled(server, server'.writer, server.waiter_encoding)

\* The loop without its head.
LEMMA PoppedHere ==
  ASSUME NInv, ready # <<>>
  PROVE  /\ Popped \in Here(Asks(server)) /\ Unarmed(Popped.server, Popped.ready)
         /\ Head(ready) # "close" => Fine(Popped)
         /\ Popped.server = server /\ Head(ready) \in Range(ready)
         /\ Head(ready) = "begin_negotiation"
              => server.closing \/ server.waiter_connected = "pending"
<1>1. ready \in Seq(Handles)
  BY DEF NInv, ServerTypes
<1>2. Head(ready) \in Handles /\ Head(ready) \in Range(ready)
      /\ Tail(ready) \in Seq(Handles) /\ Range(Tail(ready)) \subseteq Range(ready)
  BY <1>1, TailOfWire
<1>3. ASSUME Head(ready) # "close", "begin_negotiation" \in Range(Tail(ready))
      PROVE  server.closing
  <2>1. PICK i \in DOMAIN Tail(ready) : Tail(ready)[i] = "begin_negotiation"
    BY <1>3 DEF Range
  <2>2. Len(ready) \in Nat /\ Len(ready) > 0 /\ DOMAIN Tail(ready) = 1 .. (Len(ready) - 1)
        /\ DOMAIN ready = 1 .. Len(ready)
    BY <1>1, <1>2
  <2>3. /\ i + 1 \in DOMAIN ready /\ ready[i + 1] = "begin_negotiation" /\ i + 1 # 1
        /\ ready[1] = Head(ready)
    BY <1>1, <2>1, <2>2
  <2> QED
    BY <1>3, <2>3 DEF NInv, Begun
<1>4. Popped.server = server /\ Popped.ready = Tail(ready)
  BY DEF Popped
<1>5. Popped \in Here(Asks(server))
  BY <1>2 DEF Popped, Here, NInv, ServerTypes
<1>6. Unarmed(Popped.server, Popped.ready)
  BY <1>2, <1>4 DEF Unarmed, NInv, Over
<1>7. Head(ready) # "close" => Fine(Popped)
  BY <1>3, <1>4, <1>6 DEF Fine
<1>8. Head(ready) = "begin_negotiation" => server.closing \/ server.waiter_connected = "pending"
  <2>1. 1 \in DOMAIN ready /\ ready[1] = Head(ready)
    BY <1>1
  <2> QED
    BY <2>1 DEF NInv, Begun
<1> QED
  BY <1>2, <1>4, <1>5, <1>6, <1>7, <1>8

\* A handle has run.
LEMMA Sent ==
  ASSUME NEW w \in Writer
  PROVE  LET v == [w EXCEPT !.out = <<>>] IN
         v \in Writer /\ v.remote = w.remote /\ v.pending = w.pending /\ v.out = <<>>
<1>1. <<>> \in Seq(Message)
  OBVIOUS
<1> QED
  BY <1>1 DEF Writer

LEMMA LeavesSteps ==
  ASSUME NInv, NEW c, Handled(server, Popped, c), Leaves(c), UNCHANGED <<late, client>>,
         toServer' \in Seq(Said)
  PROVE  Steps
<1> DEFINE s0 == server
           v == [WriterOf(c) EXCEPT !.out = <<>>]
<1>1. c \in Here(Asks(s0)) /\ Fine(c) /\ Popped.server = server
  BY DEF Handled, Popped
<1>2. WriterOf(c) \in Writer /\ HasAsked(WriterOf(c), s0) /\ WriterOf(c) = c.server.writer
  BY <1>1 DEF Here, Server, WriterOf, Asks
<1>3. v \in Writer /\ v.remote = WriterOf(c).remote /\ v.pending = WriterOf(c).pending /\ v.out = <<>>
  BY <1>2, Sent
<1>12. server'.waiter_connected = "pending" => server.waiter_connected = "pending"
  BY <1>1 DEF Handled, Leaves, Here, Server
<1>4. v \in Asks(server')
  <2>1. server'.writer = v
    BY <1>1, <1>2 DEF Leaves, Here, Server
  <2> QED
    BY <1>2, <1>3, <1>12, <2>1 DEF Asks, HasAsked, Remote
<1>5. server' = [c.server EXCEPT !.writer = v] /\ ready' = c.ready
  BY <1>1, <1>2 DEF Leaves, Here, Server
<1>6. /\ server' \in Server(Asks(server')) /\ server'.writer = v
      /\ \A f \in {"waiter_connected", "check_later", "raised", "shell",
                   "closing", "closed_early"} : server'[f] = c.server[f]
  <2> HIDE DEF v
  <2> QED
    BY <1>1, <1>4, <1>5 DEF Here, Server
<1>7. ServerTypes'
  BY <1>1, <1>3, <1>5, <1>6 DEF ServerTypes, NInv, Here
<1>8. ClientTypes'
  <2>1. WriterOf(c).out \in Seq(Message) /\ toClient \in Seq(Message)
    BY <1>2 DEF Writer, NInv, ClientTypes
  <2>2. toClient \o WriterOf(c).out \in Seq(Message) /\ <<>> \in Seq(Message)
    BY <2>1
  <2>3. toClient' \in Seq(Message)
    BY <2>2 DEF Leaves
  <2> QED
    BY <2>3 DEF NInv, ClientTypes
<1>9. Over'
  BY <1>1, <1>5, <1>6 DEF Over, Fine, Unarmed, Checks
<1>10. Begun'
  BY <1>1, <1>5 DEF Begun, Fine, Unarmed, Range
<1>11. server.waiter_connected = "pending" /\ server'.waiter_connected = "done" /\ ~late
         => Settled(s0, v, server.waiter_encoding)
  <2>1. server.waiter_connected = "pending" /\ server'.waiter_connected = "done" /\ ~late
         => Settled(s0, WriterOf(c), server.waiter_encoding)
    BY <1>1, <1>6 DEF Handled
  <2> QED
    BY <1>3, <2>1 DEF Settled
<1> HIDE DEF v
<1> QED
  BY <1>6, <1>7, <1>8, <1>9, <1>10, <1>11, <1>12 DEF Steps, NInv

LEMMA SaysSaid == ASSUME NEW m \in Message, client \in Visitor PROVE Says(m) \in Seq(Said)
<1> DEFINE say(c, s, n) == <<[cmd |-> c, opt |-> m.opt, sub |-> s, name |-> n]>>
           size == IF m.opt = "NAWS" /\ m.opt \in client.accepts
                     THEN say("SB", "SIZE", NoName) ELSE <<>>
<1>1. /\ m.opt \in Options
      /\ {"none", "SIZE", "ACCEPTED", "IS"} \subseteq Payloads
      /\ {"WILL", "WONT", "DO", "DONT", "SB"} \subseteq Verbs \cup {"SB"}
      /\ {NoName, "LANG"} \subseteq Names
  BY DEF Message, Payloads, Verbs, Names
<1>2. Terminal(client) \in Names
  <2>1. /\ client.terminal \in Seq(Names) /\ client.terminal # <<>> /\ client.shown \in Nat
        /\ Len(client.terminal) \in Nat /\ Len(client.terminal) # 0
    BY DEF Visitor
  <2>2. \A i \in 1 .. Len(client.terminal) : client.terminal[i] \in Names
    BY <2>1
  <2>3. client.shown < Len(client.terminal) => client.shown + 1 \in 1 .. Len(client.terminal)
    BY <2>1
  <2>4. Len(client.terminal) \in 1 .. Len(client.terminal)
    BY <2>1
  <2> QED
    BY <2>2, <2>3, <2>4 DEF Terminal
<1>3. ASSUME NEW c \in {"WILL", "WONT", "DO", "DONT", "SB"},
             NEW s \in {"none", "SIZE", "ACCEPTED", "IS"}, NEW n \in Names
      PROVE  say(c, s, n) \in Seq(Said)
  BY <1>1 DEF Said
<1> HIDE DEF say
<1>4. NoName \in Names /\ "LANG" \in Names /\ <<>> \in Seq(Said)
  BY DEF Names
<1>5. size \in Seq(Said)
  BY <1>3, <1>4
<1> HIDE DEF size
<1>6. ASSUME NEW c \in {"WILL", "WONT"} PROVE say(c, "none", NoName) \o size \in Seq(Said)
  <2> DEFINE p == say(c, "none", NoName)
  <2>1. p \in Seq(Said)
    BY <1>3, <1>4
  <2> HIDE DEF p
  <2>2. p \o size \in Seq(Said)
    BY <1>5, <2>1
  <2> QED
    BY <2>2 DEF p
<1>7. Says(m) \in {size, say("WILL", "none", NoName) \o size, say("WONT", "none", NoName) \o size,
                   <<>>, say("DO", "none", NoName), say("DONT", "none", NoName),
                   say("SB", "ACCEPTED", NoName), say("SB", "IS", Terminal(client)),
                   say("SB", "IS", "LANG"), say("SB", "IS", NoName)}
  BY DEF Says, say, size
<1> QED
  BY <1>2, <1>3, <1>4, <1>5, <1>6, <1>7

\* A handle becomes ready, behind those that are.
LEMMA WakeSteps ==
  ASSUME NInv, NEW h \in {"data", "eof", "timeout", "close", "check"},
         ready' = Append(ready, h), UNCHANGED <<late, client, toServer, toClient>>,
         \/ UNCHANGED server /\ h # "check"
         \/ server' = [server EXCEPT !.check_later = "soon"] /\ server.check_later = "later"
  PROVE  Steps
<1>1. ready \in Seq(Handles) /\ server \in Server(Asks(server)) /\ late \in BOOLEAN
  BY DEF NInv, ServerTypes
<1>2. ready' = Append(ready, h) /\ h \in Handles
  BY DEF Handles
<1>3. /\ ready' \in Seq(Handles) /\ Range(ready') = Range(ready) \cup {h}
      /\ Begun'
  <2>3. server'.closing = server.closing /\ server'.waiter_connected = server.waiter_connected
    BY <1>1 DEF Server
  <2>1. ready' \in Seq(Handles) /\ Range(ready') = Range(ready) \cup {h}
    BY <1>1, <1>2 DEF Range
  <2>2. /\ \A i \in DOMAIN ready' : ready'[i] = h \/ (i \in DOMAIN ready /\ ready'[i] = ready[i])
        /\ 2 \in DOMAIN ready => ready'[1] = ready[1]
    BY <1>1, <1>2
  <2> QED
    BY <2>1, <2>2, <2>3 DEF NInv, Begun
<1>8. /\ server'.writer = server.writer /\ server' \in Server(Asks(server))
      /\ server'.waiter_connected = server.waiter_connected /\ server'.raised = server.raised
      /\ server'.shell = server.shell /\ server'.closing = server.closing
      /\ server'.closed_early = server.closed_early
      /\ server.check_later = "none" => UNCHANGED server /\ h # "check"
  BY <1>1 DEF Server
<1>4. server' \in Server(Asks(server'))
  <2>1. Asks(server') = Asks(server)
    BY <1>8 DEF Asks, HasAsked
  <2> QED
    BY <1>8, <2>1
<1>5. ServerTypes'
  BY <1>1, <1>3, <1>4, <1>8 DEF NInv, ServerTypes
<1>6. ClientTypes'
  BY DEF NInv, ClientTypes
<1>7. Over'
  BY <1>3, <1>8 DEF NInv, Over, Unarmed, Checks
<1> QED
  BY <1>3, <1>5, <1>6, <1>7, <1>8 DEF Steps, NInv

\* The client speaks, or time passes: the server is as before.
LEMMA ApartSteps ==
  ASSUME NInv, UNCHANGED <<server, ready>>, late' \in BOOLEAN, ClientTypes'
  PROVE  Steps
BY DEF Steps, NInv, ServerTypes, Over, Unarmed, Begun

\* Every step does what Steps says.
LEMMA NNextSteps == NInv /\ NNext => Steps
<1> SUFFICES ASSUME NInv, NNext PROVE Steps
  OBVIOUS
<1> DEFINE s0 == server
<1>0. /\ server \in Server(Asks(server)) /\ ready \in Seq(Handles) /\ late \in BOOLEAN
      /\ client \in Visitor /\ toServer \in Seq(Said) /\ toClient \in Seq(Message)
      /\ <<>> \in Seq(Said)
  BY DEF NInv, ServerTypes, ClientTypes
<1>1. CASE RunBegin
  <2>1. /\ ready # <<>> /\ Head(ready) = "begin_negotiation" /\ Leaves(begin_negotiation(Popped))
        /\ UNCHANGED <<late, client>> /\ UNCHANGED toServer
    BY <1>1 DEF RunBegin, Run
  <2>3. Handled(s0, Popped, begin_negotiation(Popped))
    BY <2>1, PoppedHere, begin_negotiationHandles
  <2> QED
    BY <1>0, <2>1, <2>3, LeavesSteps
<1>2. CASE RunAdvanced
  <2>1. /\ ready # <<>> /\ Head(ready) # "close" /\ Leaves(begin_advanced_negotiation(Popped))
        /\ UNCHANGED <<late, client>> /\ UNCHANGED toServer
    BY <1>2 DEF RunAdvanced, Run
  <2>2. Handled(s0, Popped, begin_advanced_negotiation(Popped))
    BY <2>1, PoppedHere, begin_advanced_negotiationHandles
  <2> QED
    BY <1>0, <2>1, <2>2, LeavesSteps
<1>3. CASE RunShell
  <2>1. /\ ready # <<>> /\ Head(ready) = "begin_shell" /\ Leaves(begin_shell(Popped))
        /\ UNCHANGED <<late, client>> /\ UNCHANGED toServer
    BY <1>3 DEF RunShell, Run
  <2>2. server.waiter_connected # "pending"
    BY <2>1, PoppedHere DEF NInv, Over, Unarmed
  <2>3. Handled(s0, Popped, begin_shell(Popped))
    BY <2>1, <2>2, PoppedHere, begin_shellHandles
  <2> QED
    BY <1>0, <2>1, <2>3, LeavesSteps
<1>4. CASE RunCheck
  <2>1. /\ ready # <<>> /\ Head(ready) = "check" /\ Leaves(_check_negotiation_timer(Popped))
        /\ UNCHANGED <<late, client>> /\ UNCHANGED toServer
    BY <1>4 DEF RunCheck, Run
  <2>2. server.closed_early \/ server.waiter_connected = "pending"
    BY <2>1, PoppedHere DEF NInv, Over, Unarmed
  <2>3. Handled(s0, Popped, _check_negotiation_timer(Popped))
    BY <1>0, <2>1, <2>2, PoppedHere, CheckTimerHandles, EarlyCheckHandles
  <2> QED
    BY <1>0, <2>1, <2>3, LeavesSteps
<1>5. CASE RunLost
  <2>1. /\ ready # <<>> /\ Leaves(connection_lost(Popped))
        /\ UNCHANGED <<late, client>> /\ toServer' = <<>>
    BY <1>5 DEF RunLost, Run
  <2>2. Handled(s0, Popped, connection_lost(Popped))
    BY <2>1, PoppedHere, connection_lostHandles
  <2> QED
    BY <1>0, <2>1, <2>2, LeavesSteps
<1>6. CASE RunData
  <2>1. CASE server.writer.closing /\ Run("data", Popped) /\ UNCHANGED toServer
    <3>1. ready # <<>> /\ Head(ready) # "close" /\ Leaves(Popped) /\ UNCHANGED <<late, client>>
      BY <2>1 DEF Run
    <3>2. Handled(s0, Popped, Popped)
      BY <3>1, PoppedHere DEF Handled
    <3> QED
      BY <1>0, <2>1, <3>1, <3>2, LeavesSteps
  <2>2. CASE \E n \in 1..Len(toServer) :
               /\ n <= MaxChunk
               /\ Run("data", data_received(Popped, SubSeq(toServer, 1, n)))
               /\ toServer' = IF server'.writer.closing THEN <<>>
                               ELSE SubSeq(toServer, n + 1, Len(toServer))
    <3>1. PICK n \in 1..Len(toServer) :
               /\ Run("data", data_received(Popped, SubSeq(toServer, 1, n)))
               /\ toServer' = IF server'.writer.closing THEN <<>>
                               ELSE SubSeq(toServer, n + 1, Len(toServer))
      BY <2>2
    <3> DEFINE chunk == SubSeq(toServer, 1, n)
               rest == SubSeq(toServer, n + 1, Len(toServer))
    <3>2. /\ Len(toServer) \in Nat /\ n \in Int /\ n + 1 \in Int /\ n >= 1 /\ n <= Len(toServer)
          /\ \A i \in 1 .. Len(toServer) : toServer[i] \in Said
      BY <1>0
    <3>3. chunk \in Seq(Said) /\ rest \in Seq(Said)
      <4>1. \A i \in 1 .. n : toServer[i] \in Said
        BY <3>2
      <4>2. \A i \in n + 1 .. Len(toServer) : toServer[i] \in Said
        BY <3>2
      <4> QED
        BY <3>2, <4>1, <4>2, SubSeqProperties
    <3> HIDE DEF chunk, rest
    <3>4. /\ ready # <<>> /\ Head(ready) # "close"
          /\ Leaves(data_received(Popped, chunk)) /\ UNCHANGED <<late, client>>
          /\ toServer' \in {<<>>, rest}
      BY <3>1 DEF Run, chunk, rest
    <3>5. Handled(s0, Popped, data_received(Popped, chunk))
      BY <1>0, <3>3, <3>4, PoppedHere, data_receivedHandles
    <3> QED
      BY <1>0, <3>3, <3>4, <3>5, LeavesSteps
  <2> QED
    BY <1>6, <2>1, <2>2 DEF RunData
<1>7. CASE Readable \/ SessionDue \/ UserCloses
  <2>1. PICK h \in {"data", "eof", "timeout", "close"} : Wake(h) /\ UNCHANGED server
    BY <1>7 DEF Readable, SessionDue, UserCloses
  <2> QED
    BY <2>1, WakeSteps DEF Wake
<1>8. CASE CheckDue
  <2>1. /\ ready' = Append(ready, "check") /\ UNCHANGED <<late, client, toServer, toClient>>
        /\ server.check_later = "later" /\ server' = [server EXCEPT !.check_later = "soon"]
    BY <1>8 DEF CheckDue
  <2> QED
    BY <2>1, WakeSteps
<1>9. CASE Elapse
  BY <1>9, ApartSteps DEF Elapse, NInv, ClientTypes
<1>10. CASE ClientAnswers
  <2> DEFINE m == Head(toClient)
             ok == m.opt \in client.accepts
  <2>1. /\ toClient # <<>> /\ toServer' = toServer \o Says(m) /\ toClient' = Tail(toClient)
        /\ UNCHANGED <<server, ready, late>>
        /\ client' = [client EXCEPT
             !.will = IF m.cmd = "DO" /\ ok THEN @ \cup {m.opt} ELSE @,
             !.does = IF m.cmd = "WILL" /\ ok THEN @ \cup {m.opt} ELSE @,
             !.shown = IF m.cmd = "SB" /\ m.opt = "TTYPE" /\ @ < Len(client.terminal)
                         THEN @ + 1 ELSE @]
    BY <1>10 DEF ClientAnswers
  <2>2. m \in Message /\ toClient' \in Seq(Message)
    BY <1>0, <2>1
  <2>3. toServer' \in Seq(Said)
    <3>1. Says(m) \in Seq(Said)
      BY <1>0, <2>2, SaysSaid
    <3> QED
      BY <1>0, <2>1, <3>1
  <2>4. m.opt \in Options
    BY <2>2 DEF Message
  <2> DEFINE W == IF m.cmd = "DO" /\ ok THEN client.will \cup {m.opt} ELSE client.will
             D == IF m.cmd = "WILL" /\ ok THEN client.does \cup {m.opt} ELSE client.does
             S == IF m.cmd = "SB" /\ m.opt = "TTYPE" /\ client.shown < Len(client.terminal)
                    THEN client.shown + 1 ELSE client.shown
  <2>6. W \in SUBSET Options /\ D \in SUBSET Options /\ S \in Nat
    BY <1>0, <2>4 DEF Visitor
  <2>7. client' = [client EXCEPT !.will = W, !.does = D, !.shown = S]
    BY <1>0, <2>1 DEF Visitor
  <2> HIDE DEF m, W, D, S
  <2>5. client' \in Visitor
    BY <1>0, <2>6, <2>7 DEF Visitor
  <2> QED
    BY <1>0, <2>1, <2>2, <2>3, <2>5, ApartSteps DEF ClientTypes
<1>11. CASE ClientVolunteers
  <2>1. PICK v \in client.volunteers :
          /\ client' = [client EXCEPT !.said = TRUE,
                          !.will = IF v[1] = "WILL" THEN @ \cup {v[2]} ELSE @]
          /\ toServer' = Append(toServer,
                           [cmd |-> v[1], opt |-> v[2], sub |-> "none", name |-> NoName])
          /\ UNCHANGED <<server, ready, late, toClient>>
    BY <1>11 DEF ClientVolunteers
  <2>2. v[1] \in Verbs /\ v[2] \in Options
    BY <1>0 DEF Visitor
  <2>3. client' \in Visitor
    BY <1>0, <2>1, <2>2 DEF Visitor
  <2>4. [cmd |-> v[1], opt |-> v[2], sub |-> "none", name |-> NoName] \in Said
    BY <2>2 DEF Said, Payloads, Names
  <2> DEFINE x == [cmd |-> v[1], opt |-> v[2], sub |-> "none", name |-> NoName]
  <2>5. Append(toServer, x) \in Seq(Said)
    <3> HIDE DEF x
    <3>1. x \in Said
      BY <2>4 DEF x
    <3> QED
      BY <1>0, <3>1
  <2> QED
    BY <1>0, <2>1, <2>3, <2>5, ApartSteps DEF ClientTypes
<1>12. CASE ClientLeaves
  <2>1. /\ client' = [client EXCEPT !.left = TRUE] /\ toClient' = <<>>
        /\ UNCHANGED <<server, ready, late, toServer>>
    BY <1>12 DEF ClientLeaves
  <2>2. client' \in Visitor
    BY <1>0, <2>1 DEF Visitor
  <2>3. toClient' \in Seq(Message)
    BY <2>1
  <2> QED
    BY <1>0, <2>1, <2>2, <2>3, ApartSteps DEF ClientTypes
<1> QED
  BY <1>1, <1>2, <1>3, <1>4, <1>5, <1>6, <1>7, <1>8, <1>9, <1>10, <1>11, <1>12
     DEF NNext, RunHandle

LEMMA NStutter == NInv /\ UNCHANGED nvars => NInv'
BY DEF NInv, ServerTypes, ClientTypes, Over, Unarmed, Begun, nvars

-----------------------------------------------------------------------------
(***************************************************************************)
(* Fingerprinting: the shell starts when the negotiation is over, and      *)
(* writes, looks at the tables and writes again, but ends nothing.         *)
(***************************************************************************)
ProbeStates == Waits \cup {"none", "starts", "pty", "over"}
Probes ==
  [step : ProbeStates, asked : SUBSET Options,
   results : [Options -> {"none", "WILL", "WONT", "timeout"}],
   looped : SUBSET Options, hurried : BOOLEAN]
Probing == [server : Server(Writer), ready : Seq(Handles), probe : Probes]

\* A turn of the shell changes the writer and the probe only.
Turned(c, d) == d \in Probing /\ Same(c, d)

LEMMA FreeWriter == ASSUME NEW s0, s0.waiter_connected # "pending" PROVE Asks(s0) = Writer
BY DEF Asks, HasAsked

LEMMA KeptWriter == Kept(Writer)
<1> DEFINE s0 == [waiter_connected |-> "done"]
<1>1. s0.waiter_connected # "pending"
  OBVIOUS
<1> HIDE DEF s0
<1> QED
  BY <1>1, FreeWriter, AsksClosed

LEMMA TurnedReflexive == ASSUME NEW c \in Probing PROVE Turned(c, c)
BY DEF Turned, Same

LEMMA TurnedTrans == ASSUME NEW a, NEW b, NEW c, Turned(a, b), Turned(b, c) PROVE Turned(a, c)
BY SameTrans DEF Turned

LEMMA WriterTurned ==
  ASSUME NEW c \in Probing, NEW w \in Writer
  PROVE  Turned(c, WithWriter(c, w)) /\ WriterOf(WithWriter(c, w)) = w
BY DEF WithWriter, WriterOf, Probing, Server, Same, Turned

LEMMA IacTurned ==
  ASSUME NEW c \in Probing, NEW k \in Verbs, NEW o
  PROVE  Turned(c, IacC(c, k, o))
<1>1. CASE o \in Options
  <2>1. WriterOf(c) \in Writer
    BY DEF WriterOf, Probing, Server
  <2>2. Iac(WriterOf(c), k, o) \in Writer
    BY <1>1, <2>1, IacStays, KeptWriter DEF Kept
  <2> QED
    BY <1>1, <2>2, WriterTurned DEF IacC
<1>2. CASE o \notin Options
  BY <1>2, TurnedReflexive DEF IacC
<1> QED
  BY <1>1, <1>2

\* The probe itself changes.
LEMMA ProbeTurned ==
  ASSUME NEW c \in Probing, NEW p \in Probes
  PROVE  Turned(c, [c EXCEPT !.probe = p])
BY DEF Probing, Turned, Same

\* The commands of a turn, one after the other.
IacOne(e, d, o) == IF o \in e[2] THEN IacC(d, e[1], o) ELSE d
TurnedFrom(e, d) == Turned(e[3], d)
Commands == INSTANCE FoldInduction WITH op <- IacOne, P <- TurnedFrom

LEMMA IacEachTurned ==
  ASSUME NEW c \in Probing, NEW k \in Verbs, NEW A, NEW q \in Seq(Options)
  PROVE  Turned(c, IacEach(c, k, A, q))
<1> DEFINE e == <<k, A, c>>
<1>0. e[1] = k /\ e[2] = A /\ e[3] = c
  OBVIOUS
<1> HIDE DEF e
<1>1. IacEach(c, k, A, q) = Commands!Folded(e, c, q)
  BY <1>0 DEF IacEach, IacOne, Commands!Folded, Commands!IsFold, Commands!Last,
     FoldLeft, MapThenFoldSet, Max
<1>2. TurnedFrom(e, c)
  BY <1>0, TurnedReflexive DEF TurnedFrom
<1>3. \A u : \A i \in DOMAIN q : TurnedFrom(e, u) => TurnedFrom(e, IacOne(e, u, q[i]))
  <2> SUFFICES ASSUME NEW u, NEW i \in DOMAIN q, Turned(c, u)
               PROVE  Turned(c, IacOne(e, u, q[i]))
    BY <1>0 DEF TurnedFrom
  <2>1. u \in Probing
    BY DEF Turned
  <2>2. Turned(u, IacC(u, k, q[i]))
    BY <2>1, IacTurned
  <2> QED
    BY <1>0, <2>2, TurnedTrans DEF IacOne
<1>4. TurnedFrom(e, Commands!Folded(e, c, q))
  BY <1>2, <1>3, Commands!FoldStays
<1> QED
  BY <1>0, <1>1, <1>4 DEF TurnedFrom

\* The options are finitely many, and so is what a table agrees to.
LEMMA OptionsFinite == IsFiniteSet(Options)
<1>1. ASSUME NEW a, NEW b, NEW c PROVE IsFiniteSet({a, b, c})
  <2>1. IsFiniteSet({a} \cup {b})
    BY FS_Singleton, FS_AddElement
  <2>2. IsFiniteSet(({a} \cup {b}) \cup {c})
    BY <2>1, FS_AddElement
  <2>3. ({a} \cup {b}) \cup {c} = {a, b, c}
    OBVIOUS
  <2> QED
    BY <2>2, <2>3
<1> DEFINE A == ({"GMCP", "MSDP", "MSSP"} \cup {"MSP", "MXP", "ZMP"}) \cup
                ({"AARDWOLF", "ATCP", "ECHO"} \cup {"BINARY", "SGA", "EOR"})
           B == ({"TM", "LOGOUT", "STATUS"} \cup {"CHARSET", "TTYPE", "TSPEED"}) \cup
                ({"XDISPLOC", "NEW_ENVIRON", "LFLOW"} \cup {"NAWS", "SNDLOC", "UNKNOWN"})
           C == {"COM_PORT_OPTION", "MCCP2", "MCCP3"}
<1>2. IsFiniteSet(A) /\ IsFiniteSet(B) /\ IsFiniteSet(C)
  BY <1>1, FS_Union
<1>3. AllOptions = (A \cup B) \cup C
  BY DEF AllOptions, MudOptions
<1> HIDE DEF A, B, C
<1>4. IsFiniteSet((A \cup B) \cup C)
  BY <1>2, FS_Union
<1> QED
  BY <1>3, <1>4, FS_Subset, OptionsAssumption

LEMMA SetToSeqType == ASSUME NEW A \in SUBSET Options PROVE SetToSeq(A) \in Seq(Options)
<1> DEFINE n == Cardinality(A)
<1>1. n \in Nat /\ ExistsBijection(1 .. n, A)
  BY OptionsFinite, FS_Subset, FS_CardinalityType
<1>2. \E f \in [1 .. n -> A] : IsInjective(f)
  BY <1>1 DEF ExistsBijection, Bijection, Injection
<1>3. SetToSeq(A) \in [1 .. n -> A]
  BY <1>2 DEF SetToSeq
<1> QED
  BY <1>1, <1>3

LEMMA ShowsType ==
  ASSUME NEW w \in Writer, NEW t \in {"local", "remote"}, NEW A, NEW f \in Flag, NEW b \in BOOLEAN
  PROVE  [Shows(w, t, A, f) EXCEPT !.in_loop_detection = b] \in Writer
<1> DEFINE T == [o \in Options |-> IF o \in A THEN f ELSE w[t][o]]
           P == [r \in Requests |-> IF r[1] = ProbeCmd[t] /\ r[2] \in A THEN "unset"
                                    ELSE w.pending[r]]
<1>1. T \in [Options -> Flag] /\ P \in [Requests -> Flag]
  BY DEF Writer, Flag
<1>2. Shows(w, t, A, f) = [w EXCEPT ![t] = T, !.pending = P]
  BY DEF Shows, Writer
<1> HIDE DEF T, P
<1>3. [w EXCEPT ![t] = T, !.pending = P] \in Writer
  BY <1>1 DEF Writer
<1>4. Shows(w, t, A, f) \in Writer
  BY <1>2, <1>3
<1> HIDE DEF Shows
<1> QED
  BY <1>4 DEF Writer

LEMMA VerdictType == \A f \in Flag : Verdict[f] \in {"none", "WILL", "WONT", "timeout"}
BY DEF Verdict, Flag

\* The table of a writer, read.
LEMMA TableType == ASSUME NEW c \in Probing PROVE WriterOf(c) \in Writer /\ \A o \in Options : WriterOf(c).remote[o] \in Flag
BY DEF Probing, Server, WriterOf, Writer

LEMMA AsksAllTurned ==
  ASSUME NEW c \in Probing, NEW q \in Seq(Options), NEW A \in SUBSET Options
  PROVE  Turned(c, AsksAll(c, q, A))
<1> DEFINE w == WriterOf(c)
           asked == {o \in A : w.remote[o] = "unset"}
           R == [o \in Options |-> IF o \in A \ asked THEN Verdict[w.remote[o]] ELSE c.probe.results[o]]
           p == [c.probe EXCEPT !.asked = asked, !.results = R]
           d == [c EXCEPT !.probe.asked = asked, !.probe.results =
                   [o \in Options |-> IF o \in A \ asked THEN Verdict[w.remote[o]] ELSE @[o]]]
           e == IacEach(d, "DO", asked, q)
<1>1. asked \in SUBSET Options /\ R \in [Options -> {"none", "WILL", "WONT", "timeout"}]
  BY VerdictType, TableType DEF Probing, Probes
<1>2. d = [c EXCEPT !.probe = p]
  BY DEF Probing, Probes
<1> HIDE DEF asked, R
<1>3. p \in Probes
  BY <1>1 DEF Probing, Probes
<1> HIDE DEF p, d
<1>4. Turned(c, d) /\ d \in Probing
  BY <1>2, <1>3, ProbeTurned DEF Turned
<1>5. Turned(d, e)
  BY <1>4, IacEachTurned DEF Verbs
<1>6. AsksAll(c, q, A) = e
  BY DEF AsksAll, e, d, asked, w
<1> QED
  BY <1>4, <1>5, <1>6, TurnedTrans

LEMMA CollectsTurned == ASSUME NEW c \in Probing PROVE Turned(c, Collects(c))
<1> DEFINE w == WriterOf(c)
           R == [o \in Options |-> IF o \in c.probe.asked THEN Verdict[w.remote[o]]
                                   ELSE c.probe.results[o]]
           p == [c.probe EXCEPT !.results = R, !.asked = {}]
<1>1. R \in [Options -> {"none", "WILL", "WONT", "timeout"}]
  BY VerdictType, TableType DEF Probing, Probes
<1>2. Collects(c) = [c EXCEPT !.probe = p]
  BY DEF Collects, Probing, Probes
<1> HIDE DEF R
<1>3. p \in Probes
  BY <1>1 DEF Probing, Probes
<1> QED
  BY <1>2, <1>3, ProbeTurned

LEMMA RechecksTurned ==
  ASSUME NEW c \in Probing, NEW t \in {"local", "remote"}
  PROVE  Turned(c, Rechecks(c, t))
<1> DEFINE w == WriterOf(c)
           A == {o \in Options : w[t][o] = "on"}
           f == [Shows(w, t, A, "unset") EXCEPT !.in_loop_detection = TRUE]
           p == [c.probe EXCEPT !.step = t, !.asked = A]
           d == [c EXCEPT !.probe.step = t, !.probe.asked = A]
           q == SetToSeq(A)
<1>1. A \in SUBSET Options /\ q \in Seq(Options)
  BY SetToSeqType
<1>2. f \in Writer
  BY TableType, ShowsType DEF Flag
<1>3. d = [c EXCEPT !.probe = p]
  BY DEF Probing
<1> HIDE DEF A, q, f
<1>4. p \in Probes
  BY <1>1 DEF Probing, Probes, ProbeStates, Waits
<1> HIDE DEF p, d
<1>5. Turned(c, d) /\ d \in Probing
  BY <1>3, <1>4, ProbeTurned DEF Turned
<1>6. Turned(d, WithWriter(d, f)) /\ WithWriter(d, f) \in Probing
  BY <1>2, <1>5, WriterTurned DEF Turned
<1>7. Turned(WithWriter(d, f), IacEach(WithWriter(d, f), ProbeCmd[t], A, q))
  BY <1>1, <1>6, IacEachTurned DEF ProbeCmd, Verbs
<1>8. Rechecks(c, t) = IacEach(WithWriter(d, f), ProbeCmd[t], A, q)
  BY DEF Rechecks, d, f, q, A
<1> QED
  BY <1>5, <1>6, <1>7, <1>8, TurnedTrans

LEMMA RestoresTurned ==
  ASSUME NEW c \in Probing, NEW t \in {"local", "remote"}
  PROVE  Turned(c, Restores(c, t))
<1> DEFINE w == WriterOf(c)
           A == c.probe.asked
           r == [Shows(w, t, A, "on") EXCEPT !.in_loop_detection = FALSE]
           L == c.probe.looped \cup {o \in A : w[t][o] # "unset"}
           p == [c.probe EXCEPT !.looped = L, !.asked = {}]
           d == [c EXCEPT !.probe.looped = @ \cup {o \in A : w[t][o] # "unset"}, !.probe.asked = {}]
<1>1. L \in SUBSET Options
  BY DEF Probing, Probes
<1>2. r \in Writer
  BY TableType, ShowsType DEF Flag
<1>3. d = [c EXCEPT !.probe = p]
  BY DEF Probing, Probes
<1>4. Restores(c, t) = WithWriter(d, r)
  BY DEF Restores
<1> HIDE DEF L, r
<1>5. p \in Probes
  BY <1>1 DEF Probing, Probes
<1> HIDE DEF p, d
<1>6. Turned(c, d) /\ d \in Probing
  BY <1>3, <1>5, ProbeTurned DEF Turned
<1>7. Turned(d, WithWriter(d, r))
  BY <1>2, <1>6, WriterTurned
<1> QED
  BY <1>4, <1>6, <1>7, TurnedTrans

\* Where the shell waits next.
LEMMA StepTurned ==
  ASSUME NEW c \in Probing, NEW s \in ProbeStates
  PROVE  Turned(c, [c EXCEPT !.probe.step = s])
<1>1. [c.probe EXCEPT !.step = s] \in Probes
  BY DEF Probing, Probes
<1>2. [c EXCEPT !.probe.step = s] = [c EXCEPT !.probe = [c.probe EXCEPT !.step = s]]
  BY DEF Probing
<1> QED
  BY <1>1, <1>2, ProbeTurned

LEMMA RecheckLocalTurned == ASSUME NEW c \in Probing PROVE Turned(c, RecheckLocal(c))
BY RechecksTurned, StepTurned DEF RecheckLocal, ProbeStates

LEMMA RecheckRemoteTurned == ASSUME NEW c \in Probing PROVE Turned(c, RecheckRemote(c))
BY RechecksTurned, RecheckLocalTurned DEF RecheckRemote

LEMMA ProbeLists ==
  /\ CORE_OPTIONS \in Seq(Options) /\ EXTENDED_OPTIONS \in Seq(Options)
  /\ CORE_OPTIONS \o LEGACY_OPTIONS \in Seq(Options)
  /\ \A s \in Seq(Options) : Range(s) \subseteq Options
<1>1. \A s \in {CORE_OPTIONS, EXTENDED_OPTIONS, LEGACY_OPTIONS} : s \in Seq(Options)
  BY ProbeAssumption
<1>2. \A s \in Seq(Options) : Range(s) \subseteq Options
  BY DEF Range
<1> QED
  BY <1>1, <1>2

LEMMA FirstTurnTurned == ASSUME NEW c \in Probing PROVE Turned(c, FirstTurn(c))
<1> DEFINE d == [c EXCEPT !.probe.step = "core"]
<1>1. Turned(c, d) /\ d \in Probing
  BY StepTurned DEF ProbeStates, Waits, Turned
<1> HIDE DEF d
<1>2. Range(CORE_OPTIONS) \ {"NEW_ENVIRON"} \in SUBSET Options
      /\ Range(CORE_OPTIONS \o LEGACY_OPTIONS) \in SUBSET Options
  BY ProbeLists
<1>3. /\ Turned(d, AsksAll(d, CORE_OPTIONS, Range(CORE_OPTIONS) \ {"NEW_ENVIRON"}))
      /\ Turned(d, AsksAll(d, CORE_OPTIONS \o LEGACY_OPTIONS, Range(CORE_OPTIONS \o LEGACY_OPTIONS)))
  BY <1>1, <1>2, ProbeLists, AsksAllTurned
<1>4. FirstTurn(c) \in {AsksAll(d, CORE_OPTIONS, Range(CORE_OPTIONS) \ {"NEW_ENVIRON"}),
                        AsksAll(d, CORE_OPTIONS \o LEGACY_OPTIONS, Range(CORE_OPTIONS \o LEGACY_OPTIONS))}
  BY DEF FirstTurn, d
<1> QED
  BY <1>1, <1>3, <1>4, TurnedTrans

LEMMA AfterWaitTurned ==
  ASSUME NEW c \in Probing, c.probe.step \in Waits
  PROVE  Turned(c, AfterWait(c))
<1>1. Turned(c, Collects(c)) /\ Collects(c) \in Probing
  BY CollectsTurned DEF Turned
<1>2. CASE c.probe.step = "core"
  <2> DEFINE d == Collects(c)
             e == [d EXCEPT !.probe.step = "extended"]
  <2>1. Turned(c, d) /\ d \in Probing
    BY <1>1
  <2>2. AfterWait(c) \in {AsksAll(e, EXTENDED_OPTIONS, Range(EXTENDED_OPTIONS)), RecheckRemote(d)}
    BY <1>2 DEF AfterWait
  <2> HIDE DEF d
  <2>3. Turned(d, e) /\ e \in Probing
    BY <2>1, StepTurned DEF ProbeStates, Waits, Turned
  <2> HIDE DEF e
  <2>4. Turned(e, AsksAll(e, EXTENDED_OPTIONS, Range(EXTENDED_OPTIONS)))
    BY <2>3, ProbeLists, AsksAllTurned
  <2>5. Turned(d, RecheckRemote(d))
    BY <2>1, RecheckRemoteTurned
  <2> QED
    BY <2>1, <2>2, <2>3, <2>4, <2>5, TurnedTrans
<1>3. CASE c.probe.step = "extended"
  <2>1. AfterWait(c) = RecheckRemote(Collects(c))
    BY <1>3 DEF AfterWait
  <2> QED
    BY <1>1, <2>1, RecheckRemoteTurned, TurnedTrans
<1>4. CASE c.probe.step = "remote"
  <2>1. AfterWait(c) = RecheckLocal(Restores(c, "remote"))
    BY <1>4 DEF AfterWait
  <2>2. Turned(c, Restores(c, "remote")) /\ Restores(c, "remote") \in Probing
    BY RestoresTurned DEF Turned
  <2> QED
    BY <2>1, <2>2, RecheckLocalTurned, TurnedTrans
<1>5. CASE c.probe.step = "local"
  <2>1. AfterWait(c) = [Restores(c, "local") EXCEPT !.probe.step = "pty"]
    BY <1>5 DEF AfterWait
  <2>2. Turned(c, Restores(c, "local")) /\ Restores(c, "local") \in Probing
    BY RestoresTurned DEF Turned
  <2>3. Turned(Restores(c, "local"), [Restores(c, "local") EXCEPT !.probe.step = "pty"])
    BY <2>2, StepTurned DEF ProbeStates
  <2> QED
    BY <2>1, <2>2, <2>3, TurnedTrans
<1> QED
  BY <1>2, <1>3, <1>4, <1>5 DEF Waits

-----------------------------------------------------------------------------
\* The invariant of the negotiation with the shell on top: it is not there
\* before the negotiation is over.
FInv ==
  /\ NInv /\ probe \in Probes
  /\ probe.step # "none" => server.waiter_connected # "pending"

\* What a step of either does to the server, whatever the shell writes.
LEMMA TurnSteps ==
  ASSUME NInv, server.waiter_connected # "pending", probe \in Probes,
         NEW c, Turned(Now, c), Turn(c)
  PROVE  Steps /\ server'.waiter_connected = server.waiter_connected
<1> DEFINE v == [WriterOf(c) EXCEPT !.out = <<>>]
<1>1. c \in Probing /\ Same(Now, c) /\ Now.server = server /\ Now.ready = ready
  BY DEF Turned, Now
<1>2. WriterOf(c) \in Writer /\ WriterOf(c) = c.server.writer
  BY <1>1, TableType DEF WriterOf
<1>3. v \in Writer /\ v.out = <<>>
  BY <1>2, Sent
<1>4. server' = [c.server EXCEPT !.writer = v]
  BY <1>1, <1>2 DEF Turn, Probing, Server
<1> HIDE DEF v
<1>5. /\ server' \in Server(Writer) /\ server'.writer = v
      /\ \A f \in {"waiter_connected", "check_later", "raised", "shell",
                   "closing", "closed_early"} : server'[f] = server[f]
  <2>1. /\ server' \in Server(Writer) /\ server'.writer = v
        /\ \A f \in {"waiter_connected", "check_later", "raised", "shell",
                     "closing", "closed_early"} : server'[f] = c.server[f]
    BY <1>1, <1>3, <1>4 DEF Probing, Server
  <2> QED
    BY <1>1, <2>1 DEF Same
<1>6. Asks(server') = Writer
  BY <1>5, FreeWriter
<1>7. ServerTypes'
  BY <1>3, <1>5, <1>6 DEF ServerTypes, NInv, Turn
<1>8. ClientTypes'
  <2>1. WriterOf(c).out \in Seq(Message) /\ toClient \in Seq(Message)
    BY <1>2 DEF Writer, NInv, ClientTypes
  <2>2. toClient \o WriterOf(c).out \in Seq(Message)
    BY <2>1
  <2> QED
    BY <2>2 DEF NInv, ClientTypes, Turn
<1>9. Over' /\ Begun'
  BY <1>5 DEF NInv, Over, Unarmed, Begun, Turn
<1> QED
  BY <1>5, <1>7, <1>8, <1>9 DEF Steps, NInv

LEMMA NowProbing ==
  ASSUME FInv, server.waiter_connected # "pending" PROVE Now \in Probing /\ Now.probe = probe
<1>1. Asks(server) = Writer
  BY FreeWriter
<1> QED
  BY <1>1 DEF FInv, NInv, ServerTypes, Now, Probing

LEMMA FNextSteps == FInv /\ FNext => FInv' /\ (Steps \/ UNCHANGED nvars)
<1> SUFFICES ASSUME FInv, FNext PROVE FInv' /\ (Steps \/ UNCHANGED nvars)
  OBVIOUS
<1>0. NInv /\ probe \in Probes
  BY DEF FInv
<1>1. CASE Negotiates
  <2>1. Steps
    BY <1>0, <1>1, NNextSteps DEF Negotiates
  <2>2. probe' \in Probes
    BY <1>0, <1>1 DEF Negotiates, Probes, ProbeStates
  <2>3. probe'.step # "none" => server'.waiter_connected # "pending"
    <3>1. CASE server.shell = "none" /\ server'.shell # "none" /\ client.probed
      BY <2>1, <3>1 DEF Steps, NInv, Over, Unarmed
    <3>2. CASE ~(server.shell = "none" /\ server'.shell # "none" /\ client.probed)
      <4>1. probe'.step = probe.step
        BY <1>0, <1>1, <3>2 DEF Negotiates, Probes
      <4>2. server.waiter_connected # "pending" => server'.waiter_connected # "pending"
        BY <2>1 DEF Steps
      <4> QED
        BY <4>1, <4>2 DEF FInv
    <3> QED
      BY <3>1, <3>2
  <2> QED
    BY <2>1, <2>2, <2>3 DEF FInv, Steps
<1>2. CASE ShellStarts
  <2>1. server.waiter_connected # "pending" /\ Turn(FirstTurn(Now)) /\ probe' = FirstTurn(Now).probe
    BY <1>2 DEF ShellStarts, FInv
  <2>2. Turned(Now, FirstTurn(Now))
    BY <2>1, NowProbing, FirstTurnTurned
  <2>3. probe' \in Probes
    BY <2>1, <2>2 DEF Turned, Probing
  <2>4. Steps /\ server'.waiter_connected = server.waiter_connected
    BY <1>0, <2>1, <2>2, TurnSteps
  <2> QED
    BY <2>1, <2>3, <2>4 DEF FInv, Steps
<1>3. CASE ShellGoesOn
  <2> DEFINE c == AfterWait(Now)
             missed == ~Responded(Now) /\ (toServer # <<>> \/ toClient # <<>>)
  <2>1. /\ probe.step \in Waits /\ Turn(c)
        /\ probe' = [c.probe EXCEPT !.hurried = @ \/ missed]
    BY <1>3 DEF ShellGoesOn
  <2>2. server.waiter_connected # "pending"
    BY <2>1 DEF FInv, Waits
  <2>3. Turned(Now, c)
    BY <2>1, <2>2, NowProbing, AfterWaitTurned
  <2> HIDE DEF c
  <2>4. probe' \in Probes
    <3>1. c.probe \in Probes
      BY <2>3 DEF Turned, Probing
    <3> DEFINE h == c.probe.hurried \/ missed
    <3>2. probe' = [c.probe EXCEPT !.hurried = h] /\ h \in BOOLEAN
      BY <2>1, <3>1 DEF Probes
    <3> HIDE DEF h, missed
    <3> QED
      BY <3>1, <3>2 DEF Probes
  <2>5. Steps /\ server'.waiter_connected = server.waiter_connected
    BY <1>0, <2>1, <2>2, <2>3, TurnSteps
  <2> QED
    BY <2>2, <2>4, <2>5 DEF FInv, Steps
<1>4. CASE DrainRaises
  <2>1. probe' \in Probes /\ UNCHANGED nvars /\ probe.step # "none"
    BY <1>0, <1>4 DEF DrainRaises, Probes, ProbeStates
  <2> QED
    BY <1>0, <2>1, NStutter DEF FInv, nvars
<1>5. CASE ShellEnds
  <2>1. probe' \in Probes /\ probe.step # "none" /\ UNCHANGED server
    BY <1>0, <1>5 DEF ShellEnds, Probes, ProbeStates, nvars
  <2>2. UNCHANGED nvars \/ Wake("close")
    BY <1>5 DEF ShellEnds
  <2>3. NInv' /\ (Steps \/ UNCHANGED nvars)
    BY <1>0, <2>1, <2>2, WakeSteps, NStutter DEF Steps, Wake
  <2> QED
    BY <2>1, <2>3 DEF FInv
<1> QED
  BY <1>1, <1>2, <1>3, <1>4, <1>5 DEF FNext

LEMMA FInitInvariant == FInit => FInv
BY NInitInvariant, ServerAssumption DEF FInit, FInv, NewProbe, Probes, ProbeStates

LEMMA FStutter == FInv /\ UNCHANGED fvars => FInv'
BY NStutter DEF FInv, fvars, nvars

\* The shell comes after the negotiation; and whatever the client sends, and the
\* shell asks it, the futures of the negotiation are left alone once it is over.
THEOREM NegotiationInvariant == FSpec => []FInv
<1>1. FInv /\ [FNext]_fvars => FInv'
  BY FNextSteps, FStutter
<1> QED
  BY <1>1, FInitInvariant, PTL DEF FSpec

\* No future of the connection is set twice or after it was cancelled, unless the
\* writer was closed in the turn of the loop in which begin_negotiation was still
\* due: with every check that sets one, no other is left, neither its timer nor a
\* ready handle (_check_negotiation_timer and connection_lost).
THEOREM NeverRaisesHolds == FSpec => []NeverRaises
<1>1. FInv => NeverRaises
  BY DEF FInv, NInv, Over, Unarmed, NeverRaises
<1> QED
  BY <1>1, NegotiationInvariant, PTL

\* A negotiation that ends in time leaves no request open but the DO BINARY that
\* the check which ends it has just made, and that only where the terminal type
\* was refused (check_negotiation and _check_encoding).
THEOREM ShellAnsweredHolds == FSpec => ShellAnswered
<1>1. FInv /\ [FNext]_fvars
        => [server.waiter_connected = "pending" /\ server'.waiter_connected = "done" /\ ~late
              => \A r \in Requests : server'.writer.pending[r] = "on" =>
                   /\ r = <<"DO", "BINARY">> /\ server.writer.pending[r] = "unset"
                   /\ server.waiter_encoding = "pending"
                   /\ server'.writer.remote["TTYPE"] = "off"]_nvars
  <2> SUFFICES ASSUME FInv, [FNext]_fvars, ~UNCHANGED nvars,
                      server.waiter_connected = "pending", server'.waiter_connected = "done", ~late
               PROVE  Settled(server, server'.writer, server.waiter_encoding)
    BY DEF Settled
  <2>1. Steps
    BY FNextSteps DEF fvars, nvars
  <2> QED
    BY <2>1 DEF Steps
<1> QED
  BY <1>1, NegotiationInvariant, PTL DEF FSpec, ShellAnswered

=============================================================================
