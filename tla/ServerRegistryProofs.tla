------------------------ MODULE ServerRegistryProofs ------------------------
(***************************************************************************)
(* What ServerRegistry promises, for any set of connections, any capacity  *)
(* of the queue and any limit: the three invariants of its run.            *)
(***************************************************************************)
EXTENDS ServerRegistry, FiniteSetTheorems, TLAPS

(***************************************************************************)
(* The inductive invariant: what can be said of one connection in every    *)
(* stage of its life, of the queue, and of the counter.                    *)
(***************************************************************************)
Conn ==
  [phase : {"absent", "detecting", "ready"}, first : {"none", "plain", "tls", "eof"},
   decided : BOOLEAN, timer : BOOLEAN, peek : BOOLEAN,
   upgrade : {"none", "due", "handshake", "done", "over"}, transport : {"open", "closed"},
   made : {0, 1}, early : BOOLEAN, closing : BOOLEAN,
   waiter : {"none", "pending", "done", "cancelled"}, enqueue : BOOLEAN, begin : BOOLEAN,
   shell : {"none", "busy", "checking", "robot", "inner", "over"}, asked : {0, 1}]

Values ==
  /\ conn \in [Conns -> Conn] /\ _protocols \in [Conns -> 0 .. 1]
  /\ _new_client \in Seq(Conns) /\ given \in Seq(Conns) /\ _count \in Nat

\* Before somebody has decided there is no protocol, and a decision to upgrade
\* leaves one that is registered before it is made.
Undecided(c) == ~c.decided /\ (c.timer \/ c.peek)
Upgrading(c) == c.upgrade \in {"due", "handshake", "done"}
Stage(c, listed) ==
  /\ c.phase = "absent" =>
       ~c.decided /\ ~c.timer /\ ~c.peek /\ c.upgrade = "none" /\ c.made = 0 /\ ~c.closing /\ listed = 0
  /\ Undecided(c) => c.upgrade = "none" /\ c.made = 0 /\ ~c.closing /\ listed = 0
  /\ Upgrading(c) =>
       /\ c.decided /\ c.made = 0 /\ ~c.closing
       /\ listed = IF c.upgrade = "due" THEN 0 ELSE 1
  /\ c.phase = "ready" => c.made = 1
  /\ c.made = 1 /\ ~c.closing => listed = 1

\* The shell and the queue hear once of a connection whose negotiation is over.
Started(c) ==
  /\ c.made = 0 => c.waiter = "none"
  /\ c.waiter # "done" => ~c.enqueue /\ ~c.begin
  /\ c.waiter # "done" \/ c.begin => c.shell = "none"

Queued(p) == p \in {given[i] : i \in DOMAIN given} \cup {_new_client[i] : i \in DOMAIN _new_client}
Unheard(c) == c.waiter # "done" \/ c.enqueue
Injective(q) == \A i, j \in DOMAIN q : q[i] = q[j] => i = j
Queues ==
  /\ Len(_new_client) <= maxsize
  /\ Injective(given) /\ Injective(_new_client)
  /\ \A i \in DOMAIN given, j \in DOMAIN _new_client : given[i] # _new_client[j]
  /\ \A p \in Conns : Unheard(conn[p]) => ~Queued(p)

Holders == {p \in Conns : Holds(p)}
Slots == limit > 0 => IsFiniteSet(Holders) /\ _count = Cardinality(Holders) /\ _count <= limit

IInv ==
  /\ Values /\ Queues /\ Slots
  /\ \A p \in Conns : Stage(conn[p], _protocols[p]) /\ Started(conn[p])

(***************************************************************************)
(* What a step of one connection, which leaves the record c of it, has to  *)
(* show; the other connections only see the list pruned.                   *)
(***************************************************************************)
Lives == \A p \in Conns : Stage(conn[p], _protocols[p]) /\ Started(conn[p])
Occupies(c) == c.shell \in {"checking", "robot", "inner"}

LEMMA LiveKeeps ==
  ASSUME Values, Lives, NEW p \in Conns
  PROVE  /\ Live \in [Conns -> 0 .. 1]
         /\ Stage(conn[p], Live[p])
<1>1. Live[p] = IF conn[p].closing THEN 0 ELSE _protocols[p]
  BY DEF Live
<1>2. Live \in [Conns -> 0 .. 1]
  BY DEF Live, Values
<1>3. Stage(conn[p], _protocols[p])
  BY DEF Lives
<1> QED BY <1>1, <1>2, <1>3 DEF Stage, Undecided, Upgrading

LEMMA LivesStep ==
  ASSUME Values, Lives, NEW p \in Conns, NEW c \in Conn, conn' = [conn EXCEPT ![p] = c],
         Started(c),
         \/ UNCHANGED _protocols /\ Stage(c, _protocols[p])
         \/ Register(p) /\ _protocols[p] = 0 /\ Stage(c, 1)
  PROVE  /\ conn' \in [Conns -> Conn] /\ _protocols' \in [Conns -> 0 .. 1]
         /\ Lives'
<1>1. conn' \in [Conns -> Conn] /\ conn'[p] = c /\ \A q \in Conns \ {p} : conn'[q] = conn[q]
  BY DEF Values
<1>2. CASE UNCHANGED _protocols /\ Stage(c, _protocols[p])
  <2>1. ASSUME NEW q \in Conns PROVE Stage(conn'[q], _protocols'[q]) /\ Started(conn'[q])
    BY <1>1, <1>2 DEF Lives
  <2> QED BY <1>1, <1>2, <2>1 DEF Lives, Values
<1>3. CASE Register(p) /\ _protocols[p] = 0 /\ Stage(c, 1)
  <2>1. Live \in [Conns -> 0 .. 1] /\ Live[p] = 0
    BY <1>3, LiveKeeps DEF Live
  <2>2. _protocols' = [Live EXCEPT ![p] = @ + 1]
    BY <1>3 DEF Register
  <2>3. /\ _protocols' \in [Conns -> 0 .. 1] /\ _protocols'[p] = 1
        /\ \A q \in Conns \ {p} : _protocols'[q] = Live[q]
    BY <2>1, <2>2
  <2>4. ASSUME NEW q \in Conns PROVE Stage(conn'[q], _protocols'[q]) /\ Started(conn'[q])
    <3>1. CASE q = p
      BY <3>1, <1>1, <1>3, <2>3
    <3>2. CASE q # p
      BY <3>2, <1>1, <2>3, LiveKeeps DEF Lives
    <3> QED BY <3>1, <3>2
  <2> QED BY <1>1, <2>3, <2>4 DEF Lives
<1> QED BY <1>2, <1>3

\* Nobody who has been heard of is announced again.
LEMMA QueuesStep ==
  ASSUME Values, Queues, NEW p \in Conns, NEW c \in Conn, conn' = [conn EXCEPT ![p] = c],
         Unheard(c) => Unheard(conn[p]), UNCHANGED <<_new_client, given>>
  PROVE  Queues'
<1>1. \A q \in Conns : Unheard(conn'[q]) => Unheard(conn[q])
  BY DEF Values
<1> QED BY <1>1 DEF Queues, Queued, Injective, Unheard

LEMMA SlotsStep ==
  ASSUME Values, Slots, NEW p \in Conns, NEW c \in Conn, conn' = [conn EXCEPT ![p] = c],
         \/ UNCHANGED _count /\ (Occupies(c) <=> Holds(p))
         \/ Release(conn[p]) /\ Holds(p) /\ ~Occupies(c)
         \/ _count' = _count + 1 /\ _count < limit /\ ~Holds(p) /\ Occupies(c)
         \/ limit = 0 /\ UNCHANGED _count
  PROVE  Slots' /\ _count' \in Nat
<1>1. \A q \in Conns : Holds(q)' <=> (IF q = p THEN Occupies(c) ELSE Holds(q))
  BY DEF Holds, Occupies, Values
<1>2. CASE UNCHANGED _count /\ (Occupies(c) <=> Holds(p))
  <2>1. Holders' = Holders
    BY <1>1, <1>2 DEF Holders
  <2> QED BY <1>2, <2>1 DEF Slots, Values
<1>3. CASE limit = 0
  BY <1>3 DEF Slots, Values, Release
<1>4. CASE limit > 0 /\ Release(conn[p]) /\ Holds(p) /\ ~Occupies(c)
  <2>1. Holders' = Holders \ {p} /\ p \in Holders
    BY <1>1, <1>4 DEF Holders
  <2>2. IsFiniteSet(Holders) /\ _count = Cardinality(Holders) /\ _count <= limit
    BY <1>4 DEF Slots
  <2>3. IsFiniteSet(Holders') /\ Cardinality(Holders') = Cardinality(Holders) - 1
    BY <2>1, <2>2, FS_RemoveElement
  <2>4. Cardinality(Holders') \in Nat
    BY <2>3, FS_CardinalityType
  <2>5. _count \in Nat /\ limit \in Nat
    BY RegistryAssumption DEF Values
  <2>6. _count' = _count - 1
    BY <2>2, <2>3, <2>4, <2>5, <1>4 DEF Release
  <2> QED BY <2>2, <2>3, <2>4, <2>5, <2>6 DEF Slots
<1>5. CASE limit > 0 /\ _count' = _count + 1 /\ _count < limit /\ ~Holds(p) /\ Occupies(c)
  <2>1. Holders' = Holders \cup {p} /\ p \notin Holders
    BY <1>1, <1>5 DEF Holders
  <2>2. IsFiniteSet(Holders) /\ _count = Cardinality(Holders)
    BY <1>5 DEF Slots
  <2>3. IsFiniteSet(Holders') /\ Cardinality(Holders') = Cardinality(Holders) + 1
    BY <2>1, <2>2, FS_AddElement
  <2>4. _count \in Nat /\ limit \in Nat
    BY RegistryAssumption DEF Values
  <2> QED BY <1>5, <2>2, <2>3, <2>4 DEF Slots
<1>6. limit = 0 \/ limit > 0
  BY RegistryAssumption
<1> QED BY <1>2, <1>3, <1>4, <1>5, <1>6, RegistryAssumption

\* The steps that neither announce a connection nor touch the counter.
LEMMA QuietStep ==
  ASSUME IInv, NEW p \in Conns, NEW c \in Conn, conn' = [conn EXCEPT ![p] = c],
         Started(c),
         \/ UNCHANGED _protocols /\ Stage(c, _protocols[p])
         \/ Register(p) /\ _protocols[p] = 0 /\ Stage(c, 1),
         Unheard(c) => Unheard(conn[p]), Occupies(c) <=> Holds(p),
         UNCHANGED <<_new_client, given, _count>>
  PROVE  IInv'
<1>1. Values /\ Lives /\ Queues /\ Slots
  BY DEF IInv, Lives
<1>2. conn' \in [Conns -> Conn] /\ _protocols' \in [Conns -> 0 .. 1] /\ Lives'
  BY <1>1, LivesStep
<1>3. Queues'
  BY <1>1, QueuesStep
<1>4. Slots' /\ _count' \in Nat
  BY <1>1, SlotsStep
<1> QED BY <1>1, <1>2, <1>3, <1>4 DEF IInv, Values, Lives

\* What an action may use of the connection it is about.
Of(p) == conn[p] \in Conn /\ _protocols[p] \in 0 .. 1 /\ Stage(conn[p], _protocols[p]) /\ Started(conn[p])
LEMMA InvOf == ASSUME IInv, NEW p \in Conns PROVE Of(p)
  BY DEF IInv, Values, Of

\* What detection changes: nothing that the shell and the queue hear of.
LEMMA DetectStep ==
  ASSUME IInv, NEW p \in Conns, NEW c \in Conn, conn' = [conn EXCEPT ![p] = c],
         c.made = conn[p].made, c.waiter = conn[p].waiter, c.enqueue = conn[p].enqueue,
         c.begin = conn[p].begin, c.shell = conn[p].shell,
         \/ UNCHANGED _protocols /\ Stage(c, _protocols[p])
         \/ Register(p) /\ _protocols[p] = 0 /\ Stage(c, 1),
         UNCHANGED <<_new_client, given, _count>>
  PROVE  IInv'
<1>1. Started(conn[p])
  BY InvOf DEF Of
<1>2. Started(c) /\ (Unheard(c) => Unheard(conn[p])) /\ (Occupies(c) <=> Holds(p))
  BY <1>1 DEF Started, Unheard, Occupies, Holds
<1> QED BY <1>2, QuietStep

LEMMA MadeConn == ASSUME NEW c \in Conn, c.made = 0 PROVE Made(c) \in Conn
<1>1. Made(c) = [c EXCEPT !.phase = "ready", !.made = 1, !.first = "plain", !.waiter = "pending"]
  BY DEF Made, Conn
<1> QED BY <1>1, ZenonT(40) DEF Conn

\* A connection is made once: by whoever decides first.
LEMMA MadeOnce ==
  ASSUME NEW c \in Conn, Started(c), c.made = 0, ~c.closing, ~Undecided(c), ~Upgrading(c)
  PROVE  /\ Made(c) \in Conn /\ Started(Made(c)) /\ Stage(Made(c), 1)
         /\ Unheard(Made(c)) /\ Unheard(c) /\ ~Occupies(Made(c)) /\ ~Occupies(c)
<1> DEFINE m == Made(c)
<1>1. /\ m.phase = "ready" /\ m.made = 1 /\ m.first = "plain" /\ m.waiter = "pending"
      /\ m.decided = c.decided /\ m.timer = c.timer /\ m.peek = c.peek /\ m.upgrade = c.upgrade
      /\ m.closing = c.closing /\ m.enqueue = c.enqueue /\ m.begin = c.begin /\ m.shell = c.shell
  BY DEF Made, Conn
<1>2. m \in Conn
  BY MadeConn
<1>3. c.waiter = "none" /\ ~c.enqueue /\ ~c.begin /\ c.shell = "none"
  BY DEF Started
<1> HIDE DEF m
<1>4. Started(m) /\ Stage(m, 1) /\ Unheard(m) /\ ~Occupies(m)
  BY <1>1, <1>3 DEF Started, Stage, Undecided, Upgrading, Unheard, Occupies
<1> QED BY <1>2, <1>3, <1>4 DEF m, Unheard, Occupies

\* A loss leaves a connection with nothing to come but what is due already.
LEMMA LostKeeps ==
  ASSUME NEW c \in Conn, Started(c), NEW n \in 0 .. 1, Stage(c, n), c.made = 1
  PROVE  /\ Lost(c) \in Conn /\ Started(Lost(c)) /\ Stage(Lost(c), n) /\ Lost(c).closing
         /\ (Unheard(Lost(c)) <=> Unheard(c)) /\ Lost(c).shell = c.shell
         /\ (Lost(c).waiter = "done" <=> c.waiter = "done")
         /\ Lost(c).made = 1
<1>1. CASE c.closing
  BY <1>1 DEF Lost
<1>2. CASE ~c.closing
  <2> DEFINE l == Lost(c)
  <2>1. /\ l.closing /\ l.phase = c.phase /\ l.decided = c.decided /\ l.timer = c.timer
        /\ l.peek = c.peek /\ l.upgrade = c.upgrade /\ l.made = c.made /\ l.enqueue = c.enqueue
        /\ l.waiter = IF c.waiter = "pending" THEN "cancelled" ELSE c.waiter
        /\ l.begin = c.begin /\ l.shell = c.shell
    BY <1>2 DEF Lost, Conn
  <2>2. l \in Conn
    BY <1>2, ZenonT(40) DEF Lost, Conn
  <2> HIDE DEF l
  <2>3. Started(l) /\ Stage(l, n) /\ l.closing /\ (Unheard(l) <=> Unheard(c)) /\ l.shell = c.shell
        /\ (l.waiter = "done" <=> c.waiter = "done") /\ l.made = 1
    BY <2>1 DEF Started, Stage, Undecided, Upgrading, Unheard
  <2> QED BY <2>2, <2>3 DEF l
<1> QED BY <1>1, <1>2

LEMMA MadeStep ==
  ASSUME IInv, NEW p \in Conns, NEW c \in Conn, Started(c), c.made = 0, ~c.closing, ~Undecided(c),
         ~Upgrading(c), conn[p].made = 0, conn' = [conn EXCEPT ![p] = Made(c)],
         \/ Register(p) /\ _protocols[p] = 0
         \/ UNCHANGED _protocols /\ _protocols[p] = 1,
         UNCHANGED <<_new_client, given, _count>>
  PROVE  IInv'
<1>1. Unheard(conn[p]) /\ ~Holds(p)
  BY InvOf DEF Of, Started, Unheard, Holds
<1>2. /\ Made(c) \in Conn /\ Started(Made(c)) /\ Stage(Made(c), 1)
      /\ Unheard(Made(c)) /\ ~Occupies(Made(c))
  BY MadeOnce
<1> QED BY <1>1, <1>2, QuietStep

(***************************************************************************)
(* The actions.                                                            *)
(***************************************************************************)
LEMMA AcceptKeeps == ASSUME IInv, NEW p \in Conns, Accept(p) PROVE IInv'
<1>1. Of(p) /\ conn[p].phase = "absent"
  BY InvOf DEF Accept
<1>2. CASE server.tls_auto
  <2> DEFINE c == [conn[p] EXCEPT !.phase = "detecting", !.timer = TRUE, !.peek = TRUE]
  <2>1. c \in Conn /\ Started(c) /\ Stage(c, _protocols[p]) /\ (Unheard(c) => Unheard(conn[p]))
        /\ (Occupies(c) <=> Holds(p))
    BY <1>1, <1>2 DEF Of, Conn, Started, Stage, Undecided, Upgrading, Unheard, Occupies, Holds
  <2>2. conn' = [conn EXCEPT ![p] = c] /\ UNCHANGED <<_protocols, _new_client, given, _count>>
    BY <1>2 DEF Accept, IInv, Values
  <2> HIDE DEF c
  <2> QED BY <2>1, <2>2, QuietStep
<1>3. CASE ~server.tls_auto
  <2>1. /\ Started(conn[p]) /\ conn[p].made = 0 /\ ~conn[p].closing /\ ~Undecided(conn[p])
        /\ ~Upgrading(conn[p]) /\ _protocols[p] = 0 /\ conn[p] \in Conn
    BY <1>1 DEF Of, Stage, Undecided, Upgrading
  <2>2. conn' = [conn EXCEPT ![p] = Made(conn[p])] /\ UNCHANGED <<_new_client, given, _count>> /\ Register(p)
    BY <1>3 DEF Accept
  <2> QED BY <2>1, <2>2, MadeStep
<1> QED BY <1>2, <1>3

\* Whoever decides first may hand the connection over.
LEMMA HandOver ==
  ASSUME IInv, NEW p \in Conns, NEW c, Undecided(conn[p]),
         c = [conn[p] EXCEPT !.decided = TRUE, !.timer = FALSE] \/
         c = [[conn[p] EXCEPT !.peek = FALSE] EXCEPT !.decided = TRUE, !.timer = FALSE],
         conn' = [conn EXCEPT ![p] = Made(c)], Register(p), UNCHANGED <<_new_client, given, _count>>
  PROVE  IInv'
<1>1. Of(p)
  BY InvOf
<1>2. conn[p].upgrade = "none" /\ conn[p].made = 0 /\ ~conn[p].closing /\ _protocols[p] = 0
  BY <1>1 DEF Of, Stage
<1>3. c \in Conn
  BY <1>1, ZenonT(40) DEF Of, Conn
<1>4. /\ c.decided /\ c.upgrade = "none" /\ c.made = 0 /\ ~c.closing /\ Started(c)
  BY <1>1, <1>2 DEF Of, Conn, Started
<1> QED BY <1>2, <1>3, <1>4, MadeStep DEF Undecided, Upgrading

LEMMA TimeoutKeeps == ASSUME IInv, NEW p \in Conns, _on_detect_timeout(p) PROVE IInv'
<1>1. conn[p] \in Conn /\ Stage(conn[p], _protocols[p]) /\ conn[p].timer
  BY InvOf DEF Of, _on_detect_timeout
<1>2. CASE conn[p].decided
  <2> DEFINE c == [conn[p] EXCEPT !.timer = FALSE]
  <2>1. c \in Conn
    BY <1>1 DEF Conn
  <2>2. /\ c.phase = conn[p].phase /\ c.decided /\ ~c.timer /\ c.peek = conn[p].peek
        /\ c.upgrade = conn[p].upgrade /\ c.made = conn[p].made /\ c.closing = conn[p].closing
        /\ c.waiter = conn[p].waiter /\ c.enqueue = conn[p].enqueue /\ c.begin = conn[p].begin
        /\ c.shell = conn[p].shell
    BY <1>1, <1>2 DEF Conn
  <2>3. conn' = [conn EXCEPT ![p] = c] /\ UNCHANGED <<_protocols, _new_client, given, _count>>
    BY <1>2 DEF _on_detect_timeout
  <2> HIDE DEF c
  <2>4. Stage(c, _protocols[p])
    BY <1>1, <1>2, <2>2 DEF Stage, Undecided, Upgrading
  <2> QED BY <2>1, <2>2, <2>3, <2>4, DetectStep
<1>3. CASE ~conn[p].decided
  BY <1>1, <1>3, HandOver DEF _on_detect_timeout, _handoff_plain, Undecided
<1> QED BY <1>2, <1>3

LEMMA PeekKeeps == ASSUME IInv, NEW p \in Conns, _try_peek(p) PROVE IInv'
<1>1. conn[p] \in Conn /\ Stage(conn[p], _protocols[p]) /\ conn[p].peek
  BY InvOf DEF Of, _try_peek
<1> DEFINE c == [conn[p] EXCEPT !.peek = FALSE]
           done == [c EXCEPT !.decided = TRUE, !.timer = FALSE]
           shut == [done EXCEPT !.transport = "closed"]
           tls == [done EXCEPT !.upgrade = "due"]
<1>2. UNCHANGED <<_new_client, given, _count>>
  BY DEF _try_peek
<1>3. \/ conn[p].decided /\ conn' = [conn EXCEPT ![p] = c] /\ UNCHANGED _protocols
      \/ UNCHANGED <<conn, _protocols>>
      \/ ~conn[p].decided /\ conn' = [conn EXCEPT ![p] = shut] /\ UNCHANGED _protocols
      \/ ~conn[p].decided /\ conn' = [conn EXCEPT ![p] = tls] /\ UNCHANGED _protocols
      \/ ~conn[p].decided /\ conn' = [conn EXCEPT ![p] = Made(done)] /\ Register(p)
  <2>1. c.decided = conn[p].decided /\ conn[p].first \in {"none", "plain", "tls", "eof"}
    BY <1>1 DEF Conn
  <2> HIDE DEF c, done
  <2> QED BY <2>1 DEF _try_peek, Peeks, c, done
<1>4. ~conn[p].decided => Undecided(conn[p]) /\ conn[p].made = 0 /\ ~conn[p].closing /\ _protocols[p] = 0
                           /\ conn[p].phase # "ready"
  BY <1>1 DEF Undecided, Stage
<1>5. CASE conn[p].decided /\ conn' = [conn EXCEPT ![p] = c] /\ UNCHANGED _protocols
  <2>1. c \in Conn
    BY <1>1 DEF Conn
  <2>2. /\ c.phase = conn[p].phase /\ c.decided /\ c.timer = conn[p].timer /\ ~c.peek
        /\ c.upgrade = conn[p].upgrade /\ c.made = conn[p].made /\ c.closing = conn[p].closing
        /\ c.waiter = conn[p].waiter /\ c.enqueue = conn[p].enqueue /\ c.begin = conn[p].begin
        /\ c.shell = conn[p].shell
    BY <1>1, <1>5 DEF Conn
  <2> HIDE DEF c
  <2>3. Stage(c, _protocols[p])
    BY <1>1, <1>5, <2>2 DEF Stage, Undecided, Upgrading
  <2> QED BY <1>2, <1>5, <2>1, <2>2, <2>3, DetectStep
<1>6. CASE UNCHANGED <<conn, _protocols>>
  BY <1>2, <1>6 DEF IInv, Values, Queues, Queued, Slots, Holders, Holds
<1>7. CASE ~conn[p].decided /\ conn' = [conn EXCEPT ![p] = shut] /\ UNCHANGED _protocols
  <2>1. shut \in Conn
    BY <1>1 DEF Conn
  <2>2. /\ shut.phase = conn[p].phase /\ shut.decided /\ ~shut.timer /\ ~shut.peek
        /\ shut.upgrade = conn[p].upgrade /\ shut.made = conn[p].made /\ shut.closing = conn[p].closing
        /\ shut.waiter = conn[p].waiter /\ shut.enqueue = conn[p].enqueue /\ shut.begin = conn[p].begin
        /\ shut.shell = conn[p].shell
    BY <1>1 DEF Conn
  <2> HIDE DEF shut
  <2>3. Stage(shut, _protocols[p])
    BY <1>1, <1>4, <1>7, <2>2 DEF Stage, Undecided, Upgrading
  <2> QED BY <1>2, <1>7, <2>1, <2>2, <2>3, DetectStep
<1>8. CASE ~conn[p].decided /\ conn' = [conn EXCEPT ![p] = tls] /\ UNCHANGED _protocols
  <2>1. tls \in Conn
    BY <1>1 DEF Conn
  <2>2. /\ tls.phase = conn[p].phase /\ tls.decided /\ ~tls.timer /\ ~tls.peek
        /\ tls.upgrade = "due" /\ tls.made = conn[p].made /\ tls.closing = conn[p].closing
        /\ tls.waiter = conn[p].waiter /\ tls.enqueue = conn[p].enqueue /\ tls.begin = conn[p].begin
        /\ tls.shell = conn[p].shell
    BY <1>1 DEF Conn
  <2> HIDE DEF tls
  <2>3. Stage(tls, _protocols[p])
    BY <1>1, <1>4, <1>8, <2>2 DEF Stage, Undecided, Upgrading
  <2> QED BY <1>2, <1>8, <2>1, <2>2, <2>3, DetectStep
<1>9. CASE ~conn[p].decided /\ conn' = [conn EXCEPT ![p] = Made(done)] /\ Register(p)
  BY <1>2, <1>4, <1>9, HandOver
<1> QED BY <1>3, <1>5, <1>6, <1>7, <1>8, <1>9

LEMMA UpgradeKeeps == ASSUME IInv, NEW p \in Conns, _upgrade_to_tls(p) PROVE IInv'
<1>1. conn[p] \in Conn /\ Stage(conn[p], _protocols[p]) /\ conn[p].upgrade = "due"
  BY InvOf DEF Of, _upgrade_to_tls
<1> DEFINE c == [conn[p] EXCEPT !.upgrade = "handshake"]
<1>2. c \in Conn
  BY <1>1 DEF Conn
<1>3. /\ c.phase = conn[p].phase /\ c.decided = conn[p].decided /\ c.timer = conn[p].timer
      /\ c.peek = conn[p].peek /\ c.upgrade = "handshake" /\ c.made = conn[p].made
      /\ c.closing = conn[p].closing /\ c.waiter = conn[p].waiter /\ c.enqueue = conn[p].enqueue
      /\ c.begin = conn[p].begin /\ c.shell = conn[p].shell
  BY <1>1 DEF Conn
<1>4. conn' = [conn EXCEPT ![p] = c] /\ UNCHANGED <<_new_client, given, _count>> /\ Register(p)
  BY DEF _upgrade_to_tls
<1> HIDE DEF c
<1>5. Stage(c, 1) /\ _protocols[p] = 0
  BY <1>1, <1>3 DEF Stage, Undecided, Upgrading
<1> QED BY <1>2, <1>3, <1>4, <1>5, DetectStep

LEMMA LostUnmade ==
  ASSUME NEW c \in Conn, c.made = 0, ~c.closing, c.waiter = "none"
  PROVE  Lost(c) = [c EXCEPT !.closing = TRUE]
<1>1. Lost(c) = [c EXCEPT !.closing = TRUE, !.transport = c.transport, !.waiter = c.waiter]
  BY DEF Lost
<1> QED BY <1>1 DEF Conn

\* Whatever ends the handshake, the protocol is not connected, and it is
\* marked as closing or stays listed.
LEMMA HandshakeKeeps == ASSUME IInv, NEW p \in Conns, Handshake(p) PROVE IInv'
<1>1. /\ conn[p] \in Conn /\ Stage(conn[p], _protocols[p]) /\ Started(conn[p])
      /\ conn[p].upgrade = "handshake"
  BY InvOf DEF Of, Handshake
<1>2. conn[p].decided /\ conn[p].made = 0 /\ ~conn[p].closing /\ conn[p].waiter = "none"
  BY <1>1 DEF Stage, Upgrading, Started
<1> DEFINE done == [conn[p] EXCEPT !.upgrade = "done"]
           data == [Lost(conn[p]) EXCEPT !.upgrade = "over", !.early = TRUE, !.transport = "closed"]
           refused == [Lost(conn[p]) EXCEPT !.upgrade = "over", !.transport = "closed"]
           lost == [conn[p] EXCEPT !.upgrade = "over", !.transport = "closed"]
<1>3. PICK c \in {done, data, refused, lost} : conn' = [conn EXCEPT ![p] = c]
  <2>1. PICK how \in {"done", "done with data", "refused", "lost"} :
          conn' = [conn EXCEPT ![p] = CASE how = "done" -> done
                                        [] how = "done with data" -> data
                                        [] how = "refused" -> refused
                                        [] how = "lost" -> lost]
    BY DEF Handshake
  <2> HIDE DEF done, data, refused, lost
  <2>2. PICK c \in {done, data, refused, lost} :
          c = CASE how = "done" -> done [] how = "done with data" -> data
                [] how = "refused" -> refused [] how = "lost" -> lost
    OBVIOUS
  <2> QED BY <2>1, <2>2
<1>4. UNCHANGED <<_protocols, _new_client, given, _count>>
  BY DEF Handshake, Unregistered
<1>5. Lost(conn[p]) = [conn[p] EXCEPT !.closing = TRUE]
  BY <1>1, <1>2, LostUnmade
<1>6. done \in Conn /\ data \in Conn /\ refused \in Conn /\ lost \in Conn
  BY <1>1, <1>5 DEF Conn
<1>7. /\ c.phase = conn[p].phase /\ c.decided = conn[p].decided /\ c.timer = conn[p].timer
      /\ c.peek = conn[p].peek /\ c.upgrade \in {"done", "over"} /\ c.made = conn[p].made
      /\ (c.upgrade = "done" => ~c.closing) /\ c.waiter = conn[p].waiter
      /\ c.enqueue = conn[p].enqueue /\ c.begin = conn[p].begin /\ c.shell = conn[p].shell
  <2>1. CASE c = done
    BY <1>1, <1>2, <2>1 DEF Conn
  <2>2. CASE c = data
    BY <1>1, <1>5, <2>2 DEF Conn
  <2>3. CASE c = refused
    BY <1>1, <1>5, <2>3 DEF Conn
  <2>4. CASE c = lost
    BY <1>1, <2>4 DEF Conn
  <2> QED BY <1>3, <2>1, <2>2, <2>3, <2>4
<1>8. c \in Conn
  BY <1>3, <1>6
<1> HIDE DEF done, data, refused, lost
<1>9. Stage(c, _protocols[p])
  BY <1>1, <1>2, <1>7 DEF Stage, Undecided, Upgrading
<1> QED BY <1>3, <1>4, <1>7, <1>8, <1>9, DetectStep

\* The protocol is connected after the handshake; it was registered before.
LEMMA UpgradedKeeps == ASSUME IInv, NEW p \in Conns, Upgraded(p) PROVE IInv'
<1>1. /\ conn[p] \in Conn /\ Stage(conn[p], _protocols[p]) /\ Started(conn[p])
      /\ conn[p].upgrade = "done"
  BY InvOf DEF Of, Upgraded
<1>2. conn[p].decided /\ conn[p].made = 0 /\ ~conn[p].closing /\ _protocols[p] = 1
  BY <1>1 DEF Stage, Upgrading
<1> DEFINE c == [conn[p] EXCEPT !.upgrade = "over"]
<1>3. c \in Conn
  BY <1>1 DEF Conn
<1>4. /\ c.decided /\ c.upgrade = "over" /\ c.made = 0 /\ ~c.closing /\ c.waiter = conn[p].waiter
      /\ c.enqueue = conn[p].enqueue /\ c.begin = conn[p].begin /\ c.shell = conn[p].shell
  BY <1>1, <1>2 DEF Conn
<1>5. Made(c) = [Made(conn[p]) EXCEPT !.upgrade = "over"]
  BY <1>1 DEF Conn, Made
<1>6. conn' = [conn EXCEPT ![p] = Made(c)] /\ UNCHANGED <<_protocols, _new_client, given, _count>>
  BY <1>5 DEF Upgraded, Unregistered
<1> HIDE DEF c
<1>7. Started(c) /\ ~Undecided(c) /\ ~Upgrading(c)
  BY <1>1, <1>2, <1>4 DEF Started, Undecided, Upgrading
<1> QED BY <1>2, <1>3, <1>4, <1>6, <1>7, MadeStep

LEMMA SpeaksKeeps == ASSUME IInv, NEW p \in Conns, Speaks(p) PROVE IInv'
<1>1. conn[p] \in Conn /\ Stage(conn[p], _protocols[p])
  BY InvOf DEF Of
<1>2. PICK first \in {"plain", "tls", "eof"} : conn' = [conn EXCEPT ![p].first = first]
  BY DEF Speaks
<1> DEFINE c == [conn[p] EXCEPT !.first = first]
<1>3. c \in Conn
  BY <1>1 DEF Conn
<1>4. /\ c.phase = conn[p].phase /\ c.decided = conn[p].decided /\ c.timer = conn[p].timer
      /\ c.peek = conn[p].peek /\ c.upgrade = conn[p].upgrade /\ c.made = conn[p].made
      /\ c.closing = conn[p].closing /\ c.waiter = conn[p].waiter /\ c.enqueue = conn[p].enqueue
      /\ c.begin = conn[p].begin /\ c.shell = conn[p].shell
  BY <1>1 DEF Conn
<1>5. conn' = [conn EXCEPT ![p] = c] /\ UNCHANGED <<_protocols, _new_client, given, _count>>
  BY <1>2 DEF Speaks, Unregistered
<1> HIDE DEF c
<1>6. Stage(c, _protocols[p])
  BY <1>1, <1>4 DEF Stage, Undecided, Upgrading
<1> QED BY <1>3, <1>4, <1>5, <1>6, DetectStep

LEMMA LostDetectingKeeps == ASSUME IInv, NEW p \in Conns, LostDetecting(p) PROVE IInv'
<1>1. /\ conn[p] \in Conn /\ Stage(conn[p], _protocols[p])
      /\ conn[p].phase = "detecting" /\ ~conn[p].decided
  BY InvOf DEF Of, LostDetecting
<1> DEFINE c == [conn[p] EXCEPT !.decided = TRUE, !.timer = FALSE, !.transport = "closed"]
<1>2. c \in Conn
  BY <1>1 DEF Conn
<1>3. /\ c.phase = conn[p].phase /\ c.decided /\ ~c.timer
      /\ c.peek = conn[p].peek /\ c.upgrade = conn[p].upgrade /\ c.made = conn[p].made
      /\ c.closing = conn[p].closing /\ c.waiter = conn[p].waiter /\ c.enqueue = conn[p].enqueue
      /\ c.begin = conn[p].begin /\ c.shell = conn[p].shell
  BY <1>1 DEF Conn
<1>4. conn' = [conn EXCEPT ![p] = c] /\ UNCHANGED <<_protocols, _new_client, given, _count>>
  BY DEF LostDetecting, Unregistered
<1> HIDE DEF c
<1>5. Stage(c, _protocols[p])
  BY <1>1, <1>3 DEF Stage, Undecided, Upgrading
<1> QED BY <1>2, <1>3, <1>4, <1>5, DetectStep

LEMMA LeavesKeeps == ASSUME IInv, NEW p \in Conns, Leaves(p) PROVE IInv'
<1>1. /\ conn[p] \in Conn /\ Stage(conn[p], _protocols[p]) /\ Started(conn[p])
      /\ _protocols[p] \in 0 .. 1 /\ conn[p].made = 1
  BY InvOf DEF Of, Leaves, Stage
<1>2. /\ Lost(conn[p]) \in Conn /\ Started(Lost(conn[p])) /\ Stage(Lost(conn[p]), _protocols[p])
      /\ (Unheard(Lost(conn[p])) <=> Unheard(conn[p])) /\ Lost(conn[p]).shell = conn[p].shell
  BY <1>1, LostKeeps
<1>3. Occupies(Lost(conn[p])) <=> Holds(p)
  BY <1>2 DEF Occupies, Holds
<1>4. conn' = [conn EXCEPT ![p] = Lost(conn[p])] /\ UNCHANGED <<_protocols, _new_client, given, _count>>
  BY DEF Leaves, Unregistered
<1> QED BY <1>2, <1>3, <1>4, QuietStep

\* The end of the negotiation is announced to the shell and to the queue.
LEMMA NegotiatedKeeps == ASSUME IInv, NEW p \in Conns, Negotiated(p) PROVE IInv'
<1>1. /\ conn[p] \in Conn /\ Stage(conn[p], _protocols[p]) /\ Started(conn[p])
      /\ conn[p].waiter = "pending"
  BY InvOf DEF Of, Negotiated
<1> DEFINE c == [conn[p] EXCEPT !.waiter = "done", !.enqueue = TRUE, !.begin = TRUE]
<1>2. c \in Conn
  BY <1>1 DEF Conn
<1>3. /\ c.phase = conn[p].phase /\ c.decided = conn[p].decided /\ c.timer = conn[p].timer
      /\ c.peek = conn[p].peek /\ c.upgrade = conn[p].upgrade /\ c.made = conn[p].made
      /\ c.closing = conn[p].closing /\ c.waiter = "done" /\ c.begin /\ c.shell = conn[p].shell
  BY <1>1 DEF Conn
<1>4. conn' = [conn EXCEPT ![p] = c] /\ UNCHANGED <<_protocols, _new_client, given, _count>>
  BY DEF Negotiated, Unregistered
<1> HIDE DEF c
<1>5. Stage(c, _protocols[p])
  BY <1>1, <1>3 DEF Stage, Undecided, Upgrading
<1>6. Started(c) /\ Unheard(conn[p]) /\ (Occupies(c) <=> Holds(p))
  BY <1>1, <1>3 DEF Started, Unheard, Occupies, Holds
<1> QED BY <1>2, <1>4, <1>5, <1>6, QuietStep

\* A connection is queued once: what falls out of a full queue is gone.
LEMMA EnqueueQueues ==
  ASSUME Values, Queues, NEW p \in Conns, ~Queued(p), Enqueue(p), UNCHANGED given
  PROVE  /\ _new_client' \in Seq(Conns) /\ Len(_new_client') <= maxsize /\ Injective(_new_client')
         /\ \A i \in DOMAIN given, j \in DOMAIN _new_client' : given[i] # _new_client'[j]
         /\ \A q \in Conns : Queued(q)' => q = p \/ Queued(q)
<1> DEFINE kept == IF Len(_new_client) = maxsize THEN Tail(_new_client) ELSE _new_client
<1>1. /\ _new_client \in Seq(Conns) /\ given \in Seq(Conns) /\ Len(_new_client) <= maxsize
      /\ Len(_new_client) \in Nat /\ maxsize \in Nat \ {0}
  BY RegistryAssumption DEF Values, Queues
<1>2. PICK k \in 0 .. 1 :
        /\ kept \in Seq(Conns) /\ Len(kept) = Len(_new_client) - k /\ Len(kept) < maxsize
        /\ \A i \in 1 .. Len(kept) : kept[i] = _new_client[i + k]
  <2>1. CASE Len(_new_client) = maxsize
    <3>1. _new_client # <<>>
      BY <1>1, <2>1
    <3>2. kept = Tail(_new_client)
      BY <2>1
    <3>3. /\ kept \in Seq(Conns) /\ Len(kept) = Len(_new_client) - 1
          /\ \A i \in 1 .. Len(kept) : kept[i] = _new_client[i + 1]
      BY <1>1, <3>1, <3>2
    <3> QED BY <1>1, <2>1, <3>3
  <2>2. CASE Len(_new_client) # maxsize
    BY <1>1, <2>2
  <2> QED BY <2>1, <2>2
<1>3. _new_client' = Append(kept, p)
  BY DEF Enqueue
<1> HIDE DEF kept
<1>4. /\ _new_client' \in Seq(Conns) /\ Len(_new_client') = Len(kept) + 1
      /\ _new_client'[Len(kept) + 1] = p
      /\ \A i \in 1 .. Len(kept) : _new_client'[i] = _new_client[i + k]
  BY <1>2, <1>3
<1>5. \A i \in 1 .. Len(kept) : i + k \in DOMAIN _new_client /\ _new_client[i + k] # p
  BY <1>1, <1>2, SMTT(30) DEF Queued
<1>6. \A i \in DOMAIN _new_client' : i = Len(kept) + 1 \/ i \in 1 .. Len(kept)
  BY <1>2, <1>4
<1>7. Injective(_new_client')
  <2> SUFFICES ASSUME NEW i \in DOMAIN _new_client', NEW j \in DOMAIN _new_client',
                      _new_client'[i] = _new_client'[j]
               PROVE  i = j
    BY DEF Injective
  <2>1. CASE i = Len(kept) + 1 \/ j = Len(kept) + 1
    BY <1>4, <1>5, <1>6, <2>1
  <2>2. CASE i \in 1 .. Len(kept) /\ j \in 1 .. Len(kept)
    <3>1. i + k = j + k
      BY <1>4, <1>5, <2>2 DEF Injective, Queues
    <3> QED BY <1>2, <2>2, <3>1
  <2> QED BY <1>6, <2>1, <2>2
<1>8. \A i \in DOMAIN given, j \in DOMAIN _new_client' : given[i] # _new_client'[j]
  <2> SUFFICES ASSUME NEW i \in DOMAIN given, NEW j \in DOMAIN _new_client'
               PROVE  given[i] # _new_client'[j]
    OBVIOUS
  <2>1. CASE j = Len(kept) + 1
    BY <1>4, <2>1 DEF Queued
  <2>2. CASE j \in 1 .. Len(kept)
    BY <1>4, <1>5, <2>2 DEF Queues
  <2> QED BY <1>6, <2>1, <2>2
<1>9. \A q \in Conns : Queued(q)' => q = p \/ Queued(q)
  <2> SUFFICES ASSUME NEW q \in Conns, Queued(q)', q # p
               PROVE  Queued(q)
    OBVIOUS
  <2>1. CASE \E i \in DOMAIN given : q = given[i]
    BY <2>1 DEF Queued
  <2>2. CASE \E j \in DOMAIN _new_client' : q = _new_client'[j]
    BY <1>4, <1>5, <1>6, <2>2 DEF Queued
  <2> QED BY <2>1, <2>2 DEF Queued
<1> QED BY <1>1, <1>2, <1>4, <1>7, <1>8, <1>9

LEMMA EnqueueKeeps == ASSUME IInv, NEW p \in Conns, _enqueue_client(p) PROVE IInv'
<1>1. /\ conn[p] \in Conn /\ Stage(conn[p], _protocols[p]) /\ Started(conn[p]) /\ conn[p].enqueue
  BY InvOf DEF Of, _enqueue_client
<1> DEFINE c == [conn[p] EXCEPT !.enqueue = FALSE]
<1>2. c \in Conn
  BY <1>1 DEF Conn
<1>3. /\ c.phase = conn[p].phase /\ c.decided = conn[p].decided /\ c.timer = conn[p].timer
      /\ c.peek = conn[p].peek /\ c.upgrade = conn[p].upgrade /\ c.made = conn[p].made
      /\ c.closing = conn[p].closing /\ c.waiter = conn[p].waiter /\ ~c.enqueue
      /\ c.begin = conn[p].begin /\ c.shell = conn[p].shell
  BY <1>1 DEF Conn
<1>4. conn' = [conn EXCEPT ![p] = c] /\ Enqueue(p) /\ UNCHANGED <<_protocols, given, _count>>
  BY DEF _enqueue_client
<1> HIDE DEF c
<1>5. Stage(c, _protocols[p]) /\ Started(c) /\ ~Unheard(c) /\ (Occupies(c) <=> Holds(p))
  BY <1>1, <1>3 DEF Stage, Undecided, Upgrading, Started, Unheard, Occupies, Holds
<1>6. Values /\ Lives /\ Queues /\ Slots
  BY DEF IInv, Lives
<1>7. ~Queued(p)
  BY <1>1, <1>6 DEF Queues, Unheard
<1>8. conn' \in [Conns -> Conn] /\ _protocols' \in [Conns -> 0 .. 1] /\ Lives'
  BY <1>2, <1>4, <1>5, <1>6, LivesStep
<1>9. Slots' /\ _count' \in Nat
  BY <1>2, <1>4, <1>5, <1>6, SlotsStep
<1>10. /\ _new_client' \in Seq(Conns) /\ Len(_new_client') <= maxsize /\ Injective(_new_client')
       /\ \A i \in DOMAIN given, j \in DOMAIN _new_client' : given[i] # _new_client'[j]
       /\ \A q \in Conns : Queued(q)' => q = p \/ Queued(q)
  BY <1>4, <1>6, <1>7, EnqueueQueues
<1>11. \A q \in Conns : conn'[q] = IF q = p THEN c ELSE conn[q]
  BY <1>4, <1>6 DEF Values
<1>12. \A q \in Conns : Unheard(conn'[q]) => ~Queued(q)'
  BY <1>5, <1>6, <1>10, <1>11 DEF Queues
<1>13. Queues'
  BY <1>4, <1>6, <1>10, <1>12 DEF Queues
<1> QED BY <1>4, <1>6, <1>8, <1>9, <1>10, <1>13 DEF IInv, Values, Lives

\* The steps of the guarded shell: what it does to the counter.
LEMMA ShellStep ==
  ASSUME IInv, NEW p \in Conns, NEW c \in Conn, conn' = [conn EXCEPT ![p] = c],
         Started(c), Stage(c, _protocols[p]), Unheard(c) => Unheard(conn[p]),
         UNCHANGED <<_protocols, _new_client, given>>,
         \/ UNCHANGED _count /\ (Occupies(c) <=> Holds(p))
         \/ Release(conn[p]) /\ Holds(p) /\ ~Occupies(c)
         \/ _count' = _count + 1 /\ _count < limit /\ ~Holds(p) /\ Occupies(c)
         \/ limit = 0 /\ UNCHANGED _count
  PROVE  IInv'
<1>1. Values /\ Lives /\ Queues /\ Slots
  BY DEF IInv, Lives
<1>2. conn' \in [Conns -> Conn] /\ _protocols' \in [Conns -> 0 .. 1] /\ Lives'
  BY <1>1, LivesStep
<1>3. Queues'
  BY <1>1, QueuesStep
<1>4. Slots' /\ _count' \in Nat
  BY <1>1, SlotsStep
<1> QED BY <1>1, <1>2, <1>3, <1>4 DEF IInv, Values, Lives

\* A shell that has begun goes on, or is over.
LEMMA ShellMoves ==
  ASSUME NEW c \in Conn, NEW n \in 0 .. 1, Started(c), Stage(c, n), c.shell # "none",
         NEW shell \in {"checking", "robot", "inner", "busy", "over"}, NEW asked \in {0, 1}
  PROVE  LET d == [c EXCEPT !.shell = shell, !.asked = asked]
         IN  d \in Conn /\ Started(d) /\ Stage(d, n) /\ (Unheard(d) <=> Unheard(c)) /\ d.shell = shell
<1> DEFINE d == [c EXCEPT !.shell = shell, !.asked = asked]
<1>1. d \in Conn
  BY DEF Conn
<1>2. /\ d.phase = c.phase /\ d.decided = c.decided /\ d.timer = c.timer
      /\ d.peek = c.peek /\ d.upgrade = c.upgrade /\ d.made = c.made
      /\ d.closing = c.closing /\ d.waiter = c.waiter /\ d.enqueue = c.enqueue
      /\ d.begin = c.begin /\ d.shell = shell
  BY DEF Conn
<1> HIDE DEF d
<1>3. Started(d) /\ Stage(d, n) /\ (Unheard(d) <=> Unheard(c))
  BY <1>2 DEF Stage, Undecided, Upgrading, Started, Unheard
<1> QED BY <1>1, <1>2, <1>3 DEF d

\* A shell that ends may close its connection.
LEMMA ShellEnds ==
  ASSUME NEW c \in Conn, NEW n \in 0 .. 1, Started(c), Stage(c, n), c.shell # "none"
  PROVE  /\ Closes(c) \in Conn /\ Started(Closes(c)) /\ Stage(Closes(c), n)
         /\ (Unheard(Closes(c)) <=> Unheard(c)) /\ Closes(c).shell = "over"
<1>1. c.made = 1
  BY DEF Started, Conn
<1>2. /\ Lost(c) \in Conn /\ Started(Lost(c)) /\ Stage(Lost(c), n) /\ Lost(c).shell = c.shell
      /\ (Unheard(Lost(c)) <=> Unheard(c))
  BY <1>1, LostKeeps
<1> DEFINE l == Lost(c)
<1>3. Closes(c) = [l EXCEPT !.shell = "over"]
  BY DEF Closes
<1>4. l.asked \in {0, 1}
  BY <1>2 DEF Conn
<1>5. Closes(c) = [l EXCEPT !.shell = "over", !.asked = l.asked]
  BY <1>2, <1>3 DEF Conn
<1>6. /\ l \in Conn /\ Started(l) /\ Stage(l, n) /\ l.shell # "none" /\ (Unheard(l) <=> Unheard(c))
  BY <1>2
<1> DEFINE d == [l EXCEPT !.shell = "over", !.asked = l.asked]
<1> HIDE DEF l
<1>7. d \in Conn /\ Started(d) /\ Stage(d, n) /\ (Unheard(d) <=> Unheard(l)) /\ d.shell = "over"
  BY <1>4, <1>6, ShellMoves, ZenonT(40)
<1> QED BY <1>5, <1>6, <1>7

LEMMA BeginKeeps == ASSUME IInv, NEW p \in Conns, begin_shell(p) PROVE IInv'
<1>1. /\ conn[p] \in Conn /\ Stage(conn[p], _protocols[p]) /\ Started(conn[p]) /\ conn[p].begin
  BY InvOf DEF Of, begin_shell
<1> DEFINE guard == IF ~try_acquire THEN "busy" ELSE IF robot_check THEN "checking" ELSE "inner"
           c == [conn[p] EXCEPT !.begin = FALSE, !.shell = guard]
<1>2. c \in Conn
  <2>1. guard \in {"busy", "checking", "inner"}
    OBVIOUS
  <2> HIDE DEF guard
  <2> QED BY <1>1, <2>1 DEF Conn
<1>3. /\ c.phase = conn[p].phase /\ c.decided = conn[p].decided /\ c.timer = conn[p].timer
      /\ c.peek = conn[p].peek /\ c.upgrade = conn[p].upgrade /\ c.made = conn[p].made
      /\ c.closing = conn[p].closing /\ c.waiter = conn[p].waiter /\ c.enqueue = conn[p].enqueue
      /\ ~c.begin /\ c.shell = guard
  BY <1>1 DEF Conn
<1>4. conn' = [conn EXCEPT ![p] = c] /\ UNCHANGED <<_protocols, _new_client, given>>
  BY DEF begin_shell
<1>5. /\ _count' = IF limit > 0 /\ try_acquire THEN _count + 1 ELSE _count
      /\ (guard \in {"checking", "robot", "inner"} <=> try_acquire)
  BY DEF begin_shell
<1> HIDE DEF c, guard
<1>6. Stage(c, _protocols[p]) /\ Started(c) /\ (Unheard(c) => Unheard(conn[p])) /\ ~Holds(p)
  BY <1>1, <1>3 DEF Stage, Undecided, Upgrading, Started, Unheard, Holds
<1>7. Occupies(c) <=> try_acquire
  BY <1>3, <1>5 DEF Occupies
<1>8. \/ UNCHANGED _count /\ (Occupies(c) <=> Holds(p))
      \/ _count' = _count + 1 /\ _count < limit /\ ~Holds(p) /\ Occupies(c)
      \/ limit = 0 /\ UNCHANGED _count
  BY <1>5, <1>6, <1>7, RegistryAssumption DEF try_acquire
<1> QED BY <1>2, <1>4, <1>6, <1>8, ShellStep

\* A guard's next question, and the end that leaves the connection open.
LEMMA ShellAsks ==
  ASSUME NEW c \in Conn, NEW n \in 0 .. 1, Started(c), Stage(c, n), c.shell # "none"
  PROVE  LET a == [c EXCEPT !.asked = 1]
             o == [c EXCEPT !.shell = "over"]
         IN  /\ a \in Conn /\ Started(a) /\ Stage(a, n) /\ (Unheard(a) <=> Unheard(c)) /\ a.shell = c.shell
             /\ o \in Conn /\ Started(o) /\ Stage(o, n) /\ (Unheard(o) <=> Unheard(c)) /\ o.shell = "over"
<1>1. c.shell \in {"checking", "robot", "inner", "busy", "over"} /\ c.asked \in {0, 1}
  BY DEF Conn
<1> DEFINE a == [c EXCEPT !.asked = 1]
           o == [c EXCEPT !.shell = "over"]
           a2 == [c EXCEPT !.shell = c.shell, !.asked = 1]
           o2 == [c EXCEPT !.shell = "over", !.asked = c.asked]
<1>2. a = a2 /\ o = o2
  BY DEF Conn
<1>3. a2 \in Conn /\ Started(a2) /\ Stage(a2, n) /\ (Unheard(a2) <=> Unheard(c)) /\ a2.shell = c.shell
  <2> HIDE DEF a, o
  <2> QED BY <1>1, ShellMoves
<1>4. o2 \in Conn /\ Started(o2) /\ Stage(o2, n) /\ (Unheard(o2) <=> Unheard(c)) /\ o2.shell = "over"
  <2> HIDE DEF a, o
  <2> QED BY <1>1, ShellMoves
<1> HIDE DEF a2, o2
<1> QED BY <1>2, <1>3, <1>4

LEMMA MeasureKeeps == ASSUME IInv, NEW p \in Conns, _measure_width(p) PROVE IInv'
<1>1. /\ conn[p] \in Conn /\ Stage(conn[p], _protocols[p]) /\ Started(conn[p])
      /\ _protocols[p] \in 0 .. 1 /\ conn[p].shell = "checking"
  BY InvOf DEF Of, _measure_width
<1> DEFINE over == [conn[p] EXCEPT !.shell = "over"]
           asks == [conn[p] EXCEPT !.asked = 1]
           next(shell) == [conn[p] EXCEPT !.shell = shell, !.asked = 0]
<1>2. UNCHANGED <<_protocols, _new_client, given>>
  BY DEF _measure_width
<1>3. \/ conn' = [conn EXCEPT ![p] = over] /\ Release(conn[p])
      \/ conn' = [conn EXCEPT ![p] = asks] /\ UNCHANGED _count
      \/ \E shell \in {"robot", "inner"} : conn' = [conn EXCEPT ![p] = next(shell)] /\ UNCHANGED _count
  <2>1. PICK got \in _get_cursor_position(conn[p]) :
          CASE got = "raised" -> conn' = [conn EXCEPT ![p] = over] /\ Release(conn[p])
            [] got = "position" /\ conn[p].asked = 0 -> conn' = [conn EXCEPT ![p] = asks] /\ UNCHANGED _count
            [] got = "None" \/ (got = "position" /\ conn[p].asked = 1) ->
                 /\ \E shell \in {"robot"} \cup (IF got = "position" THEN {"inner"} ELSE {}) :
                      conn' = [conn EXCEPT ![p] = next(shell)]
                 /\ UNCHANGED _count
    BY ZenonT(40) DEF _measure_width
  <2>2. got \in {"position", "None", "raised"} /\ conn[p].asked \in {0, 1}
    BY <1>1 DEF _get_cursor_position, _read_cpr_response, Raises, Conn
  <2> HIDE DEF over, asks, next
  <2>3. CASE got = "raised"
    BY <2>1, <2>3
  <2>4. CASE got = "position" /\ conn[p].asked = 0
    BY <2>1, <2>4
  <2>5. CASE got = "None" \/ (got = "position" /\ conn[p].asked = 1)
    <3>1. (got # "raised") /\ ~(got = "position" /\ conn[p].asked = 0)
      BY <2>5
    <3>2. /\ \E shell \in {"robot"} \cup (IF got = "position" THEN {"inner"} ELSE {}) :
               conn' = [conn EXCEPT ![p] = next(shell)]
          /\ UNCHANGED _count
      BY <2>1, <2>5, <3>1
    <3> QED BY <3>2
  <2> QED BY <2>2, <2>3, <2>4, <2>5
<1>4. Holds(p)
  BY <1>1 DEF Holds
<1>5. CASE conn' = [conn EXCEPT ![p] = over] /\ Release(conn[p])
  <2>1. over \in Conn /\ Started(over) /\ Stage(over, _protocols[p]) /\ (Unheard(over) <=> Unheard(conn[p]))
        /\ over.shell = "over"
    BY <1>1, ShellAsks
  <2> HIDE DEF over
  <2>2. ~Occupies(over)
    BY <2>1 DEF Occupies
  <2> QED BY <1>2, <1>4, <1>5, <2>1, <2>2, ShellStep
<1>6. CASE conn' = [conn EXCEPT ![p] = asks] /\ UNCHANGED _count
  <2>1. asks \in Conn /\ Started(asks) /\ Stage(asks, _protocols[p]) /\ (Unheard(asks) <=> Unheard(conn[p]))
        /\ asks.shell = "checking"
    BY <1>1, ShellAsks
  <2> HIDE DEF asks
  <2>2. Occupies(asks)
    BY <2>1 DEF Occupies
  <2> QED BY <1>2, <1>4, <1>6, <2>1, <2>2, ShellStep
<1>7. ASSUME NEW shell \in {"robot", "inner"}, conn' = [conn EXCEPT ![p] = next(shell)], UNCHANGED _count
      PROVE  IInv'
  <2> DEFINE c == next(shell)
  <2>0. /\ shell \in {"checking", "robot", "inner", "busy", "over"} /\ 0 \in {0, 1}
        /\ conn[p].shell # "none"
    BY <1>1
  <2>1. c \in Conn /\ Started(c) /\ Stage(c, _protocols[p]) /\ (Unheard(c) <=> Unheard(conn[p]))
        /\ c.shell = shell
    BY <1>1, <2>0, ShellMoves
  <2>2. conn' = [conn EXCEPT ![p] = c]
    BY <1>7
  <2> HIDE DEF c
  <2>3. Occupies(c)
    BY <2>1 DEF Occupies
  <2> QED BY <1>2, <1>4, <1>7, <2>1, <2>2, <2>3, ShellStep
<1> QED BY <1>3, <1>5, <1>6, <1>7

\* A question of a guard that was answered.
LEMMA ShellAsked ==
  ASSUME IInv, NEW p \in Conns, conn[p].shell # "none", conn' = [conn EXCEPT ![p].asked = 1],
         UNCHANGED <<_protocols, _new_client, given, _count>>
  PROVE  IInv'
<1>1. /\ conn[p] \in Conn /\ Stage(conn[p], _protocols[p]) /\ Started(conn[p])
      /\ _protocols[p] \in 0 .. 1
  BY InvOf DEF Of
<1> DEFINE c == [conn[p] EXCEPT !.asked = 1]
<1>2. /\ c \in Conn /\ Started(c) /\ Stage(c, _protocols[p]) /\ (Unheard(c) <=> Unheard(conn[p]))
      /\ c.shell = conn[p].shell
  BY <1>1, ShellAsks
<1>3. conn' = [conn EXCEPT ![p] = c]
  OBVIOUS
<1> HIDE DEF c
<1>4. Occupies(c) <=> Holds(p)
  BY <1>2 DEF Occupies, Holds
<1> QED BY <1>2, <1>3, <1>4, ShellStep

\* The end of a guard or of the shell gives back the slot it holds, if any.
LEMMA ShellOver ==
  ASSUME IInv, NEW p \in Conns, conn[p].shell # "none", UNCHANGED <<_protocols, _new_client, given>>,
         \/ conn' = [conn EXCEPT ![p] = Closes(conn[p])]
         \/ conn' = [conn EXCEPT ![p].shell = "over"],
         \/ Holds(p) /\ Release(conn[p])
         \/ ~Holds(p) /\ UNCHANGED _count
  PROVE  IInv'
<1>1. /\ conn[p] \in Conn /\ Stage(conn[p], _protocols[p]) /\ Started(conn[p])
      /\ _protocols[p] \in 0 .. 1
  BY InvOf DEF Of
<1> DEFINE o == [conn[p] EXCEPT !.shell = "over"]
           l == Closes(conn[p])
<1>2. /\ o \in Conn /\ Started(o) /\ Stage(o, _protocols[p]) /\ (Unheard(o) <=> Unheard(conn[p]))
      /\ o.shell = "over"
  BY <1>1, ShellAsks
<1>3. /\ l \in Conn /\ Started(l) /\ Stage(l, _protocols[p]) /\ (Unheard(l) <=> Unheard(conn[p]))
      /\ l.shell = "over"
  BY <1>1, ShellEnds
<1>4. conn' = [conn EXCEPT ![p] = l] \/ conn' = [conn EXCEPT ![p] = o]
  OBVIOUS
<1> HIDE DEF o, l
<1>5. ~Occupies(o) /\ ~Occupies(l)
  BY <1>2, <1>3 DEF Occupies
<1>6. CASE conn' = [conn EXCEPT ![p] = o]
  BY <1>2, <1>5, <1>6, ShellStep
<1>7. CASE conn' = [conn EXCEPT ![p] = l]
  BY <1>3, <1>5, <1>7, ShellStep
<1> QED BY <1>4, <1>6, <1>7

LEMMA RobotKeeps == ASSUME IInv, NEW p \in Conns, robot_shell(p) PROVE IInv'
<1>1. conn[p].shell = "robot" /\ Holds(p) /\ UNCHANGED <<_protocols, _new_client, given>>
  BY DEF robot_shell, Holds
<1>2. \/ conn' = [conn EXCEPT ![p].asked = 1] /\ UNCHANGED _count
      \/ conn' = [conn EXCEPT ![p] = Closes(conn[p])] /\ Release(conn[p])
  BY DEF robot_shell
<1> QED BY <1>1, <1>2, ShellAsked, ShellOver

LEMMA BusyKeeps == ASSUME IInv, NEW p \in Conns, busy_shell(p) PROVE IInv'
<1>1. conn[p].shell = "busy" /\ ~Holds(p) /\ UNCHANGED <<_protocols, _new_client, given, _count>>
  BY DEF busy_shell, Holds, Unregistered
<1>2. \/ conn' = [conn EXCEPT ![p].asked = 1]
      \/ conn' = [conn EXCEPT ![p] = Closes(conn[p])]
  BY DEF busy_shell
<1> QED BY <1>1, <1>2, ShellAsked, ShellOver

LEMMA InnerKeeps == ASSUME IInv, NEW p \in Conns, InnerEnds(p) PROVE IInv'
<1>1. conn[p].shell = "inner" /\ Holds(p) /\ UNCHANGED <<_protocols, _new_client, given>> /\ Release(conn[p])
  BY DEF InnerEnds, Holds
<1>2. \/ conn' = [conn EXCEPT ![p].shell = "over"]
      \/ conn' = [conn EXCEPT ![p] = Closes(conn[p])]
  BY DEF InnerEnds, Closes
<1> QED BY <1>1, <1>2, ShellOver

LEMMA CallbackKeeps == ASSUME IInv, NEW p \in Conns, Callback(p) PROVE IInv'
BY PeekKeeps, TimeoutKeeps, UpgradeKeeps, HandshakeKeeps, UpgradedKeeps, NegotiatedKeeps, EnqueueKeeps,
   BeginKeeps, MeasureKeeps, RobotKeeps, BusyKeeps DEF Callback

LEMMA PeerKeeps == ASSUME IInv, NEW p \in Conns, Peer(p) PROVE IInv'
BY AcceptKeeps, SpeaksKeeps, LostDetectingKeeps, LeavesKeeps, InnerKeeps DEF Peer

(***************************************************************************)
(* The server's own operations.                                            *)
(***************************************************************************)
LEMMA SlotsStay == ASSUME Slots, UNCHANGED <<conn, _count>> PROVE Slots'
BY DEF Slots, Holders, Holds

LEMMA WaitKeeps == ASSUME IInv, wait_for_client PROVE IInv'
<1>1. /\ _new_client \in Seq(Conns) /\ given \in Seq(Conns) /\ _new_client # <<>> /\ Queues
      /\ given' = Append(given, Head(_new_client)) /\ _new_client' = Tail(_new_client)
      /\ UNCHANGED <<conn, _protocols, _count>>
  BY DEF IInv, Values, wait_for_client
<1> DEFINE first == _new_client[1]
<1>2. /\ given' \in Seq(Conns) /\ Len(given') = Len(given) + 1 /\ given'[Len(given) + 1] = first
      /\ \A i \in 1 .. Len(given) : given'[i] = given[i]
  BY <1>1
<1>3. /\ _new_client' \in Seq(Conns) /\ Len(_new_client') = Len(_new_client) - 1
      /\ \A i \in 1 .. Len(_new_client') : _new_client'[i] = _new_client[i + 1]
  BY <1>1
<1>4. /\ Len(given) \in Nat /\ Len(_new_client) \in Nat /\ DOMAIN given = 1 .. Len(given)
      /\ DOMAIN _new_client = 1 .. Len(_new_client) /\ 1 \in DOMAIN _new_client /\ Len(_new_client) <= maxsize
      /\ DOMAIN given' = 1 .. Len(given) + 1 /\ DOMAIN _new_client' = 1 .. Len(_new_client) - 1
  BY <1>1, <1>2, <1>3 DEF Queues
<1>5. \A i \in DOMAIN given : given[i] # first
  BY <1>1, <1>4 DEF Queues
<1> HIDE DEF first
<1>6. Injective(given')
  BY <1>1, <1>2, <1>4, <1>5 DEF Queues, Injective
<1>7. Injective(_new_client')
  BY <1>1, <1>3, <1>4 DEF Queues, Injective
<1>8. \A i \in DOMAIN given', j \in DOMAIN _new_client' : given'[i] # _new_client'[j]
  <2> SUFFICES ASSUME NEW i \in DOMAIN given', NEW j \in DOMAIN _new_client'
               PROVE  given'[i] # _new_client'[j]
    OBVIOUS
  <2>1. j + 1 \in DOMAIN _new_client /\ _new_client'[j] = _new_client[j + 1] /\ j + 1 # 1
    BY <1>3, <1>4
  <2>2. CASE i = Len(given) + 1
    BY <1>1, <1>2, <1>4, <2>1, <2>2 DEF Queues, Injective, first
  <2>3. CASE i \in DOMAIN given
    BY <1>1, <1>2, <1>4, <2>1, <2>3 DEF Queues
  <2> QED BY <1>4, <2>2, <2>3
<1>9. \A q \in Conns : Queued(q)' => Queued(q)
  <2> SUFFICES ASSUME NEW q \in Conns, Queued(q)'
               PROVE  Queued(q)
    OBVIOUS
  <2>1. CASE \E i \in DOMAIN given' : q = given'[i]
    BY <1>2, <1>4, <2>1 DEF Queued, first
  <2>2. CASE \E j \in DOMAIN _new_client' : q = _new_client'[j]
    BY <1>3, <1>4, <2>2 DEF Queued
  <2> QED BY <2>1, <2>2 DEF Queued
<1>10. Queues'
  BY <1>1, <1>3, <1>4, <1>6, <1>7, <1>8, <1>9, RegistryAssumption DEF Queues
<1>11. Slots'
  BY <1>1, SlotsStay DEF IInv
<1> QED BY <1>1, <1>2, <1>3, <1>10, <1>11 DEF IInv, Values

LEMMA ClientsKeeps == ASSUME IInv, clients PROVE IInv'
<1>1. _protocols' = Live /\ UNCHANGED <<conn, _new_client, given, _count>>
  BY DEF clients
<1>2. Values /\ Lives /\ Queues /\ Slots
  BY DEF IInv, Lives
<1>3. \A p \in Conns : Live \in [Conns -> 0 .. 1] /\ Stage(conn[p], Live[p])
  BY <1>2, LiveKeeps
<1>4. Live \in [Conns -> 0 .. 1]
  BY <1>2 DEF Live, Values
<1>5. Values' /\ Lives'
  BY <1>1, <1>2, <1>3, <1>4 DEF Values, Lives
<1>6. Queues'
  BY <1>1, <1>2 DEF Queues, Queued
<1>7. Slots'
  BY <1>1, <1>2, SlotsStay
<1> QED BY <1>5, <1>6, <1>7 DEF IInv, Lives

LEMMA CloseKeeps == ASSUME IInv, close PROVE IInv'
<1>1. /\ UNCHANGED <<_protocols, _new_client, given, _count>>
      /\ conn' = [p \in Conns |-> IF _protocols[p] > 0 /\ conn[p].made > 0 THEN Lost(conn[p]) ELSE conn[p]]
  BY DEF close
<1>2. Values /\ Lives /\ Queues /\ Slots
  BY DEF IInv, Lives
<1>3. ASSUME NEW p \in Conns
      PROVE  /\ conn'[p] \in Conn /\ Started(conn'[p]) /\ Stage(conn'[p], _protocols[p])
             /\ (Unheard(conn'[p]) <=> Unheard(conn[p])) /\ conn'[p].shell = conn[p].shell
  <2>1. Of(p)
    BY InvOf
  <2>2. CASE _protocols[p] > 0 /\ conn[p].made > 0
    <3>1. conn[p].made = 1 /\ conn'[p] = Lost(conn[p])
      BY <1>1, <2>1, <2>2 DEF Of, Conn
    <3> QED BY <2>1, <3>1, LostKeeps DEF Of
  <2>3. CASE ~(_protocols[p] > 0 /\ conn[p].made > 0)
    <3>1. conn'[p] = conn[p]
      BY <1>1, <2>3
    <3> QED BY <2>1, <3>1 DEF Of
  <2> QED BY <2>2, <2>3
<1>4. conn' \in [Conns -> Conn]
  BY <1>1, <1>3
<1>5. Values' /\ Lives'
  BY <1>1, <1>2, <1>3, <1>4 DEF Values, Lives
<1>6. Queues'
  BY <1>1, <1>2, <1>3 DEF Queues, Queued
<1>7. Slots'
  <2>1. Holders' = Holders
    BY <1>3 DEF Holders, Holds
  <2> QED BY <1>1, <1>2, <2>1 DEF Slots
<1> QED BY <1>5, <1>6, <1>7 DEF IInv, Lives

(***************************************************************************)
(* The theorems.                                                           *)
(***************************************************************************)

\* Nobody has come, nobody waits, no slot is taken.
LEMMA InitInv == Init => IInv
<1> SUFFICES ASSUME Init PROVE IInv
  OBVIOUS
<1>1. \A p \in Conns : conn[p] = NewConn /\ _protocols[p] = 0
  BY DEF Init
<1>2. NewConn \in Conn
  BY DEF NewConn, Conn
<1>3. Values
  BY <1>2 DEF Init, Values
<1>4. \A p \in Conns : Stage(conn[p], _protocols[p]) /\ Started(conn[p])
  BY <1>1 DEF NewConn, Stage, Undecided, Upgrading, Started
<1>5. Queues
  BY RegistryAssumption DEF Init, Queues, Queued, Injective
<1>6. Holders = {}
  BY <1>1 DEF Holders, Holds, NewConn
<1>7. Slots
  BY <1>6, FS_EmptySet, RegistryAssumption DEF Init, Slots
<1> QED BY <1>3, <1>4, <1>5, <1>7 DEF IInv

\* No step of the server breaks the inductive invariant.
LEMMA StepInv == IInv /\ [Next]_vars => IInv'
<1> SUFFICES ASSUME IInv, [Next]_vars PROVE IInv'
  OBVIOUS
<1>1. CASE UNCHANGED vars
  BY <1>1 DEF vars, IInv, Values, Queues, Queued, Slots, Holders, Holds
<1>2. ASSUME NEW p \in Conns, Callback(p) \/ Peer(p) PROVE IInv'
  BY <1>2, CallbackKeeps, PeerKeeps
<1>3. CASE wait_for_client \/ clients \/ close
  BY <1>3, WaitKeeps, ClientsKeeps, CloseKeeps
<1> QED BY <1>1, <1>2, <1>3 DEF Next

\* In every reachable state.
LEMMA Inductive == Spec => []IInv
<1> QED BY InitInv, StepInv, PTL DEF Spec

\* The ConnectionCounter of guard_shells.py, for any limit and any number of
\* connections: it is the number of guarded shells that were let in and have
\* not ended, and never more than the limit.
THEOREM SlotsAreCounted == Spec => []SlotsCounted
<1>1. IInv => SlotsCounted
  BY DEF IInv, Slots, SlotsCounted, Holders
<1> QED BY <1>1, Inductive, PTL

\* _TLSAutoDetectProtocol and Server._register_protocol: whoever decides first,
\* a connection gets one real protocol, connected and listed once.
THEOREM HandedOverOnce == Spec => []HandedOnce
<1>1. IInv => HandedOnce
  <2> SUFFICES ASSUME IInv, NEW p \in Conns
               PROVE  /\ conn[p].made <= 1 /\ _protocols[p] <= 1
                      /\ conn[p].made = 1 /\ ~conn[p].closing => _protocols[p] = 1
    BY DEF HandedOnce
  <2>1. conn[p].made \in {0, 1} /\ _protocols[p] \in 0 .. 1 /\ Stage(conn[p], _protocols[p])
    BY InvOf DEF Of, Conn
  <2> QED BY <2>1 DEF Stage
<1> QED BY <1>1, Inductive, PTL

\* Server._new_client and wait_for_client: the queue is bounded, and a connection
\* is given once.
THEOREM ClientsGivenOnce == Spec => []GivenOnce
<1>1. IInv => GivenOnce
  <2> SUFFICES ASSUME IInv PROVE GivenOnce
    OBVIOUS
  <2> DEFINE ready == given \o _new_client
  <2>1. Queues /\ given \in Seq(Conns) /\ _new_client \in Seq(Conns)
    BY DEF IInv, Values
  <2>2. ASSUME NEW i \in DOMAIN ready, NEW j \in DOMAIN ready, ready[i] = ready[j]
        PROVE  i = j
    <3>1. \A k \in DOMAIN ready :
            \/ k \in DOMAIN given /\ ready[k] = given[k]
            \/ k - Len(given) \in DOMAIN _new_client /\ ready[k] = _new_client[k - Len(given)]
      BY <2>1
    <3>2. i \in Int /\ j \in Int /\ Len(given) \in Int
      BY <2>1
    <3> HIDE DEF ready
    <3> QED BY <2>1, <2>2, <3>1, <3>2 DEF Queues, Injective
  <2> QED BY <2>1, <2>2 DEF GivenOnce, Queues
<1> QED BY <1>1, Inductive, PTL
=============================================================================
