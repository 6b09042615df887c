--------------------------- MODULE TerminalProofs ---------------------------
(***************************************************************************)
(* What is about terminals: LINEMODE between both ends, the client's shell *)
(* and the server's PTY shell, for any constants.                          *)
(*                                                                         *)
(* The modes of LINEMODE agree, for any functions, default tables and bits *)
(* and any number of calls.  Three steps: what an exchange of characters   *)
(* leaves alone (Talks, by induction along its folds); what a callback of  *)
(* each end may do to its mode and to the wire (ClientMoves, ServerMoves); *)
(* and an invariant of both ends and both wires that such moves preserve   *)
(* (Agree).                                                                *)
(*                                                                         *)
(* In the client's shell a look at the options leaves a terminal that is   *)
(* right for them whatever was before (SInv), and every turn of the filter *)
(* keeps what the bytes sent and the keys held back were on the keyboard   *)
(* (Kept, by induction along the fold).  In the PTY shell every turn of    *)
(* the loop that splits output keeps all of it (Whole), so do decoding and *)
(* flushing, and PtyInv says where each byte read is.                      *)
(***************************************************************************)
EXTENDS Linemode, ClientShell, PtyShell, SequenceTheorems, FiniteSetTheorems, TLAPS

-----------------------------------------------------------------------------
(***************************************************************************)
(* What is on its way.                                                     *)
(***************************************************************************)
IsList(q) == \E S : q \in Seq(S)

\* One of M is on its way; and after it none of N.
Has(q, M) == \E i \in DOMAIN q : q[i] \in M
EndsIn(q, M, N) == \E i \in DOMAIN q : q[i] \in M /\ \A j \in DOMAIN q : j > i => q[j] \notin N
Once(q, M) == \A i, j \in DOMAIN q : q[i] \in M /\ q[j] \in M => i = j

LEMMA JoinedSeqs ==
  ASSUME NEW q, NEW s, IsList(q), IsList(s)
  PROVE  /\ IsList(q \o s) /\ Len(q) \in Nat /\ Len(s) \in Nat
         /\ DOMAIN q = 1 .. Len(q) /\ DOMAIN s = 1 .. Len(s)
         /\ DOMAIN (q \o s) = 1 .. Len(q) + Len(s)
         /\ \A i \in 1 .. Len(q) + Len(s) :
              (q \o s)[i] = IF i <= Len(q) THEN q[i] ELSE s[i - Len(q)]
<1>1. PICK S : q \in Seq(S)
  BY DEF IsList
<1>2. PICK T : s \in Seq(T)
  BY DEF IsList
<1>3. q \in Seq(S \cup T) /\ s \in Seq(S \cup T)
  BY <1>1, <1>2
<1>4. q \o s \in Seq(S \cup T) /\ Len(q \o s) = Len(q) + Len(s)
  BY <1>3, ConcatProperties
<1> QED
  BY <1>3, <1>4, ConcatProperties DEF IsList

LEMMA RestOfSeq ==
  ASSUME NEW q, IsList(q), q # <<>>
  PROVE  /\ IsList(Tail(q)) /\ Len(q) \in Nat \ {0} /\ Head(q) = q[1]
         /\ DOMAIN q = 1 .. Len(q) /\ DOMAIN Tail(q) = 1 .. Len(q) - 1
         /\ \A i \in 1 .. Len(q) - 1 : Tail(q)[i] = q[i + 1]
<1>1. PICK S : q \in Seq(S)
  BY DEF IsList
<1>2. Tail(q) \in Seq(S) /\ Len(q) \in Nat \ {0} /\ Len(Tail(q)) = Len(q) - 1
  BY <1>1, HeadTailProperties
<1> QED
  BY <1>1, <1>2, HeadTailProperties DEF IsList

LEMMA AppendedSeq ==
  ASSUME NEW q, IsList(q), NEW x
  PROVE  IsList(Append(q, x))
<1>1. PICK S : q \in Seq(S)
  BY DEF IsList
<1>2. q \in Seq(S \cup {x})
  BY <1>1
<1> QED
  BY <1>2, AppendProperties DEF IsList

LEMMA HasAdded ==
  ASSUME NEW q, NEW s, IsList(q), IsList(s), NEW M
  PROVE  Has(q \o s, M) <=> Has(q, M) \/ Has(s, M)
<1> DEFINE r == q \o s
           n == Len(q)
           k == Len(s)
<1>1. /\ n \in Nat /\ k \in Nat /\ DOMAIN q = 1 .. n /\ DOMAIN s = 1 .. k /\ DOMAIN r = 1 .. n + k
      /\ \A i \in 1 .. n + k : r[i] = IF i <= n THEN q[i] ELSE s[i - n]
  BY JoinedSeqs
<1> HIDE DEF r, n, k
<1>2. ASSUME NEW i \in DOMAIN q, q[i] \in M PROVE Has(r, M)
  <2>1. i \in 1 .. n + k /\ r[i] = q[i]
    BY <1>1
  <2> QED
    BY <1>1, <1>2, <2>1 DEF Has
<1>3. ASSUME NEW i \in DOMAIN s, s[i] \in M PROVE Has(r, M)
  <2>1. i + n \in 1 .. n + k /\ ~(i + n <= n) /\ (i + n) - n = i
    BY <1>1
  <2>2. r[i + n] = s[i]
    BY <1>1, <2>1
  <2> QED
    BY <1>1, <1>3, <2>1, <2>2 DEF Has
<1>4. ASSUME NEW i \in DOMAIN r, r[i] \in M PROVE Has(q, M) \/ Has(s, M)
  <2>1. CASE i <= n
    BY <1>1, <1>4, <2>1 DEF Has
  <2>2. CASE ~(i <= n)
    <3>1. i - n \in 1 .. k /\ r[i] = s[i - n]
      BY <1>1, <2>2
    <3> QED
      BY <1>1, <1>4, <3>1 DEF Has
  <2> QED
    BY <2>1, <2>2
<1> QED
  BY <1>2, <1>3, <1>4 DEF Has, r

LEMMA EndsInAdded ==
  ASSUME NEW q, NEW s, IsList(q), IsList(s), NEW M, NEW N
  PROVE  EndsIn(q \o s, M, N) <=> EndsIn(s, M, N) \/ (EndsIn(q, M, N) /\ ~Has(s, N))
<1> DEFINE r == q \o s
           n == Len(q)
           k == Len(s)
<1>1. /\ n \in Nat /\ k \in Nat /\ DOMAIN q = 1 .. n /\ DOMAIN s = 1 .. k /\ DOMAIN r = 1 .. n + k
      /\ \A i \in 1 .. n + k : r[i] = IF i <= n THEN q[i] ELSE s[i - n]
  BY JoinedSeqs
<1> HIDE DEF r, n, k
<1>2. \A j \in DOMAIN s : j + n \in DOMAIN r /\ r[j + n] = s[j] /\ j + n > n
  <2> SUFFICES ASSUME NEW j \in 1 .. k
               PROVE  j + n \in 1 .. n + k /\ r[j + n] = s[j] /\ j + n > n
    BY <1>1
  <2>1. j + n \in 1 .. n + k /\ ~(j + n <= n) /\ (j + n) - n = j
    BY <1>1
  <2> QED
    BY <1>1, <2>1
<1>3. \A j \in DOMAIN q : j \in DOMAIN r /\ r[j] = q[j] /\ j <= n
  BY <1>1
<1>4. \A j \in DOMAIN r : j > n => j - n \in DOMAIN s /\ r[j] = s[j - n] /\ (j - n) + n = j
  BY <1>1
<1>5. ASSUME NEW i \in DOMAIN s, s[i] \in M, \A j \in DOMAIN s : j > i => s[j] \notin N
      PROVE  EndsIn(r, M, N)
  <2>1. i + n \in DOMAIN r /\ r[i + n] \in M
    BY <1>2, <1>5
  <2>2. ASSUME NEW j \in DOMAIN r, j > i + n PROVE r[j] \notin N
    <3>1. j - n \in DOMAIN s /\ r[j] = s[j - n] /\ j - n > i
      BY <1>1, <1>4, <2>2
    <3> QED
      BY <1>5, <3>1
  <2> QED
    BY <2>1, <2>2 DEF EndsIn
<1>6. ASSUME NEW i \in DOMAIN q, q[i] \in M, \A j \in DOMAIN q : j > i => q[j] \notin N, ~Has(s, N)
      PROVE  EndsIn(r, M, N)
  <2>1. ASSUME NEW j \in DOMAIN r, j > i PROVE r[j] \notin N
    <3>1. CASE j <= n
      BY <1>1, <1>6, <2>1, <3>1
    <3>2. CASE j > n
      BY <1>4, <1>6, <3>2 DEF Has
    <3> QED
      BY <1>1, <3>1, <3>2
  <2> QED
    BY <1>3, <1>6, <2>1 DEF EndsIn
<1>7. ASSUME NEW i \in DOMAIN r, r[i] \in M, \A j \in DOMAIN r : j > i => r[j] \notin N
      PROVE  EndsIn(s, M, N) \/ (EndsIn(q, M, N) /\ ~Has(s, N))
  <2>1. CASE i > n
    <3>1. i - n \in DOMAIN s /\ s[i - n] \in M
      BY <1>4, <1>7, <2>1
    <3>2. ASSUME NEW j \in DOMAIN s, j > i - n PROVE s[j] \notin N
      <4>1. j + n > i
        BY <1>1, <3>2
      <4> QED
        BY <1>2, <1>7, <4>1
    <3> QED
      BY <3>1, <3>2 DEF EndsIn
  <2>2. CASE i <= n
    <3>1. i \in DOMAIN q /\ q[i] \in M
      BY <1>1, <1>7, <2>2
    <3>2. \A j \in DOMAIN q : j > i => q[j] \notin N
      BY <1>3, <1>7
    <3>3. ASSUME NEW j \in DOMAIN s PROVE s[j] \notin N
      <4>1. j + n > i
        BY <1>1, <2>2
      <4> QED
        BY <1>2, <1>7, <4>1
    <3> QED
      BY <3>1, <3>2, <3>3 DEF EndsIn, Has
  <2> QED
    BY <1>1, <2>1, <2>2
<1> QED
  BY <1>5, <1>6, <1>7 DEF EndsIn, r

LEMMA HasTaken ==
  ASSUME NEW q, IsList(q), q # <<>>, NEW M
  PROVE  Has(q, M) <=> Head(q) \in M \/ Has(Tail(q), M)
<1> DEFINE t == Tail(q)
           n == Len(q)
<1>1. /\ n \in Nat \ {0} /\ Head(q) = q[1] /\ DOMAIN q = 1 .. n /\ DOMAIN t = 1 .. n - 1
      /\ \A i \in 1 .. n - 1 : t[i] = q[i + 1]
  BY RestOfSeq
<1> HIDE DEF t, n
<1>2. ASSUME NEW i \in DOMAIN t PROVE i + 1 \in DOMAIN q /\ q[i + 1] = t[i]
  BY <1>1
<1>3. ASSUME NEW i \in DOMAIN q, i # 1 PROVE i - 1 \in DOMAIN t /\ q[i] = t[i - 1]
  <2>1. i - 1 \in 1 .. n - 1 /\ (i - 1) + 1 = i
    BY <1>1, <1>3
  <2> QED
    BY <1>1, <2>1
<1>4. 1 \in DOMAIN q
  BY <1>1
<1> QED
  BY <1>1, <1>2, <1>3, <1>4 DEF Has, t

LEMMA EndsInTaken ==
  ASSUME NEW q, IsList(q), q # <<>>, NEW M, NEW N
  PROVE  EndsIn(q, M, N) <=> EndsIn(Tail(q), M, N) \/ (Head(q) \in M /\ ~Has(Tail(q), N))
<1> DEFINE t == Tail(q)
           n == Len(q)
<1>1. /\ n \in Nat \ {0} /\ Head(q) = q[1] /\ DOMAIN q = 1 .. n /\ DOMAIN t = 1 .. n - 1
      /\ \A i \in 1 .. n - 1 : t[i] = q[i + 1]
  BY RestOfSeq
<1> HIDE DEF t, n
<1>2. \A i \in DOMAIN t : i + 1 \in DOMAIN q /\ q[i + 1] = t[i] /\ i + 1 > 1
  BY <1>1
<1>3. ASSUME NEW i \in DOMAIN q, i # 1 PROVE i - 1 \in DOMAIN t /\ q[i] = t[i - 1] /\ i > 1
  <2>1. i - 1 \in 1 .. n - 1 /\ (i - 1) + 1 = i
    BY <1>1, <1>3
  <2> QED
    BY <1>1, <2>1
<1>4. 1 \in DOMAIN q
  BY <1>1
<1>5. ASSUME NEW i \in DOMAIN t, t[i] \in M, \A j \in DOMAIN t : j > i => t[j] \notin N
      PROVE  EndsIn(q, M, N)
  <2>1. ASSUME NEW j \in DOMAIN q, j > i + 1 PROVE q[j] \notin N
    <3>1. j # 1 /\ j - 1 > i
      BY <1>1, <2>1
    <3> QED
      BY <1>3, <1>5, <3>1
  <2> QED
    BY <1>2, <1>5, <2>1 DEF EndsIn
<1>6. ASSUME Head(q) \in M, ~Has(t, N) PROVE EndsIn(q, M, N)
  BY <1>1, <1>3, <1>4, <1>6 DEF EndsIn, Has
<1>7. ASSUME NEW i \in DOMAIN q, q[i] \in M, \A j \in DOMAIN q : j > i => q[j] \notin N
      PROVE  EndsIn(t, M, N) \/ (Head(q) \in M /\ ~Has(t, N))
  <2>1. CASE i = 1
    BY <1>1, <1>2, <1>7, <2>1 DEF Has
  <2>2. CASE i # 1
    <3>1. i - 1 \in DOMAIN t /\ t[i - 1] \in M
      BY <1>3, <1>7, <2>2
    <3>2. ASSUME NEW j \in DOMAIN t, j > i - 1 PROVE t[j] \notin N
      <4>1. j + 1 > i
        BY <1>1, <3>2
      <4> QED
        BY <1>2, <1>7, <4>1
    <3> QED
      BY <3>1, <3>2 DEF EndsIn
  <2> QED
    BY <2>1, <2>2
<1> QED
  BY <1>5, <1>6, <1>7 DEF EndsIn, t

LEMMA OnceAdded ==
  ASSUME NEW q, NEW s, IsList(q), IsList(s), NEW M
  PROVE  /\ Once(q, M) /\ ~Has(s, M) => Once(q \o s, M)
         /\ Once(s, M) /\ ~Has(q, M) => Once(q \o s, M)
<1> DEFINE r == q \o s
           n == Len(q)
           k == Len(s)
<1>1. /\ n \in Nat /\ k \in Nat /\ DOMAIN q = 1 .. n /\ DOMAIN s = 1 .. k /\ DOMAIN r = 1 .. n + k
      /\ \A i \in 1 .. n + k : r[i] = IF i <= n THEN q[i] ELSE s[i - n]
  BY JoinedSeqs
<1> HIDE DEF r, n, k
<1>2. \A j \in DOMAIN r : j > n => j - n \in DOMAIN s /\ r[j] = s[j - n] /\ (j - n) + n = j
  BY <1>1
<1>3. \A j \in DOMAIN r : j <= n => j \in DOMAIN q /\ r[j] = q[j]
  BY <1>1
<1>4. \A j \in DOMAIN r : j <= n \/ j > n
  BY <1>1
<1>5. ASSUME Once(q, M), ~Has(s, M) PROVE Once(r, M)
  BY <1>2, <1>3, <1>4, <1>5 DEF Once, Has
<1>6. ASSUME Once(s, M), ~Has(q, M) PROVE Once(r, M)
  <2> SUFFICES ASSUME NEW i \in DOMAIN r, NEW j \in DOMAIN r, r[i] \in M, r[j] \in M
               PROVE  i = j
    BY DEF Once
  <2>1. i > n /\ j > n
    BY <1>3, <1>4, <1>6 DEF Has
  <2>2. i - n = j - n
    BY <1>2, <1>6, <2>1 DEF Once
  <2> QED
    BY <1>2, <2>1, <2>2
<1> QED
  BY <1>5, <1>6 DEF r

LEMMA OnceTaken ==
  ASSUME NEW q, IsList(q), q # <<>>, NEW M, Once(q, M)
  PROVE  Once(Tail(q), M) /\ (Head(q) \in M => ~Has(Tail(q), M))
<1> DEFINE t == Tail(q)
           n == Len(q)
<1>1. /\ n \in Nat \ {0} /\ Head(q) = q[1] /\ DOMAIN q = 1 .. n /\ DOMAIN t = 1 .. n - 1
      /\ \A i \in 1 .. n - 1 : t[i] = q[i + 1]
  BY RestOfSeq
<1> HIDE DEF t, n
<1>2. \A i \in DOMAIN t : i + 1 \in DOMAIN q /\ q[i + 1] = t[i] /\ i + 1 # 1 /\ i = (i + 1) - 1
  BY <1>1
<1>3. 1 \in DOMAIN q
  BY <1>1
<1>4. Once(t, M)
  <2> SUFFICES ASSUME NEW i \in DOMAIN t, NEW j \in DOMAIN t, t[i] \in M, t[j] \in M
               PROVE  i = j
    BY DEF Once
  <2>1. i + 1 = j + 1
    BY <1>2 DEF Once
  <2> QED
    BY <1>2, <2>1
<1>5. Head(q) \in M => ~Has(t, M)
  BY <1>1, <1>2, <1>3 DEF Once, Has
<1> QED
  BY <1>4, <1>5 DEF t

-----------------------------------------------------------------------------
(***************************************************************************)
(* Messages and writers.                                                   *)
(***************************************************************************)
Do == {Command("DO")}
Dont == {Command("DONT")}
Will == {Command("WILL")}
Modes == [cmd : {"MODE"}, mode : Linemodes]
ModesOf(b) == {m \in Modes : m.mode.bits = b}
Suggestions == {m \in Modes : ~m.mode.ack}
SuggestionsOf(b) == {m \in Suggestions : m.mode.bits = b}

\* What is said about characters.
Chatter(m) == (m.cmd = "SLC" /\ IsList(m.triplets)) \/ m.cmd = "FORWARDMASK"
Message(m) == m \in Do \cup Dont \cup Will \cup Modes \/ Chatter(m)
Messages(q) == IsList(q) /\ \A i \in DOMAIN q : Message(q[i])

Fields ==
  {"role", "on", "pendDo", "pendSb", "mode", "default", "own", "slc_sent", "slc_buffer",
   "forwardmask", "raised", "out"}
Writer(w) ==
  /\ DOMAIN w = Fields /\ w.mode \in Linemodes /\ {w.on, w.pendDo} \subseteq BOOLEAN
  /\ IsList(w.slc_buffer) /\ Messages(w.out)

\* u is w after an exchange of characters and nothing else.
Talks(w, u) ==
  /\ Writer(w) /\ Writer(u)
  /\ u.mode = w.mode /\ u.on = w.on /\ u.role = w.role /\ u.pendDo = w.pendDo
  /\ \/ u.out = w.out
     \/ \E s : u.out = w.out \o s /\ IsList(s) /\ \A i \in DOMAIN s : Chatter(s[i])

LEMMA AddTalks ==
  ASSUME NEW w, NEW u, Talks(w, u), NEW f, NEW s
  PROVE  Talks(w, _slc_add(u, f, s))
<1>1. IsList(Append(u.slc_buffer, [func |-> f, level |-> s.level, ack |-> s.ack, val |-> s.val]))
  BY AppendedSeq DEF Talks, Writer
<1> QED
  BY <1>1 DEF Talks, Writer, Fields, _slc_add

LEMMA AssignTalks ==
  ASSUME NEW w, NEW u, Talks(w, u), NEW f, NEW l, NEW v
  PROVE  Talks(w, Assign(u, f, l, v))
BY DEF Talks, Writer, Fields, Assign

LEMMA AnswerTalks ==
  ASSUME NEW w, NEW u, Talks(w, u), NEW f, NEW s
  PROVE  Talks(w, Answer(u, f)) /\ Talks(w, AckAsSent(u, f, s))
BY AddTalks DEF Answer, AckAsSent

LEMMA NotSupportedTalks ==
  ASSUME NEW w, NEW u, Talks(w, u), NEW f
  PROVE  Talks(w, NotSupported(u, f))
<1> DEFINE v == [u EXCEPT !.own = (f :> [SLC_nosupport EXCEPT !.ack = TRUE]) @@ @]
<1>1. Talks(w, v)
  BY DEF Talks, Writer, Fields
<1> HIDE DEF v
<1>2. Talks(w, Answer(v, f))
  BY <1>1, AnswerTalks
<1> QED
  BY <1>2 DEF NotSupported, v

LEMMA RaiseTalks ==
  ASSUME NEW w, NEW u, Talks(w, u)
  PROVE  Talks(w, Raise(u))
BY DEF Talks, Writer, Fields, Raise

LEMMA BackToDefaultTalks ==
  ASSUME NEW w, NEW u, Talks(w, u), NEW f
  PROVE  Talks(w, BackToDefault(u, f))
<1> DEFINE mine == Table(u)[f]
           v == Assign(u, f, "NOSUPPORT", mine.val)
           x == Assign(v, f, "NOSUPPORT", DefaultOf(v, f).val)
           y == Assign(u, f, u.default[f].level, u.default[f].val)
<1>1. Talks(w, v) /\ Talks(w, y)
  BY AssignTalks
<1>2. Talks(w, x)
  <2> HIDE DEF v
  <2> QED
    BY <1>1, AssignTalks
<1>3. Talks(w, Answer(x, f)) /\ Talks(w, Answer(y, f)) /\ Talks(w, Raise(u))
  <2> HIDE DEF x, y
  <2> QED
    BY <1>1, <1>2, AnswerTalks, RaiseTalks
<1>4. BackToDefault(u, f) \in {Answer(x, f), Answer(y, f), Raise(u)}
  BY DEF BackToDefault
<1> HIDE DEF x, y, v, mine
<1> QED
  BY <1>3, <1>4

LEMMA NoCharacterTalks ==
  ASSUME NEW w, NEW u, Talks(w, u), NEW f, NEW s
  PROVE  Talks(w, NoCharacter(u, f, s))
<1> DEFINE mine == Table(u)[f]
           A == Assign(u, f, s.level, s.val)
           B == Assign(u, f, "NOSUPPORT", mine.val)
           C == Assign(u, f, mine.level, DefaultOf(u, f).val)
           D == Assign(u, f, mine.level, mine.val)
<1>1. Talks(w, A) /\ Talks(w, B) /\ Talks(w, C) /\ Talks(w, D)
  BY AssignTalks
<1>2. NoCharacter(u, f, s) \in {AckAsSent(A, f, s), Answer(B, f), Answer(C, f), Answer(D, f)}
  BY DEF NoCharacter
<1> HIDE DEF A, B, C, D, mine
<1>3. Talks(w, AckAsSent(A, f, s)) /\ Talks(w, Answer(B, f)) /\ Talks(w, Answer(C, f))
      /\ Talks(w, Answer(D, f))
  BY <1>1, AnswerTalks
<1> QED
  BY <1>2, <1>3

LEMMA ChangeTalks ==
  ASSUME NEW w, NEW u, Talks(w, u), NEW f, NEW s
  PROVE  Talks(w, _slc_change(u, f, s))
<1> DEFINE A == Assign(u, f, s.level, s.val)
<1>1. Talks(w, A)
  BY AssignTalks
<1>2. _slc_change(u, f, s) \in
        {NotSupported(u, f), BackToDefault(u, f), AckAsSent(A, f, s), NoCharacter(u, f, s)}
  BY DEF _slc_change
<1> HIDE DEF A
<1> QED
  BY <1>1, <1>2, NotSupportedTalks, BackToDefaultTalks, AnswerTalks, NoCharacterTalks

\* The two folds of the exchange: over the functions of a table, and over the
\* triplets of a message.
Entry(c, u, f) ==
  IF f \notin DOMAIN c[2] \/ c[2][f].level = "NOSUPPORT" THEN u ELSE _slc_add(u, f, c[2][f])
Triplet(c, u, t) == IF u.raised THEN u ELSE _slc_process(u, t)
KeepsTalking(c, u) == Talks(c[1], u)

Entries == INSTANCE FoldInduction WITH op <- Entry, P <- KeepsTalking
Triplets == INSTANCE FoldInduction WITH op <- Triplet, P <- KeepsTalking

LEMMA TableTalks ==
  ASSUME NEW w, NEW u, Talks(w, u), NEW tab
  PROVE  Talks(w, _slc_send(u, tab))
<1> DEFINE c == <<w, tab>>
<1>1. _slc_send(u, tab) = Entries!Folded(c, u, Funcs)
  BY DEF _slc_send, Entry, Entries!Folded, Entries!IsFold, Entries!Last, FoldLeft,
         MapThenFoldSet, Max
<1>2. KeepsTalking(c, u)
  BY DEF KeepsTalking
<1>3. ASSUME NEW v, NEW i \in DOMAIN Funcs, KeepsTalking(c, v)
      PROVE  KeepsTalking(c, Entry(c, v, Funcs[i]))
  BY <1>3, AddTalks DEF KeepsTalking, Entry
<1>4. Funcs \in Seq(STRING)
  BY LinemodeAssumption
<1> HIDE DEF c
<1>5. KeepsTalking(c, Entries!Folded(c, u, Funcs))
  BY <1>2, <1>3, <1>4, Entries!FoldStays
<1> QED
  BY <1>1, <1>5 DEF KeepsTalking, c

LEMMA WholeTableTalks ==
  ASSUME NEW w, NEW u, Talks(w, u), NEW s
  PROVE  Talks(w, WholeTable(u, s))
<1> DEFINE v == [u EXCEPT !.own = <<>>]
           x == _slc_send(v, u.default)
           y == [x EXCEPT !.slc_sent = @ \/ u.role = "server"]
<1>1. Talks(w, v)
  BY DEF Talks, Writer, Fields
<1>2. Talks(w, x)
  <2> HIDE DEF v
  <2> QED
    BY <1>1, TableTalks
<1>3. Talks(w, y)
  <2> HIDE DEF x
  <2> QED
    BY <1>2 DEF Talks, Writer, Fields
<1>4. WholeTable(u, s) \in {y, _slc_send(u, Table(u)), u}
  BY DEF WholeTable
<1> HIDE DEF y, x, v
<1> QED
  BY <1>3, <1>4, TableTalks

LEMMA ProcessTalks ==
  ASSUME NEW w, NEW u, Talks(w, u), NEW t
  PROVE  Talks(w, _slc_process(u, t))
<1> DEFINE s == [level |-> t.level, ack |-> t.ack, val |-> t.val]
<1>1. _slc_process(u, t) \in
        {WholeTable(u, s), _slc_add(u, t.func, SLC_nosupport), Raise(u), u,
         _slc_change(u, t.func, s)}
  BY DEF _slc_process
<1> HIDE DEF s
<1> QED
  BY <1>1, WholeTableTalks, AddTalks, RaiseTalks, ChangeTalks

LEMMA ChatterJoined ==
  ASSUME NEW q, NEW s, IsList(q), IsList(s),
         \A i \in DOMAIN q : Chatter(q[i]), \A i \in DOMAIN s : Chatter(s[i])
  PROVE  IsList(q \o s) /\ \A i \in DOMAIN (q \o s) : Chatter((q \o s)[i])
<1> DEFINE r == q \o s
           n == Len(q)
           k == Len(s)
<1>1. /\ n \in Nat /\ k \in Nat /\ DOMAIN q = 1 .. n /\ DOMAIN s = 1 .. k /\ DOMAIN r = 1 .. n + k
      /\ \A i \in 1 .. n + k : r[i] = IF i <= n THEN q[i] ELSE s[i - n]
  BY JoinedSeqs
<1>2. IsList(r)
  BY JoinedSeqs
<1> HIDE DEF r, n, k
<1>3. ASSUME NEW i \in DOMAIN r PROVE Chatter(r[i])
  <2>1. i <= n => i \in DOMAIN q
    BY <1>1
  <2>2. ~(i <= n) => i - n \in DOMAIN s
    BY <1>1
  <2> QED
    BY <1>1, <2>1, <2>2
<1> QED
  BY <1>2, <1>3 DEF r

LEMMA MessagesJoined ==
  ASSUME NEW q, NEW s, Messages(q), Messages(s)
  PROVE  Messages(q \o s)
<1> DEFINE r == q \o s
           n == Len(q)
           k == Len(s)
<1>1. /\ n \in Nat /\ k \in Nat /\ DOMAIN q = 1 .. n /\ DOMAIN s = 1 .. k /\ DOMAIN r = 1 .. n + k
      /\ \A i \in 1 .. n + k : r[i] = IF i <= n THEN q[i] ELSE s[i - n]
  BY JoinedSeqs DEF Messages
<1>2. IsList(r)
  BY JoinedSeqs DEF Messages
<1> HIDE DEF r, n, k
<1>3. ASSUME NEW i \in DOMAIN r PROVE Message(r[i])
  <2>1. i <= n => i \in DOMAIN q
    BY <1>1
  <2>2. ~(i <= n) => i - n \in DOMAIN s
    BY <1>1
  <2> QED
    BY <1>1, <2>1, <2>2 DEF Messages
<1> QED
  BY <1>2, <1>3 DEF r, Messages

LEMMA ChatterSent ==
  ASSUME NEW w, NEW u, Talks(w, u), NEW m, Chatter(m)
  PROVE  Talks(w, Send(u, m))
<1> DEFINE s == <<m>>
<1>1. IsList(s) /\ \A i \in DOMAIN s : Chatter(s[i])
  <2>1. s \in Seq({m}) /\ DOMAIN s = {1} /\ s[1] = m
    OBVIOUS
  <2> QED
    BY <2>1 DEF IsList
<1>2. Append(u.out, m) = u.out \o s
  <2>1. PICK S : u.out \in Seq(S)
    BY DEF Talks, Writer, Messages, IsList
  <2>2. u.out \in Seq(S \cup {m}) /\ m \in S \cup {m}
    BY <2>1
  <2> QED
    BY <2>2, AppendIsConcat
<1>3. \E t : Append(u.out, m) = w.out \o t /\ IsList(t) /\ \A i \in DOMAIN t : Chatter(t[i])
  <2>1. CASE u.out = w.out
    BY <1>1, <1>2, <2>1
  <2>2. CASE u.out # w.out
    <3>1. PICK t : u.out = w.out \o t /\ IsList(t) /\ \A i \in DOMAIN t : Chatter(t[i])
      BY <2>2 DEF Talks
    <3>2. IsList(t \o s) /\ \A i \in DOMAIN (t \o s) : Chatter((t \o s)[i])
      BY <1>1, <3>1, ChatterJoined
    <3>3. Append(u.out, m) = w.out \o (t \o s)
      <4>1. PICK S, T, U : w.out \in Seq(S) /\ t \in Seq(T) /\ s \in Seq(U)
        BY <1>1, <3>1 DEF Talks, Writer, Messages, IsList
      <4>2. /\ w.out \in Seq(S \cup T \cup U) /\ t \in Seq(S \cup T \cup U)
            /\ s \in Seq(S \cup T \cup U)
        BY <4>1
      <4>3. (w.out \o t) \o s = w.out \o (t \o s)
        <5> DEFINE X == S \cup T \cup U
                   o == w.out
        <5>1. o \in Seq(X) /\ t \in Seq(X) /\ s \in Seq(X)
          BY <4>2
        <5> HIDE DEF X, o, s
        <5>2. (o \o t) \o s = o \o (t \o s)
          BY <5>1, ConcatAssociative, SMTT(30)
        <5> QED
          BY <5>2 DEF o
      <4> HIDE DEF s
      <4> QED
        BY <1>2, <3>1, <4>3
    <3> QED
      BY <3>2, <3>3
  <2> QED
    BY <2>1, <2>2
<1>4. Messages(Append(u.out, m))
  <2>1. Messages(u.out)
    BY DEF Talks, Writer
  <2>2. Messages(s)
    BY <1>1 DEF Messages, Message
  <2> QED
    BY <1>2, <2>1, <2>2, MessagesJoined
<1>5. /\ DOMAIN Send(u, m) = Fields /\ Send(u, m).out = Append(u.out, m)
      /\ \A x \in Fields \ {"out"} : Send(u, m)[x] = u[x]
  BY DEF Talks, Writer, Fields, Send
<1> HIDE DEF s
<1> QED
  BY <1>3, <1>4, <1>5 DEF Talks, Writer, Fields

LEMMA SendSlcTalks ==
  ASSUME NEW w, NEW u, Talks(w, u)
  PROVE  Talks(w, SendSlc(u)) /\ Talks(w, request_forwardmask(u))
<1> DEFINE v == Send(u, Slc(u.slc_buffer))
<1>1. Chatter(Slc(u.slc_buffer)) /\ Chatter(ForwardMask(Supported(u)))
  BY DEF Chatter, Slc, ForwardMask, Talks, Writer
<1>2. Talks(w, v) /\ Talks(w, Send(u, ForwardMask(Supported(u))))
  BY <1>1, ChatterSent
<1> HIDE DEF v
<1>3. IsList(<<>>)
  BY EmptySeq DEF IsList
<1>4. Talks(w, [v EXCEPT !.slc_buffer = <<>>])
  BY <1>2, <1>3 DEF Talks, Writer, Fields
<1> QED
  BY <1>2, <1>4 DEF SendSlc, request_forwardmask, v

LEMMA SlcTalks ==
  ASSUME NEW w, Writer(w), NEW triplets, IsList(triplets)
  PROVE  Talks(w, HandleSlc(w, triplets))
<1> DEFINE c == <<w>>
           v == Triplets!Folded(c, w, triplets)
           sent == IF v.slc_buffer = <<>> THEN v ELSE SendSlc(v)
<1>1. FoldLeft(LAMBDA u, t : IF u.raised THEN u ELSE _slc_process(u, t), w, triplets) = v
  BY DEF Triplet, Triplets!Folded, Triplets!IsFold, Triplets!Last, FoldLeft, MapThenFoldSet, Max
<1>2. KeepsTalking(c, w)
  BY DEF KeepsTalking, Talks
<1>3. ASSUME NEW u, NEW i \in DOMAIN triplets, KeepsTalking(c, u)
      PROVE  KeepsTalking(c, Triplet(c, u, triplets[i]))
  BY <1>3, ProcessTalks DEF KeepsTalking, Triplet
<1>4. PICK X : triplets \in Seq(X)
  BY DEF IsList
<1>5. Talks(w, v)
  <2> HIDE DEF c
  <2>1. KeepsTalking(c, Triplets!Folded(c, w, triplets))
    BY <1>2, <1>3, <1>4, Triplets!FoldStays
  <2> QED
    BY <2>1 DEF KeepsTalking, c
<1>6. HandleSlc(w, triplets) \in {v, request_forwardmask(sent), sent}
  BY <1>1 DEF HandleSlc
<1> HIDE DEF v
<1>7. Talks(w, sent)
  BY <1>5, SendSlcTalks
<1> HIDE DEF sent
<1> QED
  BY <1>5, <1>6, <1>7, SendSlcTalks


-----------------------------------------------------------------------------
(***************************************************************************)
(* What a callback of either end may do, when m is the message it takes    *)
(* from the wire, or Nothing.                                              *)
(***************************************************************************)
Nothing == [cmd |-> "none"]

ClientMoves(w, u, m) ==
  /\ Writer(u) /\ u.role = "client"
  /\ ~Has(u.out, Do) /\ ~Has(u.out, Dont) /\ Once(u.out, Will)
  /\ Has(u.out, Will) => m \in Do
  /\ u.on <=> m \in Do \/ (w.on /\ m \notin Dont)
  /\ Has(u.out, Modes) => EndsIn(u.out, ModesOf(u.mode.bits), Modes)
  /\ ~Has(u.out, Modes) => u.mode.bits = w.mode.bits
  /\ w.on /\ m \in Suggestions => Has(u.out, Modes) \/ u.mode.bits = m.mode.bits

ServerMoves(w, u, m) ==
  /\ Writer(u) /\ u.role = "server"
  /\ ~Has(u.out, Will) /\ Once(u.out, Do)
  /\ Has(u.out, Do) => ~w.on /\ ~w.pendDo /\ u.pendDo /\ m = Nothing /\ ~Has(u.out, Dont)
  /\ Has(u.out, Dont) => w.on /\ ~u.on
  /\ w.pendDo /\ m \notin Will => u.pendDo
  /\ u.on => w.on \/ m \in Will
  /\ m \in Will => EndsIn(u.out, SuggestionsOf(u.mode.bits), Suggestions)
  /\ w.on /\ m \in Modes => u.mode.bits = m.mode.bits /\ ~Has(u.out, Suggestions)
  /\ w.on /\ m \notin Modes /\ ~Has(u.out, Suggestions) => u.mode.bits = w.mode.bits
  /\ w.on /\ m \notin Modes /\ Has(u.out, Suggestions) =>
       EndsIn(u.out, SuggestionsOf(u.mode.bits), Suggestions)

\* The short sequences that callbacks write.
LEMMA OneSaid ==
  ASSUME NEW m, Message(m)
  PROVE  /\ Append(<<>>, m) = <<m>> /\ Messages(<<m>>)
         /\ \A M : (Has(<<m>>, M) <=> m \in M) /\ Once(<<m>>, M)
         /\ \A M, N : EndsIn(<<m>>, M, N) <=> m \in M
<1> DEFINE q == <<m>>
<1>1. q \in Seq({m}) /\ DOMAIN q = {1} /\ q[1] = m /\ Append(<<>>, m) = q
  OBVIOUS
<1> HIDE DEF q
<1>2. Messages(q)
  BY <1>1 DEF Messages, IsList
<1>3. ASSUME NEW M PROVE (Has(q, M) <=> m \in M) /\ Once(q, M)
  BY <1>1 DEF Has, Once
<1>4. ASSUME NEW M, NEW N PROVE EndsIn(q, M, N) <=> m \in M
  BY <1>1 DEF EndsIn
<1> QED
  BY <1>1, <1>2, <1>3, <1>4 DEF q

LEMMA NothingSaid ==
  /\ Messages(<<>>)
  /\ \A M : ~Has(<<>>, M) /\ Once(<<>>, M)
  /\ \A M, N : ~EndsIn(<<>>, M, N)
<1>1. <<>> \in Seq({}) /\ DOMAIN <<>> = {}
  OBVIOUS
<1> QED
  BY <1>1 DEF Messages, IsList, Has, Once, EndsIn

\* A message is of one kind.
LEMMA Kinds ==
  ASSUME NEW m
  PROVE  /\ m \in Do => m \notin Dont \cup Will \cup Modes
         /\ m \in Dont => m \notin Do \cup Will \cup Modes
         /\ m \in Will => m \notin Do \cup Dont \cup Modes
         /\ Chatter(m) \/ m = Nothing => m \notin Do \cup Dont \cup Will \cup Modes
         /\ Suggestions \subseteq Modes
BY DEF Do, Dont, Will, Modes, Suggestions, Chatter, Nothing, Command

\* Chatter is none of the messages that count.
LEMMA OnlyChatter ==
  ASSUME NEW s, \A i \in DOMAIN s : Chatter(s[i])
  PROVE  \A M \in {Do, Dont, Will, Modes, Suggestions} : ~Has(s, M) /\ Once(s, M)
BY Kinds DEF Has, Once

LEMMA TalkChangesNothing ==
  ASSUME NEW w, NEW u, Talks(w, u), NEW M, NEW N,
         M \cup N \subseteq Do \cup Dont \cup Will \cup Modes
  PROVE  /\ Has(u.out, M) <=> Has(w.out, M)
         /\ EndsIn(u.out, M, N) <=> EndsIn(w.out, M, N)
         /\ Once(w.out, M) => Once(u.out, M)
<1>1. CASE u.out = w.out
  BY <1>1
<1>2. CASE u.out # w.out
  <2>1. PICK s : u.out = w.out \o s /\ IsList(s) /\ \A i \in DOMAIN s : Chatter(s[i])
    BY <1>2 DEF Talks
  <2>2. ~Has(s, M) /\ ~Has(s, N)
    BY <2>1, Kinds DEF Has
  <2>3. ~EndsIn(s, M, N)
    BY <2>2 DEF EndsIn, Has
  <2>4. IsList(w.out)
    BY DEF Talks, Writer, Messages
  <2> QED
    BY <2>1, <2>2, <2>3, <2>4, HasAdded, EndsInAdded, OnceAdded
<1> QED
  BY <1>1, <1>2

\* The same of a writer that had written one message, or none.
LEMMA TalkAfter ==
  ASSUME NEW w, NEW u, Talks(w, u), NEW m, Message(m), w.out \in {<<>>, <<m>>}
  PROVE  /\ \A M \in {Do, Dont, Will, Modes, Suggestions} :
              /\ Once(u.out, M)
              /\ Has(u.out, M) <=> w.out = <<m>> /\ m \in M
         /\ \A b : /\ EndsIn(u.out, ModesOf(b), Modes) <=> w.out = <<m>> /\ m \in ModesOf(b)
                   /\ EndsIn(u.out, SuggestionsOf(b), Suggestions)
                        <=> w.out = <<m>> /\ m \in SuggestionsOf(b)
<1> DEFINE All == Do \cup Dont \cup Will \cup Modes
<1>1. ASSUME NEW M \in SUBSET All
      PROVE  Once(u.out, M) /\ (Has(u.out, M) <=> w.out = <<m>> /\ m \in M)
  BY OneSaid, NothingSaid, TalkChangesNothing
<1>2. ASSUME NEW M \in SUBSET All, NEW N \in SUBSET All
      PROVE  EndsIn(u.out, M, N) <=> w.out = <<m>> /\ m \in M
  <2>1. EndsIn(u.out, M, N) <=> EndsIn(w.out, M, N)
    BY TalkChangesNothing
  <2>2. EndsIn(<<m>>, M, N) <=> m \in M
    BY OneSaid
  <2>3. ~EndsIn(<<>>, M, N)
    BY NothingSaid
  <2> QED
    BY <2>1, <2>2, <2>3
<1>3. {Do, Dont, Will, Modes, Suggestions} \subseteq SUBSET All
  BY DEF Suggestions
<1>4. \A b : {ModesOf(b), SuggestionsOf(b)} \subseteq SUBSET All
  BY DEF Suggestions, ModesOf, SuggestionsOf
<1> HIDE DEF All
<1> QED
  BY <1>1, <1>2, <1>3, <1>4

LEMMA SilentTalk == ASSUME NEW w, Writer(w) PROVE Talks(w, w)
BY DEF Talks

\* A writer without anything to write, and one that writes m.
LEMMA Quietly ==
  ASSUME NEW w, Writer(w), w.out = <<>>, NEW m, Message(m)
  PROVE  Writer(Send(w, m)) /\ Send(w, m) = [w EXCEPT !.out = <<m>>]
<1>1. Append(<<>>, m) = <<m>> /\ Messages(<<m>>)
  BY OneSaid
<1> QED
  BY <1>1 DEF Send, Writer, Fields

LEMMA ClientDo ==
  ASSUME NEW w, Writer(w), w.out = <<>>, w.role = "client"
  PROVE  ClientMoves(w, HandleDo(w), Command("DO"))
<1> DEFINE m == Command("WILL")
           v == IF w.on THEN w ELSE Send(w, m)
           a == [v EXCEPT !.on = TRUE, !.pendSb = TRUE]
           u == HandleDo(w)
<1>1. Message(m) /\ m \in Will /\ m \notin Do \cup Dont \cup Modes /\ Command("DO") \in Do
  BY Kinds DEF Message, Will, Do
<1>2. Writer(v) /\ v.out \in {<<>>, <<m>>} /\ v.role = "client" /\ v.mode = w.mode
  <2>1. Send(w, m) = [w EXCEPT !.out = <<m>>] /\ Writer(Send(w, m))
    BY <1>1, Quietly
  <2> HIDE DEF m
  <2> QED
    BY <2>1 DEF Writer, Fields
<1> HIDE DEF v, m
<1>3. /\ Writer(a) /\ a.out \in {<<>>, <<m>>} /\ a.role = "client" /\ a.mode = w.mode /\ a.on
      /\ Talks(a, a)
  BY <1>2 DEF Writer, Fields, Talks
<1> HIDE DEF a
<1>4. Talks(a, u)
  BY <1>3, AddTalks, SendSlcTalks DEF HandleDo, a, v, m
<1> HIDE DEF u
<1>5. /\ Once(u.out, Will) /\ ~Has(u.out, Do) /\ ~Has(u.out, Dont) /\ ~Has(u.out, Modes)
  BY <1>1, <1>3, <1>4, TalkAfter
<1>6. Writer(u) /\ u.role = "client" /\ u.mode = w.mode /\ u.on
  BY <1>3, <1>4 DEF Talks
<1>7. Command("DO") \notin Suggestions
  BY <1>1, Kinds
<1> QED
  <2> DEFINE d == Command("DO")
  <2>1. d \in Do /\ d \notin Suggestions
    BY <1>1, <1>7
  <2> HIDE DEF d
  <2>2. ClientMoves(w, u, d)
    BY <1>5, <1>6, <2>1 DEF ClientMoves
  <2> QED
    BY <2>2 DEF d, u

\* What a message of each kind is, and what feed_byte makes of it.
LEMMA MessageKinds ==
  ASSUME NEW m, Message(m)
  PROVE  \/ m \in Do /\ m = Command("DO") /\ m.cmd = "DO"
         \/ m \in Dont /\ m.cmd = "DONT"
         \/ m \in Will /\ m.cmd = "WILL"
         \/ m \in Modes /\ m.cmd = "MODE" /\ m.mode \in Linemodes
         \/ Chatter(m)
BY DEF Message, Do, Dont, Will, Modes, Command

LEMMA AnyMode == ASSUME NEW n \in Linemodes PROVE
  /\ Mode(n) \in Modes /\ Mode(n).mode = n
  /\ \A b : Mode(n) \in ModesOf(b) <=> n.bits = b
  /\ Mode(n) \in Suggestions <=> ~n.ack
  /\ \A b : Mode(n) \in SuggestionsOf(b) <=> n.bits = b /\ ~n.ack
<1> DEFINE m == Mode(n)
<1>1. m \in Modes /\ m.mode = n
  BY DEF Mode, Modes
<1> HIDE DEF m
<1>2. \A b : m \in ModesOf(b) <=> n.bits = b
  BY <1>1 DEF ModesOf
<1>3. m \in Suggestions <=> ~n.ack
  BY <1>1 DEF Suggestions
<1>4. \A b : m \in SuggestionsOf(b) <=> n.bits = b /\ ~n.ack
  BY <1>1, <1>3 DEF SuggestionsOf
<1> QED
  BY <1>1, <1>2, <1>3, <1>4 DEF m

\* What send_linemode writes.
LEMMA ModeSent ==
  ASSUME NEW w, Writer(w), w.out = <<>>, NEW n \in Linemodes
  PROVE  LET u == send_linemode(w, n) IN
         /\ Writer(u) /\ u.out = <<Mode(n)>> /\ u.mode = n
         /\ u.on = w.on /\ u.role = w.role /\ u.pendDo = w.pendDo
<1> DEFINE v == [w EXCEPT !.mode = n]
           m == Mode(n)
           x == Send(v, m)
<1>1. Message(m)
  BY AnyMode DEF Message
<1>2. /\ Writer(v) /\ v.out = <<>> /\ v.mode = n /\ v.on = w.on /\ v.role = w.role
      /\ v.pendDo = w.pendDo
  BY DEF Writer, Fields
<1> HIDE DEF v, m
<1>3. Writer(x) /\ x = [v EXCEPT !.out = <<m>>]
  BY <1>1, <1>2, Quietly
<1>4. /\ x.out = <<m>> /\ x.mode = n /\ x.on = w.on /\ x.role = w.role /\ x.pendDo = w.pendDo
  BY <1>2, <1>3 DEF Writer, Fields
<1> QED
  BY <1>3, <1>4 DEF send_linemode, v, m

\* A client that writes nothing that counts, or one MODE, moves rightly.
LEMMA ClientSilent ==
  ASSUME NEW w, NEW u, NEW m, Writer(u), u.role = "client", m \notin Do,
         u.on <=> w.on /\ m \notin Dont, u.mode.bits = w.mode.bits,
         \A M \in {Do, Dont, Will, Modes} : ~Has(u.out, M) /\ Once(u.out, M),
         w.on /\ m \in Suggestions => u.mode.bits = m.mode.bits
  PROVE  ClientMoves(w, u, m)
BY DEF ClientMoves

LEMMA ClientModeSent ==
  ASSUME NEW w, NEW v, Writer(v), v.out = <<>>, v.role = "client", NEW n \in Linemodes, NEW m,
         v.on = w.on, m \notin Do \cup Dont
  PROVE  ClientMoves(w, send_linemode(v, n), m)
<1> DEFINE u == send_linemode(v, n)
           k == Mode(n)
<1>1. Writer(u) /\ u.out = <<k>> /\ u.mode = n /\ u.on = w.on /\ u.role = "client"
  BY ModeSent
<1>2. k \in Modes /\ k \in ModesOf(n.bits) /\ Message(k)
  BY AnyMode DEF Message
<1>3. k \notin Do \cup Dont \cup Will
  BY <1>2, Kinds
<1> HIDE DEF u, k
<1>4. /\ \A M : (Has(u.out, M) <=> k \in M) /\ Once(u.out, M)
      /\ EndsIn(u.out, ModesOf(u.mode.bits), Modes)
  BY <1>1, <1>2, OneSaid
<1>5. /\ ~Has(u.out, Do) /\ ~Has(u.out, Dont) /\ ~Has(u.out, Will) /\ Has(u.out, Modes)
      /\ Once(u.out, Will)
  BY <1>2, <1>3, <1>4
<1>6. ClientMoves(w, u, m)
  BY <1>1, <1>4, <1>5 DEF ClientMoves, Writer
<1> QED
  BY <1>6 DEF u

LEMMA ClientDont ==
  ASSUME NEW w, Writer(w), w.out = <<>>, w.role = "client", NEW m \in Dont
  PROVE  ClientMoves(w, HandleDont(w), m)
<1> DEFINE u == HandleDont(w)
<1>1. Writer(u) /\ u.out = <<>> /\ u.role = "client" /\ u.on = FALSE /\ u.mode = w.mode
  BY DEF HandleDont, Writer, Fields
<1>2. m \notin Do \cup Suggestions
  BY Kinds
<1> HIDE DEF u
<1>3. ClientMoves(w, u, m)
  BY <1>1, <1>2, NothingSaid, ClientSilent
<1> QED
  BY <1>3 DEF u

LEMMA ClientMode ==
  ASSUME NEW w, Writer(w), w.out = <<>>, w.role = "client", NEW m \in Modes
  PROVE  ClientMoves(w, HandleMode([w EXCEPT !.pendSb = FALSE], m.mode), m)
<1> DEFINE v == [w EXCEPT !.pendSb = FALSE]
           n == m.mode
           a == [v EXCEPT !.mode = n]
           u == HandleMode(v, n)
<1>1. Writer(v) /\ v.out = <<>> /\ v.role = "client" /\ v.mode = w.mode /\ v.on = w.on
  BY DEF Writer, Fields
<1>2. m \notin Do \cup Dont \cup Will /\ n \in Linemodes /\ (m \in Suggestions <=> ~n.ack)
  BY Kinds DEF Modes, Suggestions
<1> HIDE DEF v, n
<1>3. Writer(a) /\ a.out = <<>> /\ a.role = "client" /\ a.mode = n /\ a.on = w.on
  BY <1>1, <1>2 DEF Writer, Fields
<1> HIDE DEF a
<1>4. w.on \in BOOLEAN
  BY DEF Writer
<1>5. CASE u = v /\ (n.ack \/ SameMode(w.mode, n) \/ ~w.on)
  <2>1. w.on /\ m \in Suggestions => v.mode.bits = m.mode.bits
    BY <1>1, <1>2, <1>5 DEF SameMode, n
  <2>2. ClientMoves(w, v, m)
    BY <1>1, <1>2, <1>4, <2>1, NothingSaid, ClientSilent
  <2> QED
    BY <1>5, <2>2 DEF v, n
<1>6. CASE u = a /\ n.ack /\ SameMode(w.mode, n)
  <2>1. a.mode.bits = w.mode.bits
    BY <1>3, <1>6 DEF SameMode
  <2>2. ClientMoves(w, a, m)
    BY <1>2, <1>3, <1>4, <1>6, <2>1, NothingSaid, ClientSilent
  <2> QED
    BY <1>6, <2>2 DEF v, n
<1>7. CASE u = send_linemode(v, Acknowledged(n))
  <2>1. Acknowledged(n) \in Linemodes
    BY <1>2 DEF Acknowledged, Linemodes
  <2>2. ClientMoves(w, send_linemode(v, Acknowledged(n)), m)
    BY <1>1, <1>2, <2>1, ClientModeSent
  <2> QED
    BY <1>7, <2>2 DEF v, n
<1> QED
  BY <1>1, <1>5, <1>6, <1>7 DEF HandleMode, Agreed, Suggested, a

LEMMA ClientChatter ==
  ASSUME NEW w, Writer(w), w.out = <<>>, w.role = "client", NEW m, NEW u,
         Chatter(m), Talks(w, u)
  PROVE  ClientMoves(w, u, m)
<1>1. m \notin Do \cup Dont \cup Will \cup Modes /\ m \notin Suggestions
  BY Kinds
<1>2. Writer(u) /\ u.role = "client" /\ u.mode = w.mode /\ u.on = w.on
  BY DEF Talks
<1>3. Message(m)
  BY DEF Message
<1>4. \A M \in {Do, Dont, Will, Modes} : ~Has(u.out, M) /\ Once(u.out, M)
  BY <1>1, <1>3, TalkAfter
<1> QED
  BY <1>1, <1>2, <1>4, ClientSilent

\* The wait for a sub-negotiation does not count.
LEMMA TalksOn ==
  ASSUME NEW w, Writer(w)
  PROVE  LET v == [w EXCEPT !.pendSb = FALSE] IN
         Writer(v) /\ Talks(w, v) /\ \A u : Talks(v, u) => Talks(w, u)
BY DEF Writer, Fields, Talks

LEMMA ClientFeeds ==
  ASSUME NEW w, Writer(w), w.out = <<>>, w.role = "client", NEW m, Message(m), m \notin Will
  PROVE  ClientMoves(w, Feed(w, m), m)
<1> DEFINE v == [w EXCEPT !.pendSb = FALSE]
<1>1. CASE m \in Do /\ m = Command("DO") /\ m.cmd = "DO"
  <2>1. Feed(w, m) = HandleDo(w)
    BY <1>1 DEF Feed
  <2> QED
    BY <1>1, <2>1, ClientDo
<1>2. CASE m \in Dont /\ m.cmd = "DONT"
  <2>1. Feed(w, m) = HandleDont(w)
    BY <1>2 DEF Feed
  <2> QED
    BY <1>2, <2>1, ClientDont
<1>3. CASE m \in Modes /\ m.cmd = "MODE"
  <2>1. Feed(w, m) = HandleMode(v, m.mode)
    BY <1>3 DEF Feed
  <2> QED
    BY <1>3, <2>1, ClientMode
<1>4. CASE Chatter(m)
  <2>1. Writer(v) /\ Talks(w, v) /\ \A u : Talks(v, u) => Talks(w, u)
    BY TalksOn
  <2>2. CASE m.cmd = "SLC" /\ IsList(m.triplets)
    <3>1. Feed(w, m) = HandleSlc(v, m.triplets)
      BY <2>2 DEF Feed
    <3> HIDE DEF v
    <3>2. Talks(v, HandleSlc(v, m.triplets))
      BY <2>1, <2>2, SlcTalks
    <3>3. Talks(w, HandleSlc(v, m.triplets))
      BY <2>1, <3>2
    <3> QED
      BY <1>4, <3>1, <3>3, ClientChatter
  <2>3. CASE m.cmd = "FORWARDMASK"
    <3>1. Feed(w, m) = HandleForwardMask(v, m.mask)
      BY <2>3 DEF Feed
    <3>2. Talks(w, HandleForwardMask(v, m.mask))
      BY DEF HandleForwardMask, Writer, Fields, Talks
    <3> QED
      BY <1>4, <3>1, <3>2, ClientChatter
  <2> QED
    BY <1>4, <2>2, <2>3 DEF Chatter
<1> QED
  BY <1>1, <1>2, <1>3, <1>4, MessageKinds

-----------------------------------------------------------------------------
LEMMA ServerChatter ==
  ASSUME NEW w, Writer(w), w.out = <<>>, w.role = "server", NEW m, NEW u,
         Chatter(m), Talks(w, u)
  PROVE  ServerMoves(w, u, m)
<1>1. m \notin Do \cup Dont \cup Will \cup Modes /\ m \notin Suggestions
  BY Kinds
<1>2. /\ Writer(u) /\ u.role = "server" /\ u.mode = w.mode /\ u.on = w.on
      /\ u.pendDo = w.pendDo
  BY DEF Talks
<1>3. Message(m)
  BY DEF Message
<1>4. \A M \in {Do, Dont, Will, Modes, Suggestions} : ~Has(u.out, M) /\ Once(u.out, M)
  BY <1>1, <1>3, TalkAfter
<1> QED
  BY <1>1, <1>2, <1>4 DEF ServerMoves, Writer

\* The server's MODE on its own: a suggestion, or an acknowledgement.
LEMMA ServerModeSent ==
  ASSUME NEW w, NEW v, Writer(w), Writer(v), v.out = <<>>, v.role = "server",
         NEW n \in Linemodes, NEW m,
         v.on => w.on \/ m \in Will,
         w.pendDo /\ m \notin Will => v.pendDo,
         m \notin Modes => ~n.ack,
         m \in Modes => n.bits = m.mode.bits /\ n.ack
  PROVE  ServerMoves(w, send_linemode(v, n), m)
<1> DEFINE u == send_linemode(v, n)
           k == Mode(n)
<1>1. /\ Writer(u) /\ u.out = <<k>> /\ u.mode = n /\ u.on = v.on /\ u.role = "server"
      /\ u.pendDo = v.pendDo
  BY ModeSent
<1>2. /\ k \in Modes /\ Message(k) /\ (k \in Suggestions <=> ~n.ack)
      /\ (k \in SuggestionsOf(n.bits) <=> ~n.ack)
  BY AnyMode DEF Message
<1>3. k \notin Do \cup Dont \cup Will
  BY <1>2, Kinds
<1>4. m \in Will => m \notin Modes
  BY Kinds
<1> HIDE DEF u, k
<1>5. /\ \A M : (Has(u.out, M) <=> k \in M) /\ Once(u.out, M)
      /\ EndsIn(u.out, SuggestionsOf(n.bits), Suggestions) <=> k \in SuggestionsOf(n.bits)
  BY <1>1, <1>2, OneSaid
<1>6. /\ ~Has(u.out, Do) /\ ~Has(u.out, Dont) /\ ~Has(u.out, Will) /\ Once(u.out, Do)
      /\ Has(u.out, Suggestions) <=> ~n.ack
      /\ EndsIn(u.out, SuggestionsOf(u.mode.bits), Suggestions) <=> ~n.ack
  BY <1>1, <1>2, <1>3, <1>5
<1>7. n.ack \in BOOLEAN
  BY DEF Linemodes
<1>8. ServerMoves(w, u, m)
  BY <1>1, <1>4, <1>6, <1>7 DEF ServerMoves, Writer
<1> QED
  BY <1>8 DEF u

LEMMA ServerWill ==
  ASSUME NEW w, Writer(w), w.out = <<>>, w.role = "server", NEW m \in Will, w.on \/ w.pendDo
  PROVE  ServerMoves(w, HandleWill(w), m)
<1> DEFINE x == IF w.on THEN w ELSE [w EXCEPT !.on = TRUE]
           v == [x EXCEPT !.pendSb = TRUE]
           n == [bits |-> default_linemode, ack |-> FALSE]
           y == send_linemode(v, n)
           u == [y EXCEPT !.pendDo = FALSE]
<1>1. HandleWill(w) = u
  BY DEF HandleWill, IacDo
<1>2. Writer(x) /\ x.out = <<>> /\ x.role = "server"
  BY DEF Writer, Fields
<1> HIDE DEF x
<1>3. Writer(v) /\ v.out = <<>> /\ v.role = "server"
  BY <1>2 DEF Writer, Fields
<1>4. n \in Linemodes /\ n.ack = FALSE
  BY LinemodeAssumption DEF Linemodes
<1>5. m \notin Modes
  BY Kinds
<1> HIDE DEF v, n
<1>6. ServerMoves(v, y, m)
  BY <1>3, <1>4, <1>5, ServerModeSent
<1>7. Writer(y)
  BY <1>6 DEF ServerMoves
<1>8. y.out = <<Mode(n)>> /\ y.role = "server"
  BY <1>3, <1>4, ModeSent
<1> HIDE DEF y
<1>9. Writer(u) /\ u.out = y.out /\ u.role = "server" /\ u.mode = y.mode
  BY <1>7, <1>8 DEF Writer, Fields
<1>10. Mode(n) \in Modes /\ Mode(n) \notin Do \cup Dont \cup Will /\ Message(Mode(n))
  BY <1>4, Kinds, AnyMode DEF Message
<1>11. ~Has(y.out, Do) /\ ~Has(y.out, Dont) /\ Has(y.out, Suggestions)
  <2> DEFINE k == Mode(n)
  <2>1. k \notin Do \cup Dont /\ k \in Suggestions /\ Message(k)
    BY <1>4, <1>10, AnyMode
  <2>2. y.out = <<k>>
    BY <1>8
  <2> HIDE DEF k
  <2> QED
    BY <2>1, <2>2, OneSaid
<1> HIDE DEF u
<1>12. ServerMoves(w, u, m)
  BY <1>5, <1>6, <1>9, <1>11 DEF ServerMoves
<1> QED
  BY <1>1, <1>12

LEMMA ServerMode ==
  ASSUME NEW w, Writer(w), w.out = <<>>, w.role = "server", NEW m \in Modes
  PROVE  ServerMoves(w, HandleMode([w EXCEPT !.pendSb = FALSE], m.mode), m)
<1> DEFINE v == [w EXCEPT !.pendSb = FALSE]
           n == m.mode
           a == [v EXCEPT !.mode = n]
           b == SendSlc(_slc_send(a, Table(a)))
           c == [b EXCEPT !.slc_sent = TRUE]
           k == Acknowledged(n)
           u == HandleMode(v, n)
<1>1. /\ Writer(v) /\ v.out = <<>> /\ v.role = "server" /\ v.mode = w.mode /\ v.on = w.on
      /\ v.pendDo = w.pendDo
  BY DEF Writer, Fields
<1>2. m \notin Do \cup Dont \cup Will /\ n \in Linemodes
  BY Kinds DEF Modes
<1> HIDE DEF v
<1>3. \/ u = v /\ (~w.on \/ SameMode(w.mode, n))
      \/ u \in {a, c}
      \/ u = send_linemode(v, k)
  <2>1. v.role = "server" => Agreed(v, n) \in {a, c}
    BY DEF Agreed
  <2>2. u = Agreed(v, n) \/ u = Suggested(v, n)
    BY DEF HandleMode
  <2>3. \/ Suggested(v, n) = v /\ (~v.on \/ SameMode(v.mode, n))
        \/ Suggested(v, n) = send_linemode(v, k)
    BY DEF Suggested
  <2> HIDE DEF u, v, a, c, k
  <2> QED
    BY <1>1, <2>1, <2>2, <2>3
<1> HIDE DEF n
<1>4. /\ Writer(a) /\ a.out = <<>> /\ a.role = "server" /\ a.mode = n /\ a.on = w.on
      /\ a.pendDo = w.pendDo
  BY <1>1, <1>2 DEF Writer, Fields
<1> HIDE DEF a
<1>5. Talks(a, a) /\ Talks(a, b)
  <2>1. Talks(a, a) /\ Talks(a, _slc_send(a, Table(a)))
    BY <1>4, SilentTalk, TableTalks
  <2> QED
    BY <2>1, SendSlcTalks
<1> HIDE DEF b
<1>6. Talks(a, c)
  BY <1>5 DEF Talks, Writer, Fields
<1> HIDE DEF c, u
<1>7. ASSUME NEW x, Talks(a, x) PROVE ServerMoves(w, x, m)
  <2>1. /\ Writer(x) /\ x.role = "server" /\ x.mode = n /\ x.on = w.on /\ x.pendDo = w.pendDo
    BY <1>4, <1>7 DEF Talks
  <2>3. \A M \in {Do, Dont, Will, Modes, Suggestions} : ~Has(x.out, M) /\ Once(x.out, M)
    <3>1. Message(ForwardMask({})) /\ ForwardMask({}) \notin Do \cup Dont \cup Will \cup Modes
      BY Kinds DEF Message, Chatter, ForwardMask
    <3>2. ForwardMask({}) \notin Suggestions
      BY <3>1, Kinds
    <3> QED
      BY <1>4, <1>7, <3>1, <3>2, TalkAfter
  <2> QED
    BY <1>2, <2>1, <2>3 DEF ServerMoves, Writer, n
<1>8. CASE u = v /\ (~w.on \/ SameMode(w.mode, n))
  <2>1. w.on => v.mode.bits = n.bits
    BY <1>1, <1>8 DEF SameMode
  <2>2. ServerMoves(w, v, m)
    BY <1>1, <1>2, <2>1, NothingSaid DEF ServerMoves, Writer, n
  <2> QED
    BY <1>8, <2>2 DEF u, v, n
<1>9. CASE u = send_linemode(v, k)
  <2>1. k \in Linemodes /\ k.bits = n.bits /\ k.ack
    BY <1>2 DEF Acknowledged, Linemodes
  <2> HIDE DEF k
  <2>2. ServerMoves(w, send_linemode(v, k), m)
    BY <1>1, <1>2, <2>1, ServerModeSent DEF n
  <2> QED
    BY <1>9, <2>2 DEF u, v, n
<1>10. CASE u \in {a, c}
  <2>1. ServerMoves(w, u, m)
    BY <1>5, <1>6, <1>7, <1>10
  <2> QED
    BY <2>1 DEF u, v, n
<1> QED
  BY <1>3, <1>8, <1>9, <1>10

LEMMA ServerFeeds ==
  ASSUME NEW w, Writer(w), w.out = <<>>, w.role = "server", NEW m, Message(m),
         m \notin Do \cup Dont, m \in Will => w.on \/ w.pendDo
  PROVE  ServerMoves(w, Feed(w, m), m)
<1> DEFINE v == [w EXCEPT !.pendSb = FALSE]
<1>1. CASE m \in Will /\ m.cmd = "WILL"
  <2>1. Feed(w, m) = HandleWill(w)
    BY <1>1 DEF Feed
  <2> QED
    BY <1>1, <2>1, ServerWill
<1>3. CASE m \in Modes /\ m.cmd = "MODE"
  <2>1. Feed(w, m) = HandleMode(v, m.mode)
    BY <1>3 DEF Feed
  <2> QED
    BY <1>3, <2>1, ServerMode
<1>4. CASE Chatter(m)
  <2>1. Writer(v) /\ Talks(w, v) /\ \A u : Talks(v, u) => Talks(w, u)
    BY TalksOn
  <2>2. CASE m.cmd = "SLC" /\ IsList(m.triplets)
    <3>1. Feed(w, m) = HandleSlc(v, m.triplets)
      BY <2>2 DEF Feed
    <3> HIDE DEF v
    <3>2. Talks(v, HandleSlc(v, m.triplets))
      BY <2>1, <2>2, SlcTalks
    <3>3. Talks(w, HandleSlc(v, m.triplets))
      BY <2>1, <3>2
    <3> QED
      BY <1>4, <3>1, <3>3, ServerChatter
  <2>3. CASE m.cmd = "FORWARDMASK"
    <3>1. Feed(w, m) = HandleForwardMask(v, m.mask)
      BY <2>3 DEF Feed
    <3>2. Talks(w, HandleForwardMask(v, m.mask))
      BY DEF HandleForwardMask, Writer, Fields, Talks
    <3> QED
      BY <1>4, <3>1, <3>2, ServerChatter
  <2> QED
    BY <1>4, <2>2, <2>3 DEF Chatter
<1> QED
  BY <1>1, <1>3, <1>4, MessageKinds

\* The calls, during which no message is taken in.
LEMMA NothingTaken == Nothing \notin Do \cup Dont \cup Will \cup Modes \cup Suggestions
BY Kinds

LEMMA ClientCalls ==
  ASSUME NEW w, Writer(w), w.out = <<>>, w.role = "client",
         NEW call \in {"send", "change"}, NEW bits \in SUBSET Bits
  PROVE  ClientMoves(w, Called(w, call, bits), Nothing)
<1> DEFINE n == [bits |-> bits, ack |-> FALSE]
           k == [w.mode EXCEPT !.bits = bits]
<1>1. n \in Linemodes /\ k \in Linemodes
  BY DEF Linemodes, Writer
<1>2. Called(w, call, bits) \in {send_linemode(w, n), send_linemode(w, k), w}
  BY DEF Called, request_linemode_change
<1> HIDE DEF n, k
<1>3. ClientMoves(w, send_linemode(w, n), Nothing) /\ ClientMoves(w, send_linemode(w, k), Nothing)
  BY <1>1, NothingTaken, ClientModeSent
<1>4. ClientMoves(w, w, Nothing)
  BY NothingTaken, NothingSaid, ClientSilent DEF Writer
<1> QED
  BY <1>2, <1>3, <1>4

LEMMA ServerCalls ==
  ASSUME NEW w, Writer(w), w.out = <<>>, w.role = "server",
         NEW call \in {"toggle", "send"}, NEW bits \in SUBSET Bits
  PROVE  ServerMoves(w, Called(w, call, bits), Nothing)
<1> DEFINE n == [bits |-> bits, ack |-> FALSE]
           x == [w EXCEPT !.on = FALSE]
           y == [w EXCEPT !.pendDo = TRUE]
           a == Send(x, Command("DONT"))
           b == Send(y, Command("DO"))
<1>1. n \in Linemodes /\ ~n.ack
  BY DEF Linemodes
<1>2. \/ Called(w, call, bits) \in {send_linemode(w, n), w}
      \/ Called(w, call, bits) = a /\ w.on
      \/ Called(w, call, bits) = b /\ ~w.on /\ ~w.pendDo
  BY DEF Called, do_toggle, IacDo, IacDont
<1>3. Writer(x) /\ x.out = <<>> /\ x.role = "server" /\ ~x.on /\ x.pendDo = w.pendDo
      /\ x.mode = w.mode
  BY DEF Writer, Fields
<1>4. Writer(y) /\ y.out = <<>> /\ y.role = "server" /\ y.on = w.on /\ y.pendDo /\ y.mode = w.mode
  BY DEF Writer, Fields
<1> HIDE DEF n, x, y
<1>5. ServerMoves(w, send_linemode(w, n), Nothing)
  BY <1>1, NothingTaken, ServerModeSent
<1>6. ServerMoves(w, w, Nothing)
  BY NothingTaken, NothingSaid DEF ServerMoves, Writer
<1>7. ASSUME w.on PROVE ServerMoves(w, a, Nothing)
  <2> DEFINE k == Command("DONT")
  <2>1. k \in Dont /\ Message(k) /\ k \notin Do \cup Will \cup Modes \cup Suggestions
    BY Kinds DEF Dont, Message
  <2>2. Writer(a) /\ a = [x EXCEPT !.out = <<k>>]
    BY <1>3, <2>1, Quietly
  <2>3. a.out = <<k>> /\ a.role = "server" /\ ~a.on /\ a.pendDo = w.pendDo /\ a.mode = w.mode
    BY <1>3, <2>2 DEF Writer, Fields
  <2> HIDE DEF k, a
  <2>4. \A M : (Has(a.out, M) <=> k \in M) /\ Once(a.out, M)
    BY <2>1, <2>3, OneSaid
  <2> QED
    BY <1>7, <2>1, <2>2, <2>3, <2>4, NothingTaken DEF ServerMoves, Writer
<1>8. ASSUME ~w.on, ~w.pendDo PROVE ServerMoves(w, b, Nothing)
  <2> DEFINE k == Command("DO")
  <2>1. k \in Do /\ Message(k) /\ k \notin Dont \cup Will \cup Modes \cup Suggestions
    BY Kinds DEF Do, Message
  <2>2. Writer(b) /\ b = [y EXCEPT !.out = <<k>>]
    BY <1>4, <2>1, Quietly
  <2>3. b.out = <<k>> /\ b.role = "server" /\ ~b.on /\ b.pendDo /\ b.mode = w.mode
    BY <1>4, <1>8, <2>2 DEF Writer, Fields
  <2> HIDE DEF k, b
  <2>4. \A M : (Has(b.out, M) <=> k \in M) /\ Once(b.out, M)
    BY <2>1, <2>3, OneSaid
  <2> QED
    BY <1>8, <2>1, <2>2, <2>3, <2>4, NothingTaken DEF ServerMoves, Writer
<1> QED
  BY <1>2, <1>5, <1>6, <1>7, <1>8

-----------------------------------------------------------------------------
(***************************************************************************)
(* The invariant: c and s are the client and the server, p is on its way   *)
(* to the client and q to the server.                                      *)
(***************************************************************************)
Agree(c, s, p, q) ==
  /\ Writer(c) /\ c.out = <<>> /\ c.role = "client"
  /\ Writer(s) /\ s.out = <<>> /\ s.role = "server"
  /\ Messages(p) /\ ~Has(p, Will) /\ Once(p, Do)
  /\ Messages(q) /\ ~Has(q, Do) /\ ~Has(q, Dont) /\ Once(q, Will)
  \* the last MODE of the client is the mode it is in
  /\ Has(q, Modes) => EndsIn(q, ModesOf(c.mode.bits), Modes)
  \* an option the server takes for agreed on is so for the client, for good
  /\ s.on => c.on /\ ~Has(p, Do) /\ ~Has(p, Dont) /\ ~Has(q, Will)
  \* the modes are the same, unless somebody is about to hear otherwise
  /\ s.on => \/ Has(q, Modes)
             \/ s.mode.bits = c.mode.bits
             \/ EndsIn(p, SuggestionsOf(s.mode.bits), Suggestions)
  \* an agreement is on its way to a server that asked for it
  /\ Has(q, Will) => c.on /\ ~Has(p, Do) /\ ~Has(p, Dont) /\ s.pendDo
  /\ Has(p, Do) => s.pendDo /\ EndsIn(p, Do, Dont)

Inv ==
  /\ DOMAIN writer = Ends /\ DOMAIN wire = Ends
  /\ Agree(writer["client"], writer["server"], wire["client"], wire["server"])

\* m is taken from the front of q, and r is left; or nothing is taken.
Counted == Do \cup Dont \cup Will \cup Modes
Taken(q, m, r) ==
  /\ Messages(r)
  /\ \A M \in SUBSET Counted :
       /\ Has(q, M) <=> m \in M \/ Has(r, M)
       /\ Once(q, M) => Once(r, M) /\ (m \in M => ~Has(r, M))
       /\ \A N \in SUBSET Counted :
            EndsIn(q, M, N) <=> EndsIn(r, M, N) \/ (m \in M /\ ~Has(r, N))

LEMMA TakesFirst ==
  ASSUME NEW q, Messages(q), q # <<>>
  PROVE  Taken(q, Head(q), Tail(q)) /\ Message(Head(q))
<1> DEFINE m == Head(q)
           r == Tail(q)
<1>1. /\ IsList(r) /\ Len(q) \in Nat \ {0} /\ m = q[1]
      /\ DOMAIN q = 1 .. Len(q) /\ DOMAIN r = 1 .. Len(q) - 1
      /\ \A i \in 1 .. Len(q) - 1 : r[i] = q[i + 1]
  BY RestOfSeq DEF Messages
<1>2. IsList(q)
  BY DEF Messages
<1>3. \A M : Has(q, M) <=> m \in M \/ Has(r, M)
  BY <1>2, HasTaken
<1>4. \A M : Once(q, M) => Once(r, M) /\ (m \in M => ~Has(r, M))
  BY <1>2, OnceTaken
<1>5. \A M, N : EndsIn(q, M, N) <=> EndsIn(r, M, N) \/ (m \in M /\ ~Has(r, N))
  BY <1>2, EndsInTaken
<1> HIDE DEF m, r
<1>6. 1 \in DOMAIN q /\ \A i \in DOMAIN r : i + 1 \in DOMAIN q /\ r[i] = q[i + 1]
  BY <1>1
<1>7. Messages(r) /\ Message(m)
  BY <1>1, <1>6 DEF Messages
<1>8. Taken(q, m, r) /\ Message(m)
  BY <1>3, <1>4, <1>5, <1>7 DEF Taken
<1> QED
  BY <1>8 DEF m, r

LEMMA TakesNone ==
  ASSUME NEW q, Messages(q)
  PROVE  Taken(q, Nothing, q)
BY NothingTaken DEF Taken, Counted

LEMMA KindsCounted ==
  /\ {Do, Dont, Will, Modes, Suggestions} \subseteq SUBSET Counted
  /\ \A b : {ModesOf(b), SuggestionsOf(b)} \subseteq SUBSET Counted
BY DEF Counted, Suggestions, ModesOf, SuggestionsOf

\* Something of a part is something of the whole.
LEMMA EndsHas ==
  ASSUME NEW q, NEW b
  PROVE  /\ EndsIn(q, ModesOf(b), Modes) => Has(q, Modes)
         /\ EndsIn(q, SuggestionsOf(b), Suggestions) => Has(q, Suggestions)
         /\ EndsIn(q, Do, Dont) => Has(q, Do)
         /\ Has(q, Do) /\ ~Has(q, Dont) => EndsIn(q, Do, Dont)
BY DEF EndsIn, Has, ModesOf, SuggestionsOf, Suggestions

\* A writer whose words have gone to the wire.
LEMMA Written ==
  ASSUME NEW u, Writer(u)
  PROVE  LET v == [u EXCEPT !.out = <<>>] IN
         /\ Writer(v) /\ v.out = <<>> /\ v.role = u.role /\ v.on = u.on /\ v.pendDo = u.pendDo
         /\ v.mode = u.mode
BY NothingSaid DEF Writer, Fields

LEMMA ClientStep ==
  ASSUME NEW c, NEW s, NEW p, NEW q, Agree(c, s, p, q), NEW m, NEW r, Taken(p, m, r),
         NEW u, ClientMoves(c, u, m)
  PROVE  Agree([u EXCEPT !.out = <<>>], s, r, q \o u.out)
<1> DEFINE v == [u EXCEPT !.out = <<>>]
           o == u.out
           t == q \o o
<1>1. /\ Writer(v) /\ v.out = <<>> /\ v.role = "client" /\ v.on = u.on /\ v.mode = u.mode
  BY Written DEF ClientMoves
<1>2. IsList(q) /\ IsList(o) /\ Messages(t)
  BY MessagesJoined DEF Agree, ClientMoves, Writer, Messages
<1>3. \A M : Has(t, M) <=> Has(q, M) \/ Has(o, M)
  BY <1>2, HasAdded
<1>4. \A M, N : EndsIn(t, M, N) <=> EndsIn(o, M, N) \/ (EndsIn(q, M, N) /\ ~Has(o, N))
  BY <1>2, EndsInAdded
<1>5. /\ Once(q, Will) /\ ~Has(o, Will) => Once(t, Will)
      /\ Once(o, Will) /\ ~Has(q, Will) => Once(t, Will)
  BY <1>2, OnceAdded
<1>6. /\ \A M \in {Do, Dont, Will, Modes, Suggestions} : Has(p, M) <=> m \in M \/ Has(r, M)
      /\ Once(p, Do) => Once(r, Do) /\ (m \in Do => ~Has(r, Do))
      /\ EndsIn(p, Do, Dont) <=> EndsIn(r, Do, Dont) \/ (m \in Do /\ ~Has(r, Dont))
      /\ Messages(r)
  BY KindsCounted DEF Taken
<1>7. EndsIn(p, SuggestionsOf(s.mode.bits), Suggestions) =>
        \/ EndsIn(r, SuggestionsOf(s.mode.bits), Suggestions)
        \/ m \in SuggestionsOf(s.mode.bits)
  BY KindsCounted DEF Taken
<1>8. m \in Do => m \notin Dont
  BY Kinds
<1> HIDE DEF v, o, t
<1>9. ~Has(r, Will) /\ Once(r, Do) /\ ~Has(t, Do) /\ ~Has(t, Dont)
  BY <1>3, <1>6 DEF Agree, ClientMoves, o
<1>10. Once(t, Will)
  BY <1>5, <1>6 DEF Agree, ClientMoves, o
<1>11. Has(t, Modes) => EndsIn(t, ModesOf(v.mode.bits), Modes)
  <2>1. CASE Has(o, Modes)
    BY <1>1, <1>4, <2>1 DEF ClientMoves, o
  <2>2. CASE ~Has(o, Modes)
    <3>1. v.mode.bits = c.mode.bits
      BY <1>1, <2>2 DEF ClientMoves, o
    <3> QED
      BY <1>3, <1>4, <2>2, <3>1 DEF Agree
  <2> QED
    BY <2>1, <2>2
<1>12. s.on => v.on /\ ~Has(r, Do) /\ ~Has(r, Dont) /\ ~Has(t, Will)
  BY <1>1, <1>3, <1>6 DEF Agree, ClientMoves, o
<1>13. s.on => \/ Has(t, Modes)
               \/ s.mode.bits = v.mode.bits
               \/ EndsIn(r, SuggestionsOf(s.mode.bits), Suggestions)
  <2> SUFFICES ASSUME s.on, ~Has(q, Modes), ~Has(o, Modes),
                      ~EndsIn(r, SuggestionsOf(s.mode.bits), Suggestions)
               PROVE  s.mode.bits = v.mode.bits
    BY <1>3
  <2>1. c.on /\ v.mode.bits = c.mode.bits
    BY <1>1 DEF Agree, ClientMoves, o
  <2>2. CASE s.mode.bits = c.mode.bits
    BY <2>1, <2>2
  <2>3. CASE m \in SuggestionsOf(s.mode.bits)
    BY <1>1, <2>1, <2>3 DEF ClientMoves, o, SuggestionsOf
  <2> QED
    BY <1>7, <2>2, <2>3 DEF Agree
<1>14. Has(t, Will) => v.on /\ ~Has(r, Do) /\ ~Has(r, Dont) /\ s.pendDo
  <2>1. CASE Has(q, Will)
    BY <1>1, <1>6, <2>1 DEF Agree, ClientMoves, o
  <2>2. CASE Has(o, Will)
    <3>1. m \in Do /\ v.on
      BY <1>1, <2>2 DEF ClientMoves, o
    <3>2. Has(p, Do) /\ ~Has(r, Do)
      BY <1>6, <3>1 DEF Agree
    <3>3. s.pendDo /\ EndsIn(p, Do, Dont)
      BY <3>2 DEF Agree
    <3>4. ~Has(r, Dont)
      BY <1>6, <3>2, <3>3, EndsHas
    <3> QED
      BY <3>1, <3>2, <3>3, <3>4
  <2> QED
    BY <1>3, <2>1, <2>2
<1>15. Has(r, Do) => s.pendDo /\ EndsIn(r, Do, Dont)
  BY <1>6 DEF Agree
<1>16. Agree(v, s, r, t)
  BY <1>1, <1>2, <1>6, <1>9, <1>10, <1>11, <1>12, <1>13, <1>14, <1>15 DEF Agree
<1> QED
  BY <1>16 DEF v, t, o

LEMMA ServerStep ==
  ASSUME NEW c, NEW s, NEW p, NEW q, Agree(c, s, p, q), NEW m, NEW r, Taken(q, m, r),
         NEW u, ServerMoves(s, u, m)
  PROVE  Agree(c, [u EXCEPT !.out = <<>>], p \o u.out, r)
<1> DEFINE v == [u EXCEPT !.out = <<>>]
           o == u.out
           t == p \o o
<1>1. /\ Writer(v) /\ v.out = <<>> /\ v.role = "server" /\ v.on = u.on /\ v.mode = u.mode
      /\ v.pendDo = u.pendDo
  BY Written DEF ServerMoves
<1>2. IsList(p) /\ IsList(o) /\ Messages(t)
  BY MessagesJoined DEF Agree, ServerMoves, Writer, Messages
<1>3. \A M : Has(t, M) <=> Has(p, M) \/ Has(o, M)
  BY <1>2, HasAdded
<1>4. \A M, N : EndsIn(t, M, N) <=> EndsIn(o, M, N) \/ (EndsIn(p, M, N) /\ ~Has(o, N))
  BY <1>2, EndsInAdded
<1>5. /\ Once(p, Do) /\ ~Has(o, Do) => Once(t, Do)
      /\ Once(o, Do) /\ ~Has(p, Do) => Once(t, Do)
  BY <1>2, OnceAdded
<1>6. /\ \A M \in {Do, Dont, Will, Modes, Suggestions} : Has(q, M) <=> m \in M \/ Has(r, M)
      /\ Once(q, Will) => Once(r, Will) /\ (m \in Will => ~Has(r, Will))
      /\ Messages(r)
  BY KindsCounted DEF Taken
<1>7. EndsIn(q, ModesOf(c.mode.bits), Modes) <=>
        \/ EndsIn(r, ModesOf(c.mode.bits), Modes)
        \/ m \in ModesOf(c.mode.bits) /\ ~Has(r, Modes)
  BY KindsCounted DEF Taken
<1>8. m \in Will => m # Nothing /\ m \notin Modes
  BY Kinds
<1> HIDE DEF v, o, t
<1>9. ~Has(r, Do) /\ ~Has(r, Dont) /\ Once(r, Will) /\ ~Has(t, Will)
  BY <1>3, <1>6 DEF Agree, ServerMoves, o
<1>10. Once(t, Do)
  BY <1>5 DEF Agree, ServerMoves, o
<1>11. Has(r, Modes) => EndsIn(r, ModesOf(c.mode.bits), Modes)
  BY <1>6, <1>7 DEF Agree
<1>12. v.on => c.on /\ ~Has(t, Do) /\ ~Has(t, Dont) /\ ~Has(r, Will)
  <2> SUFFICES ASSUME v.on PROVE c.on /\ ~Has(t, Do) /\ ~Has(t, Dont) /\ ~Has(r, Will)
    OBVIOUS
  <2>1. ~Has(o, Dont)
    BY <1>1 DEF ServerMoves, o
  <2>2. CASE s.on
    BY <1>3, <1>6, <2>1, <2>2 DEF Agree, ServerMoves, o
  <2>3. CASE m \in Will
    BY <1>3, <1>6, <1>8, <2>1, <2>3 DEF Agree, ServerMoves, o
  <2> QED
    BY <1>1, <2>2, <2>3 DEF ServerMoves
<1>13. v.on => \/ Has(r, Modes)
               \/ v.mode.bits = c.mode.bits
               \/ EndsIn(t, SuggestionsOf(v.mode.bits), Suggestions)
  <2> SUFFICES ASSUME v.on, ~Has(r, Modes)
               PROVE  \/ v.mode.bits = c.mode.bits
                      \/ EndsIn(t, SuggestionsOf(v.mode.bits), Suggestions)
    OBVIOUS
  <2>1. CASE m \in Will
    BY <1>1, <1>4, <2>1 DEF ServerMoves, o
  <2>2. CASE s.on /\ m \in Modes
    <3>1. v.mode.bits = m.mode.bits
      BY <1>1, <2>2 DEF ServerMoves
    <3>2. EndsIn(q, ModesOf(c.mode.bits), Modes)
      BY <1>6, <2>2 DEF Agree
    <3>3. m \in ModesOf(c.mode.bits)
      BY <1>7, <3>2, EndsHas
    <3> QED
      BY <3>1, <3>3 DEF ModesOf
  <2>3. CASE s.on /\ m \notin Modes /\ Has(o, Suggestions)
    BY <1>1, <1>4, <2>3 DEF ServerMoves, o
  <2>4. CASE s.on /\ m \notin Modes /\ ~Has(o, Suggestions)
    <3>1. v.mode.bits = s.mode.bits
      BY <1>1, <2>4 DEF ServerMoves, o
    <3>2. ~Has(q, Modes)
      BY <1>6, <2>4
    <3> QED
      BY <1>4, <2>4, <3>1, <3>2 DEF Agree
  <2> QED
    BY <1>1, <2>1, <2>2, <2>3, <2>4 DEF ServerMoves
<1>14. Has(r, Will) => c.on /\ ~Has(t, Do) /\ ~Has(t, Dont) /\ v.pendDo
  BY <1>1, <1>3, <1>6 DEF Agree, ServerMoves, o
<1>15. Has(t, Do) => v.pendDo /\ EndsIn(t, Do, Dont)
  <2>1. CASE Has(o, Do)
    <3>1. u.pendDo /\ EndsIn(o, Do, Dont)
      BY <2>1, EndsHas DEF ServerMoves, o
    <3> QED
      BY <1>1, <1>4, <3>1
  <2>2. CASE Has(p, Do)
    <3>1. s.pendDo /\ EndsIn(p, Do, Dont) /\ ~s.on /\ ~Has(q, Will)
      BY <2>2 DEF Agree
    <3>2. m \notin Will /\ ~Has(o, Dont)
      BY <1>6, <3>1 DEF ServerMoves, o
    <3> QED
      BY <1>1, <1>4, <3>1, <3>2 DEF ServerMoves
  <2> QED
    BY <1>3, <2>1, <2>2
<1>16. Agree(c, v, t, r)
  BY <1>1, <1>2, <1>6, <1>9, <1>10, <1>11, <1>12, <1>13, <1>14, <1>15 DEF Agree
<1> QED
  BY <1>16 DEF v, t, o

-----------------------------------------------------------------------------
LEMMA NewWriters ==
  ASSUME NEW e, NEW d, NEW a \in BOOLEAN
  PROVE  LET w == [NewWriter(e, d) EXCEPT !.pendDo = a] IN
         /\ Writer(w) /\ w.out = <<>> /\ w.role = e /\ ~w.on /\ w.pendDo = a
<1>1. IsList(<<>>) /\ Messages(<<>>)
  BY NothingSaid DEF Messages
<1>2. [bits |-> {}, ack |-> FALSE] \in Linemodes
  BY DEF Linemodes
<1> QED
  BY <1>1, <1>2 DEF NewWriter, Writer, Fields

LEMMA Begins == Init => Inv
<1> SUFFICES ASSUME Init PROVE Inv
  OBVIOUS
<1> DEFINE m == Command("DO")
<1>1. PICK d \in [Ends -> Defaults] :
        writer = [e \in Ends |-> [NewWriter(e, d[e]) EXCEPT !.pendDo = e = "server"]]
  BY DEF Init
<1>2. \A e \in Ends :
        LET w == writer[e] IN
        Writer(w) /\ w.out = <<>> /\ w.role = e /\ ~w.on /\ w.pendDo = (e = "server")
  <2> SUFFICES ASSUME NEW e \in Ends
               PROVE  LET w == writer[e] IN /\ Writer(w) /\ w.out = <<>> /\ w.role = e /\ ~w.on
                                            /\ w.pendDo = (e = "server")
    OBVIOUS
  <2> DEFINE a == e = "server"
  <2>1. a \in BOOLEAN /\ writer[e] = [NewWriter(e, d[e]) EXCEPT !.pendDo = a]
    BY <1>1
  <2> HIDE DEF a
  <2>2. LET w == [NewWriter(e, d[e]) EXCEPT !.pendDo = a] IN
        /\ Writer(w) /\ w.out = <<>> /\ w.role = e /\ ~w.on /\ w.pendDo = a
    BY <2>1, NewWriters
  <2> QED
    BY <2>1, <2>2 DEF a
<1>3. DOMAIN writer = Ends /\ DOMAIN wire = Ends /\ wire["client"] = <<m>> /\ wire["server"] = <<>>
  BY <1>1 DEF Init, Ends
<1>4. m \in Do /\ m \notin Will \cup Dont /\ Message(m)
  BY Kinds DEF Do, Message
<1> HIDE DEF m
<1>5. Agree(writer["client"], writer["server"], <<m>>, <<>>)
  BY <1>2, <1>4, OneSaid, NothingSaid DEF Agree, Ends
<1> QED
  BY <1>3, <1>5 DEF Inv

\* feed_byte does not look at the flag an exception left.
LEMMA Unraised ==
  ASSUME NEW w, Writer(w)
  PROVE  LET v == [w EXCEPT !.raised = FALSE] IN
         /\ Writer(v) /\ v.out = w.out /\ v.role = w.role /\ v.on = w.on /\ v.pendDo = w.pendDo
         /\ v.mode = w.mode
BY DEF Writer, Fields

LEMMA Steps ==
  ASSUME ShellsCall, Inv, [Next]_vars
  PROVE  Inv'
<1> DEFINE c == writer["client"]
           s == writer["server"]
           p == wire["client"]
           q == wire["server"]
<1>1. Agree(c, s, p, q) /\ DOMAIN writer = Ends /\ DOMAIN wire = Ends
  BY DEF Inv
<1>2. ASSUME NEW u, NEW r, Becomes("client", u, r), Agree([u EXCEPT !.out = <<>>], s, r, q \o u.out)
      PROVE  Inv'
  BY <1>1, <1>2 DEF Becomes, Inv, Ends, Peer
<1>3. ASSUME NEW u, NEW r, Becomes("server", u, r), Agree(c, [u EXCEPT !.out = <<>>], p \o u.out, r)
      PROVE  Inv'
  BY <1>1, <1>3 DEF Becomes, Inv, Ends, Peer
<1>4. CASE Receive("client")
  <2> DEFINE w == [c EXCEPT !.raised = FALSE]
             m == Head(p)
             u == Feed(w, m)
  <2>1. Writer(w) /\ w.out = <<>> /\ w.role = "client" /\ w.on = c.on /\ w.mode = c.mode
    BY <1>1, Unraised DEF Agree
  <2>2. p # <<>> /\ Becomes("client", u, Tail(p))
    BY <1>4 DEF Receive
  <2>3. Taken(p, m, Tail(p)) /\ Message(m)
    BY <1>1, <2>2, TakesFirst DEF Agree
  <2>4. m \notin Will
    BY <1>1, <2>3, KindsCounted DEF Agree, Taken
  <2> HIDE DEF w, m
  <2>5. ClientMoves(w, u, m)
    BY <2>1, <2>3, <2>4, ClientFeeds
  <2> HIDE DEF u, c, s, p, q
  <2>6. ClientMoves(c, u, m)
    BY <2>1, <2>5 DEF ClientMoves
  <2>7. Agree([u EXCEPT !.out = <<>>], s, Tail(p), q \o u.out)
    BY <1>1, <2>3, <2>6, ClientStep
  <2> QED
    BY <1>2, <2>2, <2>7
<1>5. CASE Receive("server")
  <2> DEFINE w == [s EXCEPT !.raised = FALSE]
             m == Head(q)
             u == Feed(w, m)
  <2>1. /\ Writer(w) /\ w.out = <<>> /\ w.role = "server" /\ w.on = s.on /\ w.mode = s.mode
        /\ w.pendDo = s.pendDo
    BY <1>1, Unraised DEF Agree
  <2>2. q # <<>> /\ Becomes("server", u, Tail(q))
    BY <1>5 DEF Receive
  <2>3. Taken(q, m, Tail(q)) /\ Message(m)
    BY <1>1, <2>2, TakesFirst DEF Agree
  <2>4. m \notin Do \cup Dont /\ (m \in Will => s.pendDo)
    BY <1>1, <2>3, KindsCounted DEF Agree, Taken
  <2> HIDE DEF w, m
  <2>5. ServerMoves(w, u, m)
    BY <2>1, <2>3, <2>4, ServerFeeds
  <2> HIDE DEF u, c, s, p, q
  <2>6. ServerMoves(s, u, m)
    BY <2>1, <2>5 DEF ServerMoves
  <2>7. Agree(c, [u EXCEPT !.out = <<>>], p \o u.out, Tail(q))
    BY <1>1, <2>3, <2>6, ServerStep
  <2> QED
    BY <1>3, <2>2, <2>7
<1>6. ASSUME NEW x \in Calls, Call(x) PROVE Inv'
  <2> DEFINE e == x[1]
             u == Called(writer[e], x[2], x[3])
  <2>1. /\ e \in {"client", "server"} /\ x[2] \in {"toggle", "send", "change"}
        /\ x[3] \in SUBSET Bits
    BY LinemodeAssumption
  <2>2. Becomes(e, u, wire[e])
    BY <1>6 DEF Call
  <2>3. CASE e = "client"
    <3>1. x[2] \in {"send", "change"}
      BY <2>1, <2>3 DEF ShellsCall
    <3>2. ClientMoves(c, Called(c, x[2], x[3]), Nothing)
      BY <1>1, <2>1, <3>1, ClientCalls DEF Agree
    <3>3. u = Called(c, x[2], x[3]) /\ Becomes("client", u, p)
      BY <2>2, <2>3
    <3>4. Taken(p, Nothing, p)
      BY <1>1, TakesNone DEF Agree
    <3> HIDE DEF u, c, s, p, q
    <3>5. Agree([u EXCEPT !.out = <<>>], s, p, q \o u.out)
      BY <1>1, <3>2, <3>3, <3>4, ClientStep
    <3> QED
      BY <1>2, <3>3, <3>5
  <2>4. CASE e = "server"
    <3>1. x[2] \in {"toggle", "send"}
      BY <2>1, <2>4 DEF ShellsCall
    <3>2. ServerMoves(s, Called(s, x[2], x[3]), Nothing)
      BY <1>1, <2>1, <3>1, ServerCalls DEF Agree
    <3>3. u = Called(s, x[2], x[3]) /\ Becomes("server", u, q)
      BY <2>2, <2>4
    <3>4. Taken(q, Nothing, q)
      BY <1>1, TakesNone DEF Agree
    <3> HIDE DEF u, c, s, p, q
    <3>5. Agree(c, [u EXCEPT !.out = <<>>], p \o u.out, q)
      BY <1>1, <3>2, <3>3, <3>4, ServerStep
    <3> QED
      BY <1>3, <3>3, <3>5
  <2> QED
    BY <2>1, <2>3, <2>4
<1>7. CASE UNCHANGED vars
  BY <1>7 DEF Inv, vars
<1> QED
  BY <1>4, <1>5, <1>6, <1>7 DEF Next, Ends

\* Agreed modes: whatever suggestions and acknowledgements cross, and however
\* often the server's shell turns the option off and on, the two ends edit the
\* line in the same mode once nothing is in flight (_handle_sb_linemode_mode,
\* send_linemode and the iac commands of stream_writer.py).
THEOREM ModesAgreeHolds == ASSUME ShellsCall PROVE Spec => []ModesAgree
<1>1. Inv => ModesAgree
  <2> SUFFICES ASSUME Inv, Quiet, On
               PROVE  SameMode(writer["client"].mode, writer["server"].mode)
    BY DEF ModesAgree
  <2>1. wire["client"] = <<>> /\ wire["server"] = <<>> /\ writer["server"].on
    BY DEF Quiet, On, Ends
  <2>2. ~Has(<<>>, Modes) /\ ~EndsIn(<<>>, SuggestionsOf(writer["server"].mode.bits), Suggestions)
    BY NothingSaid
  <2> QED
    BY <2>1, <2>2 DEF Inv, Agree, SameMode
<1>2. Inv /\ [Next]_vars => Inv'
  BY Steps
<1> QED
  BY <1>1, <1>2, Begins, PTL DEF Spec

-----------------------------------------------------------------------------
(***************************************************************************)
(* The client's shell: its terminal.                                       *)
(***************************************************************************)
\* --line-mode is not asked for on a terminal (it is not kept there).
NotForced == \A c \in Configurations : c.istty => c.raw_mode # "off"

\* What the terminal and the state of the loop have to do with each other, and,
\* where the mode follows negotiation, with the options the shell last saw.
Terminal ==
  /\ pc \in {"start", "settling"} => ~state.last_will_echo
  /\ pc = "loop" /\ config.istty =>
     /\ tty \in {"cooked", "noecho", "raw"} /\ (tty = "raw" <=> state.switched)
     /\ state.local_echo => state.switched /\ ~state.last_will_echo
     /\ config.raw_mode = "auto" /\ seen.linemode # "edit" /\ seen.echo =>
         ~state.local_echo /\ tty # "cooked"

ShellTypes ==
  /\ config \in Configurations
  /\ option \in Option /\ seen \in Option /\ staircase \in BOOLEAN
  /\ state \in [switched : BOOLEAN, last_will_echo : BOOLEAN, local_echo : BOOLEAN]

\* What a look at the options leaves behind is right whatever was before.
LEMMA LookedRight ==
  ASSUME ShellTypes, Terminal, pc = "loop", config.istty
  PROVE  LET a == check_auto_mode IN
         /\ a.tty \in {"cooked", "noecho", "raw"} /\ (a.tty = "raw" <=> a.state.switched)
         /\ a.state \in [switched : BOOLEAN, last_will_echo : BOOLEAN, local_echo : BOOLEAN]
         /\ a.state.local_echo => a.state.switched /\ ~a.state.last_will_echo
         /\ option.linemode # "edit" /\ option.echo => ~a.state.local_echo /\ a.tty # "cooked"
BY DEF ShellTypes, Terminal, check_auto_mode, Unchanged, Changed, will_echo, Option

SInv == ShellTypes /\ Terminal /\ (NotForced /\ config.istty => ~staircase)

LEMMA OutputKeeps ==
  ASSUME SInv, OutputArrives PROVE SInv'
<1> DEFINE looks == config.raw_mode = "auto" \/ (config.raw_mode = "on" /\ state.switched)
           after == IF looks THEN check_auto_mode ELSE Unchanged
           in_raw == config.raw_mode = "on" \/ (config.raw_mode = "auto" /\ state.switched)
           crlf == IF looks /\ after # Unchanged THEN Shown(in_raw, after) ELSE in_raw
<1>1. /\ pc = "loop" /\ pc' = pc /\ config' = config /\ option' = option /\ seen' = option
      /\ tty' = after.tty /\ state' = after.state
      /\ staircase' = (staircase \/ (~crlf /\ after.tty \notin Kernel.onlcr))
  BY DEF OutputArrives, Waiting
<1>2. config \in [raw_mode : {"auto", "on", "off"}, istty : BOOLEAN, filter : BOOLEAN]
  BY ShellAssumption DEF SInv, ShellTypes
<1>3. CASE ~config.istty
  <2>1. after = Unchanged
    BY <1>3 DEF check_auto_mode
  <2> QED
    BY <1>1, <1>3, <2>1 DEF SInv, ShellTypes, Terminal, Unchanged
<1>4. CASE config.istty
  <2>1. NotForced => config.raw_mode \in {"auto", "on"}
    BY <1>2, <1>4 DEF NotForced, SInv, ShellTypes
  <2>2. /\ after.tty \in {"cooked", "noecho", "raw"} /\ (after.tty = "raw" <=> after.state.switched)
        /\ after.state \in [switched : BOOLEAN, last_will_echo : BOOLEAN, local_echo : BOOLEAN]
        /\ after.state.local_echo => after.state.switched /\ ~after.state.last_will_echo
        /\ config.raw_mode = "auto" /\ option.linemode # "edit" /\ option.echo
             => ~after.state.local_echo /\ after.tty # "cooked"
    <3>1. CASE looks
      BY <1>1, <1>4, <3>1, LookedRight DEF SInv
    <3>2. CASE ~looks
      BY <1>1, <1>4, <3>2 DEF SInv, ShellTypes, Terminal, Unchanged
    <3> QED
      BY <3>1, <3>2
  <2>3. NotForced => crlf \/ after.tty \in Kernel.onlcr
    <3> SUFFICES ASSUME NotForced PROVE crlf \/ after.tty \in Kernel.onlcr
      OBVIOUS
    <3>1. CASE after.state.switched
      <4>1. CASE looks /\ after # Unchanged
        BY <3>1, <4>1 DEF Shown
      <4>2. CASE ~(looks /\ after # Unchanged)
        <5>1. after = Unchanged
          BY <4>2
        <5> QED
          BY <2>1, <3>1, <4>2, <5>1 DEF Unchanged
      <4> QED
        BY <4>1, <4>2
    <3>2. CASE ~after.state.switched
      BY <2>2, <3>2 DEF Kernel
    <3> QED
      BY <3>1, <3>2
  <2> HIDE DEF after, crlf
  <2> QED
    BY <1>1, <1>4, <2>2, <2>3 DEF SInv, ShellTypes, Terminal
<1> QED
  BY <1>3, <1>4

LEMMA NegotiatedOption ==
  ASSUME option \in Option,
         NEW c \in {"WILL ECHO", "WONT ECHO", "WILL SGA", "WONT SGA", "MODE EDIT", "MODE REMOTE"}
  PROVE  Negotiated(c) \in Option
BY DEF Negotiated, Option

LEMMA SInvInit == CInit => SInv
<1> SUFFICES ASSUME CInit PROVE SInv
  OBVIOUS
<1>1. /\ config \in Configurations /\ option \in Offered /\ seen = option /\ pc = "start"
      /\ state = [switched |-> FALSE, last_will_echo |-> FALSE, local_echo |-> FALSE]
      /\ staircase = FALSE
  BY DEF CInit
<1>2. option \in Option
  BY <1>1, ShellAssumption DEF Option
<1> QED
  BY <1>1, <1>2 DEF SInv, ShellTypes, Terminal

LEMMA SInvNext == ASSUME SInv, [CNext]_cvars PROVE SInv'
<1>1. CASE Enter
  BY <1>1 DEF Enter, SInv, ShellTypes, Terminal, software_echo
<1>2. CASE Commit
  <2>1. config.istty
          => tty' = "raw" /\ state' = [state EXCEPT !.switched = TRUE, !.local_echo = ~will_echo]
    BY <1>2 DEF Commit
  <2> QED
    BY <1>2, <2>1 DEF Commit, SInv, ShellTypes, Terminal, will_echo, Option
<1>3. CASE \E n \in DOMAIN stdin.typed : InputArrives(n)
  BY <1>3 DEF InputArrives, SInv, ShellTypes, Terminal
<1>4. CASE \E n \in DOMAIN stdin.typed : EscapeTyped(n)
  BY <1>4 DEF EscapeTyped, Leave, SInv, ShellTypes, Terminal
<1>5. CASE InputEnds \/ EscTimer
  BY <1>5 DEF InputEnds, EscTimer, SInv, ShellTypes, Terminal
<1>6. CASE OutputArrives
  BY <1>6, OutputKeeps
<1>7. CASE OutputEnds
  BY <1>7 DEF OutputEnds, SInv, ShellTypes, Terminal
<1>8. CASE OutputFails \/ LoopEnds
  BY <1>8 DEF OutputFails, LoopEnds, Leave, SInv, ShellTypes, Terminal
<1>9. CASE Type \/ CloseStdin \/ ServerEnds
  BY <1>9 DEF Type, CloseStdin, ServerEnds, SInv, ShellTypes, Terminal
<1>10. CASE ServerSends
  <2>1. option' \in Option
    BY <1>10, NegotiatedOption, ShellAssumption DEF ServerSends, SInv, ShellTypes
  <2> QED
    BY <1>10, <2>1 DEF ServerSends, SInv, ShellTypes, Terminal
<1>11. CASE UNCHANGED cvars
  BY <1>11 DEF cvars, SInv, ShellTypes, Terminal
<1> QED
  BY <1>1, <1>2, <1>3, <1>4, <1>5, <1>6, <1>7, <1>8, <1>9, <1>10, <1>11 DEF CNext, ShellStep

\* A newline is completed for the terminal, by the shell or by the kernel, also
\* in the text in whose handler the mode changes (_raw_event_loop, _transform_output).
THEOREM LineEndingsHolds == ASSUME NotForced PROVE CSpec => []LineEndings
<1>1. SInv => LineEndings
  BY DEF SInv, LineEndings
<1> QED
  BY <1>1, SInvInit, SInvNext, PTL DEF CSpec

\* While the options are as the shell last saw them nobody echoes a key twice
\* (determine_mode, check_auto_mode).
THEOREM NotDoubledHolds == CSpec => []NotDoubled
<1>1. ASSUME SInv, WatchedTerminal PROVE \E x : Echoes \subseteq {x}
  <2>1. tty \in Kernel.echo <=> tty = "cooked"
    BY DEF Kernel
  <2>2. option.echo => Echoes \subseteq {"server"}
    BY <1>1, <2>1 DEF SInv, Terminal, WatchedTerminal, Echoes
  <2>3. state.local_echo => Echoes \subseteq {"shell"} \/ option.echo
    BY <1>1, <2>1 DEF SInv, Terminal, WatchedTerminal, Echoes
  <2>4. ~state.local_echo /\ ~option.echo => Echoes \subseteq {"kernel"}
    BY <1>1, <2>1 DEF SInv, Terminal, WatchedTerminal, Echoes
  <2> QED
    BY <2>2, <2>3, <2>4
<1>2. SInv => NotDoubled
  <2> SUFFICES ASSUME SInv, WatchedTerminal PROVE Cardinality(Echoes) <= 1
    BY DEF NotDoubled
  <2>1. PICK x : Echoes \subseteq {x}
    BY <1>1
  <2>2. IsFiniteSet({x}) /\ Cardinality({x}) = 1
    BY FS_Singleton
  <2> QED
    BY <2>1, <2>2, FS_Subset
<1> QED
  BY <1>2, SInvInit, SInvNext, PTL DEF CSpec

-----------------------------------------------------------------------------
(***************************************************************************)
(* The client's shell: keys and bytes.                                     *)
(***************************************************************************)
\* What may be on the keyboard, and what may be on the wire.
Keyboard == (STRING \ {"UP", "EOL"}) \cup {"ESC", "[", "A", "CR", "DEL"}
Wire == Keyboard \cup {"UP", "EOL"}

TypeBy(c, q, b) == q \o Keystrokes(b)
StripBy(c, r, k) == Strip(r)
OnKeyboard(c, q) == q \in Seq(Keyboard)
Kept(c, r) == r \in [pending : Seq(Keyboard), bytes : Seq(Wire)] /\ Typed(r.bytes) \o r.pending = c
Apart(c, q) == Typed(c \o q) = Typed(c) \o Typed(q)
Plain(c, q) == Typed(q) = q /\ flush(q) \in Seq(Wire) /\ Typed(flush(q)) = q

Types == INSTANCE FoldInduction WITH op <- TypeBy, P <- OnKeyboard
Strips == INSTANCE FoldInduction WITH op <- StripBy, P <- Kept
Aparts == INSTANCE FoldInduction WITH op <- TypeBy, P <- Apart
Plains == INSTANCE FoldInduction WITH op <- TypeBy, P <- Plain

LEMMA TypedIsFold == \A s : Typed(s) = Types!Folded(<<>>, <<>>, s)
BY DEF Typed, TypeBy, Types!Folded, Types!IsFold, Types!Last, FoldLeft, MapThenFoldSet, Max

LEMMA KeystrokesType == ASSUME NEW b \in Wire PROVE Keystrokes(b) \in Seq(Keyboard)
<1>1. "ESC" \in Keyboard /\ "[" \in Keyboard /\ "A" \in Keyboard /\ "CR" \in Keyboard
  BY DEF Keyboard
<1>2. <<"ESC", "[", "A">> \in Seq(Keyboard) /\ <<"CR">> \in Seq(Keyboard)
  BY <1>1
<1>3. b # "UP" /\ b # "EOL" => b \in Keyboard /\ <<b>> \in Seq(Keyboard)
  BY DEF Wire
<1> QED
  BY <1>2, <1>3 DEF Keystrokes, Up

LEMMA TypedSteps ==
  /\ Typed(<<>>) = <<>>
  /\ \A s \in Seq(Wire), b \in Wire : Typed(Append(s, b)) = Typed(s) \o Keystrokes(b)
  /\ \A s \in Seq(Wire) : Typed(s) \in Seq(Keyboard)
<1>1. Types!Folded(<<>>, <<>>, <<>>) = <<>>
  BY Types!FoldOfNone
<1>2. \A s \in Seq(Wire), b \in Wire :
        Types!Folded(<<>>, <<>>, Append(s, b)) = TypeBy(<<>>, Types!Folded(<<>>, <<>>, s), b)
  BY Types!FoldOfAppend
<1>3. ASSUME NEW s \in Seq(Wire) PROVE Typed(s) \in Seq(Keyboard)
  <2>1. OnKeyboard(<<>>, <<>>)
    BY DEF OnKeyboard
  <2>2. ASSUME NEW u, NEW i \in DOMAIN s, OnKeyboard(<<>>, u)
        PROVE  OnKeyboard(<<>>, TypeBy(<<>>, u, s[i]))
    <3>1. s[i] \in Wire
      OBVIOUS
    <3> QED
      BY <2>2, <3>1, KeystrokesType DEF OnKeyboard, TypeBy
  <2>3. OnKeyboard(<<>>, Types!Folded(<<>>, <<>>, s))
    BY <2>1, <2>2, Types!FoldStays
  <2> QED
    BY <2>3, TypedIsFold DEF OnKeyboard
<1> QED
  BY <1>1, <1>2, <1>3, TypedIsFold DEF TypeBy

LEMMA TypedApart ==
  ASSUME NEW s \in Seq(Wire), NEW t \in Seq(Wire) PROVE Typed(s \o t) = Typed(s) \o Typed(t)
<1>1. Apart(s, <<>>)
  BY TypedSteps DEF Apart
<1>2. ASSUME NEW q \in Seq(Wire), NEW b \in Wire, Apart(s, q) PROVE Apart(s, Append(q, b))
  <2>1. s \o Append(q, b) = Append(s \o q, b) /\ s \o q \in Seq(Wire)
    OBVIOUS
  <2>2. Typed(s \o Append(q, b)) = (Typed(s) \o Typed(q)) \o Keystrokes(b)
    BY <1>2, <2>1, TypedSteps DEF Apart
  <2>3. Typed(Append(q, b)) = Typed(q) \o Keystrokes(b)
    BY TypedSteps
  <2>4. \A x, y, z \in Seq(Keyboard) : (x \o y) \o z = x \o (y \o z)
    OBVIOUS
  <2>5. Typed(s) \in Seq(Keyboard) /\ Typed(q) \in Seq(Keyboard) /\ Keystrokes(b) \in Seq(Keyboard)
    BY TypedSteps, KeystrokesType
  <2> QED
    BY <2>2, <2>3, <2>4, <2>5 DEF Apart
<1>3. Apart(s, t)
  BY <1>1, <1>2, Aparts!PrefixInduction
<1> QED
  BY <1>3 DEF Apart

\* Keys that are sent as they are, and those the filter gives up, are read back.
LEMMA TypedPlain ==
  ASSUME NEW s \in Seq(Keyboard)
  PROVE  Typed(s) = s /\ flush(s) \in Seq(Wire) /\ Typed(flush(s)) = s
<1>1. Plain(<<>>, <<>>)
  <2>1. flush(<<>>) = <<>>
    BY DEF flush
  <2>2. flush(<<>>) \in Seq(Wire)
    BY <2>1, EmptySeq
  <2> QED
    BY <2>1, <2>2, TypedSteps DEF Plain
<1>2. ASSUME NEW q \in Seq(Keyboard), NEW k \in Keyboard, Plain(<<>>, q)
      PROVE  Plain(<<>>, Append(q, k))
  <2>1. q \in Seq(Wire) /\ k \in Wire /\ Single(k) \in Wire
    BY DEF Wire, Single
  <2>2. Keystrokes(k) = <<k>> /\ Keystrokes(Single(k)) = <<k>>
    BY DEF Keystrokes, Single, Keyboard
  <2>3. flush(Append(q, k)) = Append(flush(q), Single(k))
    <3>1. Len(flush(q)) = Len(q) /\ DOMAIN Append(q, k) = 1 .. Len(q) + 1 /\ Len(q) \in Nat
      BY <1>2 DEF flush, Plain
    <3>2. flush(Append(q, k)) = [i \in 1 .. Len(q) + 1 |-> Single(Append(q, k)[i])]
      BY <3>1 DEF flush
    <3>3. /\ Append(flush(q), Single(k)) \in Seq(Wire) /\ Len(Append(flush(q), Single(k))) = Len(q) + 1
          /\ \A i \in 1 .. Len(q) : Append(flush(q), Single(k))[i] = flush(q)[i]
          /\ Append(flush(q), Single(k))[Len(q) + 1] = Single(k)
      BY <1>2, <2>1, <3>1, AppendProperties DEF Plain
    <3>4. \A i \in 1 .. Len(q) : flush(q)[i] = Single(q[i]) /\ Append(q, k)[i] = q[i]
      BY DEF flush
    <3>5. Append(q, k)[Len(q) + 1] = k
      OBVIOUS
    <3>6. \A i \in 1 .. Len(q) + 1 :
            /\ flush(Append(q, k))[i] = Append(flush(q), Single(k))[i]
            /\ flush(Append(q, k))[i] \in Wire
      <4> SUFFICES ASSUME NEW i \in 1 .. Len(q) + 1
                   PROVE  /\ flush(Append(q, k))[i] = Append(flush(q), Single(k))[i]
                          /\ flush(Append(q, k))[i] \in Wire
        OBVIOUS
      <4>1. CASE i = Len(q) + 1
        BY <2>1, <3>2, <3>3, <3>5, <4>1
      <4>2. CASE i \in 1 .. Len(q)
        <5>1. flush(q)[i] \in Wire
          BY <1>2, <3>1, <4>2 DEF Plain
        <5> QED
          BY <3>2, <3>3, <3>4, <4>2, <5>1
      <4> QED
        BY <3>1, <4>1, <4>2
    <3>7. flush(Append(q, k)) \in Seq(Wire) /\ Len(flush(Append(q, k))) = Len(q) + 1
      <4> DEFINE e(i) == Single(Append(q, k)[i])
                 n == Len(q) + 1
      <4>1. n \in Nat /\ \A i \in 1 .. n : e(i) \in Wire
        BY <3>1, <3>2, <3>6
      <4> HIDE DEF e, n
      <4>2. [i \in 1 .. n |-> e(i)] \in Seq(Wire)
        BY <4>1, IsASeq
      <4>3. Len([i \in 1 .. n |-> e(i)]) = n
        BY <4>1
      <4> QED
        BY <3>2, <4>2, <4>3 DEF e, n
    <3> QED
      BY <3>3, <3>6, <3>7, SeqEqual
  <2>4. Typed(Append(q, k)) = q \o <<k>>
    BY <1>2, <2>1, <2>2, TypedSteps DEF Plain
  <2>5. Append(flush(q), Single(k)) \in Seq(Wire) /\ Typed(Append(flush(q), Single(k))) = q \o <<k>>
    <3>1. flush(q) \in Seq(Wire) /\ Typed(flush(q)) = q
      BY <1>2 DEF Plain
    <3> QED
      BY <2>1, <2>2, <3>1, TypedSteps, AppendProperties
  <2> QED
    BY <2>3, <2>4, <2>5, AppendIsConcat DEF Plain
<1>3. Plain(<<>>, s)
  BY <1>1, <1>2, Plains!PrefixInduction
<1> QED
  BY <1>3 DEF Plain

LEMMA KeysRegrouped ==
  \A s, t, u \in Seq(Keyboard) : (s \o t) \o u = s \o (t \o u)
OBVIOUS

LEMMA OfParts ==
  ASSUME NEW c, NEW p \in Seq(Keyboard), NEW b \in Seq(Wire), Typed(b) \o p = c
  PROVE  Kept(c, [pending |-> p, bytes |-> b])
BY DEF Kept

\* A turn of feed's loop loses and reorders nothing.
LEMMA StripKeeps ==
  ASSUME NEW c, NEW r, Kept(c, r) PROVE Kept(c, Strip(r))
<1> DEFINE buf == r.pending
<1>1. buf \in Seq(Keyboard) /\ r.bytes \in Seq(Wire) /\ Typed(r.bytes) \in Seq(Keyboard)
      /\ Typed(r.bytes) \o buf = c
  BY TypedSteps DEF Kept
<1>2. CASE buf = <<>> \/ buf \in Leading
  BY <1>2 DEF Strip
<1>3. CASE ~(buf = <<>> \/ buf \in Leading) /\ Len(buf) >= 3 /\ SubSeq(buf, 1, 3) = Up
  <2> DEFINE rest == SubSeq(buf, 4, Len(buf))
  <2>1. Strip(r) = [pending |-> rest, bytes |-> Append(r.bytes, "UP")]
    BY <1>3 DEF Strip
  <2>2. rest \in Seq(Keyboard) /\ buf = SubSeq(buf, 1, 3) \o rest
    BY <1>1, <1>3
  <2>3. "UP" \in Wire /\ Keystrokes("UP") = Up
    BY DEF Wire, Keystrokes
  <2>4. Up \in Seq(Keyboard)
    BY <2>3, KeystrokesType
  <2> HIDE DEF rest
  <2>5. Typed(Append(r.bytes, "UP")) \o rest = Typed(r.bytes) \o (Up \o rest)
    <3>1. Typed(Append(r.bytes, "UP")) = Typed(r.bytes) \o Up
      BY <1>1, <2>3, TypedSteps
    <3>2. (Typed(r.bytes) \o Up) \o rest = Typed(r.bytes) \o (Up \o rest)
      <4>1. Typed(r.bytes) \in Seq(Keyboard) /\ Up \in Seq(Keyboard) /\ rest \in Seq(Keyboard)
        BY <1>1, <2>2, <2>4
      <4> QED
        BY <4>1, KeysRegrouped
    <3> QED
      BY <3>1, <3>2
  <2>6. Append(r.bytes, "UP") \in Seq(Wire)
    BY <1>1, <2>3, AppendProperties
  <2>7. Typed(Append(r.bytes, "UP")) \o rest = c
    BY <1>1, <1>3, <2>2, <2>5
  <2> QED
    BY <2>1, <2>2, <2>6, <2>7, OfParts
<1>4. CASE ~(buf = <<>> \/ buf \in Leading) /\ ~(Len(buf) >= 3 /\ SubSeq(buf, 1, 3) = Up)
  <2>1. Strip(r) = [pending |-> Tail(buf), bytes |-> Append(r.bytes, Single(Head(buf)))]
    BY <1>4 DEF Strip
  <2>2. Head(buf) \in Keyboard /\ Tail(buf) \in Seq(Keyboard) /\ buf = <<Head(buf)>> \o Tail(buf)
    BY <1>1, <1>4
  <2>3. Single(Head(buf)) \in Wire /\ Keystrokes(Single(Head(buf))) = <<Head(buf)>>
    BY <2>2 DEF Wire, Keystrokes, Single, Keyboard
  <2>4. Typed(Append(r.bytes, Single(Head(buf)))) \o Tail(buf)
          = Typed(r.bytes) \o (<<Head(buf)>> \o Tail(buf))
    <3>1. Typed(Append(r.bytes, Single(Head(buf)))) = Typed(r.bytes) \o <<Head(buf)>>
      BY <1>1, <2>3, TypedSteps
    <3>2. <<Head(buf)>> \in Seq(Keyboard)
      BY <2>2
    <3>3. (Typed(r.bytes) \o <<Head(buf)>>) \o Tail(buf)
            = Typed(r.bytes) \o (<<Head(buf)>> \o Tail(buf))
      <4>1. /\ Typed(r.bytes) \in Seq(Keyboard) /\ <<Head(buf)>> \in Seq(Keyboard)
            /\ Tail(buf) \in Seq(Keyboard)
        BY <1>1, <2>2, <3>2
      <4> QED
        BY <4>1, KeysRegrouped
    <3> QED
      BY <3>1, <3>3
  <2>5. Append(r.bytes, Single(Head(buf))) \in Seq(Wire)
    BY <1>1, <2>3, AppendProperties
  <2>6. Typed(Append(r.bytes, Single(Head(buf)))) \o Tail(buf) = c
    BY <1>1, <2>2, <2>4
  <2> QED
    BY <2>1, <2>2, <2>5, <2>6, OfParts
<1> QED
  BY <1>2, <1>3, <1>4

LEMMA FeedKeeps ==
  ASSUME NEW buf \in Seq(Keyboard) PROVE Kept(buf, FeedFilter(buf))
<1> DEFINE b == [pending |-> buf, bytes |-> <<>>]
<1>1. Kept(buf, b)
  BY TypedSteps DEF Kept
<1>2. \A u : \A i \in DOMAIN buf : Kept(buf, u) => Kept(buf, StripBy(buf, u, buf[i]))
  BY StripKeeps DEF StripBy
<1>3. Kept(buf, Strips!Folded(buf, b, buf))
  BY <1>1, <1>2, Strips!FoldStays
<1>4. FeedFilter(buf) = Strips!Folded(buf, b, buf)
  BY DEF FeedFilter, StripBy, Strips!Folded, Strips!IsFold, Strips!Last, FoldLeft, MapThenFoldSet, Max
<1> QED
  BY <1>3, <1>4


\* Bytes that are sent for what was pending and for new keys are those keys.
LEMMA SentAfter ==
  ASSUME NEW sent \in Seq(Wire), NEW bytes \in Seq(Wire), NEW p \in Seq(Keyboard)
  PROVE  Typed(sent \o bytes) \o p = Typed(sent) \o (Typed(bytes) \o p)
<1> DEFINE S == Typed(sent)
           B == Typed(bytes)
<1>1. S \in Seq(Keyboard) /\ B \in Seq(Keyboard) /\ Typed(sent \o bytes) = S \o B
  BY TypedSteps, TypedApart
<1> HIDE DEF S, B
<1>2. (S \o B) \o p = S \o (B \o p)
  BY <1>1, KeysRegrouped
<1> QED
  BY <1>1, <1>2 DEF S, B

\* What is on the keyboard and, as long as no line was edited, of what the bytes
\* sent are made.  Without a filter nothing is kept back.
KInv ==
  /\ stdin \in [typed : Seq(Keyboard), eof : BOOLEAN, rest : Seq(Keyboard)]
  /\ DOMAIN keys = {"pending", "line", "used", "handled", "sent"} /\ keys.used \in BOOLEAN
  /\ ~config.filter => keys.pending = <<>>
  /\ ~keys.used =>
     /\ keys.pending \in Seq(Keyboard) /\ keys.handled \in Seq(Keyboard)
     /\ keys.sent \in Seq(Wire)
     /\ Typed(keys.sent) \o keys.pending = keys.handled

LEMMA KInvInit == CInit => KInv
<1> SUFFICES ASSUME CInit PROVE KInv
  OBVIOUS
<1>1. PICK text \in Texts : stdin = [typed |-> <<>>, eof |-> FALSE, rest |-> text]
  BY DEF CInit
<1>2. text \in Seq(Keyboard)
  <2>1. text \in Seq(STRING \ {"UP", "EOL"}) /\ STRING \ {"UP", "EOL"} \subseteq Keyboard
    BY ShellAssumption DEF Keyboard
  <2> QED
    BY <2>1, SeqMonotonic
<1>3. keys = [pending |-> <<>>, line |-> <<>>, used |-> FALSE, handled |-> <<>>, sent |-> <<>>]
  BY DEF CInit
<1>4. Typed(<<>>) \o <<>> = <<>>
  BY TypedSteps
<1> QED
  BY <1>1, <1>2, <1>3, <1>4 DEF KInv

LEMMA InputKeeps ==
  ASSUME KInv, NEW n \in DOMAIN stdin.typed, InputArrives(n) PROVE KInv'
<1> DEFINE chunk == SubSeq(stdin.typed, 1, n)
           edit == option.linemode = "edit" /\ state.switched
           fed == IF edit THEN SendLine(chunk) ELSE _send_stdin(chunk)
<1>1. /\ keys' = [fed EXCEPT !.handled = fed.handled \o chunk]
      /\ stdin' = [stdin EXCEPT !.typed = SubSeq(stdin.typed, n + 1, Len(stdin.typed))]
      /\ config' = config
  BY DEF InputArrives
<1>2. /\ stdin.typed \in Seq(Keyboard) /\ chunk \in Seq(Keyboard)
      /\ SubSeq(stdin.typed, n + 1, Len(stdin.typed)) \in Seq(Keyboard)
  BY DEF KInv
<1>3. stdin' \in [typed : Seq(Keyboard), eof : BOOLEAN, rest : Seq(Keyboard)]
  BY <1>1, <1>2 DEF KInv
<1> HIDE DEF chunk
<1>4. CASE edit
  <2>1. fed = SendLine(chunk)
    BY <1>4
  <2>2. /\ DOMAIN keys' = {"pending", "line", "used", "handled", "sent"} /\ keys'.used
        /\ keys'.pending = keys.pending
    BY <1>1, <2>1 DEF SendLine, KInv
  <2> QED
    BY <1>1, <1>3, <2>2 DEF KInv
<1>5. CASE ~edit /\ ~config.filter
  <2>1. fed = [keys EXCEPT !.sent = keys.sent \o chunk]
    BY <1>5 DEF _send_stdin
  <2>2. /\ DOMAIN keys' = {"pending", "line", "used", "handled", "sent"}
        /\ keys'.used = keys.used /\ keys'.pending = <<>>
        /\ keys'.sent = keys.sent \o chunk /\ keys'.handled = keys.handled \o chunk
    BY <1>1, <1>5, <2>1 DEF KInv
  <2>3. ASSUME ~keys.used
        PROVE  /\ keys'.sent \in Seq(Wire) /\ keys'.handled \in Seq(Keyboard)
               /\ Typed(keys'.sent) \o keys'.pending = keys'.handled
    <3>1. /\ keys.sent \in Seq(Wire) /\ keys.pending = <<>> /\ keys.handled \in Seq(Keyboard)
          /\ Typed(keys.sent) \o <<>> = keys.handled
      BY <1>5, <2>3 DEF KInv
    <3>2. chunk \in Seq(Wire)
      BY <1>2 DEF Wire
    <3>3. Typed(keys.sent \o chunk) \o <<>> = keys.handled \o chunk
      <4>1. Typed(keys.sent \o chunk) = Typed(keys.sent) \o Typed(chunk)
        BY <3>1, <3>2, TypedApart
      <4>2. Typed(keys.sent) \in Seq(Keyboard) /\ Typed(chunk) = chunk
        BY <1>2, <3>1, TypedSteps, TypedPlain
      <4>3. Typed(keys.sent) = keys.handled
        BY <3>1, <4>2
      <4>4. Typed(keys.sent \o chunk) = keys.handled \o chunk
        BY <4>1, <4>2, <4>3
      <4>5. keys.handled \o chunk \in Seq(Keyboard)
        BY <1>2, <3>1
      <4> QED
        BY <4>4, <4>5
    <3> QED
      BY <1>2, <2>2, <3>1, <3>2, <3>3
  <2> QED
    BY <1>1, <1>3, <1>5, <2>2, <2>3 DEF KInv
<1>6. CASE ~edit /\ config.filter
  <2> DEFINE f == FeedFilter(keys.pending \o chunk)
  <2>1. fed = [keys EXCEPT !.pending = f.pending, !.sent = keys.sent \o f.bytes]
    BY <1>6 DEF _send_stdin
  <2> HIDE DEF f
  <2>2. /\ DOMAIN keys' = {"pending", "line", "used", "handled", "sent"}
        /\ keys'.used = keys.used /\ keys'.pending = f.pending
        /\ keys'.sent = keys.sent \o f.bytes /\ keys'.handled = keys.handled \o chunk
    BY <1>1, <2>1 DEF KInv
  <2>3. ASSUME ~keys.used
        PROVE  /\ keys'.sent \in Seq(Wire) /\ keys'.handled \in Seq(Keyboard)
               /\ keys'.pending \in Seq(Keyboard)
               /\ Typed(keys'.sent) \o keys'.pending = keys'.handled
    <3>1. /\ keys.sent \in Seq(Wire) /\ keys.pending \in Seq(Keyboard)
          /\ keys.handled \in Seq(Keyboard)
          /\ Typed(keys.sent) \o keys.pending = keys.handled
      BY <2>3 DEF KInv
    <3>2. keys.pending \o chunk \in Seq(Keyboard)
      BY <1>2, <3>1
    <3>3. /\ f.pending \in Seq(Keyboard) /\ f.bytes \in Seq(Wire)
          /\ Typed(f.bytes) \o f.pending = keys.pending \o chunk
      BY <3>2, FeedKeeps DEF Kept, f
    <3>4. Typed(keys.sent \o f.bytes) \o f.pending = keys.handled \o chunk
      <4>1. Typed(keys.sent \o f.bytes) \o f.pending
              = Typed(keys.sent) \o (Typed(f.bytes) \o f.pending)
        BY <3>1, <3>3, SentAfter
      <4>2. (Typed(keys.sent) \o keys.pending) \o chunk
              = Typed(keys.sent) \o (keys.pending \o chunk)
        BY <1>2, <3>1, TypedSteps, KeysRegrouped
      <4> QED
        BY <3>1, <3>3, <4>1, <4>2
    <3> QED
      BY <1>2, <2>2, <3>1, <3>3, <3>4
  <2> QED
    BY <1>1, <1>3, <1>6, <2>2, <2>3 DEF KInv
<1> QED
  BY <1>4, <1>5, <1>6

LEMMA TimerKeeps == ASSUME KInv, EscTimer PROVE KInv'
<1>1. /\ keys' = [keys EXCEPT !.pending = <<>>, !.sent = keys.sent \o flush(keys.pending)]
      /\ stdin' = stdin /\ config' = config
  BY DEF EscTimer
<1>2. /\ DOMAIN keys' = {"pending", "line", "used", "handled", "sent"}
      /\ keys'.used = keys.used /\ keys'.pending = <<>> /\ keys'.handled = keys.handled
      /\ keys'.sent = keys.sent \o flush(keys.pending)
  BY <1>1 DEF KInv
<1>3. ASSUME ~keys.used
      PROVE  keys'.sent \in Seq(Wire) /\ Typed(keys'.sent) \o keys'.pending = keys'.handled
  <2>1. /\ keys.sent \in Seq(Wire) /\ keys.pending \in Seq(Keyboard)
        /\ keys.handled \in Seq(Keyboard) /\ Typed(keys.sent) \o keys.pending = keys.handled
    BY <1>3 DEF KInv
  <2>2. flush(keys.pending) \in Seq(Wire) /\ Typed(flush(keys.pending)) = keys.pending
    BY <2>1, TypedPlain
  <2>3. Typed(keys.sent \o flush(keys.pending)) \o <<>> = keys.handled \o <<>>
    <3>1. Typed(keys.sent \o flush(keys.pending)) = Typed(keys.sent) \o keys.pending
      BY <2>1, <2>2, TypedApart
    <3> QED
      BY <2>1, <3>1
  <2> QED
    BY <1>2, <2>1, <2>2, <2>3
<1> QED
  BY <1>1, <1>2, <1>3 DEF KInv

LEMMA KInvNext == ASSUME KInv, [CNext]_cvars PROVE KInv'
<1>1. CASE UNCHANGED <<config, stdin, keys>>
  BY <1>1 DEF KInv
<1>2. CASE \E n \in DOMAIN stdin.typed : InputArrives(n)
  BY <1>2, InputKeeps
<1>3. CASE EscTimer
  BY <1>3, TimerKeeps
<1>4. CASE Type
  <2>1. /\ stdin' = [stdin EXCEPT !.typed = Append(stdin.typed, Head(stdin.rest)),
                                 !.rest = Tail(stdin.rest)]
        /\ config' = config /\ keys' = keys /\ stdin.rest # <<>>
    BY <1>4 DEF Type
  <2>2. /\ stdin.typed \in Seq(Keyboard) /\ stdin.rest \in Seq(Keyboard)
        /\ stdin \in [typed : Seq(Keyboard), eof : BOOLEAN, rest : Seq(Keyboard)]
    BY DEF KInv
  <2>3. Append(stdin.typed, Head(stdin.rest)) \in Seq(Keyboard) /\ Tail(stdin.rest) \in Seq(Keyboard)
    BY <2>1, <2>2, HeadTailProperties, AppendProperties
  <2>4. stdin' \in [typed : Seq(Keyboard), eof : BOOLEAN, rest : Seq(Keyboard)]
    BY <2>1, <2>2, <2>3
  <2> QED
    BY <2>1, <2>4 DEF KInv
<1>5. CASE CloseStdin
  BY <1>5 DEF CloseStdin, KInv
<1>6. CASE ServerSends \/ ServerEnds
  BY <1>1, <1>6 DEF ServerSends, ServerEnds
<1>7. CASE Enter \/ Commit \/ InputEnds \/ OutputArrives \/ OutputEnds \/ OutputFails \/ LoopEnds
  BY <1>1, <1>7 DEF Enter, Commit, InputEnds, OutputArrives, OutputEnds, OutputFails, LoopEnds
<1>8. CASE \E n \in DOMAIN stdin.typed : EscapeTyped(n)
  BY <1>1, <1>8 DEF EscapeTyped
<1>9. CASE UNCHANGED cvars
  BY <1>1, <1>9 DEF cvars
<1> QED
  BY <1>2, <1>3, <1>4, <1>5, <1>6, <1>7, <1>8, <1>9 DEF CNext, ShellStep

\* The bytes sent and those held back are the keys typed, in their order, for any
\* text and however its chunks are cut (InputFilter.feed, flush, _send_stdin).
THEOREM KeysInOrderHolds == CSpec => []KeysInOrder
<1>1. KInv => KeysInOrder
  BY DEF KInv, KeysInOrder
<1> QED
  BY <1>1, KInvInit, KInvNext, PTL DEF CSpec

-----------------------------------------------------------------------------
(***************************************************************************)
(* The PTY shell: what a write to the client keeps.                        *)
(***************************************************************************)
\* What the program writes, what the client sends, and what stands for half a
\* character that was never completed.
Data == STRING \cup {"?", "m1"}

Sessions ==
  [closing : BOOLEAN, output_buffer : Seq(Data), in_sync_update : BOOLEAN, decoder : Seq(Data),
   naws_pending : Nat, naws_timer : BOOLEAN, ga_timer : BOOLEAN, fd : BOOLEAN,
   exit_code : {"None"}]
Outs == [session : Sessions, shown : Seq(Data), owed : BOOLEAN, lost : Seq(Data), raised : BOOLEAN]
Splits == [flushed : Seq(Data), kept : Seq(Data), sync : BOOLEAN, raised : BOOLEAN]

Turn(c, r, b) == SplitOnce(r)
Whole(c, r) == r \in Splits /\ r.flushed \o r.kept = c /\ Encodable(r.flushed)
Held(c, r) == r = [flushed |-> <<>>, kept |-> c, sync |-> TRUE, raised |-> FALSE]

Wholes == INSTANCE FoldInduction WITH op <- Turn, P <- Whole
Helds == INSTANCE FoldInduction WITH op <- Turn, P <- Held

LEMMA SplitIsFold ==
  \A buf, s : LET b == [flushed |-> <<>>, kept |-> buf, sync |-> s, raised |-> FALSE] IN
    Split(buf, s) = Wholes!Folded(buf, b, buf) /\ Split(buf, s) = Helds!Folded(buf, b, buf)
BY DEF Split, Turn, Wholes!Folded, Wholes!IsFold, Wholes!Last, Helds!Folded, Helds!IsFold,
       Helds!Last, FoldLeft, MapThenFoldSet, Max

LEMMA Cut ==
  ASSUME NEW buf \in Seq(Data), NEW k \in 0 .. Len(buf)
  PROVE  /\ SubSeq(buf, 1, k) \in Seq(Data) /\ SubSeq(buf, k + 1, Len(buf)) \in Seq(Data)
         /\ SubSeq(buf, 1, k) \o SubSeq(buf, k + 1, Len(buf)) = buf
<1> DEFINE n == Len(buf)
<1>1. n \in Nat /\ k \in 0 .. n /\ 1 \in 1 .. n + 1 /\ k \in 1 - 1 .. n /\ n \in k .. n
  OBVIOUS
<1>2. SubSeq(buf, 1, k) \o SubSeq(buf, k + 1, n) = SubSeq(buf, 1, n)
  BY <1>1, ConcatAdjacentSubSeq
<1>3. SubSeq(buf, 1, n) = buf
  BY SubSeqFull
<1>4. SubSeq(buf, 1, k) \in Seq(Data) /\ SubSeq(buf, k + 1, n) \in Seq(Data)
  <2>1. \A i \in 1 .. n : buf[i] \in Data
    OBVIOUS
  <2>2. (\A i \in 1 .. k : buf[i] \in Data) /\ \A i \in k + 1 .. n : buf[i] \in Data
    BY <1>1, <2>1
  <2>3. 1 \in Int /\ k \in Int /\ k + 1 \in Int /\ n \in Int
    BY <1>1
  <2> QED
    BY <2>2, <2>3, SubSeqProperties
<1> QED
  BY <1>2, <1>3, <1>4

LEMMA DataRegrouped == \A s, t, u \in Seq(Data) : (s \o t) \o u = s \o (t \o u)
OBVIOUS

LEMMA FirstOf ==
  ASSUME NEW S, S \subseteq Nat, S # {} PROVE First(S) \in S
<1>1. \E i \in S : \A j \in S : i <= j
  BY Wholes!NatMin
<1> QED
  BY <1>1 DEF First

LEMMA LastOf ==
  ASSUME NEW n \in Nat, NEW S, S \subseteq 0 .. n, S # {}
  PROVE  (CHOOSE k \in S : \A j \in S : j <= k) \in S
<1> DEFINE T == {n - k : k \in S}
<1>1. T \subseteq Nat /\ T # {}
  <2>1. \A k \in S : n - k \in Nat
    OBVIOUS
  <2> QED
    BY <2>1
<1>2. PICK i \in T : \A j \in T : i <= j
  <2> HIDE DEF T
  <2> QED
    BY <1>1, Wholes!NatMin
<1>3. PICK k \in S : i = n - k
  OBVIOUS
<1>4. \A j \in S : j <= k
  <2> SUFFICES ASSUME NEW j \in S PROVE j <= k
    OBVIOUS
  <2>1. n - j \in T
    OBVIOUS
  <2>2. i <= n - j
    BY <1>2, <2>1
  <2> HIDE DEF T
  <2> QED
    BY <1>3, <2>2
<1> QED
  BY <1>4

LEMMA EncodableJoined ==
  ASSUME NEW s \in Seq(Data), NEW t \in Seq(Data), Encodable(s), Encodable(t)
  PROVE  Encodable(s \o t)
BY DEF Encodable

\* A turn of the loop of _write_to_telnet loses and reorders nothing, and flushes
\* what can be encoded.
LEMMA FlushKeeps ==
  ASSUME NEW c, NEW r, Whole(c, r), NEW k \in 0 .. Len(r.kept), NEW s \in BOOLEAN
  PROVE  Whole(c, IF ~Encodable(SubSeq(r.kept, 1, k)) THEN [r EXCEPT !.raised = TRUE]
                  ELSE [r EXCEPT !.flushed = r.flushed \o SubSeq(r.kept, 1, k), !.sync = s,
                                 !.kept = SubSeq(r.kept, k + 1, Len(r.kept))])
<1> DEFINE a == SubSeq(r.kept, 1, k)
           b == SubSeq(r.kept, k + 1, Len(r.kept))
<1>1. /\ r \in Splits /\ r.flushed \in Seq(Data) /\ r.kept \in Seq(Data)
      /\ r.flushed \o r.kept = c /\ Encodable(r.flushed)
  BY DEF Whole, Splits
<1>2. a \in Seq(Data) /\ b \in Seq(Data) /\ a \o b = r.kept
  BY <1>1, Cut
<1> HIDE DEF a, b
<1>3. (r.flushed \o a) \o b = r.flushed \o (a \o b)
  BY <1>1, <1>2, DataRegrouped
<1>4. (r.flushed \o a) \o b = c
  BY <1>1, <1>2, <1>3
<1>5. r.flushed \o a \in Seq(Data)
  BY <1>1, <1>2
<1>6. Encodable(a) => Encodable(r.flushed \o a)
  BY <1>1, <1>2, EncodableJoined
<1>7. Whole(c, [r EXCEPT !.raised = TRUE])
  BY <1>1 DEF Whole, Splits
<1>8. Encodable(a) => Whole(c, [r EXCEPT !.flushed = r.flushed \o a, !.sync = s, !.kept = b])
  BY <1>1, <1>2, <1>4, <1>5, <1>6 DEF Whole, Splits
<1> QED
  BY <1>7, <1>8 DEF a, b

LEMMA SplitOnceKeeps ==
  ASSUME NEW c, NEW r, Whole(c, r) PROVE Whole(c, SplitOnce(r))
<1> DEFINE buf == r.kept
           begins == Find(buf, "b1", "b2")
           ends == Find(buf, "e1", "e2")
           lines == {k \in DOMAIN buf : buf[k] = "NL"}
           last == CHOOSE k \in lines : \A j \in lines : j <= k
           emit(k, s) ==
             IF ~Encodable(SubSeq(buf, 1, k)) THEN [r EXCEPT !.raised = TRUE]
             ELSE [r EXCEPT !.flushed = r.flushed \o SubSeq(buf, 1, k), !.sync = s,
                            !.kept = SubSeq(buf, k + 1, Len(buf))]
<1>1. buf \in Seq(Data) /\ Len(buf) \in Nat /\ r.sync \in BOOLEAN
  BY DEF Whole, Splits
<1>2. \A k \in 0 .. Len(buf), s \in BOOLEAN : Whole(c, emit(k, s))
  BY FlushKeeps
<1>3. ends # {} => First(ends) + 1 \in 0 .. Len(buf)
  <2>1. ends \subseteq Nat /\ ends \subseteq 1 .. Len(buf) - 1
    BY <1>1 DEF Find
  <2> HIDE DEF ends
  <2> SUFFICES ASSUME ends # {} PROVE First(ends) + 1 \in 0 .. Len(buf)
    OBVIOUS
  <2>2. PICK i \in ends : i = First(ends)
    BY <2>1, FirstOf
  <2>3. i \in 1 .. Len(buf) - 1
    BY <2>1, <2>2
  <2>4. i + 1 \in 0 .. Len(buf)
    BY <1>1, <2>3
  <2> QED
    BY <2>2, <2>4
<1>4. begins # {} => First(begins) - 1 \in 0 .. Len(buf)
  <2>1. begins \subseteq Nat /\ begins \subseteq 1 .. Len(buf) - 1
    BY <1>1 DEF Find
  <2> HIDE DEF begins
  <2> SUFFICES ASSUME begins # {} PROVE First(begins) - 1 \in 0 .. Len(buf)
    OBVIOUS
  <2>2. PICK i \in begins : i = First(begins)
    BY <2>1, FirstOf
  <2>3. i \in 1 .. Len(buf) - 1
    BY <2>1, <2>2
  <2>4. i - 1 \in 0 .. Len(buf)
    BY <1>1, <2>3
  <2> QED
    BY <2>2, <2>4
<1>5. lines # {} => last \in 0 .. Len(buf)
  <2>1. lines \subseteq 0 .. Len(buf)
    BY <1>1
  <2> HIDE DEF lines
  <2> QED
    BY <1>1, <2>1, LastOf
<1>6. \/ SplitOnce(r) = r
      \/ ends # {} /\ SplitOnce(r) = emit(First(ends) + 1, FALSE)
      \/ SplitOnce(r) = emit(Len(buf), TRUE)
      \/ begins # {} /\ SplitOnce(r) = emit(First(begins) - 1, TRUE)
      \/ lines # {} /\ SplitOnce(r) = emit(last, FALSE)
  BY <1>1 DEF SplitOnce
<1>7. Len(buf) \in 0 .. Len(buf)
  BY <1>1
<1> HIDE DEF buf, begins, ends, lines, last, emit
<1> QED
  BY <1>2, <1>3, <1>4, <1>5, <1>6, <1>7

LEMMA SplitWhole ==
  ASSUME NEW buf \in Seq(Data), NEW s \in BOOLEAN
  PROVE  LET r == Split(buf, s) IN
         r \in Splits /\ r.flushed \o r.kept = buf /\ Encodable(r.flushed)
<1> DEFINE b == [flushed |-> <<>>, kept |-> buf, sync |-> s, raised |-> FALSE]
<1>1. Whole(buf, b)
  <2>1. Encodable(<<>>)
    BY DEF Encodable
  <2> QED
    BY <2>1 DEF Whole, Splits
<1>2. \A u : \A i \in DOMAIN buf : Whole(buf, u) => Whole(buf, Turn(buf, u, buf[i]))
  BY SplitOnceKeeps DEF Turn
<1>3. Whole(buf, Wholes!Folded(buf, b, buf))
  BY <1>1, <1>2, Wholes!FoldStays
<1> QED
  BY <1>3, SplitIsFold DEF Whole

\* Within an update that is neither over nor too long nothing is flushed.
LEMMA SplitHeld ==
  ASSUME NEW buf \in Seq(Data), Find(buf, "e1", "e2") = {}, Len(buf) <= max_batch
  PROVE  Split(buf, TRUE) = [flushed |-> <<>>, kept |-> buf, sync |-> TRUE, raised |-> FALSE]
<1> DEFINE b == [flushed |-> <<>>, kept |-> buf, sync |-> TRUE, raised |-> FALSE]
<1>1. Held(buf, b)
  BY DEF Held
<1>2. \A u : \A i \in DOMAIN buf : Held(buf, u) => Held(buf, Turn(buf, u, buf[i]))
  <2> SUFFICES ASSUME NEW u, Held(buf, u) PROVE Held(buf, SplitOnce(u))
    BY DEF Turn
  <2>1. ~(Len(buf) > max_batch)
    BY PtyAssumption
  <2>2. u.kept = buf /\ u.sync = TRUE /\ u.flushed = <<>>
    BY DEF Held
  <2>3. SplitOnce(u) = u
    BY <2>1, <2>2 DEF SplitOnce
  <2> QED
    BY <2>3
<1>3. Held(buf, Helds!Folded(buf, b, buf))
  BY <1>1, <1>2, Helds!FoldStays
<1> QED
  BY <1>3, SplitIsFold DEF Held

\* What decoding gives and keeps is what was there, until the end.
LEMMA DecodingKeeps ==
  ASSUME NEW bytes \in Seq(Data), NEW final \in BOOLEAN
  PROVE  LET d == Decoded(bytes, final) IN
         /\ d.text \in Seq(Data) /\ d.kept \in Seq(Data)
         /\ ~final => d.text \o d.kept = bytes
<1>1. "m1" \in Data /\ "?" \in Data /\ <<"m1">> \in Seq(Data) /\ <<"?">> \in Seq(Data)
  BY DEF Data
<1>2. CASE ~(bytes # <<>> /\ Last(bytes) = "m1")
  <2>1. Decoded(bytes, final) = [text |-> bytes, kept |-> <<>>]
    BY <1>2 DEF Decoded
  <2> QED
    BY <2>1
<1>3. CASE bytes # <<>> /\ Last(bytes) = "m1"
  <2>1. Front(bytes) \in Seq(Data) /\ Front(bytes) \o <<"m1">> = bytes
    <3> DEFINE n == Len(bytes)
    <3>1. n \in Nat /\ 1 \in 1 .. n /\ n \in 1 .. n /\ bytes[n] = "m1"
      BY <1>3 DEF Last
    <3>2. Front(bytes) = SubSeq(bytes, 1, n - 1)
      BY DEF Front
    <3>3. SubSeq(bytes, 1, n) = SubSeq(bytes, 1, n - 1) \o <<bytes[n]>> /\ SubSeq(bytes, 1, n) = bytes
      BY <3>1, SubSeqRecursiveSecond, SubSeqFull
    <3>4. n - 1 \in 0 .. n
      BY <3>1
    <3>5. SubSeq(bytes, 1, n - 1) \in Seq(Data)
      BY <3>4, Cut
    <3> QED
      BY <3>1, <3>2, <3>3, <3>5
  <2>2. Decoded(bytes, final) = [text |-> Front(bytes) \o (IF final THEN <<"?">> ELSE <<>>),
                                 kept |-> IF final THEN <<>> ELSE <<"m1">>]
    BY <1>3 DEF Decoded
  <2> QED
    BY <1>1, <2>1, <2>2
<1> QED
  BY <1>2, <1>3

\* o and p differ in what is shown, decoded and buffered only.
SameTimers(s, t) ==
  /\ s.closing = t.closing /\ s.fd = t.fd
  /\ s.naws_timer = t.naws_timer /\ s.naws_pending = t.naws_pending

Decoding(o) == o.shown \o o.session.decoder
Text(o) == Decoding(o) \o o.session.output_buffer

LEMMA Scheduled ==
  ASSUME NEW o \in Outs
  PROVE  LET p == _schedule_ga(o) IN
         /\ p \in Outs /\ SameTimers(o.session, p.session)
         /\ p.lost = o.lost /\ Text(p) = Text(o) /\ Decoding(p) = Decoding(o) /\ p.shown = o.shown
         /\ p.raised = o.raised
         /\ p.session.output_buffer = o.session.output_buffer
         /\ p.session.in_sync_update = o.session.in_sync_update
<1>1. WantsGa \in BOOLEAN
  BY DEF WantsGa
<1> QED
  BY <1>1 DEF _schedule_ga, Outs, Sessions, SameTimers, Text, Decoding

LEMMA Flushed ==
  ASSUME NEW o \in Outs, NEW data \in Seq(Data), NEW final \in BOOLEAN
  PROVE  LET p == _flush_output(o, data, final) IN
         /\ p \in Outs /\ SameTimers(o.session, p.session)
         /\ p.session.output_buffer = o.session.output_buffer
         /\ p.session.in_sync_update = o.session.in_sync_update
         /\ p.raised /\ ~o.raised => ~Encodable(data) /\ p = [o EXCEPT !.raised = TRUE]
         /\ ~final /\ p.lost = <<>> /\ (~p.raised \/ Encodable(data)) =>
              o.lost = <<>> /\ Decoding(p) = Decoding(o) \o data
         /\ data = <<>> => p = o
<1> DEFINE d == Decoded(o.session.decoder \o data, final)
           text == d.text
           kept == [o EXCEPT !.session.decoder = d.kept]
           owed == WantsGa /\ ~setting.local_sga
           write == [kept EXCEPT !.shown = kept.shown \o text, !.owed = owed]
           lose == [kept EXCEPT !.lost = kept.lost \o text]
           p == _flush_output(o, data, final)
<1>0. /\ o.shown \in Seq(Data) /\ o.session.decoder \in Seq(Data) /\ o.lost \in Seq(Data)
      /\ o.session \in Sessions
  BY DEF Outs, Sessions
<1>1. d.text \in Seq(Data) /\ d.kept \in Seq(Data)
      /\ (~final => d.text \o d.kept = o.session.decoder \o data)
  <2>1. o.session.decoder \o data \in Seq(Data)
    BY <1>0
  <2> QED
    BY <2>1, DecodingKeeps
<1>2. owed \in BOOLEAN
  OBVIOUS
<1> HIDE DEF d, owed
<1>3. /\ kept \in Outs /\ SameTimers(o.session, kept.session)
      /\ kept.shown = o.shown /\ kept.lost = o.lost /\ kept.session.decoder = d.kept
      /\ kept.raised = o.raised
      /\ kept.session.output_buffer = o.session.output_buffer
      /\ kept.session.in_sync_update = o.session.in_sync_update
  BY <1>1 DEF Outs, Sessions, SameTimers
<1> HIDE DEF kept
<1>4. o.shown \o text \in Seq(Data) /\ o.lost \o text \in Seq(Data)
  BY <1>0, <1>1
<1>5. /\ write \in Outs /\ write.session = kept.session
      /\ write.shown = o.shown \o text /\ write.lost = o.lost /\ write.raised = o.raised
  BY <1>2, <1>3, <1>4 DEF Outs
<1>6. /\ lose \in Outs /\ lose.session = kept.session
      /\ lose.shown = o.shown /\ lose.lost = o.lost \o text /\ lose.raised = o.raised
  BY <1>3, <1>4 DEF Outs
<1> HIDE DEF write, lose
<1>7. Decoding(o) \o data = o.shown \o (o.session.decoder \o data)
  BY <1>0, DataRegrouped DEF Decoding
<1>8. CASE data = <<>>
  <2>1. p = o
    BY <1>8 DEF _flush_output
  <2>2. Decoding(o) \o data = Decoding(o)
    BY <1>0, <1>8 DEF Decoding
  <2> QED
    BY <2>1, <2>2 DEF SameTimers
<1>12. CASE data # <<>> /\ ~Encodable(data)
  <2>1. p = [o EXCEPT !.raised = TRUE]
    BY <1>12 DEF _flush_output
  <2>2. p \in Outs /\ p.session = o.session /\ p.raised
    BY <2>1 DEF Outs
  <2> QED
    BY <1>12, <2>1, <2>2 DEF SameTimers
<1>9. CASE data # <<>> /\ Encodable(data) /\ text = <<>>
  <2>1. p = kept
    BY <1>9 DEF _flush_output, d, kept
  <2>2. ~final => d.kept = o.session.decoder \o data
    BY <1>1, <1>9
  <2>3. ~final => Decoding(kept) = Decoding(o) \o data
    BY <1>3, <1>7, <2>2 DEF Decoding
  <2> QED
    BY <1>3, <1>9, <2>1, <2>3
<1>10. CASE data # <<>> /\ Encodable(data) /\ text # <<>> /\ client.closed
  <2>1. p = _schedule_ga(lose)
    BY <1>10 DEF _flush_output, d, kept, lose
  <2>2. p \in Outs /\ p.lost = lose.lost /\ p.raised = lose.raised /\ SameTimers(lose.session, p.session)
        /\ p.session.output_buffer = lose.session.output_buffer
        /\ p.session.in_sync_update = lose.session.in_sync_update
    BY <1>6, <2>1, Scheduled
  <2>3. o.lost \o text # <<>>
    BY <1>0, <1>1, <1>10
  <2> QED
    BY <1>3, <1>6, <1>10, <2>2, <2>3 DEF SameTimers
<1>11. CASE data # <<>> /\ Encodable(data) /\ text # <<>> /\ ~client.closed
  <2>1. p = _schedule_ga(write)
    BY <1>11 DEF _flush_output, d, kept, write, owed
  <2>2. p \in Outs /\ p.lost = write.lost /\ p.raised = write.raised /\ SameTimers(write.session, p.session)
        /\ p.session.output_buffer = write.session.output_buffer
        /\ p.session.in_sync_update = write.session.in_sync_update
        /\ Decoding(p) = Decoding(write)
    BY <1>5, <2>1, Scheduled
  <2>3. Decoding(write) = (o.shown \o text) \o d.kept
    BY <1>3, <1>5 DEF Decoding
  <2>4. (o.shown \o text) \o d.kept = o.shown \o (text \o d.kept)
    BY <1>0, <1>1, DataRegrouped
  <2>5. ~final => Decoding(p) = Decoding(o) \o data
    BY <1>1, <1>7, <2>2, <2>3, <2>4
  <2> QED
    BY <1>3, <1>5, <1>11, <2>2, <2>5 DEF SameTimers
<1> QED
  BY <1>8, <1>9, <1>10, <1>11, <1>12

\* A write to the client: what is neither shown nor decoded is buffered.
LEMMA BridgeWrites ==
  ASSUME NEW o \in Outs, NEW data \in Seq(Data)
  PROVE  LET p == _write_to_telnet(o, data)
             buf == o.session.output_buffer \o data IN
         /\ p \in Outs /\ SameTimers(o.session, p.session)
         /\ p.lost = <<>> => o.lost = <<>> /\ Text(p) = Text(o) \o data
         /\ o.session.in_sync_update /\ Find(buf, "e1", "e2") = {} /\ Len(buf) <= max_batch
              => /\ p.shown = o.shown /\ p.session.in_sync_update /\ ~p.raised
                 /\ p.session.output_buffer = buf
<1> DEFINE buf == o.session.output_buffer \o data
           r == Split(buf, o.session.in_sync_update)
           quiet == [o EXCEPT !.session.ga_timer = FALSE]
           f == _flush_output(quiet, r.flushed, FALSE)
           p == _write_to_telnet(o, data)
<1>0. /\ o.session.output_buffer \in Seq(Data) /\ o.session.in_sync_update \in BOOLEAN
      /\ o.shown \in Seq(Data) /\ o.session.decoder \in Seq(Data)
  BY DEF Outs, Sessions
<1>1. p = [f EXCEPT !.session.output_buffer = r.kept, !.session.in_sync_update = r.sync,
                    !.raised = r.raised]
  BY DEF _write_to_telnet
<1>2. buf \in Seq(Data)
  BY <1>0
<1> HIDE DEF p, buf
<1>3. /\ r.flushed \in Seq(Data) /\ r.kept \in Seq(Data) /\ r.sync \in BOOLEAN
      /\ r.raised \in BOOLEAN /\ Encodable(r.flushed) /\ r.flushed \o r.kept = buf
  BY <1>0, <1>2, SplitWhole DEF Splits
<1>4. o.session.in_sync_update /\ Find(buf, "e1", "e2") = {} /\ Len(buf) <= max_batch
        => r.flushed = <<>> /\ r.sync = TRUE /\ ~r.raised /\ r.kept = buf
  <2> SUFFICES ASSUME o.session.in_sync_update, Find(buf, "e1", "e2") = {}, Len(buf) <= max_batch
               PROVE  r.flushed = <<>> /\ r.sync = TRUE /\ ~r.raised /\ r.kept = buf
    OBVIOUS
  <2>1. o.session.in_sync_update = TRUE
    BY <1>0
  <2>2. Split(buf, TRUE) = [flushed |-> <<>>, kept |-> buf, sync |-> TRUE, raised |-> FALSE]
    BY <1>2, SplitHeld
  <2>3. r = [flushed |-> <<>>, kept |-> buf, sync |-> TRUE, raised |-> FALSE]
    BY <2>1, <2>2, Zenon
  <2> HIDE DEF r
  <2> QED
    BY <2>3
<1>5. /\ quiet \in Outs /\ SameTimers(o.session, quiet.session) /\ quiet.lost = o.lost
      /\ quiet.shown = o.shown /\ Decoding(quiet) = Decoding(o)
  BY DEF Outs, Sessions, SameTimers, Decoding
<1> HIDE DEF r, quiet
<1>6. /\ f \in Outs /\ SameTimers(quiet.session, f.session)
      /\ f.lost = <<>> => quiet.lost = <<>> /\ Decoding(f) = Decoding(quiet) \o r.flushed
      /\ r.flushed = <<>> => f = quiet
  BY <1>3, <1>5, Flushed
<1> HIDE DEF f
<1>7. /\ p \in Outs /\ SameTimers(f.session, p.session) /\ p.lost = f.lost /\ p.shown = f.shown
      /\ Decoding(p) = Decoding(f) /\ p.session.output_buffer = r.kept
      /\ p.session.in_sync_update = r.sync /\ p.raised = r.raised
  BY <1>1, <1>3, <1>6 DEF Outs, Sessions, SameTimers, Decoding
<1>8. Decoding(o) \in Seq(Data)
  BY <1>0 DEF Decoding
<1>9. ASSUME p.lost = <<>> PROVE Text(p) = Text(o) \o data
  <2>1. Text(p) = (Decoding(o) \o r.flushed) \o r.kept
    BY <1>5, <1>6, <1>7, <1>9 DEF Text
  <2>2. (Decoding(o) \o r.flushed) \o r.kept = Decoding(o) \o buf
    BY <1>3, <1>8, DataRegrouped
  <2>3. (Decoding(o) \o o.session.output_buffer) \o data = Decoding(o) \o buf
    BY <1>0, <1>8, DataRegrouped DEF buf
  <2> QED
    BY <2>1, <2>2, <2>3 DEF Text
<1> QED
  BY <1>4, <1>5, <1>6, <1>7, <1>9 DEF SameTimers, p, buf

\* The rest of a write: outside an update the buffer is emptied, unless it raises.
LEMMA Remaining ==
  ASSUME NEW o \in Outs, ~o.raised
  PROVE  LET p == _flush_remaining(o) IN
         /\ p \in Outs /\ SameTimers(o.session, p.session)
         /\ p.lost = <<>> => o.lost = <<>> /\ Text(p) = Text(o)
         /\ o.session.in_sync_update => p.shown = o.shown
<1> DEFINE buf == o.session.output_buffer
           f == _flush_output(o, buf, FALSE)
           e == [f EXCEPT !.session.output_buffer = <<>>]
           p == _flush_remaining(o)
<1>0. buf \in Seq(Data)
  BY DEF Outs, Sessions
<1>1. CASE o.session.in_sync_update \/ buf = <<>>
  <2>1. p = _schedule_ga(o)
    BY <1>1 DEF _flush_remaining
  <2> QED
    BY <2>1, Scheduled
<1>2. CASE ~(o.session.in_sync_update \/ buf = <<>>) /\ f.raised
  <2>1. p = f
    BY <1>2 DEF _flush_remaining
  <2>2. f = [o EXCEPT !.raised = TRUE]
    BY <1>0, <1>2, Flushed
  <2>3. p \in Outs /\ p.session = o.session /\ p.lost = o.lost /\ p.shown = o.shown
    BY <2>1, <2>2 DEF Outs
  <2>4. Text(p) = Text(o)
    BY <2>3 DEF Text, Decoding
  <2> HIDE DEF p
  <2> QED
    BY <2>3, <2>4 DEF SameTimers, p
<1>3. CASE ~(o.session.in_sync_update \/ buf = <<>>) /\ ~f.raised
  <2>1. p = _schedule_ga(e)
    BY <1>3 DEF _flush_remaining
  <2>3. /\ f \in Outs /\ SameTimers(o.session, f.session)
        /\ f.lost = <<>> => o.lost = <<>> /\ Decoding(f) = Decoding(o) \o buf
    BY <1>0, <1>3, Flushed
  <2> HIDE DEF p, f
  <2>4. /\ e \in Outs /\ SameTimers(f.session, e.session) /\ e.lost = f.lost
        /\ e.shown = f.shown /\ e.session.decoder = f.session.decoder
        /\ e.session.output_buffer = <<>>
    <3>1. <<>> \in Seq(Data)
      OBVIOUS
    <3> QED
      BY <2>3, <3>1 DEF Outs, Sessions, SameTimers
  <2> HIDE DEF e
  <2>5. Decoding(e) \in Seq(Data) /\ Decoding(e) = Decoding(f)
    BY <2>4 DEF Decoding, Outs, Sessions
  <2>6. Text(e) = Decoding(f)
    BY <2>4, <2>5 DEF Text
  <2>7. p \in Outs /\ SameTimers(e.session, p.session) /\ p.lost = e.lost /\ Text(p) = Text(e)
    BY <2>1, <2>4, Scheduled
  <2>8. Text(o) = Decoding(o) \o buf
    BY DEF Text
  <2>9. p.lost = <<>> => o.lost = <<>> /\ Text(p) = Text(o)
    BY <2>3, <2>4, <2>6, <2>7, <2>8
  <2>10. SameTimers(o.session, p.session)
    BY <2>3, <2>4, <2>7 DEF SameTimers
  <2>11. ~o.session.in_sync_update
    BY <1>3
  <2> USE DEF p
  <2> QED
    BY <2>7, <2>9, <2>10, <2>11
<1> QED
  BY <1>1, <1>2, <1>3

-----------------------------------------------------------------------------
(***************************************************************************)
(* The PTY shell: the queue.                                               *)
(***************************************************************************)
Chunks == Seq(Seq(Data))

Cat(c, s, x) == s \o x
Front1(c, q) == Joined(<<c>> \o q) = c \o Joined(q) /\ Joined(q) \in Seq(Data)
Joins == INSTANCE FoldInduction WITH op <- Cat, P <- Front1

LEMMA JoinedAppend ==
  ASSUME NEW q \in Chunks, NEW x \in Seq(Data)
  PROVE  Joined(Append(q, x)) = Joined(q) \o x /\ Joined(<<>>) = <<>>
<1>1. \A r : Joined(r) = Joins!Folded(<<>>, <<>>, r)
  BY DEF Joined, Cat, Joins!Folded, Joins!IsFold, Joins!Last, FoldLeft, MapThenFoldSet, Max
<1>2. Joins!Folded(<<>>, <<>>, Append(q, x)) = Cat(<<>>, Joins!Folded(<<>>, <<>>, q), x)
  BY Joins!FoldOfAppend DEF Chunks
<1>3. Joins!Folded(<<>>, <<>>, <<>>) = <<>>
  BY Joins!FoldOfNone
<1> QED
  BY <1>1, <1>2, <1>3 DEF Cat

LEMMA PutBefore ==
  ASSUME NEW S, NEW s \in Seq(S), NEW x \in S, NEW y \in S
  PROVE  <<x>> \o Append(s, y) = Append(<<x>> \o s, y) /\ <<x>> \o s \in Seq(S)
<1>1. <<x>> \in Seq(S)
  OBVIOUS
<1>2. <<x>> \o Append(s, y) = Append(<<x>> \o s, y)
  <2>1. Append(s, y) = s \o <<y>> /\ <<y>> \in Seq(S)
    OBVIOUS
  <2>2. Append(<<x>> \o s, y) = (<<x>> \o s) \o <<y>>
    BY <1>1, ConcatProperties
  <2> QED
    BY <1>1, <2>1, <2>2, ConcatAssociative
<1> QED
  BY <1>1, <1>2, ConcatProperties

LEMMA JoinedFront ==
  ASSUME NEW q \in Chunks, NEW x \in Seq(Data)
  PROVE  Joined(<<x>> \o q) = x \o Joined(q) /\ Joined(q) \in Seq(Data)
<1>1. Front1(x, <<>>)
  <2>1. <<x>> \o <<>> = Append(<<>>, x) /\ <<>> \in Chunks
    BY DEF Chunks
  <2>2. Joined(<<x>> \o <<>>) = <<>> \o x /\ Joined(<<>>) = <<>>
    BY <2>1, JoinedAppend
  <2>3. <<>> \o x = x /\ x \o <<>> = x /\ <<>> \in Seq(Data)
    OBVIOUS
  <2> QED
    BY <2>2, <2>3 DEF Front1
<1>2. ASSUME NEW s \in Seq(Seq(Data)), NEW y \in Seq(Data), Front1(x, s)
      PROVE  Front1(x, Append(s, y))
  <2>1. <<x>> \o Append(s, y) = Append(<<x>> \o s, y) /\ <<x>> \o s \in Chunks /\ s \in Chunks
    BY <1>2, PutBefore DEF Chunks
  <2>2. Joined(<<x>> \o Append(s, y)) = Joined(<<x>> \o s) \o y /\ Joined(Append(s, y)) = Joined(s) \o y
    BY <1>2, <2>1, JoinedAppend
  <2>3. Joined(<<x>> \o s) = x \o Joined(s) /\ Joined(s) \in Seq(Data)
    BY <1>2 DEF Front1
  <2>4. (x \o Joined(s)) \o y = x \o (Joined(s) \o y) /\ Joined(s) \o y \in Seq(Data)
    BY <1>2, <2>3, DataRegrouped
  <2> QED
    BY <2>2, <2>3, <2>4 DEF Front1
<1>3. Front1(x, q)
  BY <1>1, <1>2, Joins!PrefixInduction DEF Chunks
<1> QED
  BY <1>3 DEF Front1

LEMMA JoinedHead ==
  ASSUME NEW q \in Chunks, q # <<>>
  PROVE  /\ Joined(q) = Head(q) \o Joined(Tail(q)) /\ Head(q) \in Seq(Data) /\ Tail(q) \in Chunks
         /\ Joined(Tail(q)) \in Seq(Data)
<1>1. Head(q) \in Seq(Data) /\ Tail(q) \in Seq(Seq(Data))
  BY HeadTailProperties DEF Chunks
<1>2. q = <<Head(q)>> \o Tail(q)
  BY DEF Chunks
<1> QED
  BY <1>1, <1>2, JoinedFront DEF Chunks

\* Within an update that is neither over nor too long.
InUpdate(o, read) ==
  o.session.in_sync_update /\ Find(read, "e1", "e2") = {} /\ Len(read) <= max_batch

LEMMA PrefixInUpdate ==
  ASSUME NEW s \in Seq(Data), NEW t \in Seq(Data),
         Find(s \o t, "e1", "e2") = {}, Len(s \o t) <= max_batch
  PROVE  Find(s, "e1", "e2") = {} /\ Len(s) <= max_batch
<1>1. Len(s) \in Nat /\ Len(t) \in Nat /\ Len(s \o t) = Len(s) + Len(t) /\ max_batch \in Nat
  BY PtyAssumption
<1>2. \A i \in 1 .. Len(s) : (s \o t)[i] = s[i]
  OBVIOUS
<1>3. Find(s, "e1", "e2") \subseteq Find(s \o t, "e1", "e2")
  <2> SUFFICES ASSUME NEW i \in 1 .. Len(s) - 1, s[i] = "e1", s[i + 1] = "e2"
               PROVE  /\ i \in 1 .. Len(s \o t) - 1
                      /\ (s \o t)[i] = "e1" /\ (s \o t)[i + 1] = "e2"
    BY DEF Find
  <2>1. i \in 1 .. Len(s) /\ i + 1 \in 1 .. Len(s)
    BY <1>1
  <2> QED
    BY <1>1, <1>2, <2>1
<1> QED
  BY <1>1, <1>3

\* What writing the queue, from the output c.out on, keeps of it.
Left(u) == Text(u.out) \o Joined(u.queue)
Read(u) == u.out.session.output_buffer \o Joined(u.queue)
Chunked(c, u, x) == WriteNext(u)
Writing(c, u) ==
  /\ u \in [out : Outs, queue : Chunks]
  /\ SameTimers(c.out.session, u.out.session)
  /\ u.out.lost = <<>> => c.out.lost = <<>> /\ Left(u) = Left(c)
  /\ InUpdate(c.out, Read(c)) => /\ u.out.shown = c.out.shown
                                 /\ InUpdate(u.out, Read(u)) /\ ~u.out.raised

Writes == INSTANCE FoldInduction WITH op <- Chunked, P <- Writing

LEMMA WriteNextKeeps == ASSUME NEW c, NEW u, Writing(c, u) PROVE Writing(c, WriteNext(u))
<1> DEFINE o == u.out
           x == Head(u.queue)
           v == [out |-> _write_to_telnet(o, x), queue |-> Tail(u.queue)]
           buf == o.session.output_buffer \o x
<1>1. CASE u.out.raised \/ u.queue = <<>>
  BY <1>1 DEF WriteNext
<1>2. CASE ~(u.out.raised \/ u.queue = <<>>)
  <2>1. WriteNext(u) = v
    BY <1>2 DEF WriteNext
  <2>2. o \in Outs /\ u.queue \in Chunks
    BY DEF Writing
  <2>3. /\ Joined(u.queue) = x \o Joined(Tail(u.queue)) /\ x \in Seq(Data)
        /\ Tail(u.queue) \in Chunks /\ Joined(Tail(u.queue)) \in Seq(Data)
    BY <1>2, <2>2, JoinedHead
  <2>4. o.session.output_buffer \in Seq(Data) /\ Text(o) \in Seq(Data)
    BY <2>2 DEF Outs, Sessions, Text, Decoding
  <2> DEFINE rest == Joined(Tail(u.queue))
  <2> HIDE DEF o, x, rest
  <2>5. /\ v.out \in Outs /\ SameTimers(o.session, v.out.session)
        /\ v.out.lost = <<>> => o.lost = <<>> /\ Text(v.out) = Text(o) \o x
        /\ InUpdate(o, buf) => /\ v.out.shown = o.shown /\ v.out.session.in_sync_update
                               /\ ~v.out.raised /\ v.out.session.output_buffer = buf
    BY <2>2, <2>3, BridgeWrites DEF InUpdate
  <2>6. v.queue = Tail(u.queue) /\ v \in [out : Outs, queue : Chunks]
    BY <2>3, <2>5
  <2>7. (Text(o) \o x) \o rest = Text(o) \o (x \o rest)
        /\ buf \o rest = o.session.output_buffer \o (x \o rest) /\ buf \in Seq(Data)
    <3>1. rest \in Seq(Data) /\ x \in Seq(Data)
      BY <2>3 DEF rest
    <3>2. buf \in Seq(Data)
      BY <2>4, <3>1
    <3> QED
      BY <2>4, <3>1, <3>2, DataRegrouped
  <2>8. v.out.lost = <<>> => o.lost = <<>> /\ Left(v) = Left(u)
    BY <2>3, <2>5, <2>6, <2>7 DEF Left, o, rest
  <2>9. InUpdate(o, Read(u)) => /\ v.out.shown = o.shown /\ ~v.out.raised
                               /\ InUpdate(v.out, Read(v))
    <3> SUFFICES ASSUME InUpdate(o, Read(u))
                 PROVE  /\ v.out.shown = o.shown /\ ~v.out.raised
                        /\ InUpdate(v.out, Read(v))
      OBVIOUS
    <3>1. Read(u) = buf \o rest
      BY <2>3, <2>7 DEF Read, o, rest
    <3>2. InUpdate(o, buf)
      BY <2>3, <2>7, <3>1, PrefixInUpdate DEF InUpdate, rest
    <3>3. Read(v) = Read(u)
      BY <2>5, <2>6, <3>1, <3>2 DEF Read, rest
    <3> QED
      BY <2>5, <3>2, <3>3 DEF InUpdate
  <2> HIDE DEF v
  <2>10. Writing(c, u)
    OBVIOUS
  <2> QED
    BY <2>1, <2>5, <2>6, <2>8, <2>9, <2>10 DEF Writing, SameTimers, o
<1> QED
  BY <1>1, <1>2

LEMMA QueueWritten ==
  ASSUME NEW o \in Outs, ~o.raised, NEW q \in Chunks
  PROVE  Writing([out |-> o, queue |-> q], WriteQueue(o, q))
<1> DEFINE c == [out |-> o, queue |-> q]
<1>1. Writing(c, c)
  BY DEF Writing, SameTimers
<1>2. \A u : \A i \in DOMAIN q : Writing(c, u) => Writing(c, Chunked(c, u, q[i]))
  BY WriteNextKeeps DEF Chunked
<1>3. WriteQueue(o, q) = Writes!Folded(c, c, q)
  BY DEF WriteQueue, Chunked, Writes!Folded, Writes!IsFold, Writes!Last, FoldLeft,
         MapThenFoldSet, Max
<1>4. Writing(c, Writes!Folded(c, c, q))
  <2> HIDE DEF c
  <2> QED
    BY <1>1, <1>2, Writes!FoldStays DEF Chunks
<1> QED
  BY <1>3, <1>4

-----------------------------------------------------------------------------
(***************************************************************************)
(* The PTY shell: its invariant.                                           *)
(***************************************************************************)
Before == {"info", "started"}
Bridges == {"bridge", "wait", "cancelling"}
Reading == Before \cup Bridges \cup {"cleanup", "raised"}
Places == Reading \cup {"terminate", "sleep", "over"}
Progress == {"none", "waiting", "done"}

Children == [state : {"none", "running", "zombie", "reaped"}, rest : Seq(Data), obeys : Obeys]
Ptys == [output : Seq(Data), input : Seq(Data), size : Nat]
Loops ==
  [pc : Places, telnet_task : Progress, pty_task : Progress, event : BOOLEAN, queue : Chunks,
   result : Seq(Data), signals : Seq({"HUP", "CONT", "INT", "KILL"})]
Clients ==
  [rest : Seq(Data), buffer : Seq(Data), half : Seq(Data), eof : BOOLEAN, closed : BOOLEAN,
   size : Nat, resizes : Nat]
Histories ==
  [read : Seq(Data), shown : Seq(Data), taken : Seq(Data), offered : Seq(Data), cut : BOOLEAN,
   owed : BOOLEAN, lost : Seq(Data)]

Shelled ==
  /\ child \in Children /\ pty \in Ptys /\ session \in Sessions
  /\ loop \in Loops /\ client \in Clients /\ history \in Histories

\* What was read from the PTY, until cleanup has shown what it can.
ReadOn ==
  loop.pc \in Reading /\ history.lost = <<>> => Text(Output) \o Joined(loop.queue) = history.read

\* What the client sent; a task that is not done has no result.
Sent(offered, result, half, buffer, taken) ==
  ((offered \o result) \o half) \o buffer = taken
Reached ==
  /\ Sent(history.offered, loop.result, client.half, client.buffer, history.taken)
  /\ ~history.cut => pty.input = history.offered
  /\ loop.telnet_task # "done" => loop.result = <<>>
  /\ loop.pc \in Before \cup {"bridge"} => loop.telnet_task # "done"

\* The window: a timer that runs holds its last size.
Sized ==
  /\ loop.pc = "info" => ~session.naws_timer
  /\ loop.pc \in {"started"} \cup Bridges =>
       /\ session.fd
       /\ session.naws_timer => session.naws_pending = client.size
       /\ pty.size = client.size \/ session.naws_timer

PtyInv == Shelled /\ ReadOn /\ Reached /\ Sized

LEMMA PtyInvInit == PInit => PtyInv
<1> SUFFICES ASSUME PInit PROVE PtyInv
  OBVIOUS
<1>1. /\ \E o \in Outputs, s \in Obeys : child = [state |-> "none", rest |-> o, obeys |-> s]
      /\ pty = [output |-> <<>>, input |-> <<>>, size |-> 0]
      /\ session = NewSession
      /\ loop = [pc |-> "info", telnet_task |-> "none", pty_task |-> "none", event |-> FALSE,
                 queue |-> <<>>, result |-> <<>>, signals |-> <<>>]
      /\ \E i \in Inputs :
           client = [rest |-> i, buffer |-> <<>>, half |-> <<>>, eof |-> FALSE, closed |-> FALSE,
                     size |-> 0, resizes |-> 0]
      /\ history = [read |-> <<>>, shown |-> <<>>, taken |-> <<>>, offered |-> <<>>,
                    cut |-> FALSE, owed |-> FALSE, lost |-> <<>>]
  BY DEF PInit
<1>2. Outputs \subseteq Seq(Data) /\ Inputs \subseteq Seq(Data)
  <2>1. Outputs \subseteq Seq(STRING) /\ Inputs \subseteq Seq(STRING)
    BY PtyAssumption
  <2>2. STRING \subseteq Data
    BY DEF Data
  <2> QED
    BY <2>1, <2>2, SeqMonotonic
<1>3. Shelled
  <2>1. session \in Sessions
    BY <1>1 DEF NewSession, Sessions
  <2>2. child \in Children
    BY <1>1, <1>2 DEF Children
  <2>3. client \in Clients
    BY <1>1, <1>2 DEF Clients
  <2> QED
    BY <1>1, <2>1, <2>2, <2>3
       DEF Shelled, Ptys, Loops, Histories, Places, Reading, Before, Bridges, Progress, Chunks
<1>4. ReadOn
  <2>1. Joined(<<>>) = <<>>
    <3>1. <<>> \in Chunks /\ <<>> \in Seq(Data)
      BY DEF Chunks
    <3> QED
      BY <3>1, JoinedAppend
  <2> QED
    BY <1>1, <2>1 DEF ReadOn, Text, Decoding, Output, NewSession
<1>5. Reached
  BY <1>1 DEF Reached, Sent
<1>6. Sized
  BY <1>1 DEF Sized, NewSession, Bridges
<1> QED
  BY <1>3, <1>4, <1>5, <1>6 DEF PtyInv

LEMMA OutputOf == Shelled => Output \in Outs /\ ~Output.raised
BY DEF Shelled, Histories, Output, Outs

LEMMA TextData == ASSUME NEW o \in Outs PROVE Decoding(o) \in Seq(Data) /\ Text(o) \in Seq(Data)
<1>1. /\ o.shown \in Seq(Data) /\ o.session.decoder \in Seq(Data)
      /\ o.session.output_buffer \in Seq(Data)
  BY DEF Outs, Sessions
<1> QED
  BY <1>1 DEF Text, Decoding

\* A step that changes neither the output nor what was read and is queued.
LEMMA ReadStays ==
  ASSUME Shelled, ReadOn, session'.decoder = session.decoder,
         session'.output_buffer = session.output_buffer, history'.shown = history.shown,
         history'.lost = history.lost, history'.read = history.read, loop'.queue = loop.queue,
         loop'.pc \in Reading => loop.pc \in Reading
  PROVE  ReadOn'
BY DEF ReadOn, Text, Decoding, Output

LEMMA ReadableKeeps == ASSUME PtyInv, pty_readable PROVE PtyInv'
<1> DEFINE n == IF Len(pty.output) < max_batch THEN Len(pty.output) ELSE max_batch
           chunk == SubSeq(pty.output, 1, n)
<1>1. /\ pty' = [pty EXCEPT !.output = SubSeq(pty.output, n + 1, Len(pty.output))]
      /\ loop' = [loop EXCEPT !.event = TRUE,
                              !.queue = IF chunk = <<>> THEN loop.queue ELSE Append(loop.queue, chunk)]
      /\ history' = [history EXCEPT !.read = history.read \o chunk]
      /\ session' = [session EXCEPT !.closing = EndSeen(n)]
      /\ child' = child /\ client' = client
  BY DEF pty_readable
<1>2. Shelled
  BY DEF PtyInv
<1>3. pty.output \in Seq(Data) /\ n \in 0 .. Len(pty.output)
  BY <1>2, PtyAssumption DEF Shelled, Ptys
<1>4. chunk \in Seq(Data) /\ SubSeq(pty.output, n + 1, Len(pty.output)) \in Seq(Data)
  BY <1>3, Cut
<1>5. EndSeen(n) \in BOOLEAN
  BY DEF EndSeen
<1> HIDE DEF n, chunk
<1> DEFINE queue == IF chunk = <<>> THEN loop.queue ELSE Append(loop.queue, chunk)
<1>6. /\ loop.queue \in Chunks /\ queue \in Chunks /\ history.read \o chunk \in Seq(Data)
      /\ Joined(queue) = Joined(loop.queue) \o chunk /\ Joined(loop.queue) \in Seq(Data)
  <2>1. loop.queue \in Chunks /\ history.read \o chunk \in Seq(Data)
    BY <1>2, <1>4 DEF Shelled, Loops, Histories
  <2>2. Append(loop.queue, chunk) \in Chunks
    BY <1>4, <2>1 DEF Chunks
  <2>3. Joined(Append(loop.queue, chunk)) = Joined(loop.queue) \o chunk
    BY <1>4, <2>1, JoinedAppend
  <2>4. Joined(loop.queue) \in Seq(Data)
    BY <1>4, <2>1, JoinedFront
  <2>5. Joined(loop.queue) \o <<>> = Joined(loop.queue)
    BY <2>4
  <2> QED
    BY <2>1, <2>2, <2>3, <2>4, <2>5
<1> HIDE DEF queue
<1>7. Shelled'
  <2>1. session' \in Sessions
    BY <1>1, <1>2, <1>5 DEF Shelled, Sessions
  <2> QED
    BY <1>1, <1>2, <1>4, <1>6, <2>1 DEF Shelled, Ptys, Loops, Histories, queue
<1>8. ReadOn'
  <2>1. Output \in Outs
    BY <1>2, OutputOf
  <2>2. Text(Output) \in Seq(Data)
    BY <2>1, TextData
  <2>3. (Text(Output) \o Joined(loop.queue)) \o chunk = Text(Output) \o Joined(queue)
    BY <1>4, <1>6, <2>2, DataRegrouped
  <2>4. Text(Output)' = Text(Output)
    BY <1>1, <1>2 DEF Text, Decoding, Output, Shelled, Histories, Sessions
  <2>5. /\ loop'.queue = queue /\ loop'.pc = loop.pc
        /\ history'.read = history.read \o chunk /\ history'.lost = history.lost
    BY <1>1, <1>2 DEF Shelled, queue, Loops, Histories
  <2>6. ReadOn
    BY DEF PtyInv
  <2> QED
    BY <2>3, <2>4, <2>5, <2>6 DEF ReadOn
<1>9. Reached' /\ Sized'
  BY <1>1, <1>2
     DEF PtyInv, Shelled, Loops, Clients, Histories, Ptys, Reached, Sized, Sessions
<1> QED
  BY <1>7, <1>8, <1>9 DEF PtyInv

\* What the client sent is where it was, when what was read is offered.
LEMMA Offered1 ==
  ASSUME NEW o \in Seq(Data), NEW r \in Seq(Data), NEW h, NEW b, NEW t, Sent(o, r, h, b, t)
  PROVE  Sent(o \o r, <<>>, h, b, t)
<1>1. o \o r \in Seq(Data) /\ (o \o r) \o <<>> = o \o r
  OBVIOUS
<1> QED
  BY <1>1 DEF Sent

\* The results of the tasks are processed.
LEMMA ProcessKeeps ==
  ASSUME PtyInv, loop.pc \in {"wait", "cancelling"}, Process, child' = child, setting' = setting,
         client' = client
  PROVE  /\ PtyInv'
         /\ InUpdate(Output, session.output_buffer \o Joined(loop.queue))
              => history'.shown = history.shown
<1> DEFINE eof == loop.telnet_task = "done" /\ loop.result = <<>>
           w == WriteQueue(Output, loop.queue)
           r == _flush_remaining(w.out)
           o == IF w.out.raised THEN w.out ELSE r
           empties == ~eof /\ loop.pty_task = "done"
           p == IF empties THEN o ELSE Output
           read == session.output_buffer \o Joined(loop.queue)
           c == [out |-> Output, queue |-> loop.queue]
<1>0. PICK n \in 0 .. Len(loop.result) :
        LET fails == loop.result # <<>> /\ n = 0 IN
        /\ WriteToPty(loop.result, n)
        /\ session' = [p.session EXCEPT !.closing = p.session.closing \/ eof \/ fails \/ p.raised]
        /\ history' = [Put(p) EXCEPT !.offered = Put(p).offered \o loop.result,
                                     !.cut = Put(p).cut \/ n < Len(loop.result)]
        /\ loop' = [loop EXCEPT !.pc = IF p.raised THEN "cleanup" ELSE "bridge",
                                !.telnet_task = "none", !.pty_task = "none", !.result = <<>>,
                                !.queue = IF empties THEN w.queue ELSE loop.queue,
                                !.event = loop.event /\ (~empties \/ p.raised)]
  BY DEF Process
<1> DEFINE fails == loop.result # <<>> /\ n = 0
           queue == IF empties THEN w.queue ELSE loop.queue
<1>1. Shelled /\ ReadOn /\ Reached /\ Sized
  BY DEF PtyInv
<1>2. /\ pty \in Ptys /\ session \in Sessions /\ loop \in Loops
      /\ client \in Clients /\ history \in Histories
  BY <1>1 DEF Shelled
<1>3. /\ Output \in Outs /\ loop.queue \in Chunks /\ Output.session = session /\ ~Output.raised
      /\ Output.shown = history.shown /\ Output.lost = history.lost
      /\ c.out = Output /\ c.queue = loop.queue
  BY <1>1, <1>2, OutputOf DEF Loops, Output
<1>4. Writing(c, w)
  BY <1>3, QueueWritten
<1> HIDE DEF w, c
<1>5. /\ w.out \in Outs /\ w.queue \in Chunks /\ SameTimers(session, w.out.session)
      /\ w.out.lost = <<>> =>
           history.lost = <<>> /\ Text(w.out) \o Joined(w.queue) = Text(Output) \o Joined(loop.queue)
      /\ InUpdate(Output, read) => /\ w.out.shown = history.shown
                                   /\ w.out.session.in_sync_update /\ ~w.out.raised
  <2>1. Read(c) = read
    BY <1>3 DEF Read
  <2> HIDE DEF read
  <2> QED
    BY <1>3, <1>4, <2>1 DEF Writing, Left, InUpdate
<1> HIDE DEF read
<1>6. /\ o \in Outs /\ SameTimers(session, o.session)
      /\ o.lost = <<>> =>
           history.lost = <<>> /\ Text(o) \o Joined(w.queue) = Text(Output) \o Joined(loop.queue)
      /\ InUpdate(Output, read) => o.shown = history.shown
  <2>1. CASE w.out.raised
    BY <1>5, <2>1
  <2>2. CASE ~w.out.raised
    <3>1. /\ r \in Outs /\ SameTimers(w.out.session, r.session)
          /\ r.lost = <<>> => w.out.lost = <<>> /\ Text(r) = Text(w.out)
          /\ w.out.session.in_sync_update => r.shown = w.out.shown
      BY <1>5, <2>2, Remaining
    <3> HIDE DEF r
    <3>2. o = r
      BY <2>2
    <3> HIDE DEF o
    <3> QED
      BY <1>5, <3>1, <3>2 DEF SameTimers
  <2> QED
    BY <2>1, <2>2
<1> HIDE DEF o
<1>7. /\ p \in Outs /\ SameTimers(session, p.session) /\ queue \in Chunks
      /\ p.lost = <<>> =>
           history.lost = <<>> /\ Text(p) \o Joined(queue) = Text(Output) \o Joined(loop.queue)
      /\ InUpdate(Output, read) => p.shown = history.shown
  <2>1. CASE empties
    <3>1. p = o /\ queue = w.queue
      BY <2>1
    <3> HIDE DEF p, queue
    <3> QED
      BY <1>5, <1>6, <3>1
  <2>2. CASE ~empties
    <3>1. p = Output /\ queue = loop.queue
      BY <2>2
    <3> HIDE DEF p, queue
    <3> QED
      BY <1>3, <3>1 DEF SameTimers
  <2> QED
    BY <2>1, <2>2
<1>8. /\ WriteToPty(loop.result, n)
      /\ session' = [p.session EXCEPT !.closing = p.session.closing \/ eof \/ fails \/ p.raised]
      /\ history' = [history EXCEPT !.shown = p.shown, !.owed = p.owed, !.lost = p.lost,
                                    !.offered = history.offered \o loop.result,
                                    !.cut = history.cut \/ n < Len(loop.result)]
      /\ loop' = [loop EXCEPT !.pc = IF p.raised THEN "cleanup" ELSE "bridge",
                              !.telnet_task = "none", !.pty_task = "none", !.result = <<>>,
                              !.queue = queue, !.event = loop.event /\ (~empties \/ p.raised)]
  <2> HIDE DEF p, queue, eof, empties
  <2>1. /\ Put(p) = [history EXCEPT !.shown = p.shown, !.owed = p.owed, !.lost = p.lost]
        /\ Put(p).offered = history.offered /\ Put(p).cut = history.cut
    BY <1>2 DEF Put, Histories
  <2>2. [Put(p) EXCEPT !.offered = history.offered \o loop.result,
                       !.cut = history.cut \/ n < Len(loop.result)]
          = [history EXCEPT !.shown = p.shown, !.owed = p.owed, !.lost = p.lost,
                            !.offered = history.offered \o loop.result,
                            !.cut = history.cut \/ n < Len(loop.result)]
    BY <2>1
  <2> USE DEF queue
  <2> QED
    BY <1>0, <2>1, <2>2
<1> HIDE DEF p, queue, eof, empties, fails
<1>9. /\ session' \in Sessions /\ session'.fd = session.fd
      /\ session'.naws_timer = session.naws_timer /\ session'.naws_pending = session.naws_pending
      /\ session'.decoder = p.session.decoder /\ session'.output_buffer = p.session.output_buffer
  <2>1. (p.session.closing \/ eof \/ fails \/ p.raised) \in BOOLEAN
    OBVIOUS
  <2> QED
    BY <1>7, <1>8, <2>1 DEF Outs, Sessions, SameTimers
<1>10. history.offered \in Seq(Data) /\ loop.result \in Seq(Data) /\ pty.input \in Seq(Data)
       /\ history.cut \in BOOLEAN /\ Len(loop.result) \in Nat
  BY <1>2 DEF Loops, Histories, Ptys
<1>11. /\ history' \in Histories
       /\ history'.shown = p.shown /\ history'.lost = p.lost /\ history'.read = history.read
       /\ history'.taken = history.taken /\ history'.offered = history.offered \o loop.result
       /\ ~history'.cut => ~history.cut /\ n = Len(loop.result)
  <2>1. history.offered \o loop.result \in Seq(Data)
        /\ (history.cut \/ n < Len(loop.result)) \in BOOLEAN
    BY <1>10
  <2>2. history' \in Histories
    BY <1>2, <1>7, <1>8, <2>1 DEF Histories, Outs
  <2>3. /\ history'.shown = p.shown /\ history'.lost = p.lost /\ history'.read = history.read
        /\ history'.taken = history.taken /\ history'.offered = history.offered \o loop.result
    BY <1>2, <1>8 DEF Histories
  <2>4. history'.cut = (history.cut \/ n < Len(loop.result))
    BY <1>2, <1>8 DEF Histories
  <2>5. n \in 0 .. Len(loop.result)
    OBVIOUS
  <2>6. ~(n < Len(loop.result)) => n = Len(loop.result)
    BY <1>10, <2>5
  <2> QED
    BY <2>2, <2>3, <2>4, <2>6
<1>12. /\ loop' \in Loops /\ loop'.pc \in {"cleanup", "bridge"} /\ loop'.result = <<>>
       /\ loop'.telnet_task = "none" /\ loop'.queue = queue
  <2>1. (loop.event /\ (~empties \/ p.raised)) \in BOOLEAN /\ <<>> \in Seq(Data)
    OBVIOUS
  <2>2. /\ (IF p.raised THEN "cleanup" ELSE "bridge") \in {"cleanup", "bridge"}
        /\ {"cleanup", "bridge"} \subseteq Places /\ "none" \in Progress
    BY DEF Places, Reading, Bridges, Progress
  <2> QED
    BY <1>2, <1>7, <1>8, <2>1, <2>2 DEF Loops
<1>13. /\ pty' \in Ptys /\ pty'.size = pty.size
       /\ n = Len(loop.result) => pty'.input = pty.input \o loop.result
  <2>1. pty' = [pty EXCEPT !.input = pty.input \o SubSeq(loop.result, 1, n)]
    BY <1>8 DEF WriteToPty
  <2>2. SubSeq(loop.result, 1, n) \in Seq(Data)
    BY <1>0, <1>10, Cut
  <2>3. n = Len(loop.result) => SubSeq(loop.result, 1, n) = loop.result
    BY <1>10, SubSeqFull
  <2>4. pty.input \o SubSeq(loop.result, 1, n) \in Seq(Data)
    BY <1>10, <2>2
  <2> QED
    BY <1>2, <2>1, <2>3, <2>4 DEF Ptys
<1>14. Shelled'
  BY <1>1, <1>9, <1>11, <1>12, <1>13 DEF Shelled
<1>15. ReadOn'
  <2>1. Text(Output)' = Text(p)
    BY <1>9, <1>11 DEF Text, Decoding, Output
  <2>2. loop.pc \in Reading
    BY DEF Bridges, Reading
  <2> QED
    BY <1>1, <1>7, <1>11, <1>12, <2>1, <2>2 DEF ReadOn
<1>16. Reached'
  <2>1. Sent(history.offered, loop.result, client.half, client.buffer, history.taken)
    BY <1>1 DEF Reached
  <2>2. Sent(history.offered \o loop.result, <<>>, client.half, client.buffer, history.taken)
    BY <1>10, <2>1, Offered1
  <2>3. ~history'.cut => pty'.input = history'.offered
    BY <1>1, <1>11, <1>13 DEF Reached
  <2> QED
    BY <1>11, <1>12, <2>2, <2>3 DEF Reached
<1>17. Sized'
  BY <1>1, <1>9, <1>12, <1>13 DEF Sized, Bridges
<1> QED
  BY <1>7, <1>11, <1>14, <1>15, <1>16, <1>17 DEF PtyInv, read

LEMMA Moved ==
  ASSUME loop \in Loops, NEW x \in Places, loop' = [loop EXCEPT !.pc = x]
  PROVE  /\ loop' \in Loops /\ loop'.pc = x /\ loop'.queue = loop.queue
         /\ loop'.result = loop.result /\ loop'.telnet_task = loop.telnet_task
BY DEF Loops

LEMMA PtyStartKeeps == ASSUME PtyInv, start \/ run PROVE PtyInv'
<1>1. Shelled /\ ReadOn /\ Reached /\ Sized
  BY DEF PtyInv
<1>2. /\ child \in Children /\ pty \in Ptys /\ session \in Sessions /\ loop \in Loops
      /\ client.size \in Nat
  BY <1>1 DEF Shelled, Clients
<1>3. CASE start
  <2>1. /\ client' = client /\ history' = history /\ loop.pc = "info"
        /\ session' = [session EXCEPT !.fd = TRUE]
    BY <1>3 DEF start, At
  <2>2. session' \in Sessions /\ SameTimers(session, [session' EXCEPT !.fd = session.fd]) /\ session'.fd
        /\ session'.decoder = session.decoder /\ session'.output_buffer = session.output_buffer
    BY <1>2, <2>1 DEF Sessions, SameTimers
  <2>3. ~session.naws_timer /\ ~session'.naws_timer
    BY <1>1, <1>2, <2>1, <2>2 DEF Sized, SameTimers, Sessions
  <2>4. CASE /\ child' = [child EXCEPT !.state = "running"]
             /\ pty' = [pty EXCEPT !.size = client.size]
             /\ loop' = [loop EXCEPT !.pc = "started"]
    <3>1. "started" \in Places
      BY DEF Places, Reading, Before
    <3>2. /\ loop' \in Loops /\ loop'.pc = "started" /\ loop'.queue = loop.queue
          /\ loop'.result = loop.result /\ loop'.telnet_task = loop.telnet_task
      BY <1>2, <2>4, <3>1, Moved
    <3>3. child' \in Children /\ child'.state = "running"
      BY <1>2, <2>4 DEF Children
    <3>4. pty' \in Ptys /\ pty'.input = pty.input /\ pty'.size = client.size
      BY <1>2, <2>4 DEF Ptys
    <3>5. Shelled'
      BY <1>1, <2>1, <2>2, <3>2, <3>3, <3>4 DEF Shelled
    <3>6. ReadOn'
      BY <1>1, <2>1, <2>2, <3>2, ReadStays DEF Before, Reading
    <3>7. Reached'
      BY <1>1, <2>1, <3>2, <3>4 DEF Reached, Before
    <3>8. Sized'
      BY <2>1, <2>2, <2>3, <3>2, <3>4 DEF Sized
    <3> QED
      BY <3>5, <3>6, <3>7, <3>8 DEF PtyInv
  <2>5. CASE /\ child' = [child EXCEPT !.state = "zombie", !.rest = <<>>]
             /\ loop' = [loop EXCEPT !.pc = "cleanup"] /\ pty' = pty
    <3>1. "cleanup" \in Places
      BY DEF Places, Reading
    <3>2. /\ loop' \in Loops /\ loop'.pc = "cleanup" /\ loop'.queue = loop.queue
          /\ loop'.result = loop.result /\ loop'.telnet_task = loop.telnet_task
      BY <1>2, <2>5, <3>1, Moved
    <3>3. child' \in Children /\ child'.state = "zombie"
      <4>1. <<>> \in Seq(Data)
        OBVIOUS
      <4> QED
        BY <1>2, <2>5, <4>1 DEF Children
    <3>4. Shelled'
      BY <1>1, <2>1, <2>2, <2>5, <3>2, <3>3 DEF Shelled
    <3>5. Sized'
      BY <3>2 DEF Sized, Bridges
    <3>6. Reached'
      BY <1>1, <2>1, <2>5, <3>2 DEF Reached, Before
    <3>7. ReadOn'
      BY <1>1, <2>1, <2>2, <3>2, ReadStays DEF Before, Reading
    <3> QED
      BY <3>4, <3>5, <3>6, <3>7 DEF PtyInv
  <2> QED
    BY <1>3, <2>4, <2>5 DEF start, Goes
<1>4. CASE run
  <2>1. /\ client' = client /\ history' = history /\ session' = session /\ pty' = pty
        /\ loop.pc = "started"
        /\ \/ child' = [child EXCEPT !.state = "reaped"] /\ loop' = [loop EXCEPT !.pc = "cleanup"]
           \/ child' = child /\ loop' = [loop EXCEPT !.pc = "bridge"]
    BY <1>4 DEF run, At, Goes
  <2>2. "cleanup" \in Places /\ "bridge" \in Places
    BY DEF Places, Reading, Bridges
  <2>3. /\ loop' \in Loops /\ loop'.pc \in {"cleanup", "bridge"} /\ loop'.queue = loop.queue
        /\ loop'.result = loop.result /\ loop'.telnet_task = loop.telnet_task
    <3>1. CASE loop' = [loop EXCEPT !.pc = "cleanup"]
      BY <1>2, <2>2, <3>1, Moved
    <3>2. CASE loop' = [loop EXCEPT !.pc = "bridge"]
      BY <1>2, <2>2, <3>2, Moved
    <3> QED
      BY <2>1, <3>1, <3>2
  <2>4. child' \in Children /\ (child' = child \/ child'.state = "reaped")
    BY <1>2, <2>1 DEF Children
  <2>5. Shelled'
    BY <1>1, <2>1, <2>3, <2>4 DEF Shelled
  <2>6. ReadOn'
    BY <1>1, <2>1, <2>3, ReadStays DEF Before, Reading
  <2>7. Reached'
    BY <1>1, <2>1, <2>3 DEF Reached, Before
  <2>8. Sized'
    BY <1>1, <2>1, <2>3 DEF Sized
  <2> QED
    BY <2>5, <2>6, <2>7, <2>8 DEF PtyInv
<1> QED
  BY <1>3, <1>4

LEMMA TasksKeep == ASSUME PtyInv, TelnetTask \/ PtyTask \/ BridgeRound PROVE PtyInv'
<1>1. Shelled /\ ReadOn /\ Reached /\ Sized
  BY DEF PtyInv
<1>2. CASE TelnetTask /\ Encodable(client.buffer)
  <2> DEFINE d == Decoded(client.half \o client.buffer, FALSE)
  <2>1. /\ loop' = [loop EXCEPT !.telnet_task = "done", !.result = d.text]
        /\ client' = [client EXCEPT !.buffer = <<>>, !.half = d.kept] /\ loop.pc = "wait"
        /\ loop.telnet_task = "waiting"
        /\ child' = child /\ pty' = pty /\ session' = session /\ history' = history
    BY <1>2 DEF TelnetTask, At
  <2>2. /\ loop \in Loops /\ client \in Clients /\ history.offered \in Seq(Data)
        /\ client.half \in Seq(Data) /\ client.buffer \in Seq(Data)
    BY <1>1 DEF Shelled, Clients, Histories
  <2>3. /\ d.text \in Seq(Data) /\ d.kept \in Seq(Data)
        /\ d.text \o d.kept = client.half \o client.buffer
    <3>1. client.half \o client.buffer \in Seq(Data)
      BY <2>2
    <3> QED
      BY <3>1, DecodingKeeps
  <2> HIDE DEF d
  <2>4. /\ loop' \in Loops /\ loop'.queue = loop.queue /\ loop'.pc = loop.pc
        /\ loop'.result = d.text /\ loop'.telnet_task = "done"
    BY <2>1, <2>2, <2>3 DEF Loops, Progress
  <2>5. client' \in Clients /\ client'.buffer = <<>> /\ client'.half = d.kept
        /\ client'.size = client.size
    <3>1. <<>> \in Seq(Data)
      OBVIOUS
    <3> QED
      BY <2>1, <2>2, <2>3, <3>1 DEF Clients
  <2>6. Shelled'
    BY <1>1, <2>1, <2>4, <2>5 DEF Shelled
  <2>7. ReadOn'
    BY <1>1, <2>1, <2>4, ReadStays
  <2>8. Sized'
    BY <1>1, <2>1, <2>4, <2>5 DEF Sized
  <2>9. Sent(history.offered, d.text, d.kept, <<>>, history.taken)
    <3> DEFINE h == history.offered
               b == client.half \o client.buffer
    <3>1. ((h \o <<>>) \o client.half) \o client.buffer = history.taken
      BY <1>1, <2>1 DEF Reached, Sent
    <3>2. h \o <<>> = h /\ (h \o client.half) \o client.buffer = h \o b
      <4> DEFINE x == client.half
                 y == client.buffer
      <4>1. h \in Seq(Data) /\ x \in Seq(Data) /\ y \in Seq(Data)
        BY <2>2
      <4> HIDE DEF h, x, y
      <4>2. h \o <<>> = h
        BY <4>1
      <4>3. (h \o x) \o y = h \o (x \o y)
        BY <4>1, DataRegrouped
      <4> QED
        BY <4>2, <4>3 DEF x, y
    <3>3. (h \o d.text) \o d.kept = h \o (d.text \o d.kept)
      BY <2>2, <2>3, DataRegrouped
    <3>4. (h \o d.text) \o d.kept = history.taken
      BY <2>3, <3>1, <3>2, <3>3
    <3>5. (h \o d.text) \o d.kept \in Seq(Data)
      BY <2>2, <2>3
    <3>6. ((h \o d.text) \o d.kept) \o <<>> = (h \o d.text) \o d.kept
      BY <3>5
    <3> QED
      BY <3>4, <3>6 DEF Sent
  <2>10. Reached'
    BY <1>1, <2>1, <2>4, <2>5, <2>9 DEF Reached, Before
  <2> QED
    BY <2>6, <2>7, <2>8, <2>10 DEF PtyInv
<1>5. CASE TelnetTask /\ ~Encodable(client.buffer)
  <2>1. /\ loop' = [loop EXCEPT !.telnet_task = "done"] /\ client' = client
        /\ loop.pc = "wait"
        /\ child' = child /\ pty' = pty /\ session' = session /\ history' = history
    BY <1>5 DEF TelnetTask, At
  <2>2. /\ loop' \in Loops /\ loop'.queue = loop.queue /\ loop'.pc = loop.pc
        /\ loop'.result = loop.result /\ loop'.telnet_task = "done"
    BY <1>1, <2>1 DEF Shelled, Loops, Progress
  <2>3. Shelled'
    BY <1>1, <2>1, <2>2 DEF Shelled
  <2>4. ReadOn'
    BY <1>1, <2>1, <2>2, ReadStays
  <2>5. Reached' /\ Sized'
    BY <1>1, <2>1, <2>2 DEF Reached, Sized, Before
  <2> QED
    BY <2>3, <2>4, <2>5 DEF PtyInv
<1>3. CASE PtyTask
  <2>1. /\ loop' = [loop EXCEPT !.pty_task = "done"] /\ client' = client
        /\ child' = child /\ pty' = pty /\ session' = session /\ history' = history
    BY <1>3 DEF PtyTask
  <2>2. Shelled'
    BY <1>1, <2>1 DEF Shelled, Loops, Progress
  <2>3. loop'.queue = loop.queue /\ loop'.pc = loop.pc /\ loop'.telnet_task = loop.telnet_task
        /\ loop'.result = loop.result
    BY <1>1, <2>1 DEF Shelled
  <2>4. ReadOn'
    BY <1>1, <2>1, <2>3, ReadStays
  <2>5. Reached' /\ Sized'
    BY <1>1, <2>1, <2>3 DEF Reached, Sized
  <2> QED
    BY <2>2, <2>4, <2>5 DEF PtyInv
<1>4. CASE BridgeRound
  <2>1. /\ \/ loop' = [loop EXCEPT !.pc = "cleanup"]
           \/ loop' = [loop EXCEPT !.pc = "wait", !.telnet_task = "waiting", !.pty_task = "waiting"]
        /\ loop.pc = "bridge" /\ client' = client
        /\ child' = child /\ pty' = pty /\ session' = session /\ history' = history
    BY <1>4 DEF BridgeRound, At, Goes
  <2>2. Shelled'
    BY <1>1, <2>1 DEF Shelled, Loops, Progress, Places, Reading, Bridges
  <2>3. ReadOn'
    <3>1. loop'.queue = loop.queue /\ loop.pc \in Reading
      BY <1>1, <2>1 DEF Shelled, Loops, Bridges, Reading
    <3> QED
      BY <1>1, <2>1, <3>1, ReadStays
  <2>4. Reached' /\ Sized'
    BY <1>1, <2>1 DEF Shelled, Loops, Reached, Sized, Before, Bridges
  <2> QED
    BY <2>2, <2>3, <2>4 DEF PtyInv
<1> QED
  BY <1>2, <1>3, <1>4, <1>5

LEMMA TimersKeep ==
  ASSUME PtyInv, loop.pc \in Bridges \cup {"info", "over"}, _fire_ga \/ _fire_naws_update
  PROVE  PtyInv' /\ history'.shown = history.shown
<1>1. Shelled /\ ReadOn /\ Reached /\ Sized
  BY DEF PtyInv
<1>2. CASE _fire_ga
  <2>1. /\ session' = [session EXCEPT !.ga_timer = FALSE]
        /\ history' = [history EXCEPT !.owed = history.owed /\ client.closed]
        /\ child' = child /\ pty' = pty /\ loop' = loop /\ client' = client
    BY <1>2 DEF _fire_ga
  <2>2. /\ history' \in Histories
        /\ history'.shown = history.shown /\ history'.lost = history.lost
        /\ history'.read = history.read /\ history'.taken = history.taken
        /\ history'.offered = history.offered /\ history'.cut = history.cut
    <3>1. (history.owed /\ client.closed) \in BOOLEAN
      OBVIOUS
    <3> QED
      BY <1>1, <2>1, <3>1 DEF Shelled, Histories
  <2>3. session' \in Sessions /\ SameTimers(session, session')
        /\ session'.decoder = session.decoder /\ session'.output_buffer = session.output_buffer
    BY <1>1, <2>1 DEF Shelled, Sessions, SameTimers
  <2>4. Shelled'
    BY <1>1, <2>1, <2>2, <2>3 DEF Shelled
  <2>5. ReadOn'
    BY <1>1, <2>1, <2>2, <2>3, ReadStays
  <2>6. Reached' /\ Sized'
    BY <1>1, <2>1, <2>2, <2>3 DEF Reached, Sized, SameTimers
  <2> QED
    BY <2>2, <2>4, <2>5, <2>6 DEF PtyInv
<1>3. CASE _fire_naws_update
  <2>1. /\ session' = [session EXCEPT !.naws_timer = FALSE, !.naws_pending = 0]
        /\ pty' = IF session.fd THEN [pty EXCEPT !.size = session.naws_pending] ELSE pty
        /\ session.naws_timer
        /\ child' = child /\ history' = history /\ loop' = loop /\ client' = client
    BY <1>3 DEF _fire_naws_update
  <2>2. session' \in Sessions /\ session'.fd = session.fd /\ ~session'.naws_timer
        /\ session'.decoder = session.decoder /\ session'.output_buffer = session.output_buffer
    BY <1>1, <2>1 DEF Shelled, Sessions
  <2>3. pty' \in Ptys /\ pty'.input = pty.input
        /\ (session.fd => pty'.size = session.naws_pending)
    BY <1>1, <2>1 DEF Shelled, Ptys, Sessions
  <2>4. Shelled'
    BY <1>1, <2>1, <2>2, <2>3 DEF Shelled, Ptys
  <2>5. ReadOn'
    BY <1>1, <2>1, <2>2, ReadStays
  <2>6. Reached' /\ Sized'
    BY <1>1, <2>1, <2>2, <2>3 DEF Reached, Sized
  <2> QED
    BY <2>1, <2>4, <2>5, <2>6 DEF PtyInv
<1> QED
  BY <1>2, <1>3

LEMMA EndKeeps ==
  ASSUME PtyInv, cleanup \/ _terminate \/ Slept
  PROVE  PtyInv' /\ (session'.fd => history'.shown = history.shown)
<1>1. Shelled /\ ReadOn /\ Reached /\ Sized
  BY DEF PtyInv
<1>2. CASE cleanup
  <2> DEFINE quiet == [Output EXCEPT !.session.ga_timer = FALSE, !.session.naws_timer = FALSE,
                                     !.session.naws_pending = 0]
             o == _flush_output(quiet, session.output_buffer, TRUE)
  <2>1. /\ history' = Put(o)
        /\ \/ /\ o.raised
              /\ session' = o.session
              /\ loop' = [loop EXCEPT !.pc = "raised"]
           \/ /\ ~o.raised
              /\ session' = [o.session EXCEPT !.output_buffer = <<>>, !.fd = FALSE]
              /\ loop' = [loop EXCEPT !.pc = "terminate", !.signals = Signals]
        /\ loop.pc = "cleanup" /\ child' = child /\ pty' = pty /\ client' = client
    BY <1>2 DEF cleanup, At, Goes
  <2>2. Output \in Outs /\ session.output_buffer \in Seq(Data) /\ ~Output.raised
    BY <1>1, OutputOf DEF Shelled, Sessions
  <2>3. /\ quiet \in Outs /\ ~quiet.raised /\ quiet.shown = Output.shown
        /\ quiet.lost = Output.lost /\ Text(quiet) = Text(Output)
    BY <2>2 DEF Outs, Sessions, Text, Decoding
  <2> HIDE DEF quiet
  <2>4. o \in Outs /\ (o.raised => o = [quiet EXCEPT !.raised = TRUE])
    BY <2>2, <2>3, Flushed
  <2> HIDE DEF o
  <2>5. session' \in Sessions /\ (~o.raised => ~session'.fd)
    <3>1. <<>> \in Seq(Data)
      OBVIOUS
    <3> QED
      BY <2>1, <2>4, <3>1 DEF Outs, Sessions
  <2>6. /\ history' \in Histories /\ history'.shown = o.shown /\ history'.lost = o.lost
        /\ history'.taken = history.taken /\ history'.offered = history.offered
        /\ history'.cut = history.cut /\ history'.read = history.read
    BY <1>1, <2>1, <2>4 DEF Outs, Shelled, Histories, Put
  <2>7. /\ loop' \in Loops
        /\ loop'.pc \in {"raised", "terminate"} /\ loop'.telnet_task = loop.telnet_task
        /\ loop'.result = loop.result /\ loop'.queue = loop.queue
        /\ loop'.pc = "raised" => o.raised
    <3>1. Signals \in Seq({"HUP", "CONT", "INT", "KILL"}) /\ {"raised", "terminate"} \subseteq Places
      BY DEF Signals, Places, Reading
    <3>2. loop \in Loops
      BY <1>1 DEF Shelled
    <3>3. CASE o.raised /\ loop' = [loop EXCEPT !.pc = "raised"]
      BY <3>1, <3>2, <3>3, Moved
    <3>4. CASE ~o.raised /\ loop' = [loop EXCEPT !.pc = "terminate", !.signals = Signals]
      BY <3>1, <3>2, <3>4 DEF Loops
    <3> QED
      BY <2>1, <3>3, <3>4
  <2>8. Shelled'
    BY <1>1, <2>1, <2>5, <2>6, <2>7 DEF Shelled
  <2>9. Sized'
    BY <2>7 DEF Sized, Bridges
  <2>10. Reached'
    BY <1>1, <2>1, <2>6, <2>7 DEF Reached, Before
  <2>11. o.raised => /\ session' = quiet.session /\ history'.shown = history.shown
                     /\ history'.lost = history.lost
    <3>1. Output.shown = history.shown /\ Output.lost = history.lost
      BY DEF Output
    <3>2. o.raised => o.session = quiet.session /\ o.shown = quiet.shown /\ o.lost = quiet.lost
      BY <2>3, <2>4 DEF Outs
    <3> QED
      BY <2>1, <2>3, <2>6, <3>1, <3>2
  <2>12. ReadOn'
    <3> SUFFICES ASSUME loop'.pc = "raised", history'.lost = <<>>
                 PROVE  Text(Output)' \o Joined(loop'.queue) = history'.read
      BY <2>7 DEF ReadOn, Reading, Before, Bridges
    <3>1. Text(Output)' = Text(quiet)
      BY <2>3, <2>7, <2>11 DEF Text, Decoding, Output
    <3>2. "cleanup" \in Reading
      BY DEF Reading
    <3> QED
      BY <1>1, <2>1, <2>3, <2>6, <2>7, <2>11, <3>1, <3>2 DEF ReadOn
  <2> QED
    BY <2>5, <2>8, <2>9, <2>10, <2>11, <2>12 DEF PtyInv
<1>3. CASE _terminate \/ Slept
  <2>1. /\ loop.pc \in {"terminate", "sleep"} /\ session' = session /\ history' = history /\ pty' = pty
        /\ child' = child \/ (child' = [child EXCEPT !.state = "reaped"] /\ child.state # "running")
        /\ client' = client \/ client' = [client EXCEPT !.closed = TRUE, !.eof = TRUE]
        /\ \/ loop.signals # <<>> /\ loop' = [loop EXCEPT !.signals = Tail(loop.signals), !.pc = "sleep"]
           \/ loop' = [loop EXCEPT !.pc = "over"]
           \/ loop' = [loop EXCEPT !.pc = "terminate"]
    BY <1>3 DEF _terminate, Slept, At, Goes, _isalive, Reaped
  <2>2. /\ loop' \in Loops
        /\ loop'.pc \in {"terminate", "sleep", "over"} /\ loop'.telnet_task = loop.telnet_task
        /\ loop'.result = loop.result
    <3>1. loop \in Loops /\ {"terminate", "sleep", "over"} \subseteq Places
      BY <1>1 DEF Shelled, Places
    <3>2. CASE loop' = [loop EXCEPT !.pc = "over"] \/ loop' = [loop EXCEPT !.pc = "terminate"]
      BY <3>1, <3>2 DEF Loops
    <3>3. CASE loop.signals # <<>> /\ loop' = [loop EXCEPT !.signals = Tail(loop.signals), !.pc = "sleep"]
      <4>1. Tail(loop.signals) \in Seq({"HUP", "CONT", "INT", "KILL"})
        BY <3>1, <3>3, HeadTailProperties DEF Loops
      <4> QED
        BY <3>1, <3>3, <4>1 DEF Loops
    <3> QED
      BY <2>1, <3>2, <3>3
  <2>3. client' \in Clients /\ client'.buffer = client.buffer /\ client'.half = client.half
    <3>1. client \in Clients
      BY <1>1 DEF Shelled
    <3> QED
      BY <2>1, <3>1 DEF Clients
  <2>4. /\ child' \in Children
        /\ child'.state = child.state \/ child'.state = "reaped"
    BY <1>1, <2>1 DEF Shelled, Children
  <2>5. Shelled'
    BY <1>1, <2>1, <2>2, <2>3, <2>4 DEF Shelled, Children
  <2>6. ReadOn' /\ Sized'
    BY <2>2 DEF ReadOn, Sized, Reading, Before, Bridges
  <2>7. Reached'
    BY <1>1, <2>1, <2>2, <2>3 DEF Reached, Before
  <2> QED
    BY <2>1, <2>5, <2>6, <2>7 DEF PtyInv
<1> QED
  BY <1>2, <1>3

LEMMA EnvironmentKeeps ==
  ASSUME PtyInv,
         ProgramWrites \/ ProgramEnds \/ ClientSends \/ ClientResizes \/ ClientLeaves
  PROVE  PtyInv' /\ history'.shown = history.shown
<1>1. Shelled /\ ReadOn /\ Reached /\ Sized
  BY DEF PtyInv
<1>2. /\ child \in Children /\ pty \in Ptys /\ session \in Sessions /\ loop \in Loops
      /\ client \in Clients /\ history \in Histories
  BY <1>1 DEF Shelled
<1>3. CASE ProgramWrites
  <2>1. /\ pty' = [pty EXCEPT !.output = Append(pty.output, Head(child.rest))]
        /\ child' = [child EXCEPT !.rest = Tail(child.rest)] /\ child.rest # <<>>
        /\ session' = session /\ loop' = loop /\ client' = client /\ history' = history
    BY <1>3 DEF ProgramWrites
  <2>2. child.rest \in Seq(Data) /\ pty.output \in Seq(Data)
    BY <1>2 DEF Children, Ptys
  <2>3. Append(pty.output, Head(child.rest)) \in Seq(Data) /\ Tail(child.rest) \in Seq(Data)
    BY <2>1, <2>2, HeadTailProperties, AppendProperties
  <2>4. pty' \in Ptys /\ pty'.input = pty.input /\ pty'.size = pty.size
    BY <1>2, <2>1, <2>3 DEF Ptys
  <2>5. child' \in Children /\ child'.state = child.state
    BY <1>2, <2>1, <2>3 DEF Children
  <2>6. Shelled'
    BY <1>1, <2>1, <2>4, <2>5 DEF Shelled
  <2>7. ReadOn' /\ Reached' /\ Sized'
    BY <1>1, <2>1, <2>4, <2>5, ReadStays DEF Reached, Sized
  <2> QED
    BY <2>1, <2>6, <2>7 DEF PtyInv
<1>4. CASE ProgramEnds
  <2>1. /\ child' = [child EXCEPT !.state = "zombie", !.rest = <<>>] /\ child.state = "running"
        /\ pty' = pty /\ session' = session /\ loop' = loop /\ client' = client /\ history' = history
    BY <1>4 DEF ProgramEnds
  <2>2. child' \in Children /\ child'.state = "zombie"
    <3>1. <<>> \in Seq(Data)
      OBVIOUS
    <3> QED
      BY <1>2, <2>1, <3>1 DEF Children
  <2>3. Shelled'
    BY <1>1, <2>1, <2>2 DEF Shelled
  <2>4. ReadOn' /\ Reached' /\ Sized'
    BY <1>1, <2>1, <2>2, ReadStays DEF Reached, Sized
  <2> QED
    BY <2>1, <2>3, <2>4 DEF PtyInv
<1>5. CASE ClientSends
  <2> DEFINE x == Head(client.rest)
  <2>1. /\ client' = [client EXCEPT !.buffer = Append(client.buffer, x), !.rest = Tail(client.rest)]
        /\ history' = [history EXCEPT !.taken = Append(history.taken, x)] /\ client.rest # <<>>
        /\ pty' = pty /\ session' = session /\ loop' = loop /\ child' = child
    BY <1>5 DEF ClientSends
  <2>2. client.rest \in Seq(Data) /\ client.buffer \in Seq(Data) /\ history.taken \in Seq(Data)
    BY <1>2 DEF Clients, Histories
  <2>3. x \in Data /\ Tail(client.rest) \in Seq(Data)
    BY <2>1, <2>2, HeadTailProperties
  <2> HIDE DEF x
  <2>4. Append(client.buffer, x) \in Seq(Data) /\ Append(history.taken, x) \in Seq(Data)
    BY <2>2, <2>3, AppendProperties
  <2>5. /\ client' \in Clients /\ client'.buffer = Append(client.buffer, x)
        /\ client'.size = client.size /\ client'.half = client.half
    BY <1>2, <2>1, <2>3, <2>4 DEF Clients
  <2>6. /\ history' \in Histories /\ history'.taken = Append(history.taken, x)
        /\ history'.shown = history.shown /\ history'.lost = history.lost
        /\ history'.read = history.read /\ history'.offered = history.offered
        /\ history'.cut = history.cut
    BY <1>2, <2>1, <2>4 DEF Histories
  <2>7. Shelled'
    BY <1>1, <2>1, <2>5, <2>6 DEF Shelled
  <2>8. ReadOn'
    BY <1>1, <2>1, <2>6, ReadStays
  <2>9. Sized'
    BY <1>1, <2>1, <2>5 DEF Sized
  <2>10. Reached'
    <3> DEFINE u == (history.offered \o loop.result) \o client.half
    <3>1. u \in Seq(Data)
      BY <1>2 DEF Loops, Histories, Clients
    <3>2. u \o client.buffer = history.taken
      BY <1>1 DEF Reached, Sent
    <3> HIDE DEF u
    <3>3. u \o Append(client.buffer, x) = Append(u \o client.buffer, x)
      BY <2>2, <2>3, <3>1
    <3>4. Sent(history'.offered, loop'.result, client'.half, client'.buffer, history'.taken)
      BY <2>1, <2>5, <2>6, <3>2, <3>3 DEF Sent, u
    <3> QED
      BY <1>1, <2>1, <2>6, <3>4 DEF Reached
  <2> QED
    BY <2>6, <2>7, <2>8, <2>9, <2>10 DEF PtyInv
<1>6. CASE ClientResizes
  <2>1. /\ client' = [client EXCEPT !.size = client.size + 1, !.resizes = client.resizes + 1]
        /\ session' = IF loop.pc = "info" THEN session ELSE _on_naws(session, client.size + 1)
        /\ loop.pc \in Bridges \cup {"info"}
        /\ pty' = pty /\ loop' = loop /\ child' = child /\ history' = history
    BY <1>6 DEF ClientResizes, Running, Bridging, Bridges, At
  <2>2. client' \in Clients /\ client'.buffer = client.buffer /\ client'.size = client.size + 1
        /\ client'.half = client.half
    <3>1. client.size + 1 \in Nat /\ client.resizes + 1 \in Nat
      BY <1>2 DEF Clients
    <3> QED
      BY <1>2, <2>1, <3>1 DEF Clients
  <2>3. client.size + 1 \in Nat
    BY <1>2 DEF Clients
  <2>4. /\ session' \in Sessions /\ session'.fd = session.fd
        /\ session'.decoder = session.decoder /\ session'.output_buffer = session.output_buffer
        /\ loop.pc # "info" => session'.naws_timer /\ session'.naws_pending = client.size + 1
    BY <1>2, <2>1, <2>3 DEF Sessions, _on_naws
  <2>5. Shelled'
    BY <1>1, <2>1, <2>2, <2>4 DEF Shelled
  <2>6. ReadOn'
    BY <1>1, <2>1, <2>4, ReadStays
  <2>7. Reached'
    BY <1>1, <2>1, <2>2 DEF Reached
  <2>8. Sized'
    BY <1>1, <2>1, <2>2, <2>4 DEF Sized, Bridges
  <2> QED
    BY <2>1, <2>5, <2>6, <2>7, <2>8 DEF PtyInv
<1>7. CASE ClientLeaves
  <2>1. /\ client' = [client EXCEPT !.eof = TRUE, !.closed = TRUE]
        /\ pty' = pty /\ session' = session /\ loop' = loop /\ child' = child /\ history' = history
    BY <1>7 DEF ClientLeaves
  <2>2. client' \in Clients /\ client'.buffer = client.buffer /\ client'.size = client.size
        /\ client'.half = client.half
    BY <1>2, <2>1 DEF Clients
  <2>3. Shelled'
    BY <1>1, <2>1, <2>2 DEF Shelled
  <2>4. ReadOn' /\ Reached' /\ Sized'
    BY <1>1, <2>1, <2>2, ReadStays DEF Reached, Sized
  <2> QED
    BY <2>1, <2>3, <2>4 DEF PtyInv
<1> QED
  BY <1>3, <1>4, <1>5, <1>6, <1>7

\* A step keeps the invariant, and an update that is neither over nor too long.
LEMMA PtyStep ==
  ASSUME PtyInv, [PNext]_pvars
  PROVE  /\ PtyInv'
         /\ session'.fd /\ InUpdate(Output, session.output_buffer \o Joined(loop.queue))
              => history'.shown = history.shown
<1>1. CASE start \/ run
  <2>1. history' = history
    BY <1>1 DEF start, run
  <2> QED
    BY <1>1, <2>1, PtyStartKeeps
<1>2. CASE pty_readable
  <2>1. history'.shown = history.shown
    BY <1>2 DEF pty_readable, PtyInv, Shelled, Histories
  <2> QED
    BY <1>2, <2>1, ReadableKeeps
<1>3. CASE TelnetTask \/ PtyTask \/ BridgeRound
  <2>1. history' = history
    BY <1>3 DEF TelnetTask, PtyTask, BridgeRound
  <2> QED
    BY <1>3, <2>1, TasksKeep
<1>4. CASE BridgeWakes \/ BridgeProcesses
  <2>1. CASE Process /\ loop.pc \in {"wait", "cancelling"}
    BY <1>4, <2>1, ProcessKeeps DEF BridgeWakes, BridgeProcesses
  <2>2. CASE loop.pc = "wait" /\ loop' = [loop EXCEPT !.pc = "cancelling"]
             /\ UNCHANGED <<pty, session, history>>
    <3>1. child' = child /\ client' = client
      BY <1>4 DEF BridgeWakes, BridgeProcesses
    <3>2. Shelled /\ ReadOn /\ Reached /\ Sized /\ loop \in Loops
      BY DEF PtyInv, Shelled
    <3>3. "cancelling" \in Places
      BY DEF Places, Reading, Bridges
    <3>4. /\ loop' \in Loops /\ loop'.pc = "cancelling" /\ loop'.queue = loop.queue
          /\ loop'.result = loop.result /\ loop'.telnet_task = loop.telnet_task
      BY <2>2, <3>2, <3>3, Moved
    <3>5. Shelled'
      BY <2>2, <3>1, <3>2, <3>4 DEF Shelled
    <3>6. ReadOn'
      BY <2>2, <3>2, <3>4, ReadStays DEF Bridges, Reading
    <3>7. Reached' /\ Sized'
      BY <2>2, <3>1, <3>2, <3>4 DEF Reached, Sized, Before, Bridges
    <3> QED
      BY <2>2, <3>5, <3>6, <3>7 DEF PtyInv
  <2> QED
    BY <1>4, <2>1, <2>2 DEF BridgeWakes, BridgeProcesses, At
<1>5. CASE (Running \/ At("over")) /\ (_fire_ga \/ _fire_naws_update)
  <2>1. loop.pc \in Bridges \cup {"info", "over"}
    BY <1>5 DEF Running, Bridging, At, Bridges
  <2> QED
    BY <1>5, <2>1, TimersKeep
<1>6. CASE cleanup \/ _terminate \/ Slept
  BY <1>6, EndKeeps
<1>7. CASE ProgramWrites \/ ProgramEnds \/ ClientSends \/ ClientResizes \/ ClientLeaves
  BY <1>7, EnvironmentKeeps
<1>8. CASE UNCHANGED pvars
  BY <1>8 DEF pvars, PtyInv, Shelled, ReadOn, Text, Decoding, Output, Reached, Sized
<1> QED
  BY <1>1, <1>2, <1>3, <1>4, <1>5, <1>6, <1>7, <1>8 DEF PNext, Shell

\* Every byte read from the PTY is shown, decoded, buffered or queued in its turn,
\* also when an output raises, and every byte of the client has been offered to
\* the program or waits; what was offered has reached it if the PTY took all of it
\* (_bridge_loop).
THEOREM NothingLostHolds == PSpec => []NothingLost
<1>1. ASSUME PtyInv PROVE NothingLost
  <2>1. Shelled /\ ReadOn /\ Reached
    BY <1>1 DEF PtyInv
  <2>2. Bridging \/ At("cleanup") \/ At("raised") => loop.pc \in Reading
    BY DEF Bridging, Bridges, At, Reading
  <2> QED
    BY <2>1, <2>2 DEF NothingLost, ReadOn, Reached, Sent, Text, Decoding, Output
<1> QED
  BY <1>1, PtyInvInit, PtyStep, PTL DEF PSpec

\* The PTY has the client's last window size or the timer that will set it runs
\* (_on_naws, _fire_naws_update): the first half of TimersServe.
THEOREM SizeFollowsAlways == PSpec => []SizeFollows
<1>1. PtyInv => SizeFollows
  BY DEF PtyInv, Sized, SizeFollows, Bridging, Bridges
<1> QED
  BY <1>1, PtyInvInit, PtyStep, PTL DEF PSpec

LEMMA Short ==
  ASSUME PtyInv
  PROVE  LET read == session.output_buffer \o Joined(loop.queue) IN
         Len(read) <= max_batch \/ Len(read) > max_batch
<1> DEFINE read == session.output_buffer \o Joined(loop.queue)
<1>1. session \in Sessions /\ loop \in Loops
  BY DEF PtyInv, Shelled
<1>2. session.output_buffer \in Seq(Data) /\ loop.queue \in Chunks
  BY <1>1 DEF Sessions, Loops
<1>3. Joined(loop.queue) \in Seq(Data)
  <2>1. <<>> \in Seq(Data)
    OBVIOUS
  <2> QED
    BY <1>2, <2>1, JoinedFront
<1>4. read \in Seq(Data)
  BY <1>2, <1>3
<1> HIDE DEF read
<1>5. Len(read) \in Nat
  BY <1>4
<1>6. Len(read) <= max_batch \/ Len(read) > max_batch
  BY <1>5, PtyAssumption
<1> QED
  BY <1>6 DEF read

\* Nothing of a synchronized update is shown before its end, or it is too long
\* (_write_to_telnet, _flush_remaining).
THEOREM UpdatesHeldHolds == PSpec => UpdatesHeld
<1>1. ASSUME PtyInv, [PNext]_pvars
      PROVE  [LET read == session.output_buffer \o Joined(loop.queue) IN
              session.in_sync_update /\ session'.fd /\ Find(read, "e1", "e2") = {}
                => history'.shown = history.shown \/ Len(read) > max_batch]_pvars
  <2>1. Output.session = session
    BY DEF Output
  <2> QED
    BY <1>1, <2>1, Short, PtyStep DEF InUpdate
<1> QED
  BY <1>1, PtyInvInit, PtyStep, PTL DEF PSpec, UpdatesHeld

=============================================================================
