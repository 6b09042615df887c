-------------------------- MODULE SyncBridgeProofs --------------------------
(***************************************************************************)
(* WritesKept and ReleasedByClose, for any calls and numbers of tasks and  *)
(* writes.                                                                 *)
(*                                                                         *)
(* The handles of the writes are in the loop's ready list in the order of  *)
(* the calls, and behind none that closes the writer (Queue); a server's   *)
(* handler has first set _closed, and only when it is in no call           *)
(* (Closing); a client's writer is closed by a clean-up (CleanedUp).  For  *)
(* the calls that a closing releases, the second part relates each task to *)
(* its handles: see RInv.                                                  *)
(***************************************************************************)
EXTENDS SyncBridge, TelnetReaderProofs

(***************************************************************************)
(* Lists of anything.                                                      *)
(***************************************************************************)
IsList(q) == \E S : q \in Seq(S)

LEMMA ListsTogether ==
  ASSUME NEW q, NEW s, IsList(q), IsList(s)
  PROVE  /\ IsList(q \o s) /\ Len(q) \in Nat /\ Len(s) \in Nat
         /\ DOMAIN q = 1 .. Len(q) /\ DOMAIN s = 1 .. Len(s)
         /\ Len(q \o s) = Len(q) + Len(s) /\ DOMAIN (q \o s) = 1 .. Len(q) + Len(s)
         /\ \A i \in 1 .. Len(q) + Len(s) :
              (q \o s)[i] = IF i <= Len(q) THEN q[i] ELSE s[i - Len(q)]
<1>1. PICK S : q \in Seq(S)
  BY DEF IsList
<1>2. PICK T : s \in Seq(T)
  BY DEF IsList
<1> DEFINE U == S \cup T
<1>3. S \subseteq U /\ T \subseteq U
  OBVIOUS
<1> HIDE DEF U
<1>4. q \in Seq(U) /\ s \in Seq(U)
  BY <1>1, <1>2, <1>3, SeqMonotonic
<1> QED
  BY <1>4, ConcatProperties, LenProperties DEF IsList

LEMMA ListTail ==
  ASSUME NEW q, IsList(q), q # <<>>
  PROVE  /\ IsList(Tail(q)) /\ Len(q) \in Nat \ {0} /\ Head(q) = q[1]
         /\ DOMAIN q = 1 .. Len(q) /\ DOMAIN Tail(q) = 1 .. Len(q) - 1
         /\ \A i \in 1 .. Len(q) - 1 : Tail(q)[i] = q[i + 1]
<1>1. PICK S : q \in Seq(S)
  BY DEF IsList
<1>2. Len(q) \in Nat \ {0}
  BY <1>1, EmptySeq
<1>3. Tail(q) \in Seq(S) /\ Len(Tail(q)) = Len(q) - 1
  BY <1>1, HeadTailProperties
<1> QED
  BY <1>1, <1>2, <1>3, HeadTailProperties, LenProperties DEF IsList

LEMMA ListAppend ==
  ASSUME NEW q, IsList(q), NEW x
  PROVE  Append(q, x) = q \o <<x>> /\ IsList(<<x>>) /\ <<x>>[1] = x /\ Len(<<x>>) = 1
<1>1. PICK S : q \in Seq(S)
  BY DEF IsList
<1> DEFINE U == S \cup {x}
<1>2. S \subseteq U /\ x \in U
  OBVIOUS
<1>3. <<x>> \in Seq(U)
  BY <1>2
<1> HIDE DEF U
<1>4. q \in Seq(U)
  BY <1>1, <1>2, SeqMonotonic
<1> QED
  BY <1>2, <1>3, <1>4, AppendIsConcat DEF IsList

\* A list some of whose elements have changed.
LEMMA ListChanged ==
  ASSUME NEW q, IsList(q), NEW r, DOMAIN r = DOMAIN q, r = [i \in DOMAIN r |-> r[i]]
  PROVE  IsList(r) /\ Len(r) = Len(q)
<1>1. Len(q) \in Nat /\ DOMAIN q = 1 .. Len(q)
  BY LenProperties DEF IsList
<1> DEFINE U == {r[i] : i \in DOMAIN r}
<1>2. r \in [1 .. Len(q) -> U]
  BY <1>1
<1> HIDE DEF U
<1>3. r \in Seq(U)
  BY <1>1, <1>2, SeqDef
<1> QED
  BY <1>1, <1>3, LenProperties DEF IsList

LEMMA SetAsList ==
  ASSUME NEW S, IsFiniteSet(S)
  PROVE  IsList(SetToSeq(S)) /\ \A i \in DOMAIN SetToSeq(S) : SetToSeq(S)[i] \in S
<1> DEFINE n == Cardinality(S)
           f == SetToSeq(S)
<1>1. n \in Nat /\ ExistsBijection(1 .. n, S)
  BY FS_CardinalityType
<1>2. PICK g \in Bijection(1 .. n, S) : TRUE
  BY <1>1 DEF ExistsBijection
<1>3. g \in [1 .. n -> S] /\ IsInjective(g)
  BY <1>2 DEF Bijection, Injection, IsInjective
<1>4. f \in [1 .. n -> S]
  BY <1>3 DEF SetToSeq
<1> HIDE DEF f
<1>5. f \in Seq(S)
  BY <1>1, <1>4, SeqDef
<1> QED
  BY <1>4, <1>5 DEF IsList, f

LEMMA HandlesOf ==
  ASSUME NEW name, NEW ks, IsFiniteSet(ks)
  PROVE  /\ IsList(SetToSeq({H(name, k) : k \in ks}))
         /\ \A i \in DOMAIN SetToSeq({H(name, k) : k \in ks}) :
              /\ SetToSeq({H(name, k) : k \in ks})[i].name = name
              /\ SetToSeq({H(name, k) : k \in ks})[i].k \in ks
<1> DEFINE T == {H(name, k) : k \in ks}
           f == [k \in ks |-> H(name, k)]
<1>1. f \in Surjection(ks, T)
  BY DEF Surjection
<1>2. \A h \in T : h.name = name /\ h.k \in ks
  BY DEF H
<1> HIDE DEF T, f
<1>3. IsFiniteSet(T)
  BY <1>1, FS_Surjection
<1>4. IsList(SetToSeq(T)) /\ \A i \in DOMAIN SetToSeq(T) : SetToSeq(T)[i] \in T
  BY <1>3, SetAsList
<1>5. /\ IsList(SetToSeq(T))
      /\ \A i \in DOMAIN SetToSeq(T) : SetToSeq(T)[i].name = name /\ SetToSeq(T)[i].k \in ks
  BY <1>2, <1>4
<1> QED
  BY <1>5 DEF T

(***************************************************************************)
(* The ready list.                                                         *)
(***************************************************************************)
Plain(name) == name \notin {"write", "wclose"}
Tasked(name) == name \in {"start", "step"}
Quiet(s, ts) ==
  IsList(s) /\ \A i \in DOMAIN s : Plain(s[i].name) /\ (Tasked(s[i].name) => s[i].k \in ts)

Written == {"called", "sent", "ignored"}

\* The writes that are called and not done have each a handle, in their order,
\* and behind none that closes the writer.  When the writer is shut there is
\* none left; and only when its handler may have closed it is there one that
\* closes.  The handles of tasks are those of tasks there are.
Queue(q, w, shut, may, ts) ==
  /\ IsList(q) /\ w \in Seq(Written)
  /\ \A i \in DOMAIN q : q[i].name = "write" => q[i].k \in DOMAIN w /\ w[q[i].k] = "called"
  /\ \A i, j \in DOMAIN q : q[i].name = "write" /\ q[j].name = "write" /\ i < j => q[i].k < q[j].k
  /\ \A k \in DOMAIN w : w[k] = "called" => \E i \in DOMAIN q : q[i] = H("write", k)
  /\ \A i, j \in DOMAIN q : q[i].name = "wclose" /\ i < j => q[j].name # "write"
  /\ shut => \A i \in DOMAIN q : q[i].name # "write"
  /\ ~may => \A i \in DOMAIN q : q[i].name # "wclose"
  /\ \A i \in DOMAIN q : Tasked(q[i].name) => q[i].k \in ts

LEMMA QueueRest ==
  ASSUME NEW q, NEW w, NEW shut, NEW may, NEW ts, Queue(q, w, shut, may, ts), q # <<>>, Head(q).name # "write"
  PROVE  Queue(Tail(q), w, shut, may, ts)
<1> DEFINE t == Tail(q)
           n == Len(q)
<1>1. /\ IsList(t) /\ n \in Nat \ {0} /\ Head(q) = q[1] /\ DOMAIN q = 1 .. n /\ DOMAIN t = 1 .. n - 1
      /\ \A i \in 1 .. n - 1 : t[i] = q[i + 1]
  BY ListTail DEF Queue
<1> HIDE DEF t, n
<1>2. \A i \in DOMAIN t : i + 1 \in DOMAIN q /\ t[i] = q[i + 1]
  BY <1>1
<1>3. \A i, j \in DOMAIN t : i < j => i + 1 < j + 1
  BY <1>1
<1>4. \A k \in DOMAIN w : w[k] = "called" => \E i \in DOMAIN t : t[i] = H("write", k)
  <2> SUFFICES ASSUME NEW k \in DOMAIN w, w[k] = "called" PROVE \E i \in DOMAIN t : t[i] = H("write", k)
    OBVIOUS
  <2>1. PICK i \in DOMAIN q : q[i] = H("write", k)
    BY DEF Queue
  <2>2. i # 1
    BY <1>1, <2>1 DEF H
  <2>3. i - 1 \in DOMAIN t /\ (i - 1) + 1 = i
    BY <1>1, <2>2
  <2> QED
    BY <1>2, <2>1, <2>3
<1>5. \A i \in DOMAIN t : t[i].name = "write" => t[i].k \in DOMAIN w /\ w[t[i].k] = "called"
  BY <1>2 DEF Queue
<1>6. \A i, j \in DOMAIN t : t[i].name = "write" /\ t[j].name = "write" /\ i < j => t[i].k < t[j].k
  BY <1>2, <1>3 DEF Queue
<1>7. \A i, j \in DOMAIN t : t[i].name = "wclose" /\ i < j => t[j].name # "write"
  BY <1>2, <1>3 DEF Queue
<1>9. /\ shut => \A i \in DOMAIN t : t[i].name # "write"
      /\ ~may => \A i \in DOMAIN t : t[i].name # "wclose"
      /\ \A i \in DOMAIN t : Tasked(t[i].name) => t[i].k \in ts
  BY <1>2 DEF Queue
<1>8. Queue(t, w, shut, may, ts)
  BY <1>1, <1>4, <1>5, <1>6, <1>7, <1>9 DEF Queue
<1> QED
  BY <1>8 DEF t

LEMMA QueueMore ==
  ASSUME NEW q, NEW w, NEW shut, NEW may, NEW ts, Queue(q, w, shut, may, ts), NEW s, Quiet(s, ts)
  PROVE  Queue(q \o s, w, shut, may, ts)
<1> DEFINE r == q \o s
<1>1. /\ IsList(r) /\ Len(q) \in Nat /\ Len(s) \in Nat
      /\ DOMAIN q = 1 .. Len(q) /\ DOMAIN s = 1 .. Len(s) /\ DOMAIN r = 1 .. Len(q) + Len(s)
      /\ \A i \in 1 .. Len(q) + Len(s) : r[i] = IF i <= Len(q) THEN q[i] ELSE s[i - Len(q)]
  BY ListsTogether DEF Queue, Quiet
<1> HIDE DEF r
<1>2. \A i \in DOMAIN r : ~Plain(r[i].name) => i \in DOMAIN q /\ r[i] = q[i]
  <2> SUFFICES ASSUME NEW i \in DOMAIN r, ~Plain(r[i].name) PROVE i \in DOMAIN q /\ r[i] = q[i]
    OBVIOUS
  <2>1. CASE i <= Len(q)
    BY <1>1, <2>1
  <2>2. CASE ~(i <= Len(q))
    <3>1. i - Len(q) \in DOMAIN s /\ r[i] = s[i - Len(q)]
      BY <1>1, <2>2
    <3> QED
      BY <3>1 DEF Quiet
  <2> QED
    BY <2>1, <2>2
<1>3. \A i \in DOMAIN q : i \in DOMAIN r /\ r[i] = q[i]
  BY <1>1
<1>4. \A i \in DOMAIN r : r[i].name = "write" => r[i].k \in DOMAIN w /\ w[r[i].k] = "called"
  BY <1>2 DEF Queue, Plain
<1>5. \A i, j \in DOMAIN r : r[i].name = "write" /\ r[j].name = "write" /\ i < j => r[i].k < r[j].k
  BY <1>2 DEF Queue, Plain
<1>6. \A i, j \in DOMAIN r : r[i].name = "wclose" /\ i < j => r[j].name # "write"
  BY <1>2 DEF Queue, Plain
<1>7. \A k \in DOMAIN w : w[k] = "called" => \E i \in DOMAIN r : r[i] = H("write", k)
  BY <1>3 DEF Queue
<1>9. /\ shut => \A i \in DOMAIN r : r[i].name # "write"
      /\ ~may => \A i \in DOMAIN r : r[i].name # "wclose"
  BY <1>2 DEF Queue, Plain
<1>10. \A i \in DOMAIN r : Tasked(r[i].name) => r[i].k \in ts
  <2> SUFFICES ASSUME NEW i \in DOMAIN r, Tasked(r[i].name) PROVE r[i].k \in ts
    OBVIOUS
  <2>1. CASE i <= Len(q)
    <3>1. i \in DOMAIN q /\ r[i] = q[i]
      BY <1>1, <2>1
    <3> QED
      BY <3>1 DEF Queue
  <2>2. CASE ~(i <= Len(q))
    <3>1. i - Len(q) \in DOMAIN s /\ r[i] = s[i - Len(q)]
      BY <1>1, <2>2
    <3> QED
      BY <3>1 DEF Quiet
  <2> QED
    BY <2>1, <2>2
<1>8. Queue(r, w, shut, may, ts)
  BY <1>1, <1>4, <1>5, <1>6, <1>7, <1>9, <1>10 DEF Queue
<1> QED
  BY <1>8 DEF r

LEMMA QueueCall ==
  ASSUME NEW q, NEW w, NEW shut, NEW may, NEW ts, Queue(q, w, shut, may, ts), NEW name, NEW k, Plain(name),
         Tasked(name) => k \in ts
  PROVE  Queue(Call(q, name, k), w, shut, may, ts)
<1> DEFINE s == <<H(name, k)>>
<1>1. Call(q, name, k) = q \o s /\ IsList(s) /\ s[1] = H(name, k) /\ Len(s) = 1 /\ DOMAIN s = {1}
  BY ListAppend DEF Queue, Call
<1>2. Quiet(s, ts)
  BY <1>1 DEF Quiet, H
<1> HIDE DEF s
<1> QED
  BY <1>1, <1>2, QueueMore

LEMMA QueueEach ==
  ASSUME NEW q, NEW w, NEW shut, NEW may, NEW ts, Queue(q, w, shut, may, ts), NEW ks, IsFiniteSet(ks),
         ks \subseteq ts
  PROVE  Queue(CallEach(q, "step", ks), w, shut, may, ts)
<1> DEFINE s == SetToSeq({H("step", k) : k \in ks})
<1>1. IsList(s) /\ \A i \in DOMAIN s : s[i].name = "step" /\ s[i].k \in ks
  BY HandlesOf
<1> HIDE DEF s
<1>2. Quiet(s, ts)
  BY <1>1 DEF Quiet, Plain
<1>3. Queue(q \o s, w, shut, may, ts)
  BY <1>2, QueueMore
<1> QED
  BY <1>3 DEF s, CallEach

\* What Call gives for any name.
LEMMA Called ==
  ASSUME NEW q, IsList(q), NEW name, NEW k
  PROVE  /\ IsList(Call(q, name, k)) /\ Len(q) \in Nat /\ DOMAIN q = 1 .. Len(q)
         /\ DOMAIN Call(q, name, k) = 1 .. Len(q) + 1
         /\ Call(q, name, k)[Len(q) + 1] = H(name, k)
         /\ \A i \in 1 .. Len(q) : Call(q, name, k)[i] = q[i]
<1> DEFINE s == <<H(name, k)>>
<1>1. Call(q, name, k) = q \o s /\ IsList(s) /\ s[1] = H(name, k) /\ Len(s) = 1
  BY ListAppend DEF Call
<1> HIDE DEF s
<1> DEFINE r == q \o s
<1>2. /\ IsList(r) /\ Len(q) \in Nat /\ DOMAIN q = 1 .. Len(q) /\ DOMAIN r = 1 .. Len(q) + Len(s)
      /\ \A i \in 1 .. Len(q) + Len(s) : r[i] = IF i <= Len(q) THEN q[i] ELSE s[i - Len(q)]
  BY <1>1, ListsTogether
<1> HIDE DEF r
<1>3. DOMAIN r = 1 .. Len(q) + 1 /\ \A i \in 1 .. Len(q) + 1 : r[i] = IF i <= Len(q) THEN q[i] ELSE s[i - Len(q)]
  BY <1>1, <1>2
<1>4. r[Len(q) + 1] = s[1] /\ \A i \in 1 .. Len(q) : r[i] = q[i]
  <2>1. Len(q) + 1 \in 1 .. Len(q) + 1 /\ ~(Len(q) + 1 <= Len(q)) /\ (Len(q) + 1) - Len(q) = 1
    BY <1>2
  <2>2. r[Len(q) + 1] = s[1]
    BY <1>3, <2>1
  <2>3. \A i \in 1 .. Len(q) : i \in 1 .. Len(q) + 1 /\ i <= Len(q)
    BY <1>2
  <2> QED
    BY <1>3, <2>2, <2>3
<1> QED
  BY <1>1, <1>2, <1>3, <1>4 DEF r

LEMMA QueueWrite ==
  ASSUME NEW q, NEW w, NEW ts, Queue(q, w, FALSE, FALSE, ts)
  PROVE  Queue(Call(q, "write", Len(w) + 1), Append(w, "called"), FALSE, FALSE, ts)
<1> DEFINE n == Len(q) + 1
           m == Len(w) + 1
           r == Call(q, "write", m)
           v == Append(w, "called")
<1>1. /\ IsList(r) /\ Len(q) \in Nat /\ DOMAIN q = 1 .. Len(q) /\ DOMAIN r = 1 .. n
      /\ r[n] = H("write", m) /\ \A i \in 1 .. Len(q) : r[i] = q[i]
  BY Called DEF Queue
<1>2. /\ Len(w) \in Nat /\ DOMAIN w = 1 .. Len(w) /\ v \in Seq(Written) /\ DOMAIN v = 1 .. m
      /\ v[m] = "called" /\ \A k \in 1 .. Len(w) : v[k] = w[k]
  <2>1. w \in Seq(Written) /\ "called" \in Written
    BY DEF Queue, Written
  <2> QED
    BY <2>1, LenProperties, AppendProperties
<1> HIDE DEF r, v
<1>3. \A i \in DOMAIN r : (i \in DOMAIN q /\ r[i] = q[i]) \/ i = n
  BY <1>1
<1>4. \A i \in DOMAIN q : i \in DOMAIN r /\ i < n /\ r[i] = q[i]
  BY <1>1
<1>5. \A k \in DOMAIN w : k \in DOMAIN v /\ k < m /\ v[k] = w[k]
  BY <1>2
<1>6. \A k \in DOMAIN v : k \in DOMAIN w \/ k = m
  BY <1>2
<1>7. n \in DOMAIN r /\ m \in DOMAIN v /\ r[n].name = "write" /\ r[n].k = m
  BY <1>1, <1>2 DEF H
<1>8. \A i \in DOMAIN q : q[i].name # "wclose" /\ (q[i].name = "write" => q[i].k \in DOMAIN w /\ w[q[i].k] = "called")
  BY DEF Queue
<1>9. \A i \in DOMAIN r : r[i].name # "wclose" /\ (r[i].name = "write" => r[i].k \in DOMAIN v /\ v[r[i].k] = "called")
  BY <1>2, <1>3, <1>5, <1>7, <1>8
<1>10. ASSUME NEW i \in DOMAIN r, NEW j \in DOMAIN r, r[i].name = "write", r[j].name = "write", i < j
       PROVE  r[i].k < r[j].k
  <2>1. i # n
    BY <1>1, <1>10
  <2>2. i \in DOMAIN q /\ r[i] = q[i]
    BY <1>3, <2>1
  <2>3. CASE j = n
    BY <1>5, <1>7, <1>8, <1>10, <2>2, <2>3
  <2>4. CASE j # n
    BY <1>3, <1>10, <2>2, <2>4 DEF Queue
  <2> QED
    BY <2>3, <2>4
<1>11. \A k \in DOMAIN v : v[k] = "called" => \E i \in DOMAIN r : r[i] = H("write", k)
  <2> SUFFICES ASSUME NEW k \in DOMAIN v, v[k] = "called" PROVE \E i \in DOMAIN r : r[i] = H("write", k)
    OBVIOUS
  <2>1. CASE k = m
    BY <1>1, <1>7, <2>1
  <2>2. CASE k \in DOMAIN w
    BY <1>4, <1>5, <2>2 DEF Queue
  <2> QED
    BY <1>6, <2>1, <2>2
<1>13. \A i \in DOMAIN r : Tasked(r[i].name) => r[i].k \in ts
  <2>1. ~Tasked(r[n].name)
    BY <1>7 DEF Tasked
  <2>2. \A i \in DOMAIN q : Tasked(q[i].name) => q[i].k \in ts
    BY DEF Queue
  <2> QED
    BY <1>3, <2>1, <2>2
<1>12. Queue(r, v, FALSE, FALSE, ts)
  BY <1>1, <1>2, <1>9, <1>10, <1>11, <1>13 DEF Queue
<1> QED
  BY <1>12 DEF r, v

LEMMA QueueClose ==
  ASSUME NEW q, NEW w, NEW shut, NEW may, NEW ts, Queue(q, w, shut, may, ts)
  PROVE  Queue(CloseSoon(q), w, shut, TRUE, ts)
<1> DEFINE n == Len(q) + 1
           r == CloseSoon(q)
<1>1. /\ IsList(r) /\ Len(q) \in Nat /\ DOMAIN q = 1 .. Len(q) /\ DOMAIN r = 1 .. n
      /\ r[n] = H("wclose", 0) /\ \A i \in 1 .. Len(q) : r[i] = q[i]
  BY Called DEF Queue, CloseSoon
<1> HIDE DEF r
<1>2. \A i \in DOMAIN r : (i \in DOMAIN q /\ r[i] = q[i]) \/ (i = n /\ r[i].name = "wclose")
  BY <1>1 DEF H
<1>3. \A i \in DOMAIN q : i \in DOMAIN r /\ r[i] = q[i]
  BY <1>1
<1>4. \A i, j \in DOMAIN r : i < j => i \in DOMAIN q /\ r[i] = q[i]
  BY <1>1
<1>5. \A i \in DOMAIN r : r[i].name = "write" => i \in DOMAIN q /\ r[i] = q[i]
  BY <1>2
<1>6. \A i \in DOMAIN r : r[i].name = "write" => r[i].k \in DOMAIN w /\ w[r[i].k] = "called"
  BY <1>5 DEF Queue
<1>7. \A i, j \in DOMAIN r : r[i].name = "write" /\ r[j].name = "write" /\ i < j => r[i].k < r[j].k
  BY <1>5 DEF Queue
<1>8. \A i, j \in DOMAIN r : r[i].name = "wclose" /\ i < j => r[j].name # "write"
  BY <1>4, <1>5 DEF Queue
<1>9. \A k \in DOMAIN w : w[k] = "called" => \E i \in DOMAIN r : r[i] = H("write", k)
  BY <1>3 DEF Queue
<1>10. shut => \A i \in DOMAIN r : r[i].name # "write"
  BY <1>5 DEF Queue
<1>12. \A i \in DOMAIN r : Tasked(r[i].name) => r[i].k \in ts
  <2>1. \A i \in DOMAIN r : Tasked(r[i].name) => i \in DOMAIN q /\ r[i] = q[i]
    BY <1>2 DEF Tasked
  <2>2. \A i \in DOMAIN q : Tasked(q[i].name) => q[i].k \in ts
    BY DEF Queue
  <2> QED
    BY <2>1, <2>2
<1>11. Queue(r, w, shut, TRUE, ts)
  BY <1>1, <1>6, <1>7, <1>8, <1>9, <1>10, <1>12 DEF Queue
<1> QED
  BY <1>11 DEF r

\* A write gets its mark.
Marked(w, m, how, v) ==
  /\ DOMAIN v = DOMAIN w /\ v = [k \in DOMAIN v |-> v[k]]
  /\ \A k \in DOMAIN w : v[k] = IF k = m THEN how ELSE w[k]

\* The first handle is that of a write: all those called before it are done.
LEMMA QueueDone ==
  ASSUME NEW q, NEW w, NEW shut \in BOOLEAN, NEW may, NEW ts, Queue(q, w, shut, may, ts), q # <<>>,
         NEW m, Head(q).name = "write", Head(q).k = m,
         NEW how, NEW v, how = "sent" \/ how = "ignored",
         Marked(w, m, how, v)
  PROVE  /\ m \in DOMAIN w /\ w[m] = "called" /\ shut = FALSE
         /\ Queue(Tail(q), v, shut, may, ts)
         /\ \A k \in DOMAIN w : k < m => w[k] # "called"
<1> DEFINE t == Tail(q)
           n == Len(q)
<1>1. /\ IsList(t) /\ n \in Nat \ {0} /\ Head(q) = q[1] /\ DOMAIN q = 1 .. n /\ DOMAIN t = 1 .. n - 1
      /\ \A i \in 1 .. n - 1 : t[i] = q[i + 1]
  BY ListTail DEF Queue
<1>2. 1 \in DOMAIN q /\ q[1].name = "write" /\ q[1].k = m
  BY <1>1
<1>3. m \in DOMAIN w /\ w[m] = "called" /\ shut = FALSE
  BY <1>2 DEF Queue
<1>4. w \in Seq(Written) /\ how \in Written /\ DOMAIN w = 1 .. Len(w) /\ Len(w) \in Nat
  BY LenProperties DEF Queue, Written
<1>5. v \in Seq(Written) /\ DOMAIN v = DOMAIN w /\ v[m] = how /\ \A k \in DOMAIN w : k # m => v[k] = w[k]
  <2>1. \A k \in 1 .. Len(w) : w[k] \in Written
    BY <1>4, ElementOfSeq
  <2>2. v \in [1 .. Len(w) -> Written]
    BY <1>4, <2>1 DEF Marked
  <2>3. v \in Seq(Written)
    BY <1>4, <2>2, SeqDef
  <2> QED
    BY <1>3, <2>3 DEF Marked
<1> HIDE DEF t, n
<1>6. \A i \in DOMAIN t : i + 1 \in DOMAIN q /\ t[i] = q[i + 1] /\ 1 < i + 1
  BY <1>1
<1>7. \A i, j \in DOMAIN t : i < j => i + 1 < j + 1
  BY <1>1
<1>8. \A i \in DOMAIN t : t[i].name = "write" => t[i].k \in DOMAIN w /\ w[t[i].k] = "called" /\ m < t[i].k
  BY <1>2, <1>6 DEF Queue
<1>9. \A i \in DOMAIN t : t[i].name = "write" => t[i].k \in DOMAIN v /\ v[t[i].k] = "called"
  <2> SUFFICES ASSUME NEW i \in DOMAIN t, t[i].name = "write"
               PROVE  t[i].k \in DOMAIN v /\ v[t[i].k] = "called"
    OBVIOUS
  <2>1. t[i].k \in DOMAIN w /\ w[t[i].k] = "called" /\ t[i].k # m
    BY <1>3, <1>4, <1>8
  <2> QED
    BY <1>5, <2>1
<1>10. \A i, j \in DOMAIN t : t[i].name = "write" /\ t[j].name = "write" /\ i < j => t[i].k < t[j].k
  BY <1>6, <1>7 DEF Queue
<1>11. \A i, j \in DOMAIN t : t[i].name = "wclose" /\ i < j => t[j].name # "write"
  BY <1>6, <1>7 DEF Queue
<1>12. ASSUME NEW k \in DOMAIN w, w[k] = "called", k # m
       PROVE  \E i \in DOMAIN t : t[i] = H("write", k)
  <2>1. PICK i \in DOMAIN q : q[i] = H("write", k)
    BY <1>12 DEF Queue
  <2>2. i # 1
    BY <1>2, <1>12, <2>1 DEF H
  <2>3. i - 1 \in DOMAIN t /\ (i - 1) + 1 = i
    BY <1>1, <2>2
  <2> QED
    BY <1>6, <2>1, <2>3
<1>13. \A k \in DOMAIN v : v[k] = "called" => \E i \in DOMAIN t : t[i] = H("write", k)
  <2> SUFFICES ASSUME NEW k \in DOMAIN v, v[k] = "called" PROVE \E i \in DOMAIN t : t[i] = H("write", k)
    OBVIOUS
  <2>1. k # m /\ k \in DOMAIN w /\ w[k] = "called"
    BY <1>5
  <2> QED
    BY <1>12, <2>1
<1>14. ASSUME NEW k \in DOMAIN w, k < m PROVE w[k] # "called"
  <2> SUFFICES ASSUME w[k] = "called" PROVE FALSE
    OBVIOUS
  <2>1. k # m
    BY <1>3, <1>4, <1>14
  <2>2. PICK i \in DOMAIN t : t[i] = H("write", k)
    BY <1>12, <2>1
  <2>3. m < k
    BY <1>8, <2>2 DEF H
  <2> QED
    BY <1>3, <1>4, <1>14, <2>3
<1>15. /\ shut => \A i \in DOMAIN t : t[i].name # "write"
       /\ ~may => \A i \in DOMAIN t : t[i].name # "wclose"
       /\ \A i \in DOMAIN t : Tasked(t[i].name) => t[i].k \in ts
  BY <1>6 DEF Queue
<1>16. Queue(t, v, shut, may, ts)
  BY <1>1, <1>5, <1>9, <1>10, <1>11, <1>13, <1>15 DEF Queue
<1> QED
  BY <1>3, <1>14, <1>16 DEF t

\* The first handle closes the writer: there is no write behind it.
LEMMA QueueShut ==
  ASSUME NEW q, NEW w, NEW shut, NEW may \in BOOLEAN, NEW ts, Queue(q, w, shut, may, ts), q # <<>>, Head(q).name = "wclose"
  PROVE  Queue(Tail(q), w, TRUE, may, ts) /\ may = TRUE
<1>1. /\ Len(q) \in Nat \ {0} /\ Head(q) = q[1] /\ DOMAIN q = 1 .. Len(q) /\ DOMAIN Tail(q) = 1 .. Len(q) - 1
      /\ \A i \in 1 .. Len(q) - 1 : Tail(q)[i] = q[i + 1]
  BY ListTail DEF Queue
<1> DEFINE t == Tail(q)
<1>2. Queue(t, w, shut, may, ts)
  BY QueueRest
<1>3. \A i \in DOMAIN t : i + 1 \in DOMAIN q /\ 1 < i + 1 /\ t[i] = q[i + 1]
  BY <1>1
<1>4. 1 \in DOMAIN q /\ q[1].name = "wclose"
  BY <1>1
<1> HIDE DEF t
<1>5. \A i \in DOMAIN t : t[i].name # "write"
  BY <1>3, <1>4 DEF Queue
<1>6. Queue(t, w, TRUE, may, ts)
  BY <1>2, <1>5 DEF Queue
<1> QED
  BY <1>4, <1>6 DEF t, Queue

(***************************************************************************)
(* The inductive invariant.                                                *)
(***************************************************************************)
ConnFields ==
  {"role", "connected", "client", "closed", "closing", "open", "connection_closed", "option",
   "congested", "waiters", "drainers"}
TaskFields == {"op", "at", "cancelling", "held", "fut", "outcome", "early"}

\* What the proof needs to know of the shapes of the variables.
IsLoop(l) == DOMAIN l = {"state", "ready"}
IsConn(c, ts) ==
  /\ DOMAIN c = ConnFields /\ c.role \in {"client", "server"}
  /\ c.closed \in BOOLEAN /\ c.connection_closed \in BOOLEAN
  /\ c.waiters \subseteq ts /\ c.drainers \subseteq ts
IsThread(u) ==
  /\ DOMAIN u = Threads /\ u = [t \in Threads |-> u[t]]
  /\ \A t \in Threads : DOMAIN u[t] = {"at", "op", "k"}
  /\ u["user"].at = "checked" => u["user"].op \in Calls \cup {"write"}
IsTasks(q) == IsList(q) /\ \A k \in DOMAIN q : DOMAIN q[k] = TaskFields

Shut(c) == c.role = "server" /\ c.connection_closed
May(c) == c.role = "server" /\ c.closed
Queued(q) == Queue(q, written, Shut(conn), May(conn), DOMAIN task)

\* Only a client's owner cleans up, and nothing else closes a client's writer.
CleanedUp(q, c) ==
  /\ \A k \in DOMAIN q : q[k].op = "cleanup" => c.role = "client"
  /\ c.role = "client" /\ c.connection_closed => \E k \in DOMAIN q : q[k].op = "cleanup"

\* A server's writer that is closed had been so marked; a handler that looked
\* found it not.
Closing(c, u) ==
  c.role = "server" => /\ c.connection_closed => c.closed
                       /\ u["user"].at = "checked" => ~c.closed

Sent(w, c) ==
  \A i \in DOMAIN w :
    /\ w[i] = "sent" => \A j \in 1 .. i : w[j] = "sent"
    /\ w[i] = "ignored" => c.role = "client" /\ c.connection_closed

\* Before the loop exists nobody has called anything.
Before(l, w, c, u) ==
  l.state = "none" =>
    /\ w = <<>> /\ u["user"].at = "idle"
    /\ c.client = "none" /\ ~c.connection_closed /\ c.waiters = {} /\ c.drainers = {}

IInv ==
  /\ IsLoop(loop) /\ IsConn(conn, DOMAIN task) /\ IsThread(thread) /\ IsTasks(task)
  /\ Queued(loop.ready)
  /\ CleanedUp(task, conn) /\ Closing(conn, thread) /\ Sent(written, conn)
  /\ Before(loop, written, conn, thread)

\* The tasks are the same, whatever has become of them.
SameTasks(q, r) == IsTasks(r) /\ DOMAIN r = DOMAIN q /\ \A k \in DOMAIN q : r[k].op = q[k].op
SameConn(c, d, ts) ==
  IsConn(d, ts) /\ d.role = c.role /\ d.closed = c.closed /\ d.connection_closed = c.connection_closed

LEMMA TasksChanged ==
  ASSUME NEW q, IsTasks(q), NEW k, NEW a, NEW b, NEW c
  PROVE  /\ SameTasks(q, q)
         /\ SameTasks(q, [q EXCEPT ![k].at = a])
         /\ SameTasks(q, [q EXCEPT ![k].fut = a])
         /\ SameTasks(q, [q EXCEPT ![k].cancelling = a])
         /\ SameTasks(q, [q EXCEPT ![k].at = a, ![k].outcome = b])
         /\ SameTasks(q, [q EXCEPT ![k].at = a, ![k].held = b])
         /\ SameTasks(q, [q EXCEPT ![k].at = a, ![k].outcome = b, ![k].held = c])
<1>1. ASSUME NEW r, DOMAIN r = DOMAIN q, r = [i \in DOMAIN r |-> r[i]],
             \A i \in DOMAIN q : DOMAIN r[i] = TaskFields /\ r[i].op = q[i].op
      PROVE  SameTasks(q, r)
  BY <1>1, ListChanged DEF IsTasks, SameTasks
<1>2. SameTasks(q, q)
  BY DEF IsTasks, SameTasks
<1> DEFINE r == [q EXCEPT ![k].at = a]
<1>3. SameTasks(q, r)
  BY <1>1 DEF IsTasks, TaskFields
<1>4. SameTasks(q, [q EXCEPT ![k].fut = a])
  BY <1>1 DEF IsTasks, TaskFields
<1>5. SameTasks(q, [q EXCEPT ![k].cancelling = a])
  BY <1>1 DEF IsTasks, TaskFields
<1>6. SameTasks(q, [q EXCEPT ![k].at = a, ![k].outcome = b])
  BY <1>1 DEF IsTasks, TaskFields
<1>7. SameTasks(q, [q EXCEPT ![k].at = a, ![k].held = b])
  BY <1>1 DEF IsTasks, TaskFields
<1>8. SameTasks(q, [q EXCEPT ![k].at = a, ![k].outcome = b, ![k].held = c])
  BY <1>1 DEF IsTasks, TaskFields
<1> QED
  BY <1>2, <1>3, <1>4, <1>5, <1>6, <1>7, <1>8

LEMMA AllCancelled ==
  ASSUME IsTasks(task), NEW ks, NEW k, NEW a
  PROVE  SameTasks(task, CancelAll(ks)) /\ SameTasks(task, [CancelAll(ks) EXCEPT ![k].at = a])
<1> DEFINE r == CancelAll(ks)
<1>1. /\ DOMAIN r = DOMAIN task /\ r = [i \in DOMAIN r |-> r[i]]
      /\ \A i \in DOMAIN task : DOMAIN r[i] = TaskFields /\ r[i].op = task[i].op
  BY DEF CancelAll, IsTasks, TaskFields
<1> HIDE DEF r
<1>2. SameTasks(task, r)
  BY <1>1, ListChanged DEF IsTasks, SameTasks
<1>5. IsTasks(r)
  BY <1>2 DEF SameTasks
<1>3. SameTasks(r, [r EXCEPT ![k].at = a])
  BY <1>5, TasksChanged
<1>4. SameTasks(task, [r EXCEPT ![k].at = a])
  BY <1>2, <1>3 DEF SameTasks
<1> QED
  BY <1>2, <1>4 DEF r

\* A step of the loop that neither writes nor closes the writer.
Ordinary ==
  /\ loop.state # "none" /\ loop'.state # "none" /\ IsLoop(loop') /\ Queued(loop'.ready)
  /\ SameTasks(task, task') /\ SameConn(conn, conn', DOMAIN task) /\ thread' = thread /\ written' = written

LEMMA OrdinaryKeeps == IInv /\ Ordinary => IInv'
<1> SUFFICES ASSUME IInv, Ordinary PROVE IInv'
  OBVIOUS
<1>1. Shut(conn') = Shut(conn) /\ May(conn') = May(conn)
  BY DEF Ordinary, SameConn, Shut, May
<1>2. Queued(loop.ready)'
  BY <1>1 DEF Ordinary, Queued, SameTasks
<1>3. CleanedUp(task', conn') /\ Closing(conn', thread') /\ Sent(written', conn')
  BY DEF IInv, Ordinary, SameConn, SameTasks, CleanedUp, Closing, Sent
<1> QED
  BY <1>2, <1>3 DEF IInv, Ordinary, SameConn, SameTasks, Before

(***************************************************************************)
(* The loop's steps.                                                       *)
(***************************************************************************)
\* What is ready when a handle that does not write has been taken off.
LEMMA Taken ==
  ASSUME IInv, NEW name, name # "write", Runs(name)
  PROVE  /\ Queued(Rest) /\ loop.state # "none"
         /\ Tasked(name) => Which \in DOMAIN task
         /\ \A n, k : Plain(n) /\ (Tasked(n) => k \in DOMAIN task) => Queued(Call(Rest, n, k))
         /\ \A ks : ks \subseteq DOMAIN task => Queued(CallEach(Rest, "step", ks))
<1>1. /\ Queued(loop.ready) /\ loop.ready # <<>> /\ Head(loop.ready).name = name
      /\ Head(loop.ready).name # "write" /\ loop.state # "none"
  BY DEF IInv, Runs, Running
<1> DEFINE q == Rest
<1>2. Queued(q)
  BY <1>1, QueueRest DEF Queued, Rest
<1>3. Tasked(name) => Which \in DOMAIN task
  <2>1. 1 \in DOMAIN loop.ready /\ Head(loop.ready) = loop.ready[1]
    BY <1>1, ListTail DEF Queued, Queue
  <2> QED
    BY <1>1, <2>1 DEF Queued, Queue, Which
<1> HIDE DEF q
<1>4. \A n, k : Plain(n) /\ (Tasked(n) => k \in DOMAIN task) => Queued(Call(q, n, k))
  BY <1>2, QueueCall DEF Queued
<1>5. IsFiniteSet(DOMAIN task)
  <2>1. PICK S : task \in Seq(S)
    BY DEF IInv, IsTasks, IsList
  <2>2. DOMAIN task = 1 .. Len(task) /\ Len(task) \in Nat
    BY <2>1, LenProperties
  <2> QED
    BY <2>2, FS_Interval
<1>6. ASSUME NEW ks, ks \subseteq DOMAIN task PROVE Queued(CallEach(q, "step", ks))
  <2>1. IsFiniteSet(ks)
    BY <1>5, <1>6, FS_Subset
  <2> QED
    BY <1>2, <1>6, <2>1, QueueEach DEF Queued
<1> QED
  BY <1>1, <1>2, <1>3, <1>4, <1>6 DEF q

LEMMA CalledMore ==
  ASSUME NEW q, Queued(q), NEW name, Plain(name), NEW k, Tasked(name) => k \in DOMAIN task
  PROVE  Queued(Call(q, name, k))
BY QueueCall DEF Queued

\* Those who wait for something are tasks.
LEMMA Waiting ==
  ASSUME IInv, NEW r
  PROVE  /\ Woken(r) \subseteq DOMAIN task /\ WritersDue \subseteq DOMAIN task
         /\ conn.waiters \subseteq DOMAIN task /\ conn.drainers \subseteq DOMAIN task
         /\ Reading \cup conn.waiters \cup conn.drainers \subseteq DOMAIN task
<1>1. Reading \subseteq DOMAIN task
  BY DEF Reading
<1>2. conn.waiters \subseteq DOMAIN task /\ conn.drainers \subseteq DOMAIN task
  BY DEF IInv, IsConn
<1> QED
  BY <1>1, <1>2 DEF Woken, WritersDue

LEMMA ConnKept ==
  ASSUME NEW ts, NEW c, IsConn(c, ts), NEW a
  PROVE  /\ SameConn(c, c, ts) /\ SameConn(c, Lost(c), ts)
         /\ \A k \in ts : /\ SameConn(c, [c EXCEPT !.waiters = @ \cup {k}], ts)
                         /\ SameConn(c, [c EXCEPT !.drainers = @ \cup {k}], ts)
         /\ \A S : /\ SameConn(c, [c EXCEPT !.waiters = @ \ S, !.drainers = @ \ S], ts)
                  /\ SameConn(c, [c EXCEPT !.option = a, !.waiters = @ \ S], ts)
         /\ SameConn(c, [Lost(c) EXCEPT !.waiters = {}, !.drainers = {}], ts)
<1>1. SameConn(c, c, ts) /\ SameConn(c, Lost(c), ts)
  BY DEF SameConn, IsConn, ConnFields, Lost
<1>2. ASSUME NEW k \in ts
      PROVE  /\ SameConn(c, [c EXCEPT !.waiters = @ \cup {k}], ts)
             /\ SameConn(c, [c EXCEPT !.drainers = @ \cup {k}], ts)
  BY DEF SameConn, IsConn, ConnFields
<1>3. ASSUME NEW S PROVE SameConn(c, [c EXCEPT !.waiters = @ \ S, !.drainers = @ \ S], ts)
  BY DEF SameConn, IsConn, ConnFields
<1>4. ASSUME NEW S PROVE SameConn(c, [c EXCEPT !.option = a, !.waiters = @ \ S], ts)
  BY DEF SameConn, IsConn, ConnFields
<1>5. SameConn(c, [Lost(c) EXCEPT !.waiters = {}, !.drainers = {}], ts)
  BY DEF SameConn, IsConn, ConnFields, Lost
<1> QED
  BY <1>1, <1>2, <1>3, <1>4, <1>5

LEMMA StartKeeps == IInv /\ Start => IInv'
<1> SUFFICES ASSUME IInv, Start PROVE IInv'
  OBVIOUS
<1>1. Runs("start")
  BY DEF Start
<1> DEFINE due == Call(Rest, "step", Which)
<1>2. Queued(due) /\ loop.state # "none"
  <2>1. Which \in DOMAIN task /\ loop.state # "none"
    BY <1>1, Taken DEF Tasked
  <2> QED
    BY <1>1, <2>1, Taken DEF Plain
<1> HIDE DEF due
<1>3. Queued(Call(due, "cancel", Which))
  BY <1>2, CalledMore DEF Plain, Tasked
<1>4. loop' = [loop EXCEPT !.ready = Call(due, "cancel", Which)] \/ loop' = [loop EXCEPT !.ready = due]
  BY DEF Start, due
<1>5. loop'.state = loop.state /\ IsLoop(loop') /\ Queued(loop'.ready)
  BY <1>2, <1>3, <1>4 DEF IInv, IsLoop
<1>6. SameTasks(task, task')
  BY TasksChanged DEF IInv, Start
<1> QED
  BY <1>2, <1>5, <1>6, ConnKept, OrdinaryKeeps DEF Ordinary, Start, IInv

LEMMA CancelTaskKeeps == IInv /\ CancelTask => IInv'
<1> SUFFICES ASSUME IInv, CancelTask PROVE IInv'
  OBVIOUS
<1> DEFINE ks == {Which} \cap (Reading \cup conn.waiters \cup conn.drainers)
<1>1. ks \subseteq DOMAIN task
  BY Waiting
<1>2. loop' = [loop EXCEPT !.ready = CallEach(Rest, "step", ks)] /\ Runs("cancel")
  BY DEF CancelTask
<1> HIDE DEF ks
<1>3. Queued(CallEach(Rest, "step", ks)) /\ loop.state # "none"
  BY <1>1, <1>2, Taken
<1>4. loop'.state = loop.state /\ IsLoop(loop') /\ Queued(loop'.ready)
  BY <1>2, <1>3 DEF IInv, IsLoop
<1>5. SameTasks(task, task')
  BY TasksChanged DEF IInv, CancelTask
<1>6. SameConn(conn, conn', DOMAIN task)
  <2>1. conn' = [conn EXCEPT !.waiters = @ \ {Which}, !.drainers = @ \ {Which}]
    BY DEF CancelTask
  <2> QED
    BY <2>1, ConnKept DEF IInv
<1> QED
  BY <1>3, <1>4, <1>5, <1>6, OrdinaryKeeps DEF Ordinary, CancelTask

LEMMA SettleKeeps == IInv /\ Settle => IInv'
<1> SUFFICES ASSUME IInv, Settle PROVE IInv'
  OBVIOUS
<1>1. Queued(Rest) /\ loop.state # "none"
  BY Taken DEF Settle
<1>2. loop'.state = loop.state /\ IsLoop(loop') /\ Queued(loop'.ready)
  BY <1>1 DEF Settle, IInv, IsLoop
<1>3. SameTasks(task, task')
  BY TasksChanged DEF IInv, Settle
<1> QED
  BY <1>1, <1>2, <1>3, ConnKept, OrdinaryKeeps DEF Ordinary, Settle, IInv

\* A task's step that ends it or has it wait.
LEMMA TurnKeeps ==
  ASSUME IInv, NEW name, name # "write", Runs(name), NEW k, SameConn(conn, conn', DOMAIN task),
         \/ \E outcome, data : Ends(k, outcome, data)
         \/ \E held : Waits(k, held),
         thread' = thread, written' = written
  PROVE  IInv'
<1>1. Queued(Rest) /\ loop.state # "none" /\ Queued(Call(Rest, "settle", k))
  BY Taken DEF Plain, Tasked
<1>2. CASE \E outcome, data : Ends(k, outcome, data)
  <2>1. PICK outcome, data : Ends(k, outcome, data)
    BY <1>2
  <2>2. loop'.state = loop.state /\ IsLoop(loop') /\ Queued(loop'.ready)
    BY <1>1, <2>1 DEF Ends, IInv, IsLoop
  <2>3. SameTasks(task, task')
    BY <2>1, TasksChanged DEF Ends, IInv
  <2> QED
    BY <1>1, <2>2, <2>3, OrdinaryKeeps DEF Ordinary
<1>3. CASE \E held : Waits(k, held)
  <2>1. PICK held : Waits(k, held)
    BY <1>3
  <2>2. loop'.state = loop.state /\ IsLoop(loop') /\ Queued(loop'.ready)
    BY <1>1, <2>1 DEF Waits, IInv, IsLoop
  <2>3. SameTasks(task, task')
    BY <2>1, TasksChanged DEF Waits, IInv
  <2> QED
    BY <1>1, <2>2, <2>3, OrdinaryKeeps DEF Ordinary
<1> QED
  BY <1>2, <1>3

LEMMA CallStepsKeep == IInv /\ (StepRead \/ StepWaitFor \/ StepFlush \/ StepConnect) => IInv'
<1> SUFFICES ASSUME IInv, StepRead \/ StepWaitFor \/ StepFlush \/ StepConnect PROVE IInv'
  OBVIOUS
<1> DEFINE k == Which
           Turn == (\E outcome, data : Ends(k, outcome, data)) \/ (\E held : Waits(k, held))
<1>7. Runs("step") /\ k \in DOMAIN task
  <2>1. Runs("step")
    BY DEF StepRead, StepWaitFor, StepFlush, StepConnect, StepOf
  <2> QED
    BY <2>1, Taken DEF Tasked
<1>1. Runs("step") /\ thread' = thread /\ written' = written
  BY DEF StepRead, StepWaitFor, StepFlush, StepConnect, StepOf
<1>2. IsConn(conn, DOMAIN task) /\ SameConn(conn, conn, DOMAIN task)
  BY ConnKept DEF IInv
<1>3. CASE StepRead
  <2>1. conn' = conn
    BY <1>3 DEF StepRead
  <2>2. Turn
    BY <1>3, Zenon DEF StepRead
  <2> QED
    BY <1>1, <1>2, <2>1, <2>2, TurnKeeps
<1>4. CASE StepWaitFor
  <2>1. conn' = conn \/ conn' = [conn EXCEPT !.waiters = @ \cup {k}]
    BY <1>4 DEF StepWaitFor
  <2>2. Turn
    BY <1>4 DEF StepWaitFor
  <2>4. \A i \in DOMAIN task :
          /\ SameConn(conn, [conn EXCEPT !.waiters = @ \cup {i}], DOMAIN task)
          /\ SameConn(conn, [conn EXCEPT !.drainers = @ \cup {i}], DOMAIN task)
    BY <1>2, ConnKept
  <2>3. SameConn(conn, conn', DOMAIN task)
    BY <1>2, <1>7, <2>1, <2>4
  <2> QED
    BY <1>1, <2>2, <2>3, TurnKeeps
<1>5. CASE StepFlush
  <2>1. conn' = conn \/ conn' = [conn EXCEPT !.drainers = @ \cup {k}]
    BY <1>5 DEF StepFlush
  <2>2. Turn
    BY <1>5 DEF StepFlush
  <2>4. \A i \in DOMAIN task :
          /\ SameConn(conn, [conn EXCEPT !.waiters = @ \cup {i}], DOMAIN task)
          /\ SameConn(conn, [conn EXCEPT !.drainers = @ \cup {i}], DOMAIN task)
    BY <1>2, ConnKept
  <2>3. SameConn(conn, conn', DOMAIN task)
    BY <1>2, <1>7, <2>1, <2>4
  <2> QED
    BY <1>1, <2>2, <2>3, TurnKeeps
<1>6. CASE StepConnect
  <2>1. Turn
    BY <1>6 DEF StepConnect
  <2>2. SameConn(conn, conn', DOMAIN task)
    BY <1>2, <1>6 DEF StepConnect, SameConn, IsConn, ConnFields
  <2> QED
    BY <1>1, <2>1, <2>2, TurnKeeps
<1> QED
  BY <1>3, <1>4, <1>5, <1>6

LEMMA StepStartKeeps == IInv /\ StepStart => IInv'
<1> SUFFICES ASSUME IInv, StepStart PROVE IInv'
  OBVIOUS
<1>1. Runs("step") /\ thread' = thread /\ written' = written
  BY DEF StepStart, StepOf
<1>2. IsConn(conn, DOMAIN task) /\ SameConn(conn, conn, DOMAIN task)
  BY ConnKept DEF IInv
<1>3. CASE Ends(Which, "ok", <<>>) /\ conn' = [conn EXCEPT !.connected = TRUE]
  <2>1. SameConn(conn, conn', DOMAIN task)
    BY <1>2, <1>3 DEF SameConn, IsConn, ConnFields
  <2> QED
    BY <1>1, <1>3, <2>1, TurnKeeps
<1>4. CASE /\ task' = [task EXCEPT ![Which].at = "over", ![Which].outcome = "raised"]
           /\ loop' = [state |-> "stopped", ready |-> Rest] /\ conn' = conn
  <2>1. Queued(Rest) /\ loop.state # "none"
    BY <1>1, Taken
  <2>2. SameTasks(task, task')
    BY <1>4, TasksChanged DEF IInv
  <2>3. loop'.state # "none" /\ IsLoop(loop') /\ Queued(loop'.ready)
    BY <1>4, <2>1 DEF IsLoop
  <2> QED
    BY <1>1, <1>2, <1>4, <2>1, <2>2, <2>3, OrdinaryKeeps DEF Ordinary
<1> QED
  BY <1>3, <1>4 DEF StepStart

LEMMA StepShutdownKeeps == IInv /\ StepShutdown => IInv'
<1> SUFFICES ASSUME IInv, StepShutdown PROVE IInv'
  OBVIOUS
<1> DEFINE k == Which
           others == {i \in DOMAIN task : task[i].at \in {"ready", "waiting"}} \ {k}
           awaits == Reading \cup conn.waiters \cup conn.drainers
<1>1. Runs("step") /\ thread' = thread /\ written' = written
  BY DEF StepShutdown, StepOf
<1>2. IsConn(conn, DOMAIN task) /\ SameConn(conn, conn, DOMAIN task)
  BY ConnKept DEF IInv
<1>3. CASE Ends(k, "ok", <<>>) /\ conn' = conn
  BY <1>1, <1>2, <1>3, TurnKeeps
<1>4. CASE /\ conn' = [Lost(conn) EXCEPT !.waiters = {}, !.drainers = {}]
           /\ task' = [CancelAll(others) EXCEPT ![k].at = "waiting"]
           /\ loop' = [loop EXCEPT !.ready = Call(CallEach(Rest, "step", awaits), "step", k)]
  <2> DEFINE q == CallEach(Rest, "step", awaits)
  <2>6. awaits \subseteq DOMAIN task
    BY Waiting
  <2>1. Queued(q) /\ loop.state # "none" /\ k \in DOMAIN task
    BY <1>1, <2>6, Taken DEF Tasked
  <2> HIDE DEF q
  <2>2. Queued(Call(q, "step", k))
    BY <2>1, CalledMore DEF Plain
  <2>3. loop'.state = loop.state /\ IsLoop(loop') /\ Queued(loop'.ready)
    BY <1>4, <2>2 DEF IInv, IsLoop, q
  <2>4. SameTasks(task, task')
    BY <1>4, AllCancelled DEF IInv
  <2>5. SameConn(conn, conn', DOMAIN task)
    BY <1>2, <1>4, ConnKept
  <2> QED
    BY <1>1, <2>1, <2>3, <2>4, <2>5, OrdinaryKeeps DEF Ordinary
<1>5. \/ Ends(k, "ok", <<>>) /\ conn' = conn
      \/ /\ conn' = [Lost(conn) EXCEPT !.waiters = {}, !.drainers = {}]
         /\ task' = [CancelAll(others) EXCEPT ![k].at = "waiting"]
         /\ loop' = [loop EXCEPT !.ready = Call(CallEach(Rest, "step", awaits), "step", k)]
  BY DEF StepShutdown
<1> QED
  BY <1>3, <1>4, <1>5

\* Steps that leave the tasks alone.
LEMMA QuietKeeps ==
  ASSUME IInv, NEW name, name # "write", Runs(name), NEW ks, ks \subseteq DOMAIN task,
         loop'.ready = Rest \/ loop'.ready = CallEach(Rest, "step", ks),
         IsLoop(loop'), loop'.state # "none",
         SameConn(conn, conn', DOMAIN task), task' = task, thread' = thread, written' = written
  PROVE  IInv'
<1>1. loop.state # "none" /\ Queued(loop'.ready)
  BY Taken
<1> QED
  BY <1>1, TasksChanged, OrdinaryKeeps DEF Ordinary, IInv

LEMMA NetworkKeeps ==
  IInv /\ (RunClient \/ RunStop \/ Exit \/ RunData \/ RunEof \/ RunOption \/ RunCongestion \/ RunNothing) => IInv'
<1> SUFFICES ASSUME IInv, RunClient \/ RunStop \/ Exit \/ RunData \/ RunEof \/ RunOption \/ RunCongestion
                          \/ RunNothing
             PROVE  IInv'
  OBVIOUS
<1>1. IsConn(conn, DOMAIN task) /\ SameConn(conn, conn, DOMAIN task) /\ SameConn(conn, Lost(conn), DOMAIN task) /\ {} \subseteq DOMAIN task
  BY ConnKept DEF IInv
<1>2. IsLoop(loop)
  BY DEF IInv
<1>3. task' = task /\ thread' = thread /\ written' = written
  BY DEF RunClient, RunStop, Exit, RunData, RunEof, RunOption, RunCongestion, RunNothing
<1>4. CASE RunClient
  <2>1. Runs("client") /\ loop'.ready = Rest /\ IsLoop(loop') /\ loop'.state # "none"
    BY <1>2, <1>4 DEF RunClient, IsLoop, Runs, Running
  <2>2. SameConn(conn, conn', DOMAIN task)
    BY <1>1, <1>4 DEF RunClient, SameConn, IsConn, ConnFields
  <2> QED
    BY <1>1, <1>3, <2>1, <2>2, QuietKeeps
<1>5. CASE RunStop
  <2>1. Runs("stop") /\ loop'.ready = Rest /\ IsLoop(loop') /\ loop'.state # "none" /\ conn' = conn
    BY <1>5 DEF RunStop, IsLoop
  <2> QED
    BY <1>1, <1>3, <2>1, QuietKeeps
<1>6. CASE Exit
  <2>1. loop.state # "none" /\ loop'.state # "none" /\ IsLoop(loop') /\ loop'.ready = loop.ready /\ conn' = conn
    BY <1>2, <1>6 DEF Exit, IsLoop
  <2>2. Queued(loop'.ready)
    BY <2>1 DEF IInv
  <2> QED
    BY <1>1, <1>3, <2>1, <2>2, TasksChanged, OrdinaryKeeps DEF Ordinary, IInv
<1>7. CASE RunData \/ RunEof
  <2>1. PICK r : Tell(r)
    BY <1>7 DEF RunData, RunEof
  <2>2. Woken(r) \subseteq DOMAIN task /\ (Runs("data") \/ Runs("eof"))
    BY <1>7, Waiting DEF RunData, RunEof
  <2>3. loop'.ready = CallEach(Rest, "step", Woken(r)) /\ IsLoop(loop') /\ loop'.state # "none"
    BY <1>2, <2>1, <2>2 DEF Tell, IsLoop, Runs, Running
  <2>4. SameConn(conn, conn', DOMAIN task)
    BY <1>1, <1>7 DEF RunData, RunEof
  <2> QED
    BY <1>3, <2>2, <2>3, <2>4, QuietKeeps
<1>8. CASE RunOption
  <2> DEFINE on == ~conn.option
             met == IF on THEN conn.waiters ELSE {}
  <2>1. met \subseteq DOMAIN task
    BY Waiting
  <2>2. conn' = [conn EXCEPT !.option = on, !.waiters = @ \ met]
    BY <1>8 DEF RunOption
  <2>3. Runs("option") /\ loop' = [loop EXCEPT !.ready = CallEach(Rest, "step", met)]
    BY <1>8 DEF RunOption
  <2> HIDE DEF on, met
  <2>4. loop'.ready = CallEach(Rest, "step", met) /\ IsLoop(loop') /\ loop'.state # "none"
    BY <1>2, <2>3 DEF IsLoop, Runs, Running
  <2>5. SameConn(conn, conn', DOMAIN task)
    BY <1>1, <2>2, ConnKept
  <2> QED
    BY <1>3, <2>1, <2>3, <2>4, <2>5, QuietKeeps
<1>9. CASE RunCongestion
  <2>1. Runs("congestion") /\ conn.drainers \subseteq DOMAIN task
    BY <1>9, Waiting DEF RunCongestion
  <2>2. /\ loop'.ready = Rest \/ loop'.ready = CallEach(Rest, "step", conn.drainers)
        /\ IsLoop(loop') /\ loop'.state # "none"
    BY <1>2, <1>9 DEF RunCongestion, IsLoop, Runs, Running
  <2>3. SameConn(conn, conn', DOMAIN task)
    BY <1>1, <1>9 DEF RunCongestion, SameConn, IsConn, ConnFields
  <2> QED
    BY <1>3, <2>1, <2>2, <2>3, QuietKeeps
<1>10. CASE RunNothing
  <2>1. PICK name \in {"data", "eof", "option", "congestion", "client"} : Runs(name)
    BY <1>10 DEF RunNothing
  <2>2. loop'.ready = Rest /\ IsLoop(loop') /\ loop'.state # "none" /\ conn' = conn
    BY <1>2, <1>10, <2>1 DEF RunNothing, IsLoop, Runs, Running
  <2> QED
    BY <1>1, <1>3, <2>1, <2>2, QuietKeeps
<1> QED
  BY <1>4, <1>5, <1>6, <1>7, <1>8, <1>9, <1>10

LEMMA PollKeeps == IInv /\ Poll => IInv'
<1> SUFFICES ASSUME IInv, Poll PROVE IInv'
  OBVIOUS
<1>1. Runs("poll") /\ conn' = conn /\ task' = task /\ thread' = thread /\ written' = written
  BY DEF Poll
<1>2. PICK event \in {"none", "data", "eof", "option", "congestion", "client"} :
        loop' = [loop EXCEPT !.ready =
                   Call(IF event = "none" THEN Rest ELSE Call(Rest, event, 0), "poll", 0)]
  BY DEF Poll
<1> DEFINE due == IF event = "none" THEN Rest ELSE Call(Rest, event, 0)
<1>3. Plain(event)
  BY DEF Plain
<1>7. ~Tasked(event)
  BY DEF Tasked
<1>4. Queued(due) /\ loop.state # "none"
  BY <1>1, <1>3, <1>7, Taken
<1> HIDE DEF due
<1>5. Queued(Call(due, "poll", 0))
  BY <1>4, CalledMore DEF Plain, Tasked
<1>6. loop'.state = loop.state /\ IsLoop(loop') /\ Queued(loop'.ready)
  BY <1>2, <1>5 DEF IInv, IsLoop, due
<1> QED
  BY <1>1, <1>4, <1>6, TasksChanged, ConnKept, OrdinaryKeeps DEF Ordinary, IInv

(***************************************************************************)
(* The writes and the closing of the writer.                               *)
(***************************************************************************)
LEMMA RunWriteKeeps == IInv /\ RunWrite => IInv'
<1> SUFFICES ASSUME IInv, RunWrite PROVE IInv'
  OBVIOUS
<1> DEFINE m == Which
           how == IF conn.connection_closed THEN "ignored" ELSE "sent"
           w == [written EXCEPT ![m] = how]
           shut == Shut(conn)
           may == May(conn)
           ts == DOMAIN task
           q == loop.ready
<1>1. Queue(q, written, shut, may, ts) /\ q # <<>> /\ Head(q).name = "write" /\ m = Head(q).k /\ Rest = Tail(q)
      /\ loop.state # "none"
  BY DEF IInv, Queued, RunWrite, Runs, Running, Which, Rest
<1>2. (how = "sent" \/ how = "ignored") /\ shut \in BOOLEAN
  BY DEF Shut
<1> HIDE DEF how, shut, may, ts, q
<1>3. /\ m \in DOMAIN written /\ written[m] = "called" /\ shut = FALSE
      /\ Queue(Rest, w, shut, may, ts)
      /\ \A k \in DOMAIN written : k < m => written[k] # "called"
  <2>1. Queue(q, written, shut, may, ts)
    BY <1>1
  <2>2. q # <<>> /\ Head(q).name = "write" /\ Head(q).k = m
    BY <1>1
  <2>3. Marked(written, m, how, w)
    BY DEF Marked
  <2> HIDE DEF m, w
  <2>4. /\ m \in DOMAIN written /\ written[m] = "called" /\ shut = FALSE
        /\ Queue(Tail(q), w, shut, may, ts)
        /\ \A k \in DOMAIN written : k < m => written[k] # "called"
    BY ONLY <1>2, <2>1, <2>2, <2>3, QueueDone
  <2> QED
    BY <1>1, <2>4 DEF w, m
<1>4. /\ written' = w /\ conn' = conn /\ task' = task /\ thread' = thread
      /\ loop'.ready = Rest /\ loop'.state = loop.state /\ IsLoop(loop')
  BY DEF RunWrite, how, IInv, IsLoop
<1>5. written \in Seq(Written) /\ DOMAIN written = 1 .. Len(written) /\ Len(written) \in Nat
  BY <1>1, LenProperties DEF Queue
<1>6. DOMAIN w = DOMAIN written /\ w[m] = how /\ \A i \in DOMAIN written : i # m => w[i] = written[i]
  BY <1>3
<1>7. Sent(w, conn)
  <2> HIDE DEF w, m
  <2>1. Sent(written, conn) /\ conn.role \in {"client", "server"} /\ conn.connection_closed \in BOOLEAN
    BY DEF IInv, IsConn
  <2>2. ASSUME how = "sent", NEW j \in DOMAIN written, j < m PROVE written[j] = "sent"
    <3>1. ~conn.connection_closed
      BY <2>2 DEF how
    <3>2. written[j] \in Written /\ written[j] # "called"
      BY <1>3, <1>5, <2>2, ElementOfSeq
    <3> QED
      BY <2>1, <2>2, <3>1, <3>2 DEF Sent, Written
  <2>3. how = "ignored" => conn.role = "client" /\ conn.connection_closed
    BY <1>3, <2>1 DEF how, shut, Shut
  <2>4. ASSUME NEW i \in DOMAIN written, w[i] = "sent" PROVE \A j \in 1 .. i : w[j] = "sent"
    <3>1. CASE i = m
      <4>1. \A j \in 1 .. i : j \in DOMAIN written /\ (j = m \/ j < m)
        BY <1>3, <1>5, <3>1
      <4> QED
        BY <1>6, <2>2, <2>4, <3>1, <4>1
    <3>2. CASE i # m
      <4>1. \A j \in 1 .. i : j \in DOMAIN written /\ written[j] = "sent"
        BY <1>5, <1>6, <2>1, <2>4, <3>2 DEF Sent
      <4>2. \A j \in 1 .. i : j # m
        BY <1>3, <4>1
      <4> QED
        BY <1>6, <4>1, <4>2
    <3> QED
      BY <3>1, <3>2
  <2>5. ASSUME NEW i \in DOMAIN written, w[i] = "ignored" PROVE conn.role = "client" /\ conn.connection_closed
    BY <1>6, <2>1, <2>3, <2>5 DEF Sent
  <2> QED
    BY <1>6, <2>4, <2>5 DEF Sent
<1>8. Queued(loop.ready)'
  BY <1>3, <1>4 DEF Queued, shut, may, ts
<1> HIDE DEF w
<1> QED
  BY <1>1, <1>4, <1>7, <1>8 DEF IInv, Before

\* What the writer is after it was closed.
LEMMA ClosedWriter ==
  ASSUME IsConn(conn, DOMAIN task)
  PROVE  /\ IsConn(WriterClosed, DOMAIN task) /\ WriterClosed.role = conn.role /\ WriterClosed.closed = conn.closed
         /\ WriterClosed.connection_closed
<1>2. CASE conn.connection_closed
  BY <1>2 DEF WriterClosed
<1>3. CASE ~conn.connection_closed
  BY <1>3 DEF WriterClosed, IsConn, ConnFields, Lost
<1> QED
  BY <1>2, <1>3

\* A step that closes the writer when it may be closed.
LEMMA ClosesKeeps ==
  ASSUME IInv, loop.state # "none", loop'.state # "none", IsLoop(loop'),
         conn.role = "server" => conn.closed, conn' = WriterClosed,
         conn.role = "client" => \E k \in DOMAIN task : task[k].op = "cleanup",
         Queue(loop'.ready, written, conn.role = "server", May(conn), DOMAIN task),
         SameTasks(task, task'), thread' = thread, written' = written
  PROVE  IInv'
<1>1. /\ IsConn(conn', DOMAIN task) /\ conn'.role = conn.role /\ conn'.closed = conn.closed /\ conn'.connection_closed
  BY ClosedWriter DEF IInv
<1>2. Shut(conn') = (conn.role = "server") /\ May(conn') = May(conn)
  BY <1>1 DEF Shut, May, IsConn
<1>3. Queued(loop.ready)'
  BY <1>2 DEF Queued, SameTasks
<1>4. CleanedUp(task', conn') /\ Closing(conn', thread') /\ Sent(written', conn')
  BY <1>1 DEF IInv, SameTasks, CleanedUp, Closing, Sent
<1> QED
  BY <1>1, <1>3, <1>4 DEF IInv, SameTasks, Before

LEMMA RunCloseKeeps == IInv /\ RunClose => IInv'
<1> SUFFICES ASSUME IInv, RunClose PROVE IInv'
  OBVIOUS
<1> DEFINE shut == Shut(conn)
           may == May(conn)
           ts == DOMAIN task
<1>1. /\ Queue(loop.ready, written, shut, may, ts) /\ loop.ready # <<>> /\ Head(loop.ready).name = "wclose"
      /\ loop.state # "none"
  BY DEF IInv, Queued, RunClose, Runs, Running
<1>2. PICK r : loop' = [loop EXCEPT !.ready = CallEach(Rest, "step", WritersDue \cup Woken(r))]
  BY DEF RunClose
<1> DEFINE due == WritersDue \cup Woken(r)
           q == CallEach(Rest, "step", due)
<1>3. due \subseteq ts /\ IsFiniteSet(ts)
  <2>1. PICK S : task \in Seq(S)
    BY DEF IInv, IsTasks, IsList
  <2>2. DOMAIN task = 1 .. Len(task) /\ Len(task) \in Nat
    BY <2>1, LenProperties
  <2>3. IsFiniteSet(DOMAIN task)
    BY <2>2, FS_Interval
  <2>4. due \subseteq DOMAIN task
    BY Waiting
  <2> QED
    BY <2>3, <2>4
<1>4. IsFiniteSet(due)
  BY <1>3, FS_Subset
<1>11. may \in BOOLEAN
  BY DEF May
<1> HIDE DEF shut, may, ts, due
<1>5. Queue(Rest, written, TRUE, may, ts) /\ may = TRUE
  <2> DEFINE p == loop.ready
  <2>1. Queue(p, written, shut, may, ts)
    BY <1>1
  <2>2. p # <<>> /\ Head(p).name = "wclose"
    BY <1>1
  <2> HIDE DEF p
  <2>3. Queue(Tail(p), written, TRUE, may, ts) /\ may = TRUE
    BY ONLY <1>11, <2>1, <2>2, QueueShut
  <2> QED
    BY <2>3 DEF p, Rest
<1>6. Queue(q, written, TRUE, may, ts)
  BY <1>3, <1>4, <1>5, QueueEach
<1> HIDE DEF q
<1>7. conn.role = "server" /\ conn.closed
  BY <1>5 DEF may, May
<1>8. loop'.ready = q /\ loop'.state = loop.state /\ IsLoop(loop')
  BY <1>2 DEF IInv, IsLoop, q, due
<1>9. Queue(loop'.ready, written, conn.role = "server", May(conn), DOMAIN task)
  <2>1. (conn.role = "server") = TRUE
    BY <1>7
  <2> QED
    BY <1>6, <1>8, <2>1 DEF may, ts
<1>10. SameTasks(task, task')
  BY AllCancelled DEF IInv, RunClose
<1> QED
  BY <1>1, <1>7, <1>8, <1>9, <1>10, ClosesKeeps DEF RunClose

LEMMA StepCleanupKeeps == IInv /\ StepCleanup => IInv'
<1> SUFFICES ASSUME IInv, StepCleanup PROVE IInv'
  OBVIOUS
<1> DEFINE k == Which
           r == ToldOfEof
           due == WritersDue \cup Woken(r)
<1>1. Runs("step") /\ thread' = thread /\ written' = written /\ task[k].op = "cleanup"
  BY DEF StepCleanup, StepOf
<1>5. k \in DOMAIN task
  BY <1>1, Taken DEF Tasked
<1>2. IsConn(conn, DOMAIN task) /\ SameConn(conn, conn, DOMAIN task)
  BY ConnKept DEF IInv
<1>3. CASE Ends(k, "ok", <<>>) /\ conn' = conn
  BY <1>1, <1>2, <1>3, TurnKeeps
<1>4. CASE /\ conn' = WriterClosed
           /\ task' = [CancelAll(WritersDue) EXCEPT ![k].at = "waiting"]
           /\ loop' = [loop EXCEPT !.ready = Call(CallEach(Rest, "step", due), "step", k)]
  <2> DEFINE q == CallEach(Rest, "step", due)
  <2>1. due \subseteq DOMAIN task
    BY Waiting
  <2>2. Queued(q) /\ loop.state # "none"
    BY <1>1, <2>1, Taken
  <2> HIDE DEF q
  <2>3. Queued(Call(q, "step", k))
    BY <1>5, <2>2, CalledMore DEF Plain
  <2>4. loop'.state = loop.state /\ IsLoop(loop') /\ Queued(loop'.ready)
    BY <1>4, <2>3 DEF IInv, IsLoop, q
  <2>5. conn.role = "client" /\ \E j \in DOMAIN task : task[j].op = "cleanup"
    BY <1>1, <1>5 DEF IInv, CleanedUp
  <2>6. Queue(loop'.ready, written, conn.role = "server", May(conn), DOMAIN task)
    <3>1. Shut(conn) = FALSE /\ (conn.role = "server") = FALSE
      BY <2>5 DEF Shut
    <3>2. Queue(loop'.ready, written, Shut(conn), May(conn), DOMAIN task)
      BY <2>4 DEF Queued
    <3> QED
      BY <3>1, <3>2
  <2>7. SameTasks(task, task')
    BY <1>4, AllCancelled DEF IInv
  <2> QED
    BY <1>1, <1>4, <2>2, <2>4, <2>5, <2>6, <2>7, ClosesKeeps
<1> QED
  BY <1>1, <1>3, <1>4 DEF StepCleanup

(***************************************************************************)
(* The threads' actions.                                                   *)
(***************************************************************************)
\* The first handles of a loop.
LEMMA QueueFresh ==
  ASSUME NEW s, NEW ts, Quiet(s, ts), NEW shut, NEW may
  PROVE  Queue(s, <<>>, shut, may, ts)
<1>1. IsList(s) /\ \A i \in DOMAIN s : Plain(s[i].name) /\ (Tasked(s[i].name) => s[i].k \in ts)
  BY DEF Quiet
<1>2. <<>> \in Seq(Written) /\ DOMAIN <<>> = {}
  BY EmptySeq, LenProperties
<1>3. \A i \in DOMAIN s : s[i].name # "write" /\ s[i].name # "wclose"
  BY <1>1 DEF Plain
<1> QED
  BY <1>1, <1>2, <1>3 DEF Queue

\* More tasks, and leave to close.
LEMMA QueueWider ==
  ASSUME NEW q, NEW w, NEW shut, NEW may, NEW ts, Queue(q, w, shut, may, ts), NEW us, ts \subseteq us
  PROVE  Queue(q, w, shut, may, us) /\ Queue(q, w, shut, TRUE, ts)
BY DEF Queue

LEMMA ThreadChanged ==
  ASSUME NEW u, IsThread(u), NEW t \in Threads, NEW at, NEW op, NEW k,
         t = "user" /\ at = "checked" => op \in Calls \cup {"write"}
  PROVE  /\ IsThread([u EXCEPT ![t] = [at |-> at, op |-> op, k |-> k]])
         /\ [u EXCEPT ![t] = [at |-> at, op |-> op, k |-> k]]["user"].at =
              IF t = "user" THEN at ELSE u["user"].at
BY DEF IsThread, Threads

\* A thread changes, and nothing else does.
LEMMA ThreadKeeps ==
  ASSUME IInv, IsThread(thread'), conn' = conn, task' = task, written' = written,
         IsLoop(loop'), Queued(loop'.ready), loop'.state = "none" => loop.state = "none",
         \/ thread'["user"].at = thread["user"].at
         \/ thread'["user"].at = "idle"
         \/ thread'["user"].at = "checked" /\ ~conn.closed /\ loop.state # "none"
  PROVE  IInv'
<1>1. Queued(loop.ready)'
  BY DEF Queued
<1>2. Closing(conn', thread')
  BY DEF IInv, Closing
<1>3. Before(loop', written', conn', thread')
  BY DEF IInv, Before
<1> QED
  BY <1>1, <1>2, <1>3 DEF IInv

LEMMA ReturnsKeeps ==
  ASSUME IInv, (\E t \in Threads : Returns(t)) \/ Stop \/ Joined \/ Check
               \/ ConnectTimesOut \/ GivesUp \/ JoinFails
  PROVE  IInv'
<1>1. IsLoop(loop) /\ IsThread(thread) /\ Queued(loop.ready)
  BY DEF IInv
<1>2. conn' = conn /\ task' = task /\ written' = written
  BY DEF Returns, Stop, Joined, Check, ConnectTimesOut, GivesUp, JoinFails
<1>3. CASE \E t \in Threads : Returns(t)
  <2>1. PICK t \in Threads : Returns(t)
    BY <1>3
  <2>2. loop' = loop
    BY <2>1 DEF Returns
  <2>3. IsThread(thread') /\ (thread'["user"].at = thread["user"].at \/ thread'["user"].at = "idle")
    BY <1>1, <2>1 DEF Returns, IsThread, Threads, Resting
  <2> QED
    BY <1>1, <1>2, <2>2, <2>3, ThreadKeeps
<1>4. CASE Stop
  <2>1. thread' = [thread EXCEPT !["owner"].at = "joining"]
    BY <1>4 DEF Stop
  <2>2. IsThread(thread') /\ thread'["user"].at = thread["user"].at
    BY <1>1, <2>1 DEF IsThread, Threads
  <2>3. Queued(Call(loop.ready, "stop", 0))
    BY <1>1, CalledMore DEF Plain, Tasked
  <2>4. IsLoop(loop') /\ Queued(loop'.ready) /\ loop'.state = loop.state
    BY <1>1, <1>4, <2>3 DEF Stop, IsLoop
  <2> QED
    BY <1>2, <2>2, <2>4, ThreadKeeps
<1>5. CASE Joined
  <2>1. IsThread(thread') /\ thread'["user"].at = thread["user"].at
    BY <1>1, <1>5 DEF Joined, IsThread, Threads
  <2>2. IsLoop(loop') /\ loop'.ready = loop.ready /\ loop'.state # "none"
    BY <1>1, <1>5 DEF Joined, IsLoop
  <2> QED
    BY <1>1, <1>2, <2>1, <2>2, ThreadKeeps
<1>6. CASE Check
  <2>1. PICK op \in Calls \cup {"write"} :
          thread' = [thread EXCEPT !["user"] = [at |-> "checked", op |-> op, k |-> 0]]
    BY <1>6 DEF Check
  <2>2. IsThread(thread') /\ thread'["user"].at = "checked"
    BY <1>1, <2>1 DEF IsThread, Threads
  <2>3. ~conn.closed /\ loop.state # "none" /\ loop' = loop
    BY <1>6 DEF Check, IInv, Before
  <2> QED
    BY <1>1, <1>2, <2>2, <2>3, ThreadKeeps
<1>7. CASE ConnectTimesOut \/ GivesUp \/ JoinFails
  <2>1. PICK at : thread' = [thread EXCEPT !["owner"].at = at]
    BY <1>7 DEF ConnectTimesOut, GivesUp, JoinFails
  <2>2. IsThread(thread') /\ thread'["user"].at = thread["user"].at
    BY <1>1, <2>1 DEF IsThread, Threads
  <2>3. loop' = loop
    BY <1>7 DEF ConnectTimesOut, GivesUp, JoinFails
  <2> QED
    BY <1>1, <1>2, <2>2, <2>3, ThreadKeeps
<1> QED
  BY <1>3, <1>4, <1>5, <1>6, <1>7

LEMMA AcceptKeeps == IInv /\ accept => IInv'
<1> SUFFICES ASSUME IInv, accept PROVE IInv'
  OBVIOUS
<1>1. conn' = [conn EXCEPT !.client = "taken"] /\ loop.state # "none"
  BY DEF accept, IInv, Before
<1>2. SameConn(conn, conn', DOMAIN task)
  BY <1>1 DEF SameConn, IsConn, ConnFields, IInv
<1>3. loop' = loop /\ task' = task /\ thread' = thread /\ written' = written /\ Queued(loop'.ready) /\ IsLoop(loop')
  BY DEF accept, IInv
<1> QED
  BY <1>1, <1>2, <1>3, TasksChanged, OrdinaryKeeps DEF Ordinary, IInv

LEMMA TimesOutKeeps == IInv /\ TimesOut => IInv'
<1> SUFFICES ASSUME IInv, TimesOut PROVE IInv'
  OBVIOUS
<1> DEFINE k == thread["user"].k
<1>1. Queued(Call(loop.ready, "cancel", k)) /\ Queued(loop.ready)
  BY CalledMore DEF Plain, Tasked, IInv
<1>2. loop' = loop \/ loop' = [loop EXCEPT !.ready = Call(loop.ready, "cancel", k)]
  BY DEF TimesOut
<1>3. IsLoop(loop') /\ Queued(loop'.ready) /\ loop'.state = loop.state
  BY <1>1, <1>2 DEF IInv, IsLoop
<1>4. SameTasks(task, task')
  BY TasksChanged DEF IInv, TimesOut
<1>5. IsThread(thread') /\ thread'["user"].at = "idle"
  BY DEF TimesOut, Resting, IInv, IsThread, Threads
<1>6. conn' = conn /\ written' = written
  BY DEF TimesOut
<1>7. Queued(loop.ready)'
  BY <1>3, <1>4, <1>6 DEF Queued, SameTasks
<1>8. IsConn(conn', DOMAIN task') /\ IsTasks(task') /\ CleanedUp(task', conn')
  BY <1>4, <1>6 DEF IInv, SameTasks, CleanedUp
<1>9. Closing(conn', thread') /\ Sent(written', conn') /\ Before(loop', written', conn', thread')
  BY <1>3, <1>5, <1>6 DEF IInv, Closing, Before
<1> QED
  BY <1>3, <1>5, <1>7, <1>8, <1>9 DEF IInv

LEMMA HandlerClosesKeeps == IInv /\ HandlerCloses => IInv'
<1> SUFFICES ASSUME IInv, HandlerCloses PROVE IInv'
  OBVIOUS
<1>1. /\ conn' = [conn EXCEPT !.closed = TRUE] /\ conn.role = "server" /\ loop.state # "none"
      /\ thread["user"].at = "idle" /\ task' = task /\ thread' = thread /\ written' = written
  BY DEF HandlerCloses, IInv, Before
<1>2. IsConn(conn', DOMAIN task) /\ conn'.role = conn.role /\ conn'.closed = TRUE
      /\ conn'.connection_closed = conn.connection_closed
  BY <1>1 DEF IInv, IsConn, ConnFields
<1> DEFINE q == loop.ready
           shut == Shut(conn)
           may == May(conn)
           ts == DOMAIN task
<1>3. Queue(q, written, shut, may, ts)
  BY DEF IInv, Queued
<1>4. Shut(conn') = shut /\ May(conn') = TRUE
  BY <1>1, <1>2 DEF Shut, May
<1> HIDE DEF q, shut, may, ts
<1>5. Queue(CloseSoon(q), written, shut, TRUE, ts) /\ Queue(q, written, shut, TRUE, ts)
  BY <1>3, QueueClose, QueueWider
<1>6. IsLoop(loop') /\ loop'.state # "none" /\ (loop'.ready = q \/ loop'.ready = CloseSoon(q))
  BY <1>1 DEF HandlerCloses, IInv, IsLoop, q
<1>7. Queue(loop'.ready, written, shut, TRUE, ts)
  BY <1>5, <1>6
<1>8. Queued(loop.ready)'
  BY <1>1, <1>4, <1>7 DEF Queued, ts
<1>9. CleanedUp(task', conn') /\ Closing(conn', thread') /\ Sent(written', conn')
  BY <1>1, <1>2 DEF IInv, CleanedUp, Closing, Sent
<1> QED
  BY <1>1, <1>2, <1>6, <1>8, <1>9 DEF IInv, Before

\* A new task.
LEMMA Submits ==
  ASSUME IInv, NEW t \in Threads, NEW op, Submit(t, op)
  PROVE  /\ IsTasks(task') /\ DOMAIN task \subseteq DOMAIN task'
         /\ \A k \in DOMAIN task' : task'[k].op = op \/ (k \in DOMAIN task /\ task'[k].op = task[k].op)
         /\ \A k \in DOMAIN task : task'[k].op = task[k].op
         /\ IsLoop(loop') /\ loop'.state = loop.state
         /\ Queue(loop'.ready, written, Shut(conn), May(conn), DOMAIN task')
<1> DEFINE e == [op |-> op, at |-> "queued", cancelling |-> FALSE, held |-> <<>>,
                 fut |-> "pending", outcome |-> "none",
                 early |-> \A i \in DOMAIN task : task[i].op \notin {"cleanup", "shutdown"}]
           n == Len(task) + 1
           q == loop.ready
           shut == Shut(conn)
           may == May(conn)
           ts == DOMAIN task
           us == DOMAIN task'
<1>1. IsList(task) /\ \A k \in DOMAIN task : DOMAIN task[k] = TaskFields
  BY DEF IInv, IsTasks
<1>2. task' = Append(task, e) /\ loop' = [loop EXCEPT !.ready = Call(loop.ready, "start", n)]
  BY DEF Submit
<1>3. DOMAIN e = TaskFields /\ e.op = op
  BY DEF TaskFields
<1> HIDE DEF e
<1>4. /\ Append(task, e) = task \o <<e>> /\ IsList(<<e>>) /\ <<e>>[1] = e /\ Len(<<e>>) = 1
  BY <1>1, ListAppend
<1> DEFINE r == task \o <<e>>
<1>5. /\ IsList(r) /\ Len(task) \in Nat /\ DOMAIN task = 1 .. Len(task) /\ DOMAIN r = 1 .. Len(task) + Len(<<e>>)
      /\ \A i \in 1 .. Len(task) + Len(<<e>>) : r[i] = IF i <= Len(task) THEN task[i] ELSE <<e>>[i - Len(task)]
  BY <1>1, <1>4, ListsTogether
<1> HIDE DEF r
<1>6. task' = r /\ DOMAIN r = 1 .. n /\ \A i \in 1 .. n : r[i] = IF i <= Len(task) THEN task[i] ELSE e
  <2>1. DOMAIN r = 1 .. n /\ \A i \in 1 .. n : r[i] = IF i <= Len(task) THEN task[i] ELSE <<e>>[i - Len(task)]
    BY <1>4, <1>5
  <2>2. \A i \in 1 .. n : ~(i <= Len(task)) => i - Len(task) = 1
    BY <1>5
  <2> QED
    BY <1>2, <1>4, <2>1, <2>2 DEF r
<1>7. n \in us /\ ts \subseteq us
  BY <1>5, <1>6
<1>8. \A k \in us : task'[k] = e \/ (k \in ts /\ task'[k] = task[k])
  BY <1>5, <1>6
<1>9. IsTasks(task')
  BY <1>1, <1>3, <1>5, <1>6, <1>8 DEF IsTasks
<1>10. Queue(q, written, shut, may, ts)
  BY DEF IInv, Queued
<1> HIDE DEF q, shut, may, ts, us, n
<1>11. Queue(q, written, shut, may, us)
  BY <1>7, <1>10, QueueWider
<1>12. Plain("start")
  BY DEF Plain
<1>13. Queue(Call(q, "start", n), written, shut, may, us)
  BY <1>7, <1>11, <1>12, QueueCall
<1>14. IsLoop(loop') /\ loop'.state = loop.state /\ loop'.ready = Call(q, "start", n)
  BY <1>2 DEF IInv, IsLoop, q
<1>15. Queue(loop'.ready, written, shut, may, us)
  BY <1>13, <1>14
<1>17. \A k \in ts : task'[k].op = task[k].op
  BY <1>5, <1>6 DEF ts, n
<1>16. \A k \in us : task'[k].op = op \/ (k \in ts /\ task'[k].op = task[k].op)
  BY <1>3, <1>8
<1> QED
  BY <1>7, <1>9, <1>14, <1>15, <1>16, <1>17 DEF shut, may, ts, us

LEMMA BeginKeeps == IInv /\ Begin => IInv'
<1> SUFFICES ASSUME IInv, Begin PROVE IInv'
  OBVIOUS
<1>1. /\ conn' = conn /\ written' = written /\ thread["user"].at = "checked" /\ loop.state # "none"
      /\ thread["user"].op \in Calls
  BY DEF Begin, IInv, Before, IsThread
<1>2. CASE loop.state = "closed"
  <2>1. thread' = [thread EXCEPT !["user"] = Resting] /\ loop' = loop /\ task' = task
    BY <1>2 DEF Begin
  <2>2. IsThread(thread') /\ thread'["user"].at = "idle"
    BY <2>1 DEF IInv, IsThread, Threads, Resting
  <2> QED
    BY <1>1, <2>1, <2>2, ThreadKeeps DEF IInv
<1>3. CASE loop.state # "closed"
  <2> DEFINE op == thread["user"].op
  <2>1. Submit("user", op) /\ "user" \in Threads /\ op # "cleanup"
    BY <1>1, <1>3, CallsAssumption DEF Begin, Threads
  <2>2. thread' = [thread EXCEPT !["user"] = [at |-> "blocked", op |-> op, k |-> Len(task) + 1]]
    BY <2>1 DEF Submit
  <2>3. IsThread(thread') /\ thread'["user"].at = "blocked"
    BY <2>2 DEF IInv, IsThread, Threads
  <2> HIDE DEF op
  <2>4. /\ IsTasks(task') /\ DOMAIN task \subseteq DOMAIN task'
        /\ \A k \in DOMAIN task' : task'[k].op = op \/ (k \in DOMAIN task /\ task'[k].op = task[k].op)
        /\ \A k \in DOMAIN task : task'[k].op = task[k].op
        /\ IsLoop(loop') /\ loop'.state = loop.state
        /\ Queue(loop'.ready, written, Shut(conn), May(conn), DOMAIN task')
    BY <2>1, Submits
  <2>5. Queued(loop.ready)'
    BY <1>1, <2>4 DEF Queued
  <2>6. IsConn(conn', DOMAIN task') /\ CleanedUp(task', conn')
    BY <1>1, <2>1, <2>4 DEF IInv, IsConn, CleanedUp
  <2>7. Closing(conn', thread') /\ Sent(written', conn') /\ Before(loop', written', conn', thread')
    BY <1>1, <2>3, <2>4 DEF IInv, Closing, Before
  <2> QED
    BY <2>3, <2>4, <2>5, <2>6, <2>7 DEF IInv
<1> QED
  BY <1>2, <1>3

\* Whoever cleans up hands the loop the task.
LEMMA CloseKeeps == IInv /\ (Close \/ Cleans) => IInv'
<1> SUFFICES ASSUME IInv, Close \/ Cleans PROVE IInv'
  OBVIOUS
<1>1. IsConn(conn, DOMAIN task) /\ IsLoop(loop) /\ IsThread(thread) /\ Queued(loop.ready)
  BY DEF IInv
<1>2. CASE /\ task' = task /\ loop' = loop /\ conn' = conn /\ written' = written
           /\ thread' = [thread EXCEPT !["owner"].at = "stopping"]
  <2>1. thread' = [thread EXCEPT !["owner"].at = "stopping"]
    BY <1>2
  <2>2. IsThread(thread') /\ thread'["user"].at = thread["user"].at
    BY <1>1, <2>1 DEF IsThread, Threads
  <2> QED
    BY <1>1, <1>2, <2>1, <2>2, ThreadKeeps
<1>3. CASE \E op : Submit("owner", op) /\ (op = "cleanup" => conn.role = "client")
  <2>1. PICK op : Submit("owner", op) /\ (op = "cleanup" => conn.role = "client")
    BY <1>3
  <2>2. /\ written' = written /\ "owner" \in Threads
        /\ conn' = conn \/ (conn.role = "client" /\ conn' = [conn EXCEPT !.closed = TRUE])
    BY DEF Close, Cleans, Threads
  <2>3. thread' = [thread EXCEPT !["owner"] = [at |-> "blocked", op |-> op, k |-> Len(task) + 1]]
    BY <2>1 DEF Submit
  <2>4. IsThread(thread') /\ thread'["user"].at = thread["user"].at
    BY <1>1, <2>3 DEF IsThread, Threads
  <2>5. /\ IsTasks(task') /\ DOMAIN task \subseteq DOMAIN task'
        /\ \A k \in DOMAIN task' : task'[k].op = op \/ (k \in DOMAIN task /\ task'[k].op = task[k].op)
        /\ \A k \in DOMAIN task : task'[k].op = task[k].op
        /\ IsLoop(loop') /\ loop'.state = loop.state
        /\ Queue(loop'.ready, written, Shut(conn), May(conn), DOMAIN task')
    BY <2>1, <2>2, Submits
  <2>6. /\ IsConn(conn', DOMAIN task') /\ conn'.role = conn.role /\ conn'.connection_closed = conn.connection_closed
        /\ (conn.role = "server" => conn'.closed = conn.closed) /\ conn'.client = conn.client
        /\ conn'.waiters = conn.waiters /\ conn'.drainers = conn.drainers
    BY <1>1, <2>2, <2>5 DEF IsConn, ConnFields
  <2>7. Shut(conn') = Shut(conn) /\ May(conn') = May(conn)
    BY <1>1, <2>6 DEF Shut, May, IsConn
  <2>8. Queued(loop.ready)'
    BY <2>2, <2>5, <2>7 DEF Queued
  <2>9. CleanedUp(task', conn')
    BY <2>1, <2>5, <2>6 DEF IInv, CleanedUp
  <2>10. Closing(conn', thread') /\ Sent(written', conn') /\ Before(loop', written', conn', thread')
    BY <2>2, <2>4, <2>5, <2>6 DEF IInv, Closing, Sent, Before
  <2> QED
    BY <2>4, <2>5, <2>6, <2>8, <2>9, <2>10 DEF IInv
<1>4. CASE Close
  <2>1. Submit("owner", IF conn.role = "client" THEN "cleanup" ELSE "shutdown")
    BY <1>4 DEF Close
  <2>2. (IF conn.role = "client" THEN "cleanup" ELSE "shutdown") = "cleanup" => conn.role = "client"
    OBVIOUS
  <2> QED
    BY <1>3, <2>1, <2>2
<1>5. CASE Cleans
  <2>1. conn.role = "client" /\ conn' = conn /\ written' = written
    BY <1>5 DEF Cleans
  <2>2. \/ Submit("owner", "cleanup")
        \/ thread' = [thread EXCEPT !["owner"].at = "stopping"] /\ loop' = loop /\ task' = task
    BY <1>5 DEF Cleans
  <2> QED
    BY <1>2, <1>3, <2>1, <2>2
<1> QED
  BY <1>4, <1>5

LEMMA WriteKeeps == IInv /\ Write => IInv'
<1> SUFFICES ASSUME IInv, Write PROVE IInv'
  OBVIOUS
<1>1. /\ conn' = conn /\ task' = task /\ thread["user"].at = "checked" /\ loop.state # "none"
      /\ thread' = [thread EXCEPT !["user"] = Resting]
  BY DEF Write, IInv, Before
<1>2. IsThread(thread') /\ thread'["user"].at = "idle"
  BY <1>1 DEF IInv, IsThread, Threads, Resting
<1>3. CASE loop.state = "closed"
  BY <1>1, <1>2, <1>3, ThreadKeeps DEF Write, IInv
<1>4. CASE loop.state # "closed"
  <2> DEFINE q == loop.ready
             r == Call(q, "write", Len(written) + 1)
             w == Append(written, "called")
             ts == DOMAIN task
  <2>1. loop' = [loop EXCEPT !.ready = r] /\ written' = w
    BY <1>4 DEF Write
  <2>2. Shut(conn) = FALSE /\ May(conn) = FALSE
    BY <1>1 DEF IInv, Closing, IsConn, Shut, May
  <2>3. Queue(q, written, FALSE, FALSE, ts)
    BY <2>2 DEF IInv, Queued
  <2> HIDE DEF q, ts
  <2>4. Queue(r, w, FALSE, FALSE, ts)
    BY <2>3, QueueWrite
  <2>5. written \in Seq(Written)
    BY <2>3 DEF Queue
  <2>6. /\ Len(written) \in Nat /\ DOMAIN written = 1 .. Len(written) /\ DOMAIN w = 1 .. Len(written) + 1
        /\ w[Len(written) + 1] = "called" /\ \A k \in 1 .. Len(written) : w[k] = written[k]
    <3>1. "called" \in Written
      BY DEF Written
    <3> QED
      BY <2>5, <3>1, LenProperties, AppendProperties
  <2> HIDE DEF r, w
  <2>7. IsLoop(loop') /\ loop'.state = loop.state /\ loop'.ready = r
    BY <2>1 DEF IInv, IsLoop
  <2>8. Queued(loop.ready)'
    BY <1>1, <2>1, <2>2, <2>4, <2>7 DEF Queued, ts
  <2>9. Sent(w, conn)
    <3>1. Sent(written, conn)
      BY DEF IInv
    <3>2. \A i \in DOMAIN w : w[i] # "called" => i \in DOMAIN written /\ w[i] = written[i]
      BY <2>6
    <3>3. \A i \in DOMAIN written : \A j \in 1 .. i : j \in DOMAIN written /\ w[j] = written[j]
      BY <2>6
    <3> QED
      BY <3>1, <3>2, <3>3 DEF Sent
  <2>10. Closing(conn', thread') /\ Before(loop', written', conn', thread')
    BY <1>1, <1>2, <2>7 DEF IInv, Closing, Before
  <2> QED
    BY <1>1, <1>2, <2>1, <2>7, <2>8, <2>9, <2>10 DEF IInv
<1> QED
  BY <1>3, <1>4

\* The loop begins, with one task.
LEMMA FirstTask ==
  ASSUME NEW op, NEW at
  PROVE  /\ IsTasks(<<Call0(op, at)>>) /\ DOMAIN <<Call0(op, at)>> = {1} /\ <<Call0(op, at)>>[1].op = op
<1> DEFINE e == Call0(op, at)
<1>1. DOMAIN e = TaskFields /\ e.op = op
  BY DEF Call0, TaskFields
<1> HIDE DEF e
<1>2. <<e>> \in Seq({e}) /\ DOMAIN <<e>> = {1} /\ <<e>>[1] = e
  OBVIOUS
<1>3. IsTasks(<<e>>)
  BY <1>1, <1>2 DEF IsTasks, IsList
<1> QED
  BY <1>1, <1>2, <1>3 DEF e

LEMMA BeginningsKeep == IInv /\ (Connect \/ start) => IInv'
<1> SUFFICES ASSUME IInv, Connect \/ start PROVE IInv'
  OBVIOUS
<1>1. /\ loop.state = "none" /\ conn' = conn /\ written' = written /\ written = <<>>
      /\ conn.waiters = {} /\ conn.drainers = {} /\ thread["user"].at = "idle" /\ conn.client = "none"
      /\ ~conn.connection_closed
  BY DEF Connect, start, IInv, Before
<1>2. PICK op \in {"connect", "start"}, at \in {"queued", "ready"} : task' = <<Call0(op, at)>>
  BY DEF Connect, start
<1>3. IsTasks(task') /\ DOMAIN task' = {1} /\ task'[1].op = op
  BY <1>2, FirstTask
<1>4. /\ IsLoop(loop') /\ loop'.state = "running"
      /\ \/ loop'.ready = <<H("poll", 0), H("start", 1)>>
         \/ loop'.ready = <<H("step", 1), H("poll", 0)>>
  BY DEF Connect, start, IsLoop
<1>5. Quiet(loop'.ready, {1})
  <2> DEFINE All == {H("poll", 0), H("start", 1), H("step", 1)}
  <2>4. H("poll", 0) \in All /\ H("start", 1) \in All /\ H("step", 1) \in All
    OBVIOUS
  <2> HIDE DEF All
  <2>1. loop'.ready \in Seq(All)
    <3>1. <<H("poll", 0), H("start", 1)>> \in Seq(All) /\ <<H("step", 1), H("poll", 0)>> \in Seq(All)
      BY <2>4
    <3> QED
      BY <1>4, <3>1
  <2>2. \A i \in DOMAIN loop'.ready : loop'.ready[i] \in All
    BY <2>1, LenProperties, ElementOfSeq
  <2>3. \A h \in All : Plain(h.name) /\ (Tasked(h.name) => h.k \in {1})
    BY DEF H, Plain, Tasked, All
  <2> QED
    BY <2>1, <2>2, <2>3 DEF Quiet, IsList
<1>6. Queue(loop'.ready, <<>>, Shut(conn), May(conn), {1})
  BY <1>5, QueueFresh
<1>7. Queued(loop.ready)'
  BY <1>1, <1>3, <1>6 DEF Queued
<1>8. PICK op2, k : thread' = [thread EXCEPT !["owner"] = [at |-> "blocked", op |-> op2, k |-> k]]
  BY DEF Connect, start
<1>9. IsThread(thread') /\ thread'["user"].at = thread["user"].at
  BY <1>8 DEF IInv, IsThread, Threads
<1>10. IsConn(conn', DOMAIN task') /\ CleanedUp(task', conn')
  BY <1>1, <1>2, <1>3 DEF IInv, IsConn, CleanedUp
<1>11. Closing(conn', thread') /\ Sent(written', conn') /\ Before(loop', written', conn', thread')
  BY <1>1, <1>4, <1>9 DEF IInv, Closing, Before
<1> QED
  BY <1>3, <1>4, <1>7, <1>9, <1>10, <1>11 DEF IInv

(***************************************************************************)
(* The theorem about the writes.                                           *)
(***************************************************************************)
LEMMA InitEstablishes == Init => IInv
<1> SUFFICES ASSUME Init PROVE IInv
  OBVIOUS
<1>1. <<>> \in Seq({}) /\ DOMAIN <<>> = {}
  BY EmptySeq, LenProperties
<1>2. IsTasks(task) /\ DOMAIN task = {} /\ written = <<>>
  BY <1>1 DEF Init, IsTasks, IsList
<1>3. Quiet(<<>>, {})
  BY <1>1 DEF Quiet, IsList
<1>4. IsLoop(loop) /\ loop.state = "none" /\ loop.ready = <<>>
  BY DEF Init, IsLoop
<1>5. Queued(loop.ready)
  BY <1>2, <1>3, <1>4, QueueFresh DEF Queued
<1>6. /\ IsConn(conn, {}) /\ conn.client = "none" /\ conn.waiters = {} /\ conn.drainers = {}
      /\ conn.closed = FALSE /\ conn.connection_closed = FALSE
  BY DEF Init, IsConn, ConnFields
<1>7. IsThread(thread) /\ thread["user"].at = "idle"
  BY DEF Init, IsThread, Threads, Resting
<1>8. CleanedUp(task, conn) /\ Closing(conn, thread) /\ Sent(written, conn) /\ Before(loop, written, conn, thread)
  BY <1>1, <1>2, <1>6, <1>7 DEF CleanedUp, Closing, Sent, Before
<1> QED
  BY <1>2, <1>4, <1>5, <1>6, <1>7, <1>8 DEF IInv

LEMMA StepKeeps == IInv /\ [Next]_vars => IInv'
<1> SUFFICES ASSUME IInv, [Next]_vars PROVE IInv'
  OBVIOUS
<1>1. CASE Run
  BY <1>1, StartKeeps, CancelTaskKeeps, SettleKeeps, CallStepsKeep, StepStartKeeps, StepCleanupKeeps,
     StepShutdownKeeps, RunWriteKeeps, RunCloseKeeps, NetworkKeeps DEF Run
<1>2. CASE Poll \/ Exit
  BY <1>2, PollKeeps, NetworkKeeps
<1>3. CASE Owner
  <2>1. "owner" \in Threads
    BY DEF Threads
  <2> QED
    BY <1>3, <2>1, BeginningsKeep, CloseKeeps, ReturnsKeeps DEF Owner
<1>4. CASE User
  <2>1. "user" \in Threads
    BY DEF Threads
  <2> QED
    BY <1>4, <2>1, AcceptKeeps, ReturnsKeeps, BeginKeeps, WriteKeeps, TimesOutKeeps, HandlerClosesKeeps DEF User
<1>5. CASE UNCHANGED vars
  BY <1>5 DEF vars, IInv, Queued
<1> QED
  BY <1>1, <1>2, <1>3, <1>4, <1>5 DEF Next

\* A write is done only after every write called before it, so what reaches the
\* writer is in the order of the calls; and one is lost only on a client's
\* connection that another thread cleans up, never in a server's handler.
THEOREM WritesKeptHolds == Spec => []WritesKept
<1>1. IInv => WritesKept
  BY DEF IInv, Sent, CleanedUp, WritesKept
<1> QED
  BY <1>1, InitEstablishes, StepKeeps, PTL DEF Spec

(***************************************************************************)
(* ReleasedByClose.  The ready list is a queue: what is asked of the loop  *)
(* first is done first, and the proof only needs which handles it has and  *)
(* which of two is ahead of the other.                                     *)
(***************************************************************************)
Has(q, h) == \E i \in DOMAIN q : q[i] = h
Ahead(q, g, h) ==
  Has(q, g) /\ \A i \in DOMAIN q : q[i] = h => \E j \in DOMAIN q : j < i /\ q[j] = g
Single == {"start", "step", "settle"}
Once(q) == \A i, j \in DOMAIN q : i < j /\ q[i].name \in Single => q[i] # q[j]

\* What taking the first handle off and adding some others make of that.
Passed(q, r, h) ==
  /\ IsList(r) /\ Once(r)
  /\ \A g : Has(r, g) => Has(q, g)
  /\ \A g : Has(q, g) /\ g # h => Has(r, g)
  /\ \A f, g : Ahead(q, f, g) /\ f # h => Ahead(r, f, g)
Shifted(q, r, h) ==
  /\ Passed(q, r, h)
  /\ h.name \in Single => ~Has(r, h)
  /\ Has(q, h) /\ \A f : ~Ahead(q, f, h)
Added(q, r, S) ==
  /\ IsList(r)
  /\ \A g : Has(r, g) <=> Has(q, g) \/ g \in S
  /\ \A f, g : Ahead(q, f, g) => Ahead(r, f, g)
  /\ (\A g \in S : g.name \in Single => ~Has(q, g)) => Once(r)

LEMMA FirstShifted ==
  ASSUME NEW q, IsList(q), Once(q), q # <<>>
  PROVE  Shifted(q, Tail(q), Head(q))
<1> DEFINE r == Tail(q)
           h == Head(q)
           n == Len(q)
<1>1. /\ IsList(r) /\ n \in Nat \ {0} /\ h = q[1] /\ DOMAIN q = 1 .. n /\ DOMAIN r = 1 .. n - 1
      /\ \A i \in 1 .. n - 1 : r[i] = q[i + 1]
  BY ListTail
<1> HIDE DEF r, h, n
<1>2. \A i \in DOMAIN r : i + 1 \in DOMAIN q /\ r[i] = q[i + 1] /\ 1 < i + 1
  BY <1>1
<1>3. \A i \in DOMAIN q : i # 1 => i - 1 \in DOMAIN r /\ r[i - 1] = q[i]
  <2> SUFFICES ASSUME NEW i \in DOMAIN q, i # 1 PROVE i - 1 \in DOMAIN r /\ r[i - 1] = q[i]
    OBVIOUS
  <2>1. i - 1 \in 1 .. n - 1 /\ (i - 1) + 1 = i
    BY <1>1
  <2> QED
    BY <1>1, <2>1
<1>4. 1 \in DOMAIN q /\ \A i \in DOMAIN q : ~(i < 1)
  BY <1>1
<1>5. ASSUME NEW g, Has(r, g) PROVE Has(q, g)
  BY <1>2, <1>5 DEF Has
<1>6. ASSUME NEW g, Has(q, g), g # h PROVE Has(r, g)
  BY <1>1, <1>3, <1>6 DEF Has
<1>7. h.name \in Single => ~Has(r, h)
  BY <1>1, <1>2, <1>4 DEF Has, Once
<1>8. ASSUME NEW f, NEW g, Ahead(q, f, g), f # h PROVE Ahead(r, f, g)
  <2> SUFFICES ASSUME NEW i \in DOMAIN r, r[i] = g PROVE \E j \in DOMAIN r : j < i /\ r[j] = f
    BY <1>6, <1>8 DEF Ahead
  <2>1. PICK j \in DOMAIN q : j < i + 1 /\ q[j] = f
    BY <1>2, <1>8 DEF Ahead
  <2>2. j # 1
    BY <1>1, <1>8, <2>1
  <2>3. j - 1 \in DOMAIN r /\ r[j - 1] = f
    BY <1>3, <2>1, <2>2
  <2>4. j - 1 < i
    BY <1>1, <2>1
  <2> QED
    BY <2>3, <2>4
<1>9. Has(q, h) /\ \A f : ~Ahead(q, f, h)
  BY <1>1, <1>4 DEF Has, Ahead
<1>10. Once(r)
  <2> SUFFICES ASSUME NEW i \in DOMAIN r, NEW j \in DOMAIN r, i < j, r[i].name \in Single PROVE r[i] # r[j]
    BY DEF Once
  <2>1. i + 1 \in DOMAIN q /\ j + 1 \in DOMAIN q /\ i + 1 < j + 1
    BY <1>1, <1>2
  <2> QED
    BY <1>2, <2>1 DEF Once
<1>11. Shifted(q, r, h)
  BY <1>1, <1>5, <1>6, <1>7, <1>8, <1>9, <1>10 DEF Shifted, Passed
<1> QED
  BY <1>11 DEF r, h

\* A list put behind another, each of its handles being in it once.
LEMMA ListAdded ==
  ASSUME NEW q, IsList(q), Once(q), NEW s, IsList(s), NEW S,
         \A i \in DOMAIN s : s[i] \in S, \A h \in S : Has(s, h),
         \A i, j \in DOMAIN s : i < j => s[i] # s[j]
  PROVE  Added(q, q \o s, S)
<1> DEFINE r == q \o s
           n == Len(q)
           m == Len(s)
<1>1. /\ IsList(r) /\ n \in Nat /\ m \in Nat /\ DOMAIN q = 1 .. n /\ DOMAIN s = 1 .. m
      /\ DOMAIN r = 1 .. n + m
      /\ \A i \in 1 .. n + m : r[i] = IF i <= n THEN q[i] ELSE s[i - n]
  BY ListsTogether
<1> HIDE DEF r, n, m
<1>2. \A i \in DOMAIN q : i \in DOMAIN r /\ r[i] = q[i]
  BY <1>1
<1>3. ASSUME NEW i \in DOMAIN s PROVE n + i \in DOMAIN r /\ r[n + i] = s[i] /\ \A j \in DOMAIN q : j < n + i
  <2>1. n + i \in 1 .. n + m /\ ~(n + i <= n) /\ (n + i) - n = i
    BY <1>1
  <2> QED
    BY <1>1, <2>1
<1>4. ASSUME NEW i \in DOMAIN r PROVE (i \in DOMAIN q /\ r[i] = q[i]) \/ (i - n \in DOMAIN s /\ r[i] = s[i - n])
  BY <1>1
<1>5. ASSUME NEW g PROVE Has(r, g) <=> Has(q, g) \/ g \in S
  <2>1. ASSUME Has(r, g) PROVE Has(q, g) \/ g \in S
    BY <1>4, <2>1 DEF Has
  <2>2. ASSUME Has(q, g) PROVE Has(r, g)
    BY <1>2, <2>2 DEF Has
  <2>3. ASSUME g \in S PROVE Has(r, g)
    <3>1. PICK i \in DOMAIN s : s[i] = g
      BY <2>3 DEF Has
    <3> QED
      BY <1>3, <3>1 DEF Has
  <2> QED
    BY <2>1, <2>2, <2>3
<1>6. ASSUME NEW f, NEW g, Ahead(q, f, g) PROVE Ahead(r, f, g)
  <2> SUFFICES ASSUME NEW i \in DOMAIN r, r[i] = g PROVE \E j \in DOMAIN r : j < i /\ r[j] = f
    BY <1>5, <1>6 DEF Ahead
  <2>1. CASE i \in DOMAIN q /\ r[i] = q[i]
    <3>1. PICK j \in DOMAIN q : j < i /\ q[j] = f
      BY <1>6, <2>1 DEF Ahead
    <3> QED
      BY <1>2, <3>1
  <2>2. CASE ~(i \in DOMAIN q) /\ i - n \in DOMAIN s /\ r[i] = s[i - n]
    <3>1. PICK j \in DOMAIN q : q[j] = f
      BY <1>6 DEF Ahead, Has
    <3>2. j < i
      BY <1>1, <2>2
    <3> QED
      BY <1>2, <3>1, <3>2
  <2> QED
    BY <1>2, <1>4, <2>1, <2>2
<1>7. ASSUME \A g \in S : g.name \in Single => ~Has(q, g) PROVE Once(r)
  <2> SUFFICES ASSUME NEW i \in DOMAIN r, NEW j \in DOMAIN r, i < j, r[i].name \in Single, r[i] = r[j] PROVE FALSE
    BY DEF Once
  <2>1. CASE j \in DOMAIN q
    <3>1. i \in DOMAIN q
      BY <1>1, <2>1
    <3> QED
      BY <1>2, <2>1, <3>1 DEF Once
  <2>2. CASE j \notin DOMAIN q
    <3>1. j - n \in DOMAIN s /\ r[j] = s[j - n] /\ r[j] \in S
      BY <1>4, <2>2
    <3>2. ~Has(q, r[i])
      BY <1>7, <3>1
    <3>3. i \notin DOMAIN q
      BY <1>2, <3>2 DEF Has
    <3>4. i - n \in DOMAIN s /\ r[i] = s[i - n]
      BY <1>4, <3>3
    <3>5. i - n < j - n
      BY <1>1
    <3> QED
      BY <3>1, <3>4, <3>5
  <2> QED
    BY <2>1, <2>2
<1>8. Added(q, r, S)
  BY <1>1, <1>5, <1>6, <1>7 DEF Added
<1> QED
  BY <1>8 DEF r

LEMMA CallAdded ==
  ASSUME NEW q, IsList(q), Once(q), NEW name, NEW k
  PROVE  Added(q, Call(q, name, k), {H(name, k)})
<1> DEFINE h == H(name, k)
           s == <<h>>
<1>1. IsList(s) /\ Call(q, name, k) = q \o s /\ s[1] = h /\ Len(s) = 1
  BY ListAppend DEF Call
<1>2. DOMAIN s = {1}
  OBVIOUS
<1> HIDE DEF s, h
<1>3. /\ \A i \in DOMAIN s : s[i] \in {h}
      /\ \A g \in {h} : Has(s, g)
      /\ \A i, j \in DOMAIN s : i < j => s[i] # s[j]
  BY <1>1, <1>2 DEF Has
<1> QED
  BY <1>1, <1>3, ListAdded DEF h

LEMMA EachAdded ==
  ASSUME NEW q, IsList(q), Once(q), NEW ks, IsFiniteSet(ks)
  PROVE  Added(q, CallEach(q, "step", ks), {H("step", k) : k \in ks})
<1> DEFINE S == {H("step", k) : k \in ks}
           f == [k \in ks |-> H("step", k)]
           s == SetToSeq(S)
           n == Cardinality(S)
<1>1. f \in Surjection(ks, S)
  BY DEF Surjection
<1> HIDE DEF S
<1>2. IsFiniteSet(S)
  BY <1>1, FS_Surjection
<1>3. n \in Nat /\ ExistsBijection(1 .. n, S)
  BY <1>2, FS_CardinalityType
<1>4. PICK g \in Bijection(1 .. n, S) : TRUE
  BY <1>3 DEF ExistsBijection
<1>5. g \in [1 .. n -> S] /\ IsInjective(g)
  BY <1>4 DEF Bijection, Injection, IsInjective
<1>6. s \in [1 .. n -> S] /\ IsInjective(s)
  BY <1>5 DEF SetToSeq
<1> HIDE DEF s
<1>7. s \in Injection(1 .. n, S)
  BY <1>6 DEF Injection, IsInjective
<1>8. IsFiniteSet(1 .. n) /\ Cardinality(1 .. n) = n
  BY <1>3, FS_Interval
<1>9. s \in Surjection(1 .. n, S)
  BY <1>2, <1>7, <1>8, FS_Injection
<1>10. IsList(s) /\ \A i \in DOMAIN s : s[i] \in S
  BY <1>2, SetAsList DEF s
<1>11. DOMAIN s = 1 .. n
  BY <1>6
<1>12. \A h \in S : Has(s, h)
  BY <1>9, <1>11 DEF Surjection, Has
<1>13. \A i, j \in DOMAIN s : i < j => s[i] # s[j]
  BY <1>3, <1>6, <1>11 DEF IsInjective
<1>14. Added(q, q \o s, S)
  BY <1>10, <1>12, <1>13, ListAdded
<1> QED
  BY <1>14 DEF S, s, CallEach

LEMMA Handle == \A n, k : H(n, k).name = n /\ H(n, k).k = k
BY DEF H

\* Where the handles of a task are tells how far it is ...
Fitting(q, t) ==
  /\ DOMAIN t \subseteq Nat
  /\ \A h : Has(q, h) => h = H(h.name, h.k)
  /\ \A k : Has(q, H("start", k)) => k \in DOMAIN t /\ t[k].at = "queued"
  /\ \A k : Has(q, H("step", k)) => k \in DOMAIN t /\ t[k].at \in {"ready", "waiting"}
  /\ \A k : Has(q, H("settle", k)) => k \in DOMAIN t /\ t[k].at = "over"
  /\ \A k \in DOMAIN t :
       /\ t[k].at \in {"queued", "ready", "waiting", "over"}
       /\ t[k].at = "queued" => Has(q, H("start", k))
       /\ t[k].at = "ready" => Has(q, H("step", k))

\* ... and no task is further than one that was started before it.
InTurn(q, t) == \A j, k \in DOMAIN t : j < k =>
  /\ t[j].at = "queued" /\ t[k].at = "queued" => Ahead(q, H("start", j), H("start", k))
  /\ t[k].at # "queued" => t[j].at # "queued"
  /\ t[j].at = "ready" /\ t[k].at = "ready" => Ahead(q, H("step", j), H("step", k))
  /\ t[k].at \in {"waiting", "over"} => t[j].at \in {"waiting", "over"}

Fit(q, t) == IsList(q) /\ Once(q) /\ Fitting(q, t) /\ InTurn(q, t)

\* What is in the list is ahead of what is added to it.
LEMMA Newer ==
  ASSUME NEW q, NEW r, NEW S, Added(q, r, S), NEW f, Has(q, f), NEW g, ~Has(q, g)
  PROVE  Ahead(r, f, g)
<1>1. Ahead(q, f, g)
  BY DEF Ahead, Has
<1> QED
  BY <1>1 DEF Added

LEMMA FitSame ==
  ASSUME NEW q, NEW t, Fit(q, t), NEW u, DOMAIN u = DOMAIN t, \A k \in DOMAIN t : u[k].at = t[k].at
  PROVE  Fit(q, u)
<1>1. Fitting(q, u)
  BY DEF Fit, Fitting
<1>2. InTurn(q, u)
  BY DEF Fit, InTurn
<1> QED
  BY <1>1, <1>2 DEF Fit

LEMMA FitPassed ==
  ASSUME NEW q, NEW t, Fit(q, t), NEW r, NEW h, Passed(q, r, h), h.name \notin {"start", "step"}
  PROVE  Fit(r, t)
<1>1. \A k : H("start", k) # h /\ H("step", k) # h
  BY Handle
<1>2. Fitting(r, t)
  BY <1>1 DEF Fit, Fitting, Passed
<1>3. InTurn(r, t)
  BY <1>1 DEF Fit, InTurn, Passed
<1> QED
  BY <1>2, <1>3 DEF Fit, Passed

\* A handle that may be added: the step of a task that waits, the settling of
\* one that is over, or any that is not a task's turn.
MayAdd(q, t, g) ==
  /\ g = H(g.name, g.k) /\ g.name # "start"
  /\ g.name = "step" => g.k \in DOMAIN t /\ t[g.k].at = "waiting" /\ ~Has(q, g)
  /\ g.name = "settle" => g.k \in DOMAIN t /\ t[g.k].at = "over" /\ ~Has(q, g)

LEMMA FitAdded ==
  ASSUME NEW q, NEW t, Fit(q, t), NEW r, NEW S, Added(q, r, S), \A g \in S : MayAdd(q, t, g)
  PROVE  Fit(r, t)
<1>1. \A g \in S : g.name \in Single => ~Has(q, g)
  BY DEF MayAdd, Single
<1>2. IsList(r) /\ Once(r) /\ \A g : Has(r, g) <=> Has(q, g) \/ g \in S
  BY <1>1 DEF Added
<1>3. \A k : H("start", k) \notin S
  BY Handle DEF MayAdd
<1>4. \A k : H("step", k) \in S => k \in DOMAIN t /\ t[k].at = "waiting"
  BY Handle DEF MayAdd
<1>5. \A k : H("settle", k) \in S => k \in DOMAIN t /\ t[k].at = "over"
  BY Handle DEF MayAdd
<1>6. \A h : Has(r, h) => h = H(h.name, h.k)
  BY <1>2 DEF MayAdd, Fit, Fitting
<1>7. Fitting(r, t)
  BY <1>2, <1>3, <1>4, <1>5, <1>6 DEF Fit, Fitting
<1>8. \A f, g : Ahead(q, f, g) => Ahead(r, f, g)
  BY DEF Added
<1>9. InTurn(r, t)
  <2> SUFFICES ASSUME NEW j \in DOMAIN t, NEW k \in DOMAIN t, j < k
               PROVE  /\ t[j].at = "queued" /\ t[k].at = "queued" => Ahead(r, H("start", j), H("start", k))
                      /\ t[k].at # "queued" => t[j].at # "queued"
                      /\ t[j].at = "ready" /\ t[k].at = "ready" => Ahead(r, H("step", j), H("step", k))
                      /\ t[k].at \in {"waiting", "over"} => t[j].at \in {"waiting", "over"}
    BY DEF InTurn
  <2>1. t[j].at = "ready" => Has(q, H("step", j))
    BY DEF Fit, Fitting
  <2> QED
    BY <1>3, <1>8, <2>1 DEF Fit, InTurn
<1> QED
  BY <1>2, <1>7, <1>9 DEF Fit

\* A task is started.
LEMMA FitStarted ==
  ASSUME NEW q, NEW t, Fit(q, t), NEW k, NEW r, Shifted(q, r, H("start", k)),
         NEW s, Added(r, s, {H("step", k)}),
         NEW u, DOMAIN u = DOMAIN t, u[k].at = "ready", \A j \in DOMAIN t : j # k => u[j].at = t[j].at
  PROVE  Fit(s, u) /\ k \in DOMAIN t /\ t[k].at = "queued"
<1>1. k \in DOMAIN t /\ t[k].at = "queued"
  BY DEF Shifted, Passed, Fit, Fitting
<1>2. ~Has(q, H("step", k)) /\ ~Has(r, H("step", k)) /\ ~Has(r, H("start", k))
  BY <1>1, Handle DEF Shifted, Passed, Fit, Fitting, Single
<1>3. IsList(s) /\ Once(s) /\ \A g : Has(s, g) <=> Has(r, g) \/ g = H("step", k)
  BY <1>2 DEF Added
<1>4. /\ \A g : Has(s, g) => g = H("step", k) \/ (Has(q, g) /\ g # H("start", k))
      /\ \A g : Has(q, g) /\ g # H("start", k) => Has(s, g)
      /\ Has(s, H("step", k))
  BY <1>2, <1>3 DEF Shifted, Passed
<1>5. \A j : j # k => H("start", j) # H("start", k) /\ H("step", j) # H("step", k)
  BY Handle
<1>6. \A j, i : /\ H("settle", j) # H("step", i) /\ H("settle", j) # H("start", i)
                /\ H("step", j) # H("start", i)
  BY Handle
<1>10. DOMAIN u \subseteq Nat
  BY DEF Fit, Fitting
<1>7. Fitting(s, u)
  <2>1. \A h : Has(s, h) => h = H(h.name, h.k)
    BY <1>4, Handle DEF Fit, Fitting
  <2>2. \A j : Has(s, H("start", j)) => j \in DOMAIN u /\ u[j].at = "queued"
    BY <1>4, <1>6 DEF Fit, Fitting
  <2>3. \A j : Has(s, H("step", j)) => j \in DOMAIN u /\ u[j].at \in {"ready", "waiting"}
    BY <1>1, <1>4, <1>5 DEF Fit, Fitting
  <2>4. \A j : Has(s, H("settle", j)) => j \in DOMAIN u /\ u[j].at = "over"
    BY <1>1, <1>4, <1>6 DEF Fit, Fitting
  <2>5. \A j \in DOMAIN u :
          /\ u[j].at \in {"queued", "ready", "waiting", "over"}
          /\ u[j].at = "queued" => Has(s, H("start", j))
          /\ u[j].at = "ready" => Has(s, H("step", j))
    BY <1>4, <1>5, <1>6 DEF Fit, Fitting
  <2> QED
    BY <1>10, <2>1, <2>2, <2>3, <2>4, <2>5 DEF Fitting
<1>8. ASSUME NEW f, NEW g, Ahead(q, f, g), f # H("start", k)
      PROVE  Ahead(s, f, g)
  BY <1>8 DEF Shifted, Passed, Added
<1>9. InTurn(s, u)
  <2> SUFFICES ASSUME NEW i \in DOMAIN t, NEW j \in DOMAIN t, i < j
               PROVE  /\ u[i].at = "queued" /\ u[j].at = "queued" => Ahead(s, H("start", i), H("start", j))
                      /\ u[j].at # "queued" => u[i].at # "queued"
                      /\ u[i].at = "ready" /\ u[j].at = "ready" => Ahead(s, H("step", i), H("step", j))
                      /\ u[j].at \in {"waiting", "over"} => u[i].at \in {"waiting", "over"}
    BY DEF InTurn
  <2>1. /\ t[i].at = "queued" /\ t[j].at = "queued" => Ahead(q, H("start", i), H("start", j))
        /\ t[j].at # "queued" => t[i].at # "queued"
        /\ t[i].at = "ready" /\ t[j].at = "ready" => Ahead(q, H("step", i), H("step", j))
        /\ t[j].at \in {"waiting", "over"} => t[i].at \in {"waiting", "over"}
    BY DEF Fit, InTurn
  <2>2. CASE j = k
    <3>1. i # k /\ u[i].at = t[i].at /\ u[j].at = "ready"
      BY <1>10, <2>2
    <3>2. t[i].at # "queued"
      BY <1>1, <1>5, <2>1, <2>2, <3>1 DEF Shifted, Passed
    <3>3. t[i].at = "ready" => Has(q, H("step", i))
      BY DEF Fit, Fitting
    <3>4. t[i].at = "ready" => Has(r, H("step", i)) /\ ~Has(r, H("step", j))
      BY <1>2, <1>6, <2>2, <3>3 DEF Shifted, Passed
    <3>5. t[i].at = "ready" => Ahead(s, H("step", i), H("step", j))
      BY <2>2, <3>4, Newer
    <3> QED
      BY <3>1, <3>2, <3>5
  <2>3. CASE i = k
    <3>1. j # k /\ u[j].at = t[j].at /\ u[i].at = "ready" /\ t[i].at = "queued"
      BY <1>1, <1>10, <2>3
    <3>2. t[j].at = "queued"
      BY <2>1, <3>1
    <3> QED
      BY <3>1, <3>2
  <2>4. CASE i # k /\ j # k
    <3>1. u[i].at = t[i].at /\ u[j].at = t[j].at
      BY <2>4
    <3> QED
      BY <1>5, <1>6, <1>8, <2>1, <2>4, <3>1
  <2> QED
    BY <2>2, <2>3, <2>4
<1> QED
  BY <1>1, <1>3, <1>7, <1>9 DEF Fit

\* A task has had a turn: it waits, or is over.
LEMMA FitTurned ==
  ASSUME NEW q, NEW t, Fit(q, t), NEW k, NEW r, Shifted(q, r, H("step", k)),
         NEW u, DOMAIN u = DOMAIN t, u[k].at \in {"waiting", "over"},
         \A j \in DOMAIN t : j # k => u[j].at = t[j].at
  PROVE  /\ Fit(r, u) /\ k \in DOMAIN t /\ t[k].at \in {"ready", "waiting"}
         /\ ~Has(r, H("step", k)) /\ ~Has(r, H("settle", k))
         /\ \A j \in DOMAIN t : j < k => t[j].at \in {"waiting", "over"}
<1>1. k \in DOMAIN t /\ t[k].at \in {"ready", "waiting"}
  BY DEF Shifted, Passed, Fit, Fitting
<1>2. ~Has(r, H("step", k)) /\ ~Has(r, H("settle", k))
  BY <1>1, Handle DEF Shifted, Passed, Fit, Fitting, Single
<1>3. \A j : j # k => H("step", j) # H("step", k)
  BY Handle
<1>4. \A j : H("settle", j) # H("step", k) /\ H("start", j) # H("step", k)
  BY Handle
<1>5. Fitting(r, u)
  <2>1. \A h : Has(r, h) => h = H(h.name, h.k)
    BY DEF Shifted, Passed, Fit, Fitting
  <2>2. \A j : Has(r, H("start", j)) => j \in DOMAIN u /\ u[j].at = "queued"
    BY <1>1 DEF Shifted, Passed, Fit, Fitting
  <2>3. \A j : Has(r, H("step", j)) => j \in DOMAIN u /\ u[j].at \in {"ready", "waiting"}
    BY <1>2 DEF Shifted, Passed, Fit, Fitting
  <2>4. \A j : Has(r, H("settle", j)) => j \in DOMAIN u /\ u[j].at = "over"
    BY <1>1 DEF Shifted, Passed, Fit, Fitting
  <2>5. \A j \in DOMAIN u :
          /\ u[j].at \in {"queued", "ready", "waiting", "over"}
          /\ u[j].at = "queued" => Has(r, H("start", j))
          /\ u[j].at = "ready" => Has(r, H("step", j))
    BY <1>3, <1>4 DEF Shifted, Passed, Fit, Fitting
  <2>6. DOMAIN u \subseteq Nat
    BY DEF Fit, Fitting
  <2> QED
    BY <2>1, <2>2, <2>3, <2>4, <2>5, <2>6 DEF Fitting
<1>8. DOMAIN t \subseteq Nat
  BY DEF Fit, Fitting
<1>6. ASSUME NEW j \in DOMAIN t, j < k PROVE t[j].at \in {"waiting", "over"}
  <2>1. t[j].at # "queued"
    BY <1>1, <1>6 DEF Fit, InTurn
  <2>2. ~(t[j].at = "ready")
    BY <1>1, <1>6 DEF Fit, InTurn, Shifted, Passed
  <2>3. t[j].at \in {"queued", "ready", "waiting", "over"}
    BY DEF Fit, Fitting
  <2> QED
    BY <2>1, <2>2, <2>3
<1>7. InTurn(r, u)
  <2> SUFFICES ASSUME NEW i \in DOMAIN t, NEW j \in DOMAIN t, i < j
               PROVE  /\ u[i].at = "queued" /\ u[j].at = "queued" => Ahead(r, H("start", i), H("start", j))
                      /\ u[j].at # "queued" => u[i].at # "queued"
                      /\ u[i].at = "ready" /\ u[j].at = "ready" => Ahead(r, H("step", i), H("step", j))
                      /\ u[j].at \in {"waiting", "over"} => u[i].at \in {"waiting", "over"}
    BY DEF InTurn
  <2>1. /\ t[i].at = "queued" /\ t[j].at = "queued" => Ahead(q, H("start", i), H("start", j))
        /\ t[j].at # "queued" => t[i].at # "queued"
        /\ t[i].at = "ready" /\ t[j].at = "ready" => Ahead(q, H("step", i), H("step", j))
        /\ t[j].at \in {"waiting", "over"} => t[i].at \in {"waiting", "over"}
    BY DEF Fit, InTurn
  <2>2. CASE j = k
    <3>1. i # k /\ u[i].at = t[i].at /\ t[i].at \in {"waiting", "over"}
      BY <1>6, <1>8, <2>2
    <3> QED
      BY <2>2, <3>1
  <2>3. CASE i = k /\ j # k
    BY <2>3
  <2>4. CASE i # k /\ j # k
    <3>1. u[i].at = t[i].at /\ u[j].at = t[j].at
      BY <2>4
    <3> QED
      BY <1>3, <1>4, <2>1, <2>4, <3>1 DEF Shifted, Passed
  <2> QED
    BY <2>2, <2>3, <2>4
<1>9. IsList(r) /\ Once(r)
  BY DEF Shifted, Passed
<1> QED
  BY <1>1, <1>2, <1>5, <1>6, <1>7, <1>9 DEF Fit

\* A task is asked for.
LEMMA FitAsked ==
  ASSUME NEW q, NEW t, Fit(q, t), NEW n, n \notin DOMAIN t, NEW r, Added(q, r, {H("start", n)}),
         NEW u, DOMAIN u = DOMAIN t \cup {n}, u[n].at = "queued",
         n \in Nat, \A j \in DOMAIN t : u[j].at = t[j].at /\ j < n
  PROVE  Fit(r, u)
<1>1. ~Has(q, H("start", n))
  BY DEF Fit, Fitting
<1>2. IsList(r) /\ Once(r) /\ \A g : Has(r, g) <=> Has(q, g) \/ g = H("start", n)
  BY <1>1, Handle DEF Added
<1>3. \A j : /\ j # n => H("start", j) # H("start", n)
             /\ H("settle", j) # H("start", n) /\ H("step", j) # H("start", n)
  BY Handle
<1>4. Fitting(r, u)
  <2>1. \A h : Has(r, h) => h = H(h.name, h.k)
    BY <1>2, Handle DEF Fit, Fitting
  <2>2. \A j : Has(r, H("start", j)) => j \in DOMAIN u /\ u[j].at = "queued"
    BY <1>2, <1>3 DEF Fit, Fitting
  <2>3. \A j : Has(r, H("step", j)) => j \in DOMAIN u /\ u[j].at \in {"ready", "waiting"}
    BY <1>2, <1>3 DEF Fit, Fitting
  <2>4. \A j : Has(r, H("settle", j)) => j \in DOMAIN u /\ u[j].at = "over"
    BY <1>2, <1>3 DEF Fit, Fitting
  <2>5. \A j \in DOMAIN u :
          /\ u[j].at \in {"queued", "ready", "waiting", "over"}
          /\ u[j].at = "queued" => Has(r, H("start", j))
          /\ u[j].at = "ready" => Has(r, H("step", j))
    BY <1>2 DEF Fit, Fitting
  <2>6. DOMAIN u \subseteq Nat
    BY DEF Fit, Fitting
  <2> QED
    BY <2>1, <2>2, <2>3, <2>4, <2>5, <2>6 DEF Fitting
<1>8. DOMAIN t \subseteq Nat
  BY DEF Fit, Fitting
<1>5. ASSUME NEW f, NEW g, Ahead(q, f, g) PROVE Ahead(r, f, g)
  BY <1>5 DEF Added
<1>6. ASSUME NEW f, Has(q, f) PROVE Ahead(r, f, H("start", n))
  <2>1. Ahead(q, f, H("start", n))
    BY <1>1, <1>6 DEF Ahead, Has
  <2> QED
    BY <1>6, <2>1 DEF Added
<1>7. InTurn(r, u)
  <2> SUFFICES ASSUME NEW i \in DOMAIN u, NEW j \in DOMAIN u, i < j
               PROVE  /\ u[i].at = "queued" /\ u[j].at = "queued" => Ahead(r, H("start", i), H("start", j))
                      /\ u[j].at # "queued" => u[i].at # "queued"
                      /\ u[i].at = "ready" /\ u[j].at = "ready" => Ahead(r, H("step", i), H("step", j))
                      /\ u[j].at \in {"waiting", "over"} => u[i].at \in {"waiting", "over"}
    BY DEF InTurn
  <2>1. i \in DOMAIN t /\ u[i].at = t[i].at
    <3>1. i # n
      BY <1>8
    <3> QED
      BY <3>1
  <2>2. CASE j = n
    <3>1. t[i].at = "queued" => Has(q, H("start", i))
      BY <2>1 DEF Fit, Fitting
    <3> QED
      BY <1>6, <2>1, <2>2, <3>1
  <2>3. CASE j \in DOMAIN t /\ j # n
    <3>1. /\ t[i].at = "queued" /\ t[j].at = "queued" => Ahead(q, H("start", i), H("start", j))
          /\ t[j].at # "queued" => t[i].at # "queued"
          /\ t[i].at = "ready" /\ t[j].at = "ready" => Ahead(q, H("step", i), H("step", j))
          /\ t[j].at \in {"waiting", "over"} => t[i].at \in {"waiting", "over"}
      BY <2>1, <2>3 DEF Fit, InTurn
    <3> QED
      BY <1>3, <1>5, <2>1, <2>3, <3>1
  <2> QED
    BY <2>2, <2>3
<1> QED
  BY <1>2, <1>4, <1>7 DEF Fit

\* A task that is over has its future settled, sooner or later.
Settling(q, t) == \A k \in DOMAIN t :
  /\ t[k].at = "over" /\ t[k].fut = "pending" => t[k].op = "start" \/ Has(q, H("settle", k))
  /\ t[k].fut = "done" => t[k].at = "over"

\* A cancelled task whose next step ends it.
Doomed(q, t, k) == t[k].cancelling /\ Has(q, H("step", k))

\* A read begins when the one before it is over, or is sure to end first.
Alternate(q, t) == \A j, k \in DOMAIN t : t[j].op \in Reads /\ t[k].op \in Reads /\ j < k =>
  \/ t[j].at = "over"
  \/ t[j].at = "waiting" /\ t[k].at = "queued"
     /\ (Doomed(q, t, j) \/ Ahead(q, H("cancel", j), H("start", k)))
  \/ t[j].at = "waiting" /\ t[k].at = "ready" /\ t[j].cancelling /\ Ahead(q, H("step", j), H("step", k))

Line(q, t) == Fit(q, t) /\ Settling(q, t) /\ Alternate(q, t)

\* The calls that whoever closes the connection releases, and the closing.
Enders == {"cleanup", "shutdown"}
Owed(t) == {k \in DOMAIN t : t[k].early /\ t[k].op # "flush"}
Released(t) == \A k \in Owed(t) : t[k].fut # "pending"

\* While the closing c yields, the tasks begun before it that are not over have
\* their last turn ahead of its second; then their futures are settled ahead of its own.
Closer(q, t, eof, c) ==
  /\ \A j \in DOMAIN t : t[j].op \in Enders => j = c
  /\ \A j \in DOMAIN t : t[j].early => j <= c
  /\ t[c].at = "waiting" => eof /\ Has(q, H("step", c))
       /\ \A j \in Owed(t) \ {c} : t[j].at = "over" \/ Ahead(q, H("step", j), H("step", c))
  /\ t[c].at = "over" => \A j \in Owed(t) \ {c} :
       t[j].at = "over" /\ (t[j].fut # "pending" \/ Ahead(q, H("settle", j), H("settle", c)))
  /\ t[c].fut = "done" => Released(t)
Ending(q, t, eof) ==
  /\ \A k \in DOMAIN t : t[k].op = "start" => ~t[k].early
  /\ \A c \in DOMAIN t : t[c].op \in Enders => Closer(q, t, eof, c)


\* A read the user's thread is not blocked in is over or has been cancelled.
GivenUp(q, t, j) ==
  t[j].at = "waiting" /\ (Doomed(q, t, j) \/ Has(q, H("cancel", j)))

\* Steps at which no task has a turn.
Kept(t, u) ==
  /\ DOMAIN u = DOMAIN t
  /\ \A k \in DOMAIN t :
       /\ u[k].op = t[k].op /\ u[k].early = t[k].early /\ u[k].at = t[k].at
       /\ t[k].cancelling /\ t[k].at # "over" => u[k].cancelling
       /\ u[k].fut = t[k].fut \/ (t[k].fut = "pending" /\ u[k].fut = "cancelled")
Cancels(h, r, u) ==
  h.name = "cancel" /\ h.k \in DOMAIN u /\ u[h.k].at = "waiting" /\ u[h.k].op \in Reads => Doomed(r, u, h.k)
Moved(q, t, r, u) == \E p, h, S :
  /\ Passed(q, p, h) /\ h.name \notin Single /\ h = H(h.name, h.k)
  /\ Added(p, r, S) /\ \A g \in S : MayAdd(p, t, g) /\ g.name # "settle"
  /\ Kept(t, u) /\ Cancels(h, r, u)

LEMMA MovedKeeps ==
  ASSUME NEW q, NEW t, NEW r, NEW u, Line(q, t), Moved(q, t, r, u)
  PROVE  /\ Line(r, u)
         /\ \A e, f : Ending(q, t, e) /\ (e => f) => Ending(r, u, f)
         /\ \A j \in DOMAIN t : t[j].op \in Reads /\ GivenUp(q, t, j) => GivenUp(r, u, j)
<1>1. PICK p, h, S :
        /\ Passed(q, p, h) /\ h.name \notin Single /\ h = H(h.name, h.k)
        /\ Added(p, r, S) /\ \A g \in S : MayAdd(p, t, g) /\ g.name # "settle"
        /\ Kept(t, u) /\ Cancels(h, r, u)
  BY DEF Moved
<1>2. \A k : H("start", k) # h /\ H("step", k) # h /\ H("settle", k) # h
  BY <1>1, Handle DEF Single
<1>3. Fit(r, u)
  <2>1. Fit(p, t)
    BY <1>1, FitPassed DEF Line, Single
  <2>2. Fit(r, t)
    BY <1>1, <2>1, FitAdded
  <2> QED
    BY <1>1, <2>2, FitSame DEF Kept
<1>4. \A g : g # h /\ Has(q, g) => Has(r, g)
  BY <1>1 DEF Passed, Added
<1>5. \A f, g : f # h /\ Ahead(q, f, g) => Ahead(r, f, g)
  BY <1>1 DEF Passed, Added
<1>6. /\ DOMAIN u = DOMAIN t
      /\ \A k \in DOMAIN t :
           /\ u[k].op = t[k].op /\ u[k].early = t[k].early /\ u[k].at = t[k].at
           /\ t[k].cancelling /\ t[k].at # "over" => u[k].cancelling
           /\ u[k].fut = t[k].fut \/ (t[k].fut = "pending" /\ u[k].fut = "cancelled")
  BY <1>1 DEF Kept
<1>7. Settling(r, u)
  BY <1>2, <1>4, <1>6 DEF Line, Settling
<1>8. ASSUME NEW j \in DOMAIN t, t[j].at = "waiting", Doomed(q, t, j) PROVE Doomed(r, u, j)
  BY <1>2, <1>4, <1>6, <1>8 DEF Doomed
<1>9. ASSUME NEW j \in DOMAIN t, t[j].at = "waiting", t[j].op \in Reads, H("cancel", j) = h PROVE Doomed(r, u, j)
  <2>1. h.name = "cancel" /\ h.k = j
    BY <1>9, Handle
  <2> QED
    BY <1>1, <1>6, <1>9, <2>1 DEF Cancels
<1>10. Alternate(r, u)
  <2> SUFFICES ASSUME NEW j \in DOMAIN t, NEW k \in DOMAIN t, t[j].op \in Reads, t[k].op \in Reads, j < k
               PROVE  \/ u[j].at = "over"
                      \/ u[j].at = "waiting" /\ u[k].at = "queued"
                         /\ (Doomed(r, u, j) \/ Ahead(r, H("cancel", j), H("start", k)))
                      \/ u[j].at = "waiting" /\ u[k].at = "ready" /\ u[j].cancelling
                         /\ Ahead(r, H("step", j), H("step", k))
    BY <1>6 DEF Alternate
  <2>1. \/ t[j].at = "over"
        \/ t[j].at = "waiting" /\ t[k].at = "queued"
           /\ (Doomed(q, t, j) \/ Ahead(q, H("cancel", j), H("start", k)))
        \/ t[j].at = "waiting" /\ t[k].at = "ready" /\ t[j].cancelling /\ Ahead(q, H("step", j), H("step", k))
    BY DEF Line, Alternate
  <2>2. CASE t[j].at = "over"
    BY <1>6, <2>2
  <2>3. CASE t[j].at = "waiting" /\ t[k].at = "queued" /\ (Doomed(q, t, j) \/ Ahead(q, H("cancel", j), H("start", k)))
    <3>1. Doomed(r, u, j) \/ Ahead(r, H("cancel", j), H("start", k))
      BY <1>5, <1>8, <1>9, <2>3
    <3> QED
      BY <1>6, <2>3, <3>1
  <2>4. CASE t[j].at = "waiting" /\ t[k].at = "ready" /\ t[j].cancelling /\ Ahead(q, H("step", j), H("step", k))
    <3>1. Ahead(r, H("step", j), H("step", k))
      BY <1>2, <1>5, <2>4
    <3> QED
      BY <1>6, <2>4, <3>1
  <2> QED
    BY <2>1, <2>2, <2>3, <2>4
<1>11. ASSUME NEW e, NEW f, Ending(q, t, e), e => f PROVE Ending(r, u, f)
  <2>1. Owed(u) = Owed(t) /\ (Released(t) => Released(u))
    BY <1>6 DEF Owed, Released
  <2>2. ASSUME NEW c \in DOMAIN t, t[c].op \in Enders PROVE Closer(r, u, f, c)
    <3>1. Closer(q, t, e, c)
      BY <1>11, <2>2 DEF Ending
    <3>2. u[c].at = "waiting" => f /\ Has(r, H("step", c))
            /\ \A j \in Owed(u) \ {c} : u[j].at = "over" \/ Ahead(r, H("step", j), H("step", c))
      BY <1>2, <1>4, <1>5, <1>6, <1>11, <2>1, <3>1 DEF Closer, Owed
    <3>3. u[c].at = "over" => \A j \in Owed(u) \ {c} :
            u[j].at = "over" /\ (u[j].fut # "pending" \/ Ahead(r, H("settle", j), H("settle", c)))
      BY <1>2, <1>5, <1>6, <2>1, <3>1 DEF Closer, Owed
    <3>4. u[c].fut = "done" => Released(u)
      BY <1>6, <2>1, <3>1 DEF Closer
    <3> QED
      BY <1>6, <3>1, <3>2, <3>3, <3>4 DEF Closer
  <2> QED
    BY <1>6, <1>11, <2>2 DEF Ending
<1>12. ASSUME NEW j \in DOMAIN t, t[j].op \in Reads, GivenUp(q, t, j) PROVE GivenUp(r, u, j)
  <2>1. Doomed(r, u, j) \/ Has(r, H("cancel", j))
    BY <1>4, <1>8, <1>9, <1>12 DEF GivenUp
  <2> QED
    BY <1>6, <1>12, <2>1 DEF GivenUp
<1> QED
  BY <1>3, <1>7, <1>10, <1>11, <1>12 DEF Line

\* What a task's turn leaves alone.
Others(t, u, k) ==
  /\ DOMAIN u = DOMAIN t
  /\ \A j \in DOMAIN t :
       /\ u[j].op = t[j].op /\ u[j].early = t[j].early
       /\ j # k => u[j].at = t[j].at /\ (t[j].cancelling => u[j].cancelling)

LEMMA OthersDoomed ==
  ASSUME NEW q, NEW t, NEW k, NEW r, NEW u, Others(t, u, k), \A g : Has(q, g) /\ g # H("step", k) => Has(r, g),
         NEW j \in DOMAIN t, j # k, Doomed(q, t, j)
  PROVE  Doomed(r, u, j)
<1>1. H("step", j) # H("step", k)
  BY Handle
<1> QED
  BY <1>1 DEF Doomed, Others

\* A task is started.
LEMMA StartedKeeps ==
  ASSUME NEW q, NEW t, Line(q, t), NEW k, NEW p, Shifted(q, p, H("start", k)), NEW r, Added(p, r, {H("step", k)}),
         NEW u, Others(t, u, k), u[k].at = "ready", \A j \in DOMAIN t : u[j].fut = t[j].fut
  PROVE  /\ Line(r, u) /\ k \in DOMAIN t /\ t[k].at = "queued"
         /\ \A e : Ending(q, t, e) => Ending(r, u, e)
         /\ \A j \in DOMAIN t : t[j].op \in Reads /\ GivenUp(q, t, j) => GivenUp(r, u, j)
<1>1. Fit(r, u) /\ k \in DOMAIN t /\ t[k].at = "queued"
  BY FitStarted DEF Line, Others
<1>2. \A g : g # H("start", k) /\ Has(q, g) => Has(r, g)
  BY DEF Shifted, Passed, Added
<1>3. \A f, g : f # H("start", k) /\ Ahead(q, f, g) => Ahead(r, f, g)
  BY DEF Shifted, Passed, Added
<1>4. \A j : /\ H("settle", j) # H("start", k) /\ H("step", j) # H("start", k) /\ H("cancel", j) # H("start", k)
             /\ j # k => H("start", j) # H("start", k)
  BY Handle
<1>5. ASSUME NEW j \in DOMAIN t, t[j].at # "queued", Doomed(q, t, j) PROVE Doomed(r, u, j)
  BY <1>1, <1>2, <1>4, <1>5 DEF Doomed, Others
<1>6. Settling(r, u)
  BY <1>1, <1>2, <1>4 DEF Line, Settling, Others
<1>7. ASSUME NEW j, Has(q, H("step", j)), j # k PROVE Ahead(r, H("step", j), H("step", k))
  <2>1. Has(p, H("step", j))
    BY <1>4, <1>7 DEF Shifted, Passed
  <2>2. ~Has(p, H("step", k))
    BY <1>1 DEF Shifted, Passed, Line, Fit, Fitting
  <2> QED
    BY <2>1, <2>2, Newer
<1>8. Alternate(r, u)
  <2> SUFFICES ASSUME NEW j \in DOMAIN t, NEW i \in DOMAIN t, t[j].op \in Reads, t[i].op \in Reads, j < i
               PROVE  \/ u[j].at = "over"
                      \/ u[j].at = "waiting" /\ u[i].at = "queued"
                         /\ (Doomed(r, u, j) \/ Ahead(r, H("cancel", j), H("start", i)))
                      \/ u[j].at = "waiting" /\ u[i].at = "ready" /\ u[j].cancelling
                         /\ Ahead(r, H("step", j), H("step", i))
    BY DEF Alternate, Others
  <2>1. \/ t[j].at = "over"
        \/ t[j].at = "waiting" /\ t[i].at = "queued"
           /\ (Doomed(q, t, j) \/ Ahead(q, H("cancel", j), H("start", i)))
        \/ t[j].at = "waiting" /\ t[i].at = "ready" /\ t[j].cancelling /\ Ahead(q, H("step", j), H("step", i))
    BY DEF Line, Alternate
  <2>2. j # k /\ u[j].at = t[j].at
    BY <1>1, <2>1 DEF Others
  <2>3. CASE t[j].at = "over"
    BY <2>2, <2>3
  <2>4. CASE t[j].at = "waiting" /\ t[i].at = "queued" /\ i # k
             /\ (Doomed(q, t, j) \/ Ahead(q, H("cancel", j), H("start", i)))
    <3>1. Doomed(r, u, j) \/ Ahead(r, H("cancel", j), H("start", i))
      BY <1>3, <1>4, <1>5, <2>4
    <3> QED
      BY <2>2, <2>4, <3>1 DEF Others
  <2>5. CASE t[j].at = "waiting" /\ i = k /\ (Doomed(q, t, j) \/ Ahead(q, H("cancel", j), H("start", i)))
    <3>1. Doomed(q, t, j)
      BY <2>5 DEF Shifted
    <3>2. u[j].cancelling /\ Ahead(r, H("step", j), H("step", k))
      BY <1>7, <2>2, <3>1 DEF Doomed, Others
    <3> QED
      BY <2>2, <2>5, <3>2
  <2>6. CASE t[j].at = "waiting" /\ t[i].at = "ready" /\ t[j].cancelling /\ Ahead(q, H("step", j), H("step", i))
    <3>1. Ahead(r, H("step", j), H("step", i)) /\ i # k
      BY <1>1, <1>3, <1>4, <2>6
    <3> QED
      BY <2>2, <2>6, <3>1 DEF Others
  <2> QED
    BY <1>1, <2>1, <2>3, <2>4, <2>5, <2>6
<1>9. ASSUME NEW e, Ending(q, t, e) PROVE Ending(r, u, e)
  <2>1. Owed(u) = Owed(t) /\ (Released(t) => Released(u))
    BY DEF Owed, Released, Others
  <2>2. ASSUME NEW c \in DOMAIN t, t[c].op \in Enders PROVE Closer(r, u, e, c)
    <3>1. Closer(q, t, e, c)
      BY <1>9, <2>2 DEF Ending
    <3>2. u[c].at = "waiting" => e /\ Has(r, H("step", c))
            /\ \A j \in Owed(u) \ {c} : u[j].at = "over" \/ Ahead(r, H("step", j), H("step", c))
      BY <1>1, <1>2, <1>3, <1>4, <2>1, <3>1 DEF Closer, Owed, Others
    <3>3. u[c].at = "over" => \A j \in Owed(u) \ {c} :
            u[j].at = "over" /\ (u[j].fut # "pending" \/ Ahead(r, H("settle", j), H("settle", c)))
      BY <1>1, <1>3, <1>4, <2>1, <3>1 DEF Closer, Owed, Others
    <3>4. u[c].fut = "done" => Released(u)
      BY <2>1, <3>1 DEF Closer
    <3> QED
      BY <3>1, <3>2, <3>3, <3>4 DEF Closer, Others
  <2> QED
    BY <1>9, <2>2 DEF Ending, Others
<1>10. ASSUME NEW j \in DOMAIN t, t[j].op \in Reads, GivenUp(q, t, j) PROVE GivenUp(r, u, j)
  <2>1. j # k /\ t[j].at # "queued"
    BY <1>1, <1>10 DEF GivenUp
  <2>2. Doomed(r, u, j) \/ Has(r, H("cancel", j))
    BY <1>2, <1>4, <1>5, <1>10, <2>1 DEF GivenUp
  <2> QED
    BY <1>10, <2>1, <2>2 DEF GivenUp, Others
<1> QED
  BY <1>1, <1>6, <1>8, <1>9, <1>10 DEF Line

\* What all turns have in common: the task was the first of those at its stage.
LEMMA TurnOf ==
  ASSUME NEW q, NEW t, Line(q, t), NEW k, NEW p, Shifted(q, p, H("step", k)),
         NEW u, Others(t, u, k), u[k].at \in {"waiting", "over"}
  PROVE  /\ Fit(p, u) /\ k \in DOMAIN t /\ t[k].at \in {"ready", "waiting"}
         /\ ~Has(p, H("step", k)) /\ ~Has(p, H("settle", k))
         /\ \A j \in DOMAIN t : j < k => t[j].at \in {"waiting", "over"}
         /\ \A j \in DOMAIN t : t[k].op \in Reads /\ t[j].op \in Reads =>
              /\ j < k => t[j].at = "over"
              /\ k < j => t[k].at = "waiting"
              /\ k < j /\ ~t[k].cancelling => t[j].at = "queued" /\ Ahead(p, H("cancel", k), H("start", j))
         /\ \A j \in DOMAIN t \ {k} : Doomed(q, t, j) => Doomed(p, u, j)
<1>1. /\ Fit(p, u) /\ k \in DOMAIN t /\ t[k].at \in {"ready", "waiting"}
      /\ ~Has(p, H("step", k)) /\ ~Has(p, H("settle", k))
      /\ \A j \in DOMAIN t : j < k => t[j].at \in {"waiting", "over"}
  BY FitTurned DEF Line, Others
<1>2. H("cancel", k) # H("step", k)
  BY Handle
<1>3. ASSUME NEW j \in DOMAIN t, t[k].op \in Reads, t[j].op \in Reads
      PROVE  /\ j < k => t[j].at = "over"
             /\ k < j => t[k].at = "waiting"
             /\ k < j /\ ~t[k].cancelling => t[j].at = "queued" /\ Ahead(p, H("cancel", k), H("start", j))
  <2>1. ASSUME j < k PROVE t[j].at = "over"
    BY <1>1, <1>3, <2>1 DEF Line, Alternate, Shifted
  <2>2. ASSUME k < j
        PROVE  t[k].at = "waiting" /\ (~t[k].cancelling => t[j].at = "queued" /\ Ahead(p, H("cancel", k), H("start", j)))
    BY <1>1, <1>2, <1>3, <2>2 DEF Line, Alternate, Shifted, Passed, Doomed
  <2> QED
    BY <2>1, <2>2
<1>4. \A g : Has(q, g) /\ g # H("step", k) => Has(p, g)
  BY DEF Shifted, Passed
<1>5. \A j \in DOMAIN t \ {k} : Doomed(q, t, j) => Doomed(p, u, j)
  BY <1>4, OthersDoomed
<1> QED
  BY <1>1, <1>3, <1>5

\* A turn ends the task, and the settling of its future is asked for.
LEMMA OverKeeps ==
  ASSUME NEW q, NEW t, Line(q, t), NEW k, NEW p, Shifted(q, p, H("step", k)), NEW r, Added(p, r, {H("settle", k)}),
         NEW u, Others(t, u, k), u[k].at = "over", \A j \in DOMAIN t : u[j].fut = t[j].fut,
         t[k].op \in Enders => t[k].at = "waiting"
  PROVE  /\ Line(r, u) /\ k \in DOMAIN t
         /\ \A e : Ending(q, t, e) => Ending(r, u, e)
         /\ \A j \in DOMAIN t : t[j].op \in Reads /\ GivenUp(q, t, j) => GivenUp(r, u, j) \/ u[j].at = "over"
<1>1. /\ Fit(p, u) /\ k \in DOMAIN t /\ t[k].at \in {"ready", "waiting"} /\ ~Has(p, H("settle", k))
      /\ \A j \in DOMAIN t : t[k].op \in Reads /\ t[j].op \in Reads /\ j < k => t[j].at = "over"
      /\ \A j \in DOMAIN t \ {k} : Doomed(q, t, j) => Doomed(p, u, j)
  BY TurnOf
<1>2. Fit(r, u)
  <2>1. MayAdd(p, u, H("settle", k))
    BY <1>1, Handle DEF MayAdd, Others
  <2> QED
    BY <1>1, <2>1, FitAdded
<1>3. \A g : g # H("step", k) /\ Has(q, g) => Has(r, g)
  BY DEF Shifted, Passed, Added
<1>4. \A f, g : f # H("step", k) /\ Ahead(q, f, g) => Ahead(r, f, g)
  BY DEF Shifted, Passed, Added
<1>5. Has(r, H("settle", k)) /\ \A g : Has(p, g) => Has(r, g)
  BY DEF Added
<1>6. \A j : /\ H("settle", j) # H("step", k) /\ H("start", j) # H("step", k) /\ H("cancel", j) # H("step", k)
             /\ j # k => H("step", j) # H("step", k)
  BY Handle
<1>7. Settling(r, u)
  BY <1>1, <1>3, <1>5, <1>6 DEF Line, Settling, Others
<1>8. \A j \in DOMAIN t \ {k} : Doomed(q, t, j) => Doomed(r, u, j)
  BY <1>1, <1>5 DEF Doomed
<1>9. Alternate(r, u)
  <2> SUFFICES ASSUME NEW j \in DOMAIN t, NEW i \in DOMAIN t, t[j].op \in Reads, t[i].op \in Reads, j < i, j # k
               PROVE  \/ u[j].at = "over"
                      \/ u[j].at = "waiting" /\ u[i].at = "queued"
                         /\ (Doomed(r, u, j) \/ Ahead(r, H("cancel", j), H("start", i)))
                      \/ u[j].at = "waiting" /\ u[i].at = "ready" /\ u[j].cancelling
                         /\ Ahead(r, H("step", j), H("step", i))
    BY DEF Alternate, Others
  <2>1. \/ t[j].at = "over"
        \/ t[j].at = "waiting" /\ t[i].at = "queued"
           /\ (Doomed(q, t, j) \/ Ahead(q, H("cancel", j), H("start", i)))
        \/ t[j].at = "waiting" /\ t[i].at = "ready" /\ t[j].cancelling /\ Ahead(q, H("step", j), H("step", i))
    BY DEF Line, Alternate
  <2>2. u[j].at = t[j].at /\ (t[j].cancelling => u[j].cancelling)
    BY DEF Others
  <2>3. CASE t[j].at = "over" \/ i = k
    BY <1>1, <2>2, <2>3
  <2>4. CASE t[j].at # "over" /\ i # k
    <3>1. u[i].at = t[i].at
      BY <2>4 DEF Others
    <3> QED
      BY <1>4, <1>6, <1>8, <2>1, <2>2, <2>4, <3>1
  <2> QED
    BY <2>3, <2>4
<1>10. ASSUME NEW e, Ending(q, t, e) PROVE Ending(r, u, e)
  <2>1. Owed(u) = Owed(t) /\ (Released(t) => Released(u)) /\ Owed(t) \subseteq DOMAIN t
    BY DEF Owed, Released, Others
  <2>2. ASSUME NEW c \in DOMAIN t, t[c].op \in Enders PROVE Closer(r, u, e, c)
    <3>1. Closer(q, t, e, c)
      BY <1>10, <2>2 DEF Ending
    <3>2. u[c].fut = "done" => Released(u)
      BY <2>1, <3>1 DEF Closer
    <3>3. CASE c = k
      <4>1. t[c].at = "waiting" /\ u[c].at = "over"
        BY <2>2, <3>3
      <4>2. ASSUME NEW j \in Owed(t) \ {c}
            PROVE  u[j].at = "over" /\ (u[j].fut # "pending" \/ Ahead(r, H("settle", j), H("settle", c)))
        <5>1. j \in DOMAIN t /\ t[j].at = "over"
          BY <2>1, <3>1, <3>3, <4>1, <4>2 DEF Closer, Shifted
        <5>2. t[j].op # "start"
          BY <1>10 DEF Ending, Owed
        <5>3. t[j].fut = "pending" => Has(q, H("settle", j))
          BY <5>1, <5>2 DEF Line, Settling
        <5>4. t[j].fut = "pending" => Has(p, H("settle", j))
          BY <1>6, <5>3 DEF Shifted, Passed
        <5>5. t[j].fut = "pending" => Ahead(r, H("settle", j), H("settle", c))
          BY <1>1, <3>3, <5>4, Newer
        <5> QED
          BY <3>3, <5>1, <5>5 DEF Others
      <4> QED
        BY <2>1, <3>1, <3>2, <4>1, <4>2 DEF Closer, Others
    <3>4. CASE c # k
      <4>1. u[c].at = t[c].at
        BY <3>4 DEF Others
      <4>2. u[c].at = "waiting" => e /\ Has(r, H("step", c))
              /\ \A j \in Owed(u) \ {c} : u[j].at = "over" \/ Ahead(r, H("step", j), H("step", c))
        BY <1>3, <1>4, <1>6, <2>1, <3>1, <3>4, <4>1 DEF Closer, Others
      <4>3. u[c].at = "over" => \A j \in Owed(u) \ {c} :
              u[j].at = "over" /\ (u[j].fut # "pending" \/ Ahead(r, H("settle", j), H("settle", c)))
        BY <1>1, <1>4, <1>6, <2>1, <3>1, <4>1 DEF Closer, Others
      <4> QED
        BY <3>1, <3>2, <4>2, <4>3 DEF Closer, Others
    <3> QED
      BY <3>3, <3>4
  <2> QED
    BY <1>10, <2>2 DEF Ending, Others
<1>11. ASSUME NEW j \in DOMAIN t, t[j].op \in Reads, GivenUp(q, t, j) PROVE GivenUp(r, u, j) \/ u[j].at = "over"
  BY <1>3, <1>6, <1>8, <1>11 DEF GivenUp, Others
<1> QED
  BY <1>1, <1>2, <1>7, <1>9, <1>10, <1>11 DEF Line

\* A turn at which the task comes to wait, or start fails.
LEMMA WaitsKeeps ==
  ASSUME NEW q, NEW t, Line(q, t), NEW k, NEW r, Shifted(q, r, H("step", k)),
         NEW u, Others(t, u, k), u[k].at \in {"waiting", "over"}, \A j \in DOMAIN t : u[j].fut = t[j].fut,
         t[k].op \notin Enders, t[k].op \in Reads => ~t[k].cancelling, NEW e,
         u[k].at = "waiting" => ~e \/ t[k].at = "ready",
         u[k].at = "over" => t[k].op = "start"
  PROVE  /\ Line(r, u) /\ k \in DOMAIN t
         /\ Ending(q, t, e) => Ending(r, u, e)
         /\ \A j \in DOMAIN t : t[j].op \in Reads /\ GivenUp(q, t, j) => GivenUp(r, u, j)
<1>1. /\ Fit(r, u) /\ k \in DOMAIN t /\ t[k].at \in {"ready", "waiting"}
      /\ \A j \in DOMAIN t : j < k => t[j].at \in {"waiting", "over"}
      /\ \A j \in DOMAIN t : t[k].op \in Reads /\ t[j].op \in Reads =>
           /\ j < k => t[j].at = "over"
           /\ k < j => t[k].at = "waiting" /\ t[j].at = "queued" /\ Ahead(r, H("cancel", k), H("start", j))
      /\ \A j \in DOMAIN t \ {k} : Doomed(q, t, j) => Doomed(r, u, j)
  BY TurnOf
<1>3. \A g : g # H("step", k) /\ Has(q, g) => Has(r, g)
  BY DEF Shifted, Passed
<1>4. \A f, g : f # H("step", k) /\ Ahead(q, f, g) => Ahead(r, f, g)
  BY DEF Shifted, Passed
<1>6. \A j : /\ H("settle", j) # H("step", k) /\ H("start", j) # H("step", k) /\ H("cancel", j) # H("step", k)
             /\ j # k => H("step", j) # H("step", k)
  BY Handle
<1>7. Settling(r, u)
  BY <1>1, <1>3, <1>6 DEF Line, Settling, Others
<1>8. "start" \notin Reads
  BY DEF Reads
<1>9. Alternate(r, u)
  <2> SUFFICES ASSUME NEW j \in DOMAIN t, NEW i \in DOMAIN t, t[j].op \in Reads, t[i].op \in Reads, j < i
               PROVE  \/ u[j].at = "over"
                      \/ u[j].at = "waiting" /\ u[i].at = "queued"
                         /\ (Doomed(r, u, j) \/ Ahead(r, H("cancel", j), H("start", i)))
                      \/ u[j].at = "waiting" /\ u[i].at = "ready" /\ u[j].cancelling
                         /\ Ahead(r, H("step", j), H("step", i))
    BY DEF Alternate, Others
  <2>1. \/ t[j].at = "over"
        \/ t[j].at = "waiting" /\ t[i].at = "queued"
           /\ (Doomed(q, t, j) \/ Ahead(q, H("cancel", j), H("start", i)))
        \/ t[j].at = "waiting" /\ t[i].at = "ready" /\ t[j].cancelling /\ Ahead(q, H("step", j), H("step", i))
    BY DEF Line, Alternate
  <2>5. DOMAIN t \subseteq Nat
    BY DEF Line, Fit, Fitting
  <2>2. CASE j = k
    <3>1. i # k /\ t[i].at = "queued" /\ Ahead(r, H("cancel", k), H("start", i))
      BY <1>1, <2>2, <2>5
    <3> QED
      BY <1>8, <2>2, <3>1 DEF Others
  <2>3. CASE i = k
    BY <1>1, <2>3, <2>5 DEF Others
  <2>4. CASE j # k /\ i # k
    <3>1. u[j].at = t[j].at /\ u[i].at = t[i].at /\ (t[j].cancelling => u[j].cancelling)
      BY <2>4 DEF Others
    <3> QED
      BY <1>1, <1>4, <1>6, <2>1, <2>4, <3>1
  <2> QED
    BY <2>2, <2>3, <2>4
<1>10. ASSUME Ending(q, t, e) PROVE Ending(r, u, e)
  <2>1. Owed(u) = Owed(t) /\ (Released(t) => Released(u)) /\ Owed(t) \subseteq DOMAIN t
    BY DEF Owed, Released, Others
  <2>2. ASSUME NEW c \in DOMAIN t, t[c].op \in Enders PROVE Closer(r, u, e, c)
    <3>1. Closer(q, t, e, c) /\ c # k
      BY <1>10, <2>2 DEF Ending
    <3>2. u[c].at = t[c].at
      BY <3>1 DEF Others
    <3>3. ASSUME t[c].at = "waiting", k \in Owed(t) PROVE FALSE
      <4>1. e /\ k <= c
        BY <3>1, <3>3 DEF Closer, Owed
      <4>2. u[k].at = "waiting"
        BY <1>10, <3>3 DEF Ending, Owed
      <4>3. t[k].at = "ready"
        BY <4>1, <4>2
      <4>4. k < c
        BY <1>1, <3>1, <4>1 DEF Line, Fit, Fitting
      <4> QED
        BY <1>1, <3>3, <4>3, <4>4 DEF Line, Fit, InTurn
    <3>4. u[c].at = "waiting" => e /\ Has(r, H("step", c))
            /\ \A j \in Owed(u) \ {c} : u[j].at = "over" \/ Ahead(r, H("step", j), H("step", c))
      <4> SUFFICES ASSUME t[c].at = "waiting"
                   PROVE  e /\ Has(r, H("step", c))
                          /\ \A j \in Owed(t) \ {c} : u[j].at = "over" \/ Ahead(r, H("step", j), H("step", c))
        BY <2>1, <3>2
      <4>1. e /\ Has(r, H("step", c))
        BY <1>3, <1>6, <3>1 DEF Closer
      <4>2. ASSUME NEW j \in Owed(t) \ {c} PROVE u[j].at = "over" \/ Ahead(r, H("step", j), H("step", c))
        <5>1. j # k /\ j \in DOMAIN t
          BY <2>1, <3>3
        <5> QED
          BY <1>4, <1>6, <3>1, <5>1 DEF Closer, Others
      <4> QED
        BY <4>1, <4>2
    <3>5. u[c].at = "over" => \A j \in Owed(u) \ {c} :
            u[j].at = "over" /\ (u[j].fut # "pending" \/ Ahead(r, H("settle", j), H("settle", c)))
      BY <1>1, <1>4, <1>6, <2>1, <3>1, <3>2 DEF Closer, Others
    <3>6. u[c].fut = "done" => Released(u)
      BY <2>1, <3>1 DEF Closer
    <3> QED
      BY <3>1, <3>4, <3>5, <3>6 DEF Closer, Others
  <2> QED
    BY <1>10, <2>2 DEF Ending, Others
<1>11. ASSUME NEW j \in DOMAIN t, t[j].op \in Reads, GivenUp(q, t, j) PROVE GivenUp(r, u, j)
  <2>1. j = k => t[k].at = "waiting" /\ u[k].at = "waiting"
    BY <1>8, <1>11 DEF GivenUp
  <2>2. CASE j = k
    <3>1. Has(q, H("cancel", k))
      BY <1>11, <2>2 DEF GivenUp, Doomed
    <3> QED
      BY <1>3, <1>6, <2>1, <2>2, <3>1 DEF GivenUp
  <2>3. CASE j # k
    BY <1>1, <1>3, <1>6, <1>11, <2>3 DEF GivenUp, Others
  <2> QED
    BY <2>2, <2>3
<1> QED
  BY <1>1, <1>7, <1>9, <1>10, <1>11 DEF Line

\* The first turn of the closing: it wakes whoever waits, and yields behind them.
Final(q, t, k, p, ks, s, r, u) ==
  /\ Shifted(q, p, H("step", k)) /\ t[k].at = "ready" /\ t[k].op \in Enders
  /\ ks \subseteq DOMAIN t /\ \A j \in ks : t[j].at = "waiting" /\ ~Has(q, H("step", j))
  /\ Added(p, s, {H("step", j) : j \in ks}) /\ Added(s, r, {H("step", k)})
  /\ Others(t, u, k) /\ u[k].at = "waiting" /\ \A j \in DOMAIN t : u[j].fut = t[j].fut
  /\ \A j \in Owed(t) \ {k} : t[j].at = "waiting" => j \in ks \/ Has(q, H("step", j))

LEMMA CloserKeeps ==
  ASSUME NEW q, NEW t, Line(q, t), NEW k, NEW p, NEW ks, NEW s, NEW r, NEW u, Final(q, t, k, p, ks, s, r, u)
  PROVE  /\ Line(r, u)
         /\ \A e : Ending(q, t, e) => Ending(r, u, TRUE)
         /\ \A j \in DOMAIN t : t[j].op \in Reads /\ GivenUp(q, t, j) => GivenUp(r, u, j)
<1> USE DEF Final
<1>1. /\ Fit(p, u) /\ k \in DOMAIN t /\ ~Has(p, H("step", k))
      /\ \A j \in DOMAIN t : j < k => t[j].at \in {"waiting", "over"}
      /\ \A j \in DOMAIN t \ {k} : Doomed(q, t, j) => Doomed(p, u, j)
  BY TurnOf
<1> DEFINE S == {H("step", j) : j \in ks}
<1>2. \A j : H("step", j) \in S <=> j \in ks
  BY Handle
<1>3. \A g \in S : \E j \in ks : g = H("step", j)
  OBVIOUS
<1> HIDE DEF S
<1>4. k \notin ks /\ \A j \in ks : j \in DOMAIN u /\ u[j].at = "waiting" /\ ~Has(p, H("step", j))
  BY DEF Others, Shifted, Passed
<1>5. Added(p, s, S)
  BY DEF S
<1>6. Fit(s, u)
  <2>1. ASSUME NEW g \in S PROVE MayAdd(p, u, g)
    <3>1. PICK j \in ks : g = H("step", j)
      BY <1>3
    <3> QED
      BY <1>4, <3>1, Handle DEF MayAdd
  <2> QED
    BY <1>1, <1>5, <2>1, FitAdded
<1>7. ~Has(s, H("step", k))
  BY <1>1, <1>2, <1>4, <1>5 DEF Added
<1>8. Fit(r, u)
  <2>1. MayAdd(s, u, H("step", k))
    BY <1>1, <1>7, Handle DEF MayAdd, Others
  <2> QED
    BY <1>6, <2>1, FitAdded
<1>9. \A g : (Has(p, g) => Has(s, g)) /\ (Has(s, g) => Has(r, g)) /\ Has(r, H("step", k))
  BY <1>5 DEF Added
<1>10. \A g : g # H("step", k) /\ Has(q, g) => Has(p, g) /\ Has(s, g) /\ Has(r, g)
  BY <1>9 DEF Shifted, Passed
<1>11. \A f, g : f # H("step", k) /\ Ahead(q, f, g) => Ahead(r, f, g)
  BY <1>5 DEF Shifted, Passed, Added
<1>12. \A j : /\ H("settle", j) # H("step", k) /\ H("start", j) # H("step", k) /\ H("cancel", j) # H("step", k)
              /\ j # k => H("step", j) # H("step", k)
  BY Handle
<1>13. Settling(r, u)
  BY <1>1, <1>10, <1>12 DEF Line, Settling, Others
<1>14. \A j \in DOMAIN t \ {k} : Doomed(q, t, j) => Doomed(r, u, j)
  BY <1>1, <1>9 DEF Doomed
<1>15. Alternate(r, u)
  <2> SUFFICES ASSUME NEW j \in DOMAIN t, NEW i \in DOMAIN t, t[j].op \in Reads, t[i].op \in Reads, j < i
               PROVE  \/ u[j].at = "over"
                      \/ u[j].at = "waiting" /\ u[i].at = "queued"
                         /\ (Doomed(r, u, j) \/ Ahead(r, H("cancel", j), H("start", i)))
                      \/ u[j].at = "waiting" /\ u[i].at = "ready" /\ u[j].cancelling
                         /\ Ahead(r, H("step", j), H("step", i))
    BY DEF Alternate, Others
  <2>1. \/ t[j].at = "over"
        \/ t[j].at = "waiting" /\ t[i].at = "queued"
           /\ (Doomed(q, t, j) \/ Ahead(q, H("cancel", j), H("start", i)))
        \/ t[j].at = "waiting" /\ t[i].at = "ready" /\ t[j].cancelling /\ Ahead(q, H("step", j), H("step", i))
    BY DEF Line, Alternate
  <2>2. j # k /\ i # k
    BY DEF Reads, Enders
  <2>3. u[j].at = t[j].at /\ u[i].at = t[i].at /\ (t[j].cancelling => u[j].cancelling)
    BY <2>2 DEF Others
  <2> QED
    BY <1>11, <1>12, <1>14, <2>1, <2>2, <2>3
<1>16. ASSUME NEW e, Ending(q, t, e) PROVE Ending(r, u, TRUE)
  <2>1. Owed(u) = Owed(t) /\ (Released(t) => Released(u)) /\ Owed(t) \subseteq DOMAIN t
    BY DEF Owed, Released, Others
  <2>2. ASSUME NEW c \in DOMAIN t, t[c].op \in Enders PROVE Closer(r, u, TRUE, c)
    <3>1. Closer(q, t, e, c)
      BY <1>16, <2>2 DEF Ending
    <3>2. c = k
      BY <1>1, <3>1 DEF Closer
    <3>3. ASSUME NEW j \in Owed(t) \ {c} PROVE u[j].at = "over" \/ Ahead(r, H("step", j), H("step", c))
      <4>1. j \in DOMAIN t /\ j < c
        BY <1>1, <2>1, <3>1 DEF Closer, Owed, Line, Fit, Fitting
      <4>2. t[j].at \in {"waiting", "over"} /\ u[j].at = t[j].at
        BY <1>1, <3>2, <4>1 DEF Others
      <4>3. CASE t[j].at = "over"
        BY <4>2, <4>3
      <4>4. CASE t[j].at = "waiting"
        <5>1. Has(s, H("step", j))
          BY <1>2, <1>5, <1>10, <1>12, <3>2, <3>3, <4>4 DEF Added
        <5>2. Ahead(r, H("step", j), H("step", k))
          BY <1>7, <5>1, Newer
        <5> QED
          BY <3>2, <5>2
      <4> QED
        BY <4>2, <4>3, <4>4
    <3>4. u[c].fut = "done" => Released(u)
      BY <2>1, <3>1 DEF Closer
    <3> QED
      BY <1>9, <2>1, <3>1, <3>2, <3>3, <3>4 DEF Closer, Others
  <2> QED
    BY <1>16, <2>2 DEF Ending, Others
<1>17. ASSUME NEW j \in DOMAIN t, t[j].op \in Reads, GivenUp(q, t, j) PROVE GivenUp(r, u, j)
  <2>1. j # k
    BY <1>17 DEF Reads, Enders
  <2> QED
    BY <1>10, <1>12, <1>14, <1>17, <2>1 DEF GivenUp, Others
<1> QED
  BY <1>8, <1>13, <1>15, <1>16, <1>17 DEF Line

\* A future is settled.
LEMMA SettledKeeps ==
  ASSUME NEW q, NEW t, Line(q, t), NEW k, NEW r, Shifted(q, r, H("settle", k)),
         NEW u, Others(t, u, k), u[k].at = t[k].at, u[k].cancelling = t[k].cancelling,
         \A j \in DOMAIN t : u[j].fut = IF j = k /\ t[j].fut = "pending" THEN "done" ELSE t[j].fut
  PROVE  /\ Line(r, u)
         /\ \A e : Ending(q, t, e) => Ending(r, u, e)
         /\ \A j \in DOMAIN t : t[j].op \in Reads /\ GivenUp(q, t, j) => GivenUp(r, u, j)
<1>1. k \in DOMAIN t /\ t[k].at = "over"
  BY DEF Line, Fit, Fitting, Shifted
<1>2. DOMAIN u = DOMAIN t /\ \A j \in DOMAIN t : u[j].at = t[j].at /\ (t[j].cancelling => u[j].cancelling)
  BY DEF Others
<1>3. \A j : /\ H("step", j) # H("settle", k) /\ H("start", j) # H("settle", k) /\ H("cancel", j) # H("settle", k)
             /\ j # k => H("settle", j) # H("settle", k)
  BY Handle
<1>4. \A g : g # H("settle", k) /\ Has(q, g) => Has(r, g)
  BY DEF Shifted, Passed
<1>5. \A f, g : f # H("settle", k) /\ Ahead(q, f, g) => Ahead(r, f, g)
  BY DEF Shifted, Passed
<1>6. Fit(r, u)
  <2>1. H("settle", k).name \notin {"start", "step"}
    BY Handle
  <2>2. Fit(r, t)
    BY <2>1, FitPassed DEF Line, Shifted
  <2> QED
    BY <1>2, <2>2, FitSame
<1>7. Settling(r, u)
  BY <1>1, <1>2, <1>3, <1>4 DEF Line, Settling, Others
<1>8. \A j \in DOMAIN t : Doomed(q, t, j) => Doomed(r, u, j)
  BY <1>2, <1>3, <1>4 DEF Doomed
<1>9. Alternate(r, u)
  BY <1>2, <1>3, <1>5, <1>8 DEF Line, Alternate, Others
<1>10. ASSUME NEW e, Ending(q, t, e) PROVE Ending(r, u, e)
  <2>1. Owed(u) = Owed(t) /\ (Released(t) => Released(u)) /\ Owed(t) \subseteq DOMAIN t
    BY DEF Owed, Released, Others
  <2>2. ASSUME NEW c \in DOMAIN t, t[c].op \in Enders PROVE Closer(r, u, e, c)
    <3>1. Closer(q, t, e, c)
      BY <1>10, <2>2 DEF Ending
    <3>2. u[c].at = "waiting" => e /\ Has(r, H("step", c))
            /\ \A j \in Owed(u) \ {c} : u[j].at = "over" \/ Ahead(r, H("step", j), H("step", c))
      BY <1>2, <1>3, <1>4, <1>5, <2>1, <3>1 DEF Closer
    <3>3. u[c].at = "over" => \A j \in Owed(u) \ {c} :
            u[j].at = "over" /\ (u[j].fut # "pending" \/ Ahead(r, H("settle", j), H("settle", c)))
      <4> SUFFICES ASSUME t[c].at = "over", NEW j \in Owed(t) \ {c}
                   PROVE  t[j].at = "over" /\ (u[j].fut # "pending" \/ Ahead(r, H("settle", j), H("settle", c)))
        BY <1>2, <2>1
      <4>1. j \in DOMAIN t /\ t[j].at = "over" /\ (t[j].fut # "pending" \/ Ahead(q, H("settle", j), H("settle", c)))
        BY <2>1, <3>1 DEF Closer
      <4> QED
        BY <1>3, <1>5, <4>1
    <3>4. u[c].fut = "done" => Released(u)
      <4>1. CASE t[c].fut = "done"
        BY <2>1, <3>1, <4>1 DEF Closer
      <4>2. CASE c = k
        <5>1. ASSUME NEW j \in Owed(t), t[j].fut = "pending", j # k PROVE FALSE
          BY <1>1, <3>1, <4>2, <5>1 DEF Closer, Shifted
        <5>2. \A j \in Owed(t) : u[j].fut # "pending"
          BY <2>1, <5>1
        <5> QED
          BY <2>1, <5>2 DEF Released
      <4> QED
        BY <4>1, <4>2
    <3> QED
      BY <3>1, <3>2, <3>3, <3>4 DEF Closer, Others
  <2> QED
    BY <1>10, <2>2 DEF Ending, Others
<1>11. ASSUME NEW j \in DOMAIN t, t[j].op \in Reads, GivenUp(q, t, j) PROVE GivenUp(r, u, j)
  BY <1>2, <1>3, <1>4, <1>8, <1>11 DEF GivenUp
<1> QED
  BY <1>6, <1>7, <1>9, <1>10, <1>11 DEF Line

\* A task is asked for.
LEMMA AskedKeeps ==
  ASSUME NEW q, NEW t, Line(q, t), NEW n \in Nat, n \notin DOMAIN t, NEW r, Added(q, r, {H("start", n)}),
         NEW u, DOMAIN u = DOMAIN t \cup {n}, \A j \in DOMAIN t : u[j] = t[j] /\ j < n,
         u[n].at = "queued", u[n].fut = "pending", u[n].op # "start",
         u[n].early => \A j \in DOMAIN t : t[j].op \notin Enders,
         u[n].op \in Reads => \A j \in DOMAIN t : t[j].op \in Reads => t[j].at = "over" \/ GivenUp(q, t, j),
         u[n].op \in Enders => \A j \in DOMAIN t : t[j].op \notin Enders
  PROVE  /\ Line(r, u)
         /\ \A e : Ending(q, t, e) => Ending(r, u, e)
         /\ \A j \in DOMAIN t : t[j].op \in Reads /\ GivenUp(q, t, j) => GivenUp(r, u, j)
<1>1. Fit(r, u)
  BY FitAsked DEF Line
<1>2. \A g : Has(q, g) => Has(r, g)
  BY DEF Added
<1>3. \A f, g : Ahead(q, f, g) => Ahead(r, f, g)
  BY DEF Added
<1>4. Settling(r, u)
  BY <1>2 DEF Line, Settling
<1>5. \A j \in DOMAIN t : Doomed(q, t, j) => Doomed(r, u, j)
  BY <1>2 DEF Doomed
<1>6. DOMAIN t \subseteq Nat
  BY DEF Line, Fit, Fitting
<1>7. \A f : Has(q, f) => Ahead(r, f, H("start", n))
  <2>1. ~Has(q, H("start", n))
    BY DEF Line, Fit, Fitting
  <2> QED
    BY <2>1, Newer
<1>8. Alternate(r, u)
  <2> SUFFICES ASSUME NEW j \in DOMAIN u, NEW i \in DOMAIN u, u[j].op \in Reads, u[i].op \in Reads, j < i
               PROVE  \/ u[j].at = "over"
                      \/ u[j].at = "waiting" /\ u[i].at = "queued"
                         /\ (Doomed(r, u, j) \/ Ahead(r, H("cancel", j), H("start", i)))
                      \/ u[j].at = "waiting" /\ u[i].at = "ready" /\ u[j].cancelling
                         /\ Ahead(r, H("step", j), H("step", i))
    BY DEF Alternate
  <2>1. j \in DOMAIN t
    <3>1. j # n
      BY <1>6
    <3> QED
      BY <3>1
  <2>2. CASE i = n
    <3>1. t[j].at = "over" \/ GivenUp(q, t, j)
      BY <2>1, <2>2
    <3> QED
      BY <1>5, <1>7, <2>1, <2>2, <3>1 DEF GivenUp
  <2>3. CASE i \in DOMAIN t /\ i # n
    <3>1. \/ t[j].at = "over"
          \/ t[j].at = "waiting" /\ t[i].at = "queued"
             /\ (Doomed(q, t, j) \/ Ahead(q, H("cancel", j), H("start", i)))
          \/ t[j].at = "waiting" /\ t[i].at = "ready" /\ t[j].cancelling /\ Ahead(q, H("step", j), H("step", i))
      BY <2>1, <2>3 DEF Line, Alternate
    <3> QED
      BY <1>3, <1>5, <2>1, <2>3, <3>1
  <2> QED
    BY <2>2, <2>3
<1>9. ASSUME NEW e, Ending(q, t, e) PROVE Ending(r, u, e)
  <2>1. ASSUME NEW c \in DOMAIN t, t[c].op \in Enders PROVE Closer(r, u, e, c)
    <3>1. Closer(q, t, e, c)
      BY <1>9, <2>1 DEF Ending
    <3>2. ~u[n].early /\ u[n].op \notin Enders /\ u[c] = t[c]
      BY <2>1
    <3>3. Owed(u) = Owed(t)
      BY <3>2 DEF Owed
    <3>4. Owed(t) \subseteq DOMAIN t
      BY DEF Owed
    <3>5. u[c].fut = "done" => Released(u)
      BY <3>1, <3>2, <3>3, <3>4 DEF Closer, Released
    <3> QED
      BY <1>2, <1>3, <3>1, <3>2, <3>3, <3>4, <3>5 DEF Closer
  <2>2. ASSUME u[n].op \in Enders PROVE Closer(r, u, e, n)
    BY <1>6, <2>2 DEF Closer
  <2> QED
    BY <1>9, <2>1, <2>2 DEF Ending
<1>10. ASSUME NEW j \in DOMAIN t, t[j].op \in Reads, GivenUp(q, t, j) PROVE GivenUp(r, u, j)
  BY <1>2, <1>5, <1>10 DEF GivenUp
<1> QED
  BY <1>1, <1>4, <1>8, <1>9, <1>10 DEF Line

(***************************************************************************)
(* The invariant, and the steps of the loop.                               *)
(***************************************************************************)
\* Whoever waits and is not about to have a turn is known to what it awaits.
Await(q, t, c, r) ==
  /\ \A k \in DOMAIN t : t[k].at = "waiting" /\ ~Has(q, H("step", k)) =>
       /\ t[k].op \in Reads \cup {"wait_for", "flush"}
       /\ t[k].op \in Reads => r.waiter /\ r.future = "pending" /\ ~r.eof /\ ~t[k].cancelling
       /\ t[k].op = "wait_for" => k \in c.waiters
  /\ \A k \in c.waiters : k \in DOMAIN t /\ t[k].op = "wait_for" /\ t[k].at = "waiting" /\ ~Has(q, H("step", k))
  /\ \A k \in c.drainers : k \in DOMAIN t /\ t[k].op = "flush" /\ t[k].at = "waiting" /\ ~Has(q, H("step", k))
  /\ (c.closing => r.eof) /\ DOMAIN r = ReaderFields

\* A read goes on as long as its caller: it is what the user's thread is blocked
\* in, or it is over or given up.
Users(l, t, u) == \A j \in DOMAIN t : t[j].op \in Reads =>
  t[j].at = "over" \/ l.state = "closed" \/ GivenUp(l.ready, t, j) \/ (u["user"].at = "blocked" /\ u["user"].k = j)

\* Nothing is begun before there is a connection but the task that makes it.
Begun(l, t, c, u) ==
  /\ l.state = "none" => DOMAIN t = {} /\ ~c.connected
  /\ ~c.connected =>
       /\ DOMAIN t \subseteq {1} /\ \A k \in DOMAIN t : t[k].op \in {"connect", "start"}
       /\ c.client = "none" /\ u["user"].at = "idle"
  /\ c.connected => \A k \in DOMAIN t : t[k].op \in {"connect", "start"} => t[k].at = "over"
  /\ (\E k : Has(l.ready, H("client", k))) => c.connected

\* Whoever closes the loop is gone then, and before an owner cleans up after a
\* connect nothing has been.
Stopping(l, t, u) ==
  /\ l.state = "closed" => u["owner"].at = "gone"
  /\ u["owner"].at = "cleaning" \/ (u["owner"].at = "blocked" /\ u["owner"].op = "connect") =>
       \A k \in DOMAIN t : t[k].op \notin Enders

\* Only the clean-up closes a client's writer.
Unshut(t, c) ==
  c.role = "client" /\ c.connection_closed =>
    \E k \in DOMAIN t : t[k].op = "cleanup" /\ t[k].at \in {"waiting", "over"}

\* The inductive invariant of ReleasedByClose, beside IInv.
RInv ==
  /\ Line(loop.ready, task) /\ Ending(loop.ready, task, reader.eof)
  /\ Await(loop.ready, task, conn, reader) /\ Users(loop, task, thread)
  /\ Begun(loop, task, conn, thread) /\ Stopping(loop, task, thread) /\ Unshut(task, conn)

\* The first handle has been taken off.
LEMMA FirstTaken ==
  ASSUME IInv, RInv, NEW name, Runs(name)
  PROVE  /\ Shifted(loop.ready, Rest, H(name, Which)) /\ Passed(loop.ready, Rest, H(name, Which))
         /\ IsList(Rest) /\ Once(Rest) /\ IsFiniteSet(DOMAIN task) /\ loop.state \in {"running", "stopping"}
<1> DEFINE q == loop.ready
           h == Head(q)
<1>1. IsList(q) /\ Once(q) /\ q # <<>> /\ h.name = name /\ Which = h.k /\ Rest = Tail(q)
      /\ loop.state \in {"running", "stopping"}
  BY DEF RInv, Line, Fit, Runs, Running, Which, Rest
<1> HIDE DEF q, h
<1>2. Shifted(q, Tail(q), Head(q))
  BY <1>1, FirstShifted
<1>3. h = H(h.name, h.k)
  BY <1>2 DEF h, q, Shifted, RInv, Line, Fit, Fitting
<1>4. Shifted(q, Rest, H(name, Which))
  BY <1>1, <1>2, <1>3 DEF h
<1>5. IsFiniteSet(DOMAIN task)
  <2>1. PICK S : task \in Seq(S)
    BY DEF IInv, IsTasks, IsList
  <2>2. DOMAIN task = 1 .. Len(task) /\ Len(task) \in Nat
    BY <2>1, LenProperties
  <2> QED
    BY <2>2, FS_Interval
<1> QED
  BY <1>1, <1>4, <1>5 DEF q, Shifted, Passed

\* What is added to what is left.
LEMMA CalledAfter ==
  ASSUME NEW q, IsList(q), Once(q), NEW n, NEW k, n \notin Single \/ ~Has(q, H(n, k))
  PROVE  Added(q, Call(q, n, k), {H(n, k)}) /\ IsList(Call(q, n, k)) /\ Once(Call(q, n, k))
<1>1. Added(q, Call(q, n, k), {H(n, k)})
  BY CallAdded
<1>2. \A g \in {H(n, k)} : g.name \in Single => ~Has(q, g)
  BY Handle
<1> QED
  BY <1>1, <1>2 DEF Added
LEMMA EachAfter ==
  ASSUME NEW q, IsList(q), Once(q), NEW ts, IsFiniteSet(ts), NEW ks, ks \subseteq ts, \A k \in ks : ~Has(q, H("step", k))
  PROVE  /\ Added(q, CallEach(q, "step", ks), {H("step", k) : k \in ks})
         /\ IsList(CallEach(q, "step", ks)) /\ Once(CallEach(q, "step", ks))
<1>1. IsFiniteSet(ks)
  BY FS_Subset
<1>2. Added(q, CallEach(q, "step", ks), {H("step", k) : k \in ks})
  BY <1>1, EachAdded
<1>3. \A g \in {H("step", k) : k \in ks} : g.name \in Single => ~Has(q, g)
  OBVIOUS
<1> QED
  BY <1>2, <1>3 DEF Added

\* Tasks only go on.
Along(t, u) ==
  /\ DOMAIN u = DOMAIN t
  /\ \A k \in DOMAIN t :
       /\ u[k].op = t[k].op /\ u[k].early = t[k].early
       /\ t[k].at = "over" => u[k].at = "over"
       /\ t[k].at = "waiting" => u[k].at \in {"waiting", "over"}
       /\ t[k].fut # "pending" => u[k].fut # "pending"

\* A step of the loop that neither connects, nor stops it, nor closes the writer.
Plainly ==
  /\ Along(task, task') /\ thread' = thread /\ loop'.state = loop.state
  /\ conn'.connected = conn.connected /\ conn'.role = conn.role
  /\ conn'.connection_closed = conn.connection_closed /\ (conn'.client = conn.client \/ conn.connected)
  /\ \A k : \A n \in {"stop", "client"} : Has(loop'.ready, H(n, k)) => Has(loop.ready, H(n, k))
Forward ==
  /\ Line(loop'.ready, task') /\ Ending(loop'.ready, task', reader'.eof)
  /\ \A j \in DOMAIN task : task[j].op \in Reads /\ GivenUp(loop.ready, task, j) =>
       GivenUp(loop'.ready, task', j) \/ task'[j].at = "over"

LEMMA UsersForward ==
  ASSUME RInv, Forward, Along(task, task'), thread' = thread, loop.state = "closed" => loop'.state = "closed"
  PROVE  Users(loop', task', thread')
<1> SUFFICES ASSUME NEW j \in DOMAIN task, task[j].op \in Reads
             PROVE  \/ task'[j].at = "over" \/ loop'.state = "closed" \/ GivenUp(loop'.ready, task', j)
                    \/ (thread["user"].at = "blocked" /\ thread["user"].k = j)
  BY DEF Users, Along
<1> QED
  BY DEF RInv, Users, Along, Forward

LEMMA UnshutAlong ==
  ASSUME RInv, Along(task, task'), conn'.role = conn.role, conn'.connection_closed = conn.connection_closed
  PROVE  Unshut(task', conn')
BY DEF RInv, Unshut, Along

LEMMA PlainlyKeeps ==
  ASSUME RInv, Plainly, Forward, Await(loop'.ready, task', conn', reader')
  PROVE  RInv'
<1>1. Users(loop', task', thread')
  BY UsersForward DEF Plainly
<1>2. Unshut(task', conn')
  BY UnshutAlong DEF Plainly
<1>3. Begun(loop', task', conn', thread')
  BY DEF RInv, Begun, Plainly, Along
<1>4. Stopping(loop', task', thread')
  BY DEF RInv, Stopping, Plainly, Along
<1> QED
  BY <1>1, <1>2, <1>3, <1>4 DEF RInv, Forward

\* Some of those who wait are given a step, and are no longer expected.
Expected(c, r, d, x, ks) ==
  /\ d.waiters \subseteq c.waiters \ ks /\ c.waiters \ ks \subseteq d.waiters /\ d.drainers \subseteq c.drainers \ ks
  /\ (d.closing => x.eof) /\ DOMAIN x = ReaderFields /\ (r.eof => x.eof)
Unread(q, t, k) == t[k].op \in Reads /\ t[k].at = "waiting" /\ ~Has(q, H("step", k))

LEMMA AwaitWoken ==
  ASSUME NEW q, NEW t, NEW c, NEW r, Await(q, t, c, r), NEW p, NEW u, NEW d, NEW x, NEW ks,
         Kept(t, u), \A k : Has(p, H("step", k)) <=> Has(q, H("step", k)) \/ k \in ks,
         \A k \in DOMAIN t : Unread(q, t, k) /\ u[k].cancelling => t[k].cancelling \/ k \in ks,
         Expected(c, r, d, x, ks),
         \/ x.waiter = r.waiter /\ x.future = r.future /\ x.eof = r.eof
         \/ \A k \in DOMAIN t : Unread(q, t, k) => k \in ks
  PROVE  Await(p, u, d, x)
<1>1. DOMAIN u = DOMAIN t /\ \A k \in DOMAIN t : u[k].op = t[k].op /\ u[k].at = t[k].at
  BY DEF Kept
<1>2. ASSUME NEW k \in DOMAIN u, u[k].at = "waiting", ~Has(p, H("step", k))
      PROVE  /\ u[k].op \in Reads \cup {"wait_for", "flush"}
             /\ u[k].op \in Reads => x.waiter /\ x.future = "pending" /\ ~x.eof /\ ~u[k].cancelling
             /\ u[k].op = "wait_for" => k \in d.waiters
  <2>1. t[k].at = "waiting" /\ ~Has(q, H("step", k)) /\ k \notin ks /\ k \in DOMAIN t
    BY <1>1, <1>2
  <2>2. /\ t[k].op \in Reads \cup {"wait_for", "flush"}
        /\ t[k].op \in Reads => r.waiter /\ r.future = "pending" /\ ~r.eof /\ ~t[k].cancelling
        /\ t[k].op = "wait_for" => k \in c.waiters
    BY <2>1 DEF Await
  <2>3. t[k].op \in Reads => x.waiter /\ x.future = "pending" /\ ~x.eof /\ ~u[k].cancelling
    BY <2>1, <2>2 DEF Unread
  <2> QED
    BY <1>1, <2>1, <2>2, <2>3 DEF Expected
<1>3. ASSUME NEW k \in d.waiters
      PROVE  k \in DOMAIN u /\ u[k].op = "wait_for" /\ u[k].at = "waiting" /\ ~Has(p, H("step", k))
  <2>1. k \in c.waiters /\ k \notin ks
    BY DEF Expected
  <2> QED
    BY <1>1, <2>1 DEF Await
<1>4. ASSUME NEW k \in d.drainers
      PROVE  k \in DOMAIN u /\ u[k].op = "flush" /\ u[k].at = "waiting" /\ ~Has(p, H("step", k))
  <2>1. k \in c.drainers /\ k \notin ks
    BY DEF Expected
  <2> QED
    BY <1>1, <2>1 DEF Await
<1> QED
  BY <1>2, <1>3, <1>4 DEF Await, Expected

LEMMA KeptAlong == ASSUME NEW t, NEW u, Kept(t, u) PROVE Along(t, u)
BY DEF Kept, Along

\* Whom a step of the loop gives a step.
Wakes(name, ks) ==
  /\ Runs(name) /\ name \notin Single
  /\ ks \subseteq DOMAIN task /\ \A k \in ks : task[k].at = "waiting" /\ ~Has(loop.ready, H("step", k))
  /\ loop'.ready = CallEach(Rest, "step", ks) \/ (ks = {} /\ loop'.ready = Rest)
  /\ Kept(task, task')
  /\ name = "cancel" /\ Which \in DOMAIN task /\ task[Which].at = "waiting" /\ task[Which].op \in Reads =>
       task'[Which].cancelling /\ (Which \in ks \/ Has(loop.ready, H("step", Which)))
  /\ \A k \in DOMAIN task : Unread(loop.ready, task, k) /\ task'[k].cancelling => task[k].cancelling \/ k \in ks
  /\ Expected(conn, reader, conn', reader', ks)
  /\ \/ reader'.waiter = reader.waiter /\ reader'.future = reader.future /\ reader'.eof = reader.eof
     \/ \A k \in DOMAIN task : Unread(loop.ready, task, k) => k \in ks

LEMMA WakesKeeps ==
  ASSUME IInv, RInv, NEW name, NEW ks, Wakes(name, ks)
  PROVE  /\ Forward /\ Along(task, task') /\ Await(loop'.ready, task', conn', reader')
         /\ \A k : \A n \in {"stop", "client"} : Has(loop'.ready, H(n, k)) => Has(loop.ready, H(n, k))
<1> DEFINE q == loop.ready
           h == H(name, Which)
           S == {H("step", k) : k \in ks}
           p == Rest
           r == loop'.ready
<1>1. /\ Passed(q, p, h) /\ IsList(p) /\ Once(p) /\ IsFiniteSet(DOMAIN task)
      /\ h.name = name /\ h.k = Which /\ name \notin Single
  BY FirstTaken, Handle DEF Wakes
<1>2. \A k \in ks : task[k].at = "waiting" /\ ~Has(q, H("step", k)) /\ ~Has(p, H("step", k)) /\ k \in DOMAIN task
  BY <1>1 DEF Wakes, Passed
<1>3. Added(p, r, S)
  <2>1. CASE r = CallEach(p, "step", ks)
    <3>1. ks \subseteq DOMAIN task
      BY DEF Wakes
    <3> QED
      BY <1>1, <1>2, <2>1, <3>1, EachAfter
  <2>2. CASE ks = {} /\ r = p
    BY <1>1, <2>2 DEF Added
  <2> QED
    BY <2>1, <2>2 DEF Wakes
<1>4. \A k : H("step", k) \in S <=> k \in ks
  BY Handle
<1>5. \A g \in S : MayAdd(p, task, g) /\ g.name = "step"
  BY <1>2, Handle DEF MayAdd
<1> HIDE DEF S, h, q, p, r
<1>6. h = H(h.name, h.k) /\ \A k : h # H("step", k)
  BY <1>1, Handle DEF h, Single
<1>7. \A k : Has(r, H("step", k)) <=> Has(q, H("step", k)) \/ k \in ks
  BY <1>1, <1>3, <1>4, <1>6 DEF Added, Passed
<1>8. Cancels(h, r, task')
  <2> SUFFICES ASSUME name = "cancel", Which \in DOMAIN task', task'[Which].at = "waiting", task'[Which].op \in Reads
               PROVE  Doomed(r, task', Which)
    BY <1>1 DEF Cancels
  <2>1. Which \in DOMAIN task /\ task[Which].at = "waiting" /\ task[Which].op \in Reads
    BY DEF Wakes, Kept
  <2> QED
    BY <1>7, <2>1 DEF Wakes, Doomed, q
<1>9. Moved(q, task, r, task')
  <2>1. \A g \in S : MayAdd(p, task, g) /\ g.name # "settle"
    BY <1>5
  <2>2. Kept(task, task') /\ h.name \notin Single
    BY <1>1 DEF Wakes
  <2> QED
    BY <1>1, <1>3, <1>6, <1>8, <2>1, <2>2 DEF Moved
<1>10. Forward
  <2>1. Line(q, task) /\ Ending(q, task, reader.eof) /\ (reader.eof => reader'.eof)
    BY DEF RInv, Wakes, Expected, q
  <2>2. Line(r, task') /\ Ending(r, task', reader'.eof)
    BY <1>9, <2>1, MovedKeeps
  <2>3. \A j \in DOMAIN task : task[j].op \in Reads /\ GivenUp(q, task, j) => GivenUp(r, task', j)
    BY <1>9, <2>1, MovedKeeps
  <2> QED
    BY <2>2, <2>3 DEF Forward, q, r
<1>11. Await(r, task', conn', reader')
  <2>1. Await(q, task, conn, reader) /\ Kept(task, task')
    BY DEF RInv, Wakes, q
  <2> QED
    BY <1>7, <2>1, AwaitWoken DEF Wakes, q
<1>12. \A n \in {"stop", "client"} : \A k : H(n, k) \notin S
  BY <1>5, Handle
<1>13. Along(task, task')
  BY KeptAlong DEF Wakes
<1>14. \A k : \A n \in {"stop", "client"} : Has(r, H(n, k)) => Has(q, H(n, k))
  BY <1>1, <1>3, <1>12 DEF Added, Passed
<1> QED
  BY <1>10, <1>11, <1>13, <1>14 DEF q, r

\* Who waits for what.
LEMMA Awaited ==
  ASSUME IInv, RInv
  PROVE  /\ Reading = {k \in DOMAIN task : Unread(loop.ready, task, k)}
         /\ \A k \in Reading \cup conn.waiters \cup conn.drainers :
              k \in DOMAIN task /\ task[k].at = "waiting" /\ ~Has(loop.ready, H("step", k))
         /\ conn.waiters \cap Reading = {} /\ conn.drainers \cap Reading = {} /\ conn.waiters \cap conn.drainers = {}
         /\ (conn.closing => reader.eof) /\ DOMAIN reader = ReaderFields
         /\ Reading # {} => reader.waiter /\ reader.future = "pending" /\ ~reader.eof
<1>1. Reading = {k \in DOMAIN task : Unread(loop.ready, task, k)}
  BY DEF Reading, Scheduled, Has, Unread
<1>2. Await(loop.ready, task, conn, reader)
  BY DEF RInv
<1>3. "wait_for" \notin Reads /\ "flush" \notin Reads
  BY DEF Reads
<1> QED
  BY <1>1, <1>2, <1>3 DEF Await, Unread

LEMMA OneRead ==
  ASSUME NEW q, NEW t, Line(q, t), NEW j \in DOMAIN t, NEW k \in DOMAIN t,
         t[j].op \in Reads, t[k].op \in Reads, t[j].at = "waiting", t[k].at = "waiting"
  PROVE  j = k
<1>1. DOMAIN t \subseteq Nat
  BY DEF Line, Fit, Fitting
<1>2. ~(j < k) /\ ~(k < j)
  BY DEF Line, Alternate
<1> QED
  BY <1>1, <1>2

\* Whatever the reader is fed wakes the read that waits for it.
LEMMA Fed ==
  ASSUME IInv, RInv, NEW x, x = feed_eof(reader) \/ (\E b : x = feed_data(reader, <<b>>))
  PROVE  /\ Woken(x) \subseteq Reading /\ \A k \in DOMAIN task : Unread(loop.ready, task, k) => k \in Woken(x)
         /\ DOMAIN x = ReaderFields /\ (reader.eof => x.eof) /\ (x = feed_eof(reader) => x.eof)
<1>1. DOMAIN reader = ReaderFields /\ (Reading # {} => reader.waiter /\ reader.future = "pending")
  BY Awaited
<1>2. DOMAIN x = ReaderFields /\ (reader.eof => x.eof) /\ (x = feed_eof(reader) => x.eof)
      /\ (reader.waiter /\ reader.future = "pending" => x.future = "done")
  <2>1. CASE x = feed_eof(reader)
    BY <1>1, <2>1 DEF feed_eof, _wakeup_waiter, Complete, ReaderFields
  <2>2. CASE \E b : x = feed_data(reader, <<b>>)
    <3>1. PICK b : x = feed_data(reader, <<b>>)
      BY <2>2
    <3> DEFINE fed == _wakeup_waiter([reader EXCEPT !.buffer = @ \o <<b>>])
    <3>2. x = fed \/ x = Pause(fed)
      <4>1. <<b>> # <<>>
        OBVIOUS
      <4> QED
        BY <3>1, <4>1 DEF feed_data
    <3>3. DOMAIN fed = ReaderFields /\ fed.eof = reader.eof /\ (reader.waiter /\ reader.future = "pending" => fed.future = "done")
      BY <1>1 DEF _wakeup_waiter, Complete, ReaderFields
    <3> HIDE DEF fed
    <3>4. DOMAIN x = ReaderFields /\ x.eof = fed.eof /\ x.future = fed.future
      BY <3>2, <3>3 DEF Pause, ReaderFields
    <3>5. x = feed_eof(reader) => x.eof
      BY <1>1 DEF feed_eof, _wakeup_waiter, Complete, ReaderFields
    <3> QED
      BY <3>3, <3>4, <3>5
  <2> QED
    BY <2>1, <2>2
<1>3. Woken(x) \subseteq Reading
  BY DEF Woken
<1>4. ASSUME NEW k \in DOMAIN task, Unread(loop.ready, task, k) PROVE k \in Woken(x)
  <2>1. k \in Reading
    BY <1>4, Awaited
  <2>2. reader.waiter /\ reader.future = "pending"
    BY <1>1, <2>1
  <2> QED
    BY <1>2, <2>1, <2>2 DEF Woken
<1> QED
  BY <1>2, <1>3, <1>4

LEMMA CancelTaskMoves == IInv /\ RInv /\ CancelTask => RInv'
<1> SUFFICES ASSUME IInv, RInv, CancelTask PROVE RInv'
  OBVIOUS
<1> DEFINE k == Which
           ks == {k} \cap (Reading \cup conn.waiters \cup conn.drainers)
<1>1. /\ Runs("cancel") /\ task' = [task EXCEPT ![k].cancelling = task[k].at # "over"]
      /\ loop' = [loop EXCEPT !.ready = CallEach(Rest, "step", ks)]
      /\ reader' = IF k \in Reading THEN [reader EXCEPT !.future = "cancelled"] ELSE reader
      /\ conn' = [conn EXCEPT !.waiters = @ \ {k}, !.drainers = @ \ {k}]
      /\ thread' = thread
  BY DEF CancelTask
<1>2. /\ IsLoop(loop) /\ DOMAIN conn = ConnFields /\ \A j \in DOMAIN task : DOMAIN task[j] = TaskFields
  BY DEF IInv, IsConn, IsTasks
<1>3. loop'.ready = CallEach(Rest, "step", ks) /\ loop'.state = loop.state
  BY <1>1, <1>2 DEF IsLoop
<1>4. /\ DOMAIN task' = DOMAIN task
      /\ \A j \in DOMAIN task :
           /\ task'[j].op = task[j].op /\ task'[j].early = task[j].early /\ task'[j].at = task[j].at
           /\ task'[j].fut = task[j].fut
           /\ task'[j].cancelling = IF j = k THEN task[j].at # "over" ELSE task[j].cancelling
  BY <1>1, <1>2 DEF TaskFields
<1>5. /\ conn'.waiters = conn.waiters \ {k} /\ conn'.drainers = conn.drainers \ {k}
      /\ conn'.connected = conn.connected /\ conn'.role = conn.role /\ conn'.client = conn.client
      /\ conn'.connection_closed = conn.connection_closed /\ conn'.closing = conn.closing
  BY <1>1, <1>2 DEF ConnFields
<1>6. reader' = reader \/ (k \in Reading /\ DOMAIN reader' = ReaderFields /\ reader'.eof = reader.eof)
  BY <1>1, Awaited DEF ReaderFields
<1>7. DOMAIN reader' = ReaderFields /\ (conn'.closing => reader'.eof) /\ (reader.eof => reader'.eof)
  BY <1>5, <1>6, Awaited
<1>8. Kept(task, task')
  BY <1>4 DEF Kept
<1>9. ks \subseteq DOMAIN task /\ \A j \in ks : task[j].at = "waiting" /\ ~Has(loop.ready, H("step", j))
  BY Awaited
<1>10. \A j \in DOMAIN task : Unread(loop.ready, task, j) => j \in Reading
  BY Awaited
<1>11. \/ reader' = reader
       \/ \A j \in DOMAIN task : Unread(loop.ready, task, j) => j \in ks
  <2> SUFFICES ASSUME k \in Reading, NEW j \in DOMAIN task, Unread(loop.ready, task, j) PROVE j = k
    BY <1>1
  <2>1. Unread(loop.ready, task, k) /\ k \in DOMAIN task /\ Line(loop.ready, task)
    BY Awaited DEF RInv
  <2> QED
    BY <2>1, OneRead DEF Unread
<1>12. "cancel" \notin Single
  BY DEF Single
<1>13. Expected(conn, reader, conn', reader', ks)
  BY <1>5, <1>7 DEF Expected
<1>14. k \in DOMAIN task /\ task[k].at = "waiting" /\ task[k].op \in Reads =>
         task'[k].cancelling /\ (k \in ks \/ Has(loop.ready, H("step", k)))
  BY <1>4, <1>10 DEF Unread
<1>15. \A j \in DOMAIN task : Unread(loop.ready, task, j) /\ task'[j].cancelling => task[j].cancelling \/ j \in ks
  BY <1>4, <1>10
<1> HIDE DEF ks, k
<1>16. Wakes("cancel", ks)
  BY <1>1, <1>3, <1>8, <1>9, <1>11, <1>12, <1>13, <1>14, <1>15 DEF Wakes, k
<1>17. /\ Forward /\ Along(task, task') /\ Await(loop'.ready, task', conn', reader')
       /\ \A j : \A n \in {"stop", "client"} : Has(loop'.ready, H(n, j)) => Has(loop.ready, H(n, j))
  BY <1>16, WakesKeeps
<1>18. Plainly
  BY <1>1, <1>3, <1>5, <1>17 DEF Plainly
<1> QED
  BY <1>17, <1>18, PlainlyKeeps

\* The steps that leave the tasks as they are.
LEMMA WakesPlainly ==
  ASSUME IInv, RInv, NEW name, name \notin Single \cup {"cancel"}, NEW ks, Runs(name), ks \subseteq DOMAIN task,
         \A k \in ks : task[k].at = "waiting" /\ ~Has(loop.ready, H("step", k)),
         loop'.ready = CallEach(Rest, "step", ks) \/ (ks = {} /\ loop'.ready = Rest),
         task' = task, Expected(conn, reader, conn', reader', ks),
         \/ reader'.waiter = reader.waiter /\ reader'.future = reader.future /\ reader'.eof = reader.eof
         \/ \A k \in DOMAIN task : Unread(loop.ready, task, k) => k \in ks
  PROVE  /\ Forward /\ Along(task, task') /\ Await(loop'.ready, task', conn', reader')
         /\ \A k : \A n \in {"stop", "client"} : Has(loop'.ready, H(n, k)) => Has(loop.ready, H(n, k))
<1>1. Wakes(name, ks)
  BY DEF Wakes, Kept
<1> QED
  BY <1>1, WakesKeeps

\* Nobody and nothing but the connection changes, or what is ready.
LEMMA NetworkMoves ==
  ASSUME IInv, RInv, NEW name, name \notin Single \cup {"cancel"}, NEW ks, Runs(name), ks \subseteq DOMAIN task,
         \A k \in ks : task[k].at = "waiting" /\ ~Has(loop.ready, H("step", k)),
         loop'.ready = CallEach(Rest, "step", ks) \/ (ks = {} /\ loop'.ready = Rest), loop'.state = loop.state,
         task' = task, thread' = thread, Expected(conn, reader, conn', reader', ks),
         \/ reader'.waiter = reader.waiter /\ reader'.future = reader.future /\ reader'.eof = reader.eof
         \/ \A k \in DOMAIN task : Unread(loop.ready, task, k) => k \in ks,
         conn'.connected = conn.connected, conn'.role = conn.role, conn'.connection_closed = conn.connection_closed,
         conn'.client = conn.client \/ conn.connected
  PROVE  RInv'
<1>1. /\ Forward /\ Along(task, task') /\ Await(loop'.ready, task', conn', reader')
      /\ \A k : \A n \in {"stop", "client"} : Has(loop'.ready, H(n, k)) => Has(loop.ready, H(n, k))
  BY WakesPlainly
<1>2. Plainly
  BY <1>1 DEF Plainly
<1> QED
  BY <1>1, <1>2, PlainlyKeeps

LEMMA NetworkSteps ==
  ASSUME IInv, RInv, RunClient \/ RunWrite \/ RunData \/ RunEof \/ RunOption \/ RunCongestion \/ RunNothing
  PROVE  RInv'
<1>1. /\ DOMAIN loop = {"state", "ready"} /\ DOMAIN conn = ConnFields /\ DOMAIN reader = ReaderFields
      /\ (conn.closing => reader.eof)
  BY Awaited DEF IInv, IsLoop, IsConn
<1>2. \A n \in {"client", "write", "data", "eof", "option", "congestion"} : n \notin Single \cup {"cancel"}
  BY DEF Single
<1>3. \A k \in Reading \cup conn.waiters \cup conn.drainers :
         k \in DOMAIN task /\ task[k].at = "waiting" /\ ~Has(loop.ready, H("step", k))
  BY Awaited
<1>4. CASE RunClient
  <2>1. /\ loop'.ready = Rest /\ loop'.state = loop.state /\ task' = task /\ thread' = thread /\ reader' = reader
        /\ conn'.waiters = conn.waiters /\ conn'.drainers = conn.drainers /\ conn'.closing = conn.closing
        /\ conn'.connected = conn.connected /\ conn'.role = conn.role
        /\ conn'.connection_closed = conn.connection_closed /\ Runs("client")
    BY <1>1, <1>4 DEF RunClient, ConnFields
  <2>2. Expected(conn, reader, conn', reader', {})
    BY <1>1, <2>1 DEF Expected
  <2>3. conn.connected
    <3>1. Has(loop.ready, H("client", Which))
      BY <2>1, FirstTaken DEF Shifted
    <3> QED
      BY <3>1 DEF RInv, Begun
  <2> QED
    BY <1>2, <2>1, <2>2, <2>3, NetworkMoves
<1>5. CASE RunWrite
  <2>1. /\ loop'.ready = Rest /\ loop'.state = loop.state /\ task' = task /\ thread' = thread /\ reader' = reader
        /\ conn' = conn /\ Runs("write")
    BY <1>1, <1>5 DEF RunWrite
  <2>2. Expected(conn, reader, conn', reader', {})
    BY <1>1, <2>1 DEF Expected
  <2> QED
    BY <1>2, <2>1, <2>2, NetworkMoves
<1>6. CASE RunData
  <2> DEFINE x == feed_data(reader, <<Head(toCome)>>)
  <2>1. /\ loop'.ready = CallEach(Rest, "step", Woken(x)) /\ loop'.state = loop.state /\ task' = task /\ thread' = thread
        /\ reader' = x /\ conn' = conn /\ Runs("data")
    BY <1>1, <1>6 DEF RunData, Tell
  <2>2. /\ Woken(x) \subseteq Reading /\ \A k \in DOMAIN task : Unread(loop.ready, task, k) => k \in Woken(x)
        /\ DOMAIN x = ReaderFields /\ (reader.eof => x.eof)
    BY Fed
  <2> HIDE DEF x
  <2>3. Woken(x) \cap (conn.waiters \cup conn.drainers) = {}
    BY <2>2, Awaited
  <2>4. Expected(conn, reader, conn', reader', Woken(x))
    BY <1>1, <2>1, <2>2, <2>3 DEF Expected
  <2>5. /\ Woken(x) \subseteq DOMAIN task
        /\ \A k \in Woken(x) : task[k].at = "waiting" /\ ~Has(loop.ready, H("step", k))
    BY <1>3, <2>2
  <2> QED
    BY <1>2, <2>1, <2>2, <2>4, <2>5, NetworkMoves
<1>7. CASE RunEof
  <2> DEFINE x == feed_eof(reader)
  <2>1. /\ loop'.ready = CallEach(Rest, "step", Woken(x)) /\ loop'.state = loop.state /\ task' = task /\ thread' = thread
        /\ reader' = x /\ Runs("eof")
        /\ conn'.waiters = conn.waiters /\ conn'.drainers = conn.drainers
        /\ conn'.connected = conn.connected /\ conn'.role = conn.role /\ conn'.client = conn.client
        /\ conn'.connection_closed = conn.connection_closed
    BY <1>1, <1>7 DEF RunEof, Tell, Lost, ConnFields
  <2>2. /\ Woken(x) \subseteq Reading /\ \A k \in DOMAIN task : Unread(loop.ready, task, k) => k \in Woken(x)
        /\ DOMAIN x = ReaderFields /\ x.eof
    BY Fed
  <2> HIDE DEF x
  <2>3. Woken(x) \cap (conn.waiters \cup conn.drainers) = {}
    BY <2>2, Awaited
  <2>4. Expected(conn, reader, conn', reader', Woken(x))
    BY <1>1, <2>1, <2>2, <2>3 DEF Expected
  <2>5. /\ Woken(x) \subseteq DOMAIN task
        /\ \A k \in Woken(x) : task[k].at = "waiting" /\ ~Has(loop.ready, H("step", k))
    BY <1>3, <2>2
  <2> QED
    BY <1>2, <2>1, <2>2, <2>4, <2>5, NetworkMoves
<1>8. CASE RunOption
  <2> DEFINE met == IF ~conn.option THEN conn.waiters ELSE {}
  <2>1. /\ met \subseteq conn.waiters
        /\ conn' = [conn EXCEPT !.option = ~conn.option, !.waiters = @ \ met]
        /\ loop' = [loop EXCEPT !.ready = CallEach(Rest, "step", met)]
        /\ task' = task /\ thread' = thread /\ reader' = reader /\ Runs("option")
    BY <1>8 DEF RunOption
  <2> HIDE DEF met
  <2>2. /\ loop'.ready = CallEach(Rest, "step", met) /\ loop'.state = loop.state
        /\ conn'.waiters = conn.waiters \ met /\ conn'.drainers = conn.drainers /\ conn'.closing = conn.closing
        /\ conn'.connected = conn.connected /\ conn'.role = conn.role /\ conn'.client = conn.client
        /\ conn'.connection_closed = conn.connection_closed
    BY <1>1, <2>1 DEF ConnFields
  <2>3. met \cap conn.drainers = {}
    BY <2>1, Awaited
  <2>4. Expected(conn, reader, conn', reader', met)
    BY <1>1, <2>1, <2>2, <2>3 DEF Expected
  <2>5. met \subseteq DOMAIN task /\ \A k \in met : task[k].at = "waiting" /\ ~Has(loop.ready, H("step", k))
    BY <1>3, <2>1
  <2> QED
    BY <1>2, <2>1, <2>2, <2>4, <2>5, NetworkMoves
<1>9. CASE RunCongestion
  <2> DEFINE due == IF conn.congested THEN conn.drainers ELSE {}
  <2>1. /\ (loop'.ready = CallEach(Rest, "step", due) \/ (due = {} /\ loop'.ready = Rest)) /\ loop'.state = loop.state
        /\ task' = task /\ thread' = thread /\ reader' = reader /\ Runs("congestion")
        /\ conn'.waiters = conn.waiters /\ conn'.drainers = conn.drainers \ due /\ conn'.closing = conn.closing
        /\ conn'.connected = conn.connected /\ conn'.role = conn.role /\ conn'.client = conn.client
        /\ conn'.connection_closed = conn.connection_closed
    BY <1>1, <1>9 DEF RunCongestion, ConnFields
  <2>3. due \cap conn.waiters = {} /\ due \subseteq conn.drainers
    BY Awaited
  <2> HIDE DEF due
  <2>4. Expected(conn, reader, conn', reader', due)
    BY <1>1, <2>1, <2>3 DEF Expected
  <2>5. due \subseteq DOMAIN task /\ \A k \in due : task[k].at = "waiting" /\ ~Has(loop.ready, H("step", k))
    BY <1>3, <2>3
  <2> QED
    BY <1>2, <2>1, <2>4, <2>5, NetworkMoves
<1>10. CASE RunNothing
  <2>1. /\ loop'.ready = Rest /\ loop'.state = loop.state /\ task' = task /\ thread' = thread /\ reader' = reader
        /\ conn' = conn
    BY <1>1, <1>10 DEF RunNothing
  <2>2. Expected(conn, reader, conn', reader', {})
    BY <1>1, <2>1 DEF Expected
  <2>3. PICK n \in {"client", "write", "data", "eof", "option", "congestion"} : Runs(n)
    BY <1>10 DEF RunNothing
  <2> QED
    BY <1>2, <2>1, <2>2, <2>3, NetworkMoves
<1> QED
  BY <1>4, <1>5, <1>6, <1>7, <1>8, <1>9, <1>10

\* What makes no difference to who waits for what.
LEMMA AwaitSame ==
  ASSUME NEW q, NEW t, NEW c, NEW r, Await(q, t, c, r), NEW p, \A k : Has(p, H("step", k)) <=> Has(q, H("step", k)),
         NEW u, DOMAIN u = DOMAIN t,
         \A k \in DOMAIN t : u[k].op = t[k].op /\ u[k].at = t[k].at /\ (u[k].cancelling => t[k].cancelling),
         NEW d, d.waiters = c.waiters, d.drainers = c.drainers, d.closing = c.closing
  PROVE  Await(p, u, d, r)
BY DEF Await

\* The loop is told to stop, and stops.
LEMMA StopMoves == IInv /\ RInv /\ RunStop => RInv'
<1> SUFFICES ASSUME IInv, RInv, RunStop PROVE RInv'
  OBVIOUS
<1>1. /\ Runs("stop") /\ loop'.state = "stopping" /\ loop'.ready = Rest
      /\ conn' = conn /\ reader' = reader /\ task' = task /\ thread' = thread
  BY DEF RunStop
<1>2. Has(loop.ready, H("stop", Which)) /\ Passed(loop.ready, Rest, H("stop", Which)) /\ loop.state \in {"running", "stopping"}
  BY <1>1, FirstTaken DEF Shifted
<1>3. "stop" \notin Single \cup {"cancel"}
  BY DEF Single
<1>4. Expected(conn, reader, conn', reader', {})
  BY <1>1, Awaited DEF Expected
<1>5. /\ Forward /\ Along(task, task') /\ Await(loop'.ready, task', conn', reader')
      /\ \A k : \A n \in {"stop", "client"} : Has(loop'.ready, H(n, k)) => Has(loop.ready, H(n, k))
  BY <1>1, <1>3, <1>4, WakesPlainly
<1>6. Users(loop', task', thread') /\ Unshut(task', conn')
  BY <1>1, <1>2, <1>5, UsersForward, UnshutAlong
<1>7. Begun(loop', task', conn', thread')
  BY <1>1, <1>2, <1>5 DEF RInv, Begun
<1>8. Stopping(loop', task', thread')
  BY <1>1, <1>2, <1>5 DEF RInv, Stopping
<1> QED
  BY <1>5, <1>6, <1>7, <1>8 DEF RInv, Forward

LEMMA ExitMoves == IInv /\ RInv /\ Exit => RInv'
<1> SUFFICES ASSUME IInv, RInv, Exit PROVE RInv'
  OBVIOUS
<1>1. /\ loop.state = "stopping" /\ loop'.state = "stopped" /\ loop'.ready = loop.ready
      /\ conn' = conn /\ reader' = reader /\ task' = task /\ thread' = thread
  BY DEF Exit, IInv, IsLoop
<1>2. Users(loop', task', thread')
  BY <1>1 DEF RInv, Users
<1>3. Begun(loop', task', conn', thread')
  BY <1>1 DEF RInv, Begun
<1>4. Stopping(loop', task', thread')
  BY <1>1 DEF RInv, Stopping
<1> QED
  BY <1>1, <1>2, <1>3, <1>4 DEF RInv

\* A list that only gets handles that are no task's turn.
LEMMA MoreKeeps ==
  ASSUME NEW q, NEW t, Line(q, t), NEW r, NEW n, n \notin Single, NEW k, Added(q, r, {H(n, k)}),
         NEW u, Kept(t, u)
  PROVE  /\ Line(r, u)
         /\ \A e : Ending(q, t, e) => Ending(r, u, e)
         /\ \A j \in DOMAIN t : t[j].op \in Reads /\ GivenUp(q, t, j) => GivenUp(r, u, j)
<1>1. IsList(q) /\ Once(q)
  BY DEF Line, Fit
<1>2. Passed(q, q, H("none", 0)) /\ H("none", 0) = H(H("none", 0).name, H("none", 0).k) /\ H("none", 0).name \notin Single
  BY <1>1, Handle DEF Passed, Single
<1>3. Cancels(H("none", 0), r, u)
  BY Handle DEF Cancels
<1>4. \A g \in {H(n, k)} : MayAdd(q, t, g) /\ g.name # "settle"
  BY Handle DEF MayAdd, Single
<1>5. Moved(q, t, r, u)
  BY <1>2, <1>3, <1>4 DEF Moved
<1> QED
  BY <1>5, MovedKeeps

LEMMA CallKeeps ==
  ASSUME NEW q, NEW t, Line(q, t), NEW n, n \notin Single, NEW k, NEW u, Kept(t, u)
  PROVE  /\ Line(Call(q, n, k), u)
         /\ \A e : Ending(q, t, e) => Ending(Call(q, n, k), u, e)
         /\ \A j \in DOMAIN t : t[j].op \in Reads /\ GivenUp(q, t, j) => GivenUp(Call(q, n, k), u, j)
         /\ \A h : Has(Call(q, n, k), h) <=> Has(q, h) \/ h = H(n, k)
<1> DEFINE r == Call(q, n, k)
<1>1. Added(q, r, {H(n, k)})
  BY CallAdded DEF Line, Fit
<1> HIDE DEF r
<1>2. \A h : Has(r, h) <=> Has(q, h) \/ h = H(n, k)
  BY <1>1 DEF Added
<1>3. /\ Line(r, u)
      /\ \A e : Ending(q, t, e) => Ending(r, u, e)
      /\ \A j \in DOMAIN t : t[j].op \in Reads /\ GivenUp(q, t, j) => GivenUp(r, u, j)
  BY <1>1, MoreKeeps
<1> QED
  BY <1>2, <1>3 DEF r

LEMMA PollMoves == IInv /\ RInv /\ Poll => RInv'
<1> SUFFICES ASSUME IInv, RInv, Poll PROVE RInv'
  OBVIOUS
<1>1. PICK event \in {"none", "data", "eof", "option", "congestion", "client"} :
        /\ event = "client" => conn.connected
        /\ loop' = [loop EXCEPT !.ready = Call(IF event = "none" THEN Rest ELSE Call(Rest, event, 0), "poll", 0)]
  BY DEF Poll
<1>2. Runs("poll") /\ conn' = conn /\ reader' = reader /\ task' = task /\ thread' = thread
  BY DEF Poll
<1> DEFINE q == loop.ready
           due == IF event = "none" THEN Rest ELSE Call(Rest, event, 0)
           r == Call(due, "poll", 0)
<1>3. loop'.ready = r /\ loop'.state = loop.state
  BY <1>1 DEF IInv, IsLoop
<1>4. "poll" \notin Single /\ event \notin Single
  BY DEF Single
<1>5. Kept(task, task)
  BY DEF Kept
<1>6. Passed(q, Rest, H("poll", Which)) /\ loop.state \in {"running", "stopping"}
  BY <1>2, FirstTaken
<1>7. /\ Line(Rest, task) /\ \A e : Ending(q, task, e) => Ending(Rest, task, e)
      /\ \A j \in DOMAIN task : task[j].op \in Reads /\ GivenUp(q, task, j) => GivenUp(Rest, task, j)
  <2> DEFINE h == H("poll", Which)
  <2>1. h = H(h.name, h.k) /\ h.name \notin Single /\ Cancels(h, Rest, task)
    BY <1>4, Handle DEF Cancels
  <2>2. Added(Rest, Rest, {}) /\ \A g \in {} : MayAdd(Rest, task, g) /\ g.name # "settle"
    BY <1>6 DEF Added, Passed
  <2>3. Moved(q, task, Rest, task)
    BY <1>5, <1>6, <2>1, <2>2 DEF Moved
  <2>4. Line(q, task)
    BY DEF RInv
  <2> QED
    BY <2>3, <2>4, MovedKeeps
<1>8. \A g : Has(Rest, g) => Has(q, g)
  BY <1>6 DEF Passed
<1>9. \A k : Has(q, H("step", k)) => Has(Rest, H("step", k))
  BY <1>6, Handle DEF Passed
<1>10. /\ Line(due, task) /\ \A e : Ending(Rest, task, e) => Ending(due, task, e)
       /\ \A j \in DOMAIN task : task[j].op \in Reads /\ GivenUp(Rest, task, j) => GivenUp(due, task, j)
       /\ \A h : Has(due, h) <=> Has(Rest, h) \/ (event # "none" /\ h = H(event, 0))
  BY <1>4, <1>5, <1>7, CallKeeps
<1> HIDE DEF due
<1>11. /\ Line(r, task) /\ \A e : Ending(due, task, e) => Ending(r, task, e)
       /\ \A j \in DOMAIN task : task[j].op \in Reads /\ GivenUp(due, task, j) => GivenUp(r, task, j)
       /\ \A h : Has(r, h) <=> Has(due, h) \/ h = H("poll", 0)
  <2>1. Line(due, task)
    BY <1>10
  <2> QED
    BY <1>4, <1>5, <2>1, CallKeeps
<1> HIDE DEF r
<1>12. Forward
  BY <1>2, <1>3, <1>7, <1>10, <1>11 DEF Forward, RInv
<1>13. /\ \A k : Has(r, H("step", k)) <=> Has(q, H("step", k))
       /\ \A k : Has(r, H("stop", k)) => Has(q, H("stop", k))
       /\ \A k : Has(r, H("client", k)) => Has(q, H("client", k)) \/ event = "client"
  BY <1>4, <1>8, <1>9, <1>10, <1>11, Handle DEF Single
<1>14. Await(r, task, conn, reader)
  BY <1>13, AwaitSame DEF RInv
<1>15. Along(task, task') /\ Users(loop', task', thread') /\ Unshut(task', conn')
  <2>1. Along(task, task')
    BY <1>2 DEF Along
  <2> QED
    BY <1>2, <1>3, <1>12, <2>1, UsersForward, UnshutAlong
<1>16. Begun(loop', task', conn', thread')
  BY <1>1, <1>2, <1>3, <1>13 DEF RInv, Begun
<1>17. Stopping(loop', task', thread')
  BY <1>2, <1>3, <1>13 DEF RInv, Stopping
<1> QED
  BY <1>2, <1>3, <1>12, <1>14, <1>15, <1>16, <1>17 DEF RInv, Forward

\* What the closing of the writer makes of those who wait.
LEMMA WriterShuts ==
  ASSUME IInv, RInv, NEW x, x = ToldOfEof \/ (conn.connection_closed /\ x = reader), NEW ks, ks = WritersDue \cup Woken(x)
  PROVE  /\ ks \subseteq DOMAIN task /\ \A k \in ks : task[k].at = "waiting" /\ ~Has(loop.ready, H("step", k))
         /\ Expected(conn, reader, WriterClosed, x, ks)
         /\ x = reader \/ (\A k \in DOMAIN task : Unread(loop.ready, task, k) => k \in ks)
         /\ WritersDue \subseteq ks /\ (~conn.connection_closed => conn.waiters \subseteq ks)
         /\ WriterClosed.connected = conn.connected /\ WriterClosed.role = conn.role /\ WriterClosed.client = conn.client
         /\ x = ToldOfEof => x.eof
<1>1. DOMAIN conn = ConnFields /\ DOMAIN reader = ReaderFields /\ (conn.closing => reader.eof)
  BY Awaited DEF IInv, IsConn
<1>2. /\ DOMAIN x = ReaderFields /\ (reader.eof => x.eof) /\ (x = ToldOfEof => x.eof) /\ Woken(x) \subseteq Reading
      /\ x = reader \/ (\A k \in DOMAIN task : Unread(loop.ready, task, k) => k \in Woken(x))
  <2>1. CASE x = reader
    BY <1>1, <2>1, Fed DEF Woken, ToldOfEof
  <2>2. CASE x = feed_eof(reader) /\ ~conn.closing
    <3>1. /\ DOMAIN x = ReaderFields /\ x.eof /\ Woken(x) \subseteq Reading
          /\ \A k \in DOMAIN task : Unread(loop.ready, task, k) => k \in Woken(x)
      BY <2>2, Fed
    <3> QED
      BY <3>1
  <2> QED
    BY <2>1, <2>2 DEF ToldOfEof
<1>3. WritersDue \subseteq conn.waiters /\ (~conn.connection_closed => WritersDue = conn.waiters)
      /\ (conn.connection_closed => WritersDue = {})
  BY DEF WritersDue
<1>4. /\ WriterClosed.connected = conn.connected /\ WriterClosed.role = conn.role /\ WriterClosed.client = conn.client
      /\ WriterClosed.waiters = IF conn.connection_closed THEN conn.waiters ELSE {}
      /\ WriterClosed.drainers = conn.drainers
      /\ WriterClosed.closing = IF conn.connection_closed THEN conn.closing ELSE TRUE
  BY <1>1 DEF WriterClosed, Lost, ConnFields
<1> HIDE DEF ConnFields, ReaderFields
<1>5. \A k \in Reading \cup conn.waiters \cup conn.drainers :
         k \in DOMAIN task /\ task[k].at = "waiting" /\ ~Has(loop.ready, H("step", k))
  BY Awaited
<1>6. conn.waiters \cap Reading = {} /\ conn.drainers \cap Reading = {} /\ conn.waiters \cap conn.drainers = {}
  BY Awaited
<1>7. ks \subseteq Reading \cup conn.waiters /\ ks \cap conn.drainers = {}
  BY <1>2, <1>3, <1>6
<1>8. Expected(conn, reader, WriterClosed, x, ks)
  <2>1. WriterClosed.waiters \subseteq conn.waiters \ ks /\ conn.waiters \ ks \subseteq WriterClosed.waiters
    BY <1>2, <1>3, <1>4, <1>6
  <2>2. WriterClosed.closing => x.eof
    BY <1>1, <1>2, <1>4
  <2> QED
    BY <1>2, <1>4, <1>7, <2>1, <2>2 DEF Expected
<1> QED
  BY <1>2, <1>3, <1>4, <1>5, <1>7, <1>8

LEMMA AllKept ==
  ASSUME IInv, NEW ks, NEW u, u = CancelAll(ks)
  PROVE  /\ DOMAIN u = DOMAIN task
         /\ \A k \in DOMAIN task :
              /\ u[k].op = task[k].op /\ u[k].early = task[k].early /\ u[k].at = task[k].at /\ u[k].fut = task[k].fut
              /\ (task[k].cancelling => u[k].cancelling) /\ (k \in ks => u[k].cancelling)
              /\ u[k].cancelling => task[k].cancelling \/ k \in ks
              /\ DOMAIN u[k] = TaskFields
BY DEF IInv, IsTasks, CancelAll, TaskFields

LEMMA CloseMoves == IInv /\ RInv /\ RunClose => RInv'
<1> SUFFICES ASSUME IInv, RInv, RunClose PROVE RInv'
  OBVIOUS
<1> DEFINE x == IF conn.connection_closed THEN reader ELSE ToldOfEof
           ks == WritersDue \cup Woken(x)
<1>1. /\ Runs("wclose") /\ conn' = WriterClosed /\ reader' = x /\ task' = CancelAll(WritersDue) /\ thread' = thread
      /\ loop'.ready = CallEach(Rest, "step", ks) /\ loop'.state = loop.state
  BY DEF RunClose, IInv, IsLoop
<1>2. x = ToldOfEof \/ (conn.connection_closed /\ x = reader)
  OBVIOUS
<1> HIDE DEF x
<1>3. ks = WritersDue \cup Woken(x)
  OBVIOUS
<1> HIDE DEF ks
<1>4. /\ ks \subseteq DOMAIN task /\ \A k \in ks : task[k].at = "waiting" /\ ~Has(loop.ready, H("step", k))
      /\ Expected(conn, reader, conn', reader', ks)
      /\ reader' = reader \/ (\A k \in DOMAIN task : Unread(loop.ready, task, k) => k \in ks)
      /\ WritersDue \subseteq ks
      /\ conn'.connected = conn.connected /\ conn'.role = conn.role /\ conn'.client = conn.client
  BY <1>1, <1>2, <1>3, WriterShuts
<1>5. /\ DOMAIN task' = DOMAIN task
      /\ \A k \in DOMAIN task :
           /\ task'[k].op = task[k].op /\ task'[k].early = task[k].early /\ task'[k].at = task[k].at
           /\ task'[k].fut = task[k].fut
           /\ (task[k].cancelling => task'[k].cancelling)
           /\ task'[k].cancelling => task[k].cancelling \/ k \in WritersDue
  BY <1>1, AllKept
<1>6. Kept(task, task')
  BY <1>5 DEF Kept
<1>7. "wclose" \notin Single \cup {"cancel"}
  BY DEF Single
<1>8. Wakes("wclose", ks)
  BY <1>1, <1>4, <1>5, <1>6, <1>7 DEF Wakes
<1>9. /\ Forward /\ Along(task, task') /\ Await(loop'.ready, task', conn', reader')
      /\ \A j : \A n \in {"stop", "client"} : Has(loop'.ready, H(n, j)) => Has(loop.ready, H(n, j))
  BY <1>8, WakesKeeps
<1>10. conn.role # "client"
  <2>1. Has(loop.ready, H("wclose", Which))
    BY <1>1, FirstTaken DEF Shifted
  <2>2. PICK i \in DOMAIN loop.ready : loop.ready[i].name = "wclose"
    BY <2>1, Handle DEF Has
  <2> QED
    BY <2>2 DEF IInv, Queued, Queue, May
<1>11. Unshut(task', conn')
  BY <1>4, <1>10 DEF Unshut
<1>12. Users(loop', task', thread')
  BY <1>1, <1>9, UsersForward
<1>13. Begun(loop', task', conn', thread')
  BY <1>1, <1>4, <1>5, <1>9 DEF RInv, Begun
<1>14. Stopping(loop', task', thread')
  BY <1>1, <1>4, <1>5, <1>9 DEF RInv, Stopping
<1> QED
  BY <1>9, <1>11, <1>12, <1>13, <1>14 DEF RInv, Forward

LEMMA StartMoves == IInv /\ RInv /\ Start => RInv'
<1> SUFFICES ASSUME IInv, RInv, Start PROVE RInv'
  OBVIOUS
<1> DEFINE q == loop.ready
           k == Which
           due == Call(Rest, "step", k)
           r == loop'.ready
<1>1. /\ Runs("start") /\ (r = due \/ r = Call(due, "cancel", k)) /\ loop'.state = loop.state
      /\ task' = [task EXCEPT ![k].at = "ready"] /\ conn' = conn /\ reader' = reader /\ thread' = thread
  BY DEF Start, IInv, IsLoop
<1>2. Shifted(q, Rest, H("start", k)) /\ IsList(Rest) /\ Once(Rest)
  BY <1>1, FirstTaken
<1>3. /\ Line(q, task) /\ Ending(q, task, reader.eof) /\ Await(q, task, conn, reader)
      /\ \A j \in DOMAIN task : DOMAIN task[j] = TaskFields
  BY DEF RInv, IInv, IsTasks
<1>4. k \in DOMAIN task /\ task[k].at = "queued" /\ ~Has(q, H("step", k)) /\ ~Has(Rest, H("step", k))
  BY <1>2, <1>3, Handle DEF Line, Fit, Fitting, Shifted, Passed
<1>5. Added(Rest, due, {H("step", k)}) /\ \A h : Has(due, h) <=> Has(Rest, h) \/ h = H("step", k)
  <2>1. Added(Rest, due, {H("step", k)})
    BY <1>2, CallAdded
  <2> QED
    BY <2>1 DEF Added
<1>6. /\ DOMAIN task' = DOMAIN task /\ task'[k].at = "ready"
      /\ \A j \in DOMAIN task :
           /\ task'[j].op = task[j].op /\ task'[j].early = task[j].early /\ task'[j].fut = task[j].fut
           /\ task'[j].cancelling = task[j].cancelling /\ (j # k => task'[j].at = task[j].at)
  BY <1>1, <1>3, <1>4 DEF TaskFields
<1> HIDE DEF due, k
<1>7. Others(task, task', k)
  BY <1>6 DEF Others
<1>8. /\ Line(due, task') /\ \A e : Ending(q, task, e) => Ending(due, task', e)
      /\ \A j \in DOMAIN task : task[j].op \in Reads /\ GivenUp(q, task, j) => GivenUp(due, task', j)
  BY <1>2, <1>3, <1>5, <1>6, <1>7, StartedKeeps
<1>9. /\ Line(r, task') /\ \A e : Ending(due, task', e) => Ending(r, task', e)
      /\ \A j \in DOMAIN task' : task'[j].op \in Reads /\ GivenUp(due, task', j) => GivenUp(r, task', j)
      /\ \A h : Has(r, h) <=> Has(due, h) \/ (r # due /\ h = H("cancel", k))
  <2>1. CASE r = due
    BY <1>8, <2>1
  <2>2. CASE r = Call(due, "cancel", k) /\ r # due
    <3> DEFINE s == Call(due, "cancel", k)
    <3>1. "cancel" \notin Single /\ Kept(task', task') /\ Line(due, task')
      BY <1>8 DEF Single, Kept
    <3>2. /\ Line(s, task') /\ \A e : Ending(due, task', e) => Ending(s, task', e)
          /\ \A j \in DOMAIN task' : task'[j].op \in Reads /\ GivenUp(due, task', j) => GivenUp(s, task', j)
          /\ \A h : Has(s, h) <=> Has(due, h) \/ h = H("cancel", k)
      BY <3>1, CallKeeps
    <3> HIDE DEF s
    <3> QED
      BY ONLY <2>2, <3>2 DEF s
  <2> QED
    BY <1>1, <2>1, <2>2
<1> HIDE DEF r
<1>10. Forward
  BY <1>1, <1>3, <1>6, <1>8, <1>9 DEF Forward, q, r
<1>11. \A h : Has(r, h) => Has(q, h) \/ h = H("step", k) \/ h = H("cancel", k)
  BY <1>2, <1>5, <1>9 DEF Shifted, Passed
<1>12. \A j : Has(q, H("step", j)) => Has(r, H("step", j))
  BY <1>2, <1>5, <1>9, Handle DEF Shifted, Passed
<1>13. Await(r, task', conn, reader)
  <2>1. \A j \in DOMAIN task : task'[j].at = "waiting" => j # k /\ task[j].at = "waiting"
    BY <1>6
  <2>2. \A j : j # k => (Has(r, H("step", j)) <=> Has(q, H("step", j)))
    BY <1>11, <1>12, Handle
  <2>3. ASSUME NEW j, j \in DOMAIN task, task[j].at = "waiting", ~Has(q, H("step", j))
        PROVE  task'[j].at = "waiting" /\ ~Has(r, H("step", j))
    BY <1>4, <1>6, <2>2, <2>3
  <2>4. \A j \in conn.waiters \cup conn.drainers :
           j \in DOMAIN task /\ task[j].at = "waiting" /\ ~Has(q, H("step", j))
    BY <1>3 DEF Await
  <2>5. \A j \in DOMAIN task : task'[j].at = "waiting" /\ ~Has(r, H("step", j)) =>
          task[j].at = "waiting" /\ ~Has(q, H("step", j))
    BY <2>1, <2>2
  <2> QED
    BY <1>3, <1>6, <2>3, <2>4, <2>5 DEF Await
<1>14. Along(task, task')
  <2>1. \A j \in DOMAIN task : task[j].at \in {"over", "waiting"} => task'[j].at = task[j].at
    BY <1>4, <1>6
  <2> QED
    BY <1>6, <2>1 DEF Along
<1>15. Plainly
  BY <1>1, <1>11, <1>14, Handle DEF Plainly, q, r
<1> QED
  BY <1>1, <1>10, <1>13, <1>15, PlainlyKeeps DEF r

LEMMA SettleMoves == IInv /\ RInv /\ Settle => RInv'
<1> SUFFICES ASSUME IInv, RInv, Settle PROVE RInv'
  OBVIOUS
<1> DEFINE q == loop.ready
           k == Which
           r == loop'.ready
<1>1. /\ Runs("settle") /\ r = Rest /\ loop'.state = loop.state
      /\ task' = [task EXCEPT ![k].fut = IF @ = "pending" THEN "done" ELSE @]
      /\ conn' = conn /\ reader' = reader /\ thread' = thread
  BY DEF Settle, IInv, IsLoop
<1>2. Shifted(q, r, H("settle", k))
  BY <1>1, FirstTaken
<1>3. /\ Line(q, task) /\ Ending(q, task, reader.eof) /\ Await(q, task, conn, reader)
      /\ \A j \in DOMAIN task : DOMAIN task[j] = TaskFields
  BY DEF RInv, IInv, IsTasks
<1>4. /\ DOMAIN task' = DOMAIN task
      /\ \A j \in DOMAIN task :
           /\ task'[j].op = task[j].op /\ task'[j].early = task[j].early /\ task'[j].at = task[j].at
           /\ task'[j].cancelling = task[j].cancelling
           /\ task'[j].fut = IF j = k /\ task[j].fut = "pending" THEN "done" ELSE task[j].fut
  BY <1>1, <1>3 DEF TaskFields
<1>5. k \in DOMAIN task
  BY <1>2, <1>3 DEF Line, Fit, Fitting, Shifted
<1> HIDE DEF k, r
<1>6. Others(task, task', k)
  BY <1>4 DEF Others
<1>7. task'[k].at = task[k].at /\ task'[k].cancelling = task[k].cancelling
  BY <1>4, <1>5
<1>8. /\ Line(r, task') /\ \A e : Ending(q, task, e) => Ending(r, task', e)
      /\ \A j \in DOMAIN task : task[j].op \in Reads /\ GivenUp(q, task, j) => GivenUp(r, task', j)
  <2> HIDE DEF q
  <2>1. Line(q, task) /\ Shifted(q, r, H("settle", k)) /\ Others(task, task', k)
    BY <1>2, <1>3, <1>6
  <2>2. \A j \in DOMAIN task : task'[j].fut = IF j = k /\ task[j].fut = "pending" THEN "done" ELSE task[j].fut
    BY <1>4
  <2> QED
    BY ONLY <1>7, <2>1, <2>2, SettledKeeps, SMTT(30)
<1>9. Forward
  BY <1>1, <1>3, <1>8 DEF Forward, q, r
<1>10. /\ \A j : Has(r, H("step", j)) <=> Has(q, H("step", j))
       /\ \A h : Has(r, h) => Has(q, h)
  BY <1>2, Handle DEF Shifted, Passed
<1>11. Await(r, task', conn, reader)
  BY <1>3, <1>4, <1>10, AwaitSame
<1>12. Along(task, task')
  BY <1>4 DEF Along
<1>13. Plainly
  BY <1>1, <1>10, <1>12 DEF Plainly, q, r
<1> QED
  BY <1>1, <1>9, <1>11, <1>13, PlainlyKeeps DEF r

\* What a turn of a read leaves.
Left(r, o) ==
  /\ DOMAIN o.r = ReaderFields /\ o.r.eof = r.eof
  /\ o.how = "wait" => o.r.waiter /\ o.r.future = "pending" /\ ~r.eof

LEMMA ReadLeaves ==
  ASSUME NEW op \in Reads, NEW r, DOMAIN r = ReaderFields, NEW held, NEW resumed
  PROVE  Left(r, ReadTurn(op, r, held, resumed))
<1>1. ASSUME NEW x, DOMAIN x = ReaderFields, x.eof = r.eof, NEW data
      PROVE  /\ ~r.eof => Left(r, Wait(x, data))
             /\ Left(r, Return(x, data)) /\ Left(r, Outcome(x, "overrun", data)) /\ Left(r, Outcome(x, "incomplete", data))
  <2> DEFINE y == IF x.paused THEN Resume(x) ELSE x
  <2>1. DOMAIN y = ReaderFields /\ y.eof = x.eof
    BY <1>1 DEF Resume, ReaderFields
  <2>2. _maybe_resume_transport(x) = y \/ _maybe_resume_transport(x) = x
    BY DEF _maybe_resume_transport
  <2>3. _wait_for_data(x) = [y EXCEPT !.waiter = TRUE, !.future = "pending"]
    BY DEF _wait_for_data
  <2> HIDE DEF y
  <2>4. ~r.eof => Left(r, Wait(x, data))
    BY <1>1, <2>1, <2>3 DEF Left, Wait, Outcome, ReaderFields
  <2>5. Left(r, Return(x, data))
    BY <1>1, <2>1, <2>2 DEF Left, Return, Outcome
  <2> QED
    BY <1>1, <2>4, <2>5 DEF Left, Outcome
<1>2. /\ \A n : DOMAIN Take(r, n) = ReaderFields /\ Take(r, n).eof = r.eof
      /\ DOMAIN [r EXCEPT !.buffer = <<>>] = ReaderFields /\ [r EXCEPT !.buffer = <<>>].eof = r.eof
  BY DEF Take, ReaderFields
<1>3. CASE op = "read"
  <2>1. Left(r, read(r, limit, resumed))
    BY <1>1, <1>2 DEF read
  <2> QED
    BY <1>3, <2>1 DEF ReadTurn
<1>4. CASE op = "readline"
  <2>1. Left(r, readline(r, held))
    BY <1>1, <1>2 DEF readline
  <2> QED
    BY <1>4, <2>1 DEF ReadTurn
<1>5. CASE op = "read_until"
  <2>1. Left(r, readuntil(r, <<"LF">>))
    BY <1>1, <1>2 DEF readuntil, AtEof
  <2> QED
    BY <1>5, <2>1 DEF ReadTurn
<1> QED
  BY <1>3, <1>4, <1>5 DEF Reads

\* Who waits for what after a task's turn, by which W and D come to wait.
Goes(q, p, s, k) == Shifted(q, p, H("step", k)) /\ \A j : Has(s, H("step", j)) <=> Has(p, H("step", j))
Sits(t, u, k, x, W, D) ==
  /\ Others(t, u, k) /\ \A j \in DOMAIN t \ {k} : u[j].cancelling => t[j].cancelling
  /\ u[k].at \in {"waiting", "over"}
  /\ u[k].at = "waiting" => t[k].op \in Reads \cup {"wait_for", "flush"}
  /\ u[k].at = "waiting" /\ t[k].op \in Reads => x.waiter /\ x.future = "pending" /\ ~x.eof /\ ~u[k].cancelling
  /\ u[k].at = "waiting" /\ t[k].op = "wait_for" => W = {k}
  /\ W \in SUBSET {k} /\ D \in SUBSET {k}
  /\ W # {} => u[k].at = "waiting" /\ t[k].op = "wait_for"
  /\ D # {} => u[k].at = "waiting" /\ t[k].op = "flush"
Leaves(t, k, c, r, d, x, W, D) ==
  /\ d.closing => x.eof
  /\ DOMAIN x = ReaderFields /\ (t[k].op \in Reads \/ x = r)
  /\ d.waiters = c.waiters \cup W /\ d.drainers = c.drainers \cup D

LEMMA TurnAwaits ==
  ASSUME NEW q, NEW t, Line(q, t), NEW c, NEW r, Await(q, t, c, r), NEW k, NEW p, NEW s, Goes(q, p, s, k),
         NEW u, NEW d, NEW x, NEW W, NEW D, Sits(t, u, k, x, W, D), Leaves(t, k, c, r, d, x, W, D)
  PROVE  Await(s, u, d, x)
<1> USE DEF Goes, Sits, Leaves
<1>1. k \in DOMAIN t /\ t[k].at \in {"ready", "waiting"} /\ Has(q, H("step", k)) /\ ~Has(p, H("step", k))
  BY TurnOf DEF Shifted
<1>2. \A j : j # k => (Has(s, H("step", j)) <=> Has(q, H("step", j)))
  <2>1. \A j : j # k => H("step", j) # H("step", k)
    BY Handle
  <2> QED
    BY <2>1 DEF Shifted, Passed
<1>3. /\ DOMAIN u = DOMAIN t
      /\ \A j \in DOMAIN t : u[j].op = t[j].op /\ (j # k => u[j].at = t[j].at)
  BY DEF Others
<1>4. t[k].op \in Reads => \A j \in DOMAIN t \ {k} : t[j].op \in Reads => t[j].at # "waiting"
  <2> SUFFICES ASSUME t[k].op \in Reads, NEW j \in DOMAIN t \ {k}, t[j].op \in Reads PROVE t[j].at # "waiting"
    OBVIOUS
  <2>1. j < k \/ k < j
    BY <1>1 DEF Line, Fit, Fitting
  <2>2. CASE j < k
    BY <1>1, <2>2, TurnOf
  <2>3. CASE k < j
    BY <1>1, <2>3 DEF Line, Alternate
  <2> QED
    BY <2>1, <2>2, <2>3
<1>5. ASSUME NEW j \in DOMAIN u, u[j].at = "waiting", ~Has(s, H("step", j))
      PROVE  /\ u[j].op \in Reads \cup {"wait_for", "flush"}
             /\ u[j].op \in Reads => x.waiter /\ x.future = "pending" /\ ~x.eof /\ ~u[j].cancelling
             /\ u[j].op = "wait_for" => j \in d.waiters
  <2>1. CASE j = k
    BY <1>1, <1>3, <1>5, <2>1
  <2>2. CASE j # k
    <3>1. /\ j \in DOMAIN t /\ t[j].at = "waiting" /\ ~Has(q, H("step", j)) /\ u[j].op = t[j].op
      BY <1>2, <1>3, <1>5, <2>2
    <3>2. /\ t[j].op \in Reads \cup {"wait_for", "flush"}
          /\ t[j].op \in Reads => r.waiter /\ r.future = "pending" /\ ~r.eof /\ ~t[j].cancelling
          /\ t[j].op = "wait_for" => j \in c.waiters
      BY <3>1 DEF Await
    <3>3. t[j].op \in Reads => x = r
      BY <1>4, <2>2, <3>1
    <3> QED
      BY <2>2, <3>1, <3>2, <3>3
  <2> QED
    BY <2>1, <2>2
<1>6. ASSUME NEW j \in d.waiters
      PROVE  j \in DOMAIN u /\ u[j].op = "wait_for" /\ u[j].at = "waiting" /\ ~Has(s, H("step", j))
  <2>1. CASE j \in W
    BY <1>1, <1>3, <2>1
  <2>2. CASE j \in c.waiters
    <3>1. j # k /\ j \in DOMAIN t /\ t[j].op = "wait_for" /\ t[j].at = "waiting" /\ ~Has(q, H("step", j))
      BY <1>1, <2>2 DEF Await
    <3> QED
      BY <1>2, <1>3, <3>1
  <2> QED
    BY <2>1, <2>2
<1>7. ASSUME NEW j \in d.drainers
      PROVE  j \in DOMAIN u /\ u[j].op = "flush" /\ u[j].at = "waiting" /\ ~Has(s, H("step", j))
  <2>1. CASE j \in D
    BY <1>1, <1>3, <2>1
  <2>2. CASE j \in c.drainers
    <3>1. j # k /\ j \in DOMAIN t /\ t[j].op = "flush" /\ t[j].at = "waiting" /\ ~Has(q, H("step", j))
      BY <1>1, <2>2 DEF Await
    <3> QED
      BY <1>2, <1>3, <3>1
  <2> QED
    BY <2>1, <2>2
<1> QED
  BY <1>5, <1>6, <1>7 DEF Await

LEMMA TurnTakes ==
  ASSUME IInv, RInv, Runs("step")
  PROVE  /\ Shifted(loop.ready, Rest, H("step", Which)) /\ IsList(Rest) /\ Once(Rest)
         /\ Line(loop.ready, task) /\ Ending(loop.ready, task, reader.eof) /\ Await(loop.ready, task, conn, reader)
         /\ Which \in DOMAIN task /\ task[Which].at \in {"ready", "waiting"}
         /\ DOMAIN loop = {"state", "ready"} /\ DOMAIN conn = ConnFields /\ DOMAIN reader = ReaderFields
         /\ \A j \in DOMAIN task : DOMAIN task[j] = TaskFields
         /\ (conn.closing => reader.eof) /\ loop.state \in {"running", "stopping"}
<1>1. /\ Shifted(loop.ready, Rest, H("step", Which)) /\ IsList(Rest) /\ Once(Rest)
      /\ Line(loop.ready, task) /\ Ending(loop.ready, task, reader.eof) /\ Await(loop.ready, task, conn, reader)
      /\ loop.state \in {"running", "stopping"}
  BY FirstTaken DEF RInv
<1>2. Which \in DOMAIN task /\ task[Which].at \in {"ready", "waiting"}
  BY <1>1 DEF Line, Fit, Fitting, Shifted
<1> QED
  BY <1>1, <1>2, Awaited DEF IInv, IsLoop, IsConn, IsTasks

\* A task's turn that ends it.
LEMMA EndTurns ==
  ASSUME IInv, RInv, Runs("step"), NEW how, NEW data, Ends(Which, how, data)
  PROVE  /\ loop'.state = loop.state
         /\ Added(Rest, loop'.ready, {H("settle", Which)})
         /\ Others(task, task', Which) /\ task'[Which].at = "over" /\ \A j \in DOMAIN task : task'[j].fut = task[j].fut
         /\ \A j \in DOMAIN task : task'[j].cancelling = task[j].cancelling
         /\ Along(task, task')
         /\ \A j : Has(loop'.ready, H("step", j)) <=> Has(Rest, H("step", j))
         /\ \A k : \A n \in {"stop", "client"} : Has(loop'.ready, H(n, k)) => Has(loop.ready, H(n, k))
<1> DEFINE k == Which
           r == Call(Rest, "settle", k)
<1>1. loop'.ready = r /\ loop'.state = loop.state
  BY TurnTakes DEF Ends
<1>2. Added(Rest, r, {H("settle", k)})
  BY TurnTakes, CallAdded
<1>3. \A h : Has(r, h) <=> Has(Rest, h) \/ h = H("settle", k)
  BY <1>2 DEF Added
<1>4. /\ DOMAIN task' = DOMAIN task /\ task'[k].at = "over"
      /\ \A j \in DOMAIN task :
           /\ task'[j].op = task[j].op /\ task'[j].early = task[j].early /\ task'[j].fut = task[j].fut
           /\ task'[j].cancelling = task[j].cancelling /\ (j # k => task'[j].at = task[j].at)
  BY TurnTakes DEF Ends, TaskFields
<1> HIDE DEF r
<1>5. Others(task, task', k)
  BY <1>4 DEF Others
<1>6. Along(task, task')
  <2>1. \A j \in DOMAIN task : task'[j].at = task[j].at \/ task'[j].at = "over"
    BY <1>4
  <2> QED
    BY <1>4, <2>1 DEF Along
<1>7. /\ \A j : Has(r, H("step", j)) <=> Has(Rest, H("step", j))
      /\ \A j : \A n \in {"stop", "client"} : Has(r, H(n, j)) => Has(loop.ready, H(n, j))
  BY <1>3, TurnTakes, Handle DEF Shifted, Passed
<1> QED
  BY <1>1, <1>2, <1>4, <1>5, <1>6, <1>7

LEMMA EndsMoves ==
  ASSUME IInv, RInv, Runs("step"), NEW how, NEW data, Ends(Which, how, data), thread' = thread, conn' = conn,
         task[Which].op \notin Enders \/ task[Which].at = "waiting",
         reader'.eof = reader.eof, DOMAIN reader' = ReaderFields, task[Which].op \in Reads \/ reader' = reader
  PROVE  RInv'
<1> DEFINE k == Which
           q == loop.ready
           r == loop'.ready
<1>1. /\ loop'.state = loop.state
      /\ Added(Rest, r, {H("settle", k)})
      /\ Others(task, task', k) /\ task'[k].at = "over" /\ \A j \in DOMAIN task : task'[j].fut = task[j].fut
      /\ \A j \in DOMAIN task : task'[j].cancelling = task[j].cancelling
      /\ Along(task, task')
      /\ \A j : Has(r, H("step", j)) <=> Has(Rest, H("step", j))
      /\ \A j : \A n \in {"stop", "client"} : Has(r, H(n, j)) => Has(q, H(n, j))
  BY EndTurns
<1>2. /\ Shifted(q, Rest, H("step", k)) /\ Line(q, task) /\ Ending(q, task, reader.eof) /\ Await(q, task, conn, reader)
      /\ (conn.closing => reader.eof)
  BY TurnTakes
<1> HIDE DEF k, r
<1>3. /\ Line(r, task') /\ \A e : Ending(q, task, e) => Ending(r, task', e)
      /\ \A j \in DOMAIN task : task[j].op \in Reads /\ GivenUp(q, task, j) => GivenUp(r, task', j) \/ task'[j].at = "over"
  <2>1. task[k].op \in Enders => task[k].at = "waiting"
    BY DEF k
  <2> QED
    BY <1>1, <1>2, <2>1, OverKeeps
<1>4. Forward
  BY <1>1, <1>2, <1>3 DEF Forward, q, r
<1>5. Await(r, task', conn', reader')
  <2> DEFINE W == {}
  <2>1. W \in SUBSET {k} /\ conn'.waiters = conn.waiters \cup W /\ conn'.drainers = conn.drainers \cup W /\ W = {}
    OBVIOUS
  <2>2. conn'.closing => reader'.eof
    BY <1>2
  <2>3. (task[k].op \in Reads \/ reader' = reader) /\ DOMAIN reader' = ReaderFields
    BY DEF k
  <2> HIDE DEF W, q
  <2>4. Goes(q, Rest, r, k) /\ Leaves(task, k, conn, reader, conn', reader', W, W)
    BY <1>1, <1>2, <2>1, <2>2, <2>3 DEF Goes, Leaves
  <2>5. Sits(task, task', k, reader', W, W)
    BY <1>1, <2>1 DEF Sits
  <2> QED
    BY ONLY <1>2, <2>4, <2>5, TurnAwaits, SMTT(30)
<1>6. Plainly
  BY <1>1 DEF Plainly, q, r
<1> QED
  BY <1>4, <1>5, <1>6, PlainlyKeeps DEF r

\* A task's turn after which it waits.
LEMMA WaitTurns ==
  ASSUME IInv, RInv, Runs("step"), NEW data, Waits(Which, data)
  PROVE  /\ loop'.state = loop.state /\ loop'.ready = Rest
         /\ Others(task, task', Which) /\ task'[Which].at = "waiting" /\ \A j \in DOMAIN task : task'[j].fut = task[j].fut
         /\ \A j \in DOMAIN task : task'[j].cancelling = task[j].cancelling
         /\ Along(task, task')
         /\ \A k : \A n \in {"stop", "client"} : Has(loop'.ready, H(n, k)) => Has(loop.ready, H(n, k))
<1> DEFINE k == Which
<1>1. loop'.ready = Rest /\ loop'.state = loop.state
  BY TurnTakes DEF Waits
<1>4. /\ DOMAIN task' = DOMAIN task /\ task'[k].at = "waiting"
      /\ \A j \in DOMAIN task :
           /\ task'[j].op = task[j].op /\ task'[j].early = task[j].early /\ task'[j].fut = task[j].fut
           /\ task'[j].cancelling = task[j].cancelling /\ (j # k => task'[j].at = task[j].at)
  BY TurnTakes DEF Waits, TaskFields
<1>5. Others(task, task', k)
  BY <1>4 DEF Others
<1>6. Along(task, task')
  <2>1. \A j \in DOMAIN task : task'[j].at = task[j].at \/ (j = k /\ task'[j].at = "waiting" /\ task[j].at # "over")
    BY <1>4, TurnTakes
  <2> QED
    BY <1>4, <2>1 DEF Along
<1>7. \A j : \A n \in {"stop", "client"} : Has(Rest, H(n, j)) => Has(loop.ready, H(n, j))
  BY TurnTakes DEF Shifted, Passed
<1> QED
  BY <1>1, <1>4, <1>5, <1>6, <1>7

Joins(W, D) ==
  /\ conn'.waiters = conn.waiters \cup W /\ conn'.drainers = conn.drainers \cup D /\ conn'.closing = conn.closing
  /\ conn'.connected = conn.connected /\ conn'.role = conn.role /\ conn'.client = conn.client
  /\ conn'.connection_closed = conn.connection_closed

LEMMA WaitsMoves ==
  ASSUME IInv, RInv, Runs("step"), NEW data, Waits(Which, data), thread' = thread,
         task[Which].op \in Reads \cup {"wait_for", "flush"},
         task[Which].op \in Reads => ~task[Which].cancelling /\ reader'.waiter /\ reader'.future = "pending" /\ ~reader.eof,
         reader'.eof = reader.eof, DOMAIN reader' = ReaderFields, task[Which].op \in Reads \/ reader' = reader,
         task[Which].op \in Reads \/ task[Which].at = "ready",
         NEW W \in SUBSET {Which}, NEW D \in SUBSET {Which}, Joins(W, D),
         task[Which].op = "wait_for" <=> W = {Which}, D = {} \/ task[Which].op = "flush"
  PROVE  RInv'
<1> DEFINE k == Which
           q == loop.ready
           r == loop'.ready
<1>1. /\ loop'.state = loop.state /\ r = Rest
      /\ Others(task, task', k) /\ task'[k].at = "waiting" /\ \A j \in DOMAIN task : task'[j].fut = task[j].fut
      /\ \A j \in DOMAIN task : task'[j].cancelling = task[j].cancelling
      /\ Along(task, task')
      /\ \A j : \A n \in {"stop", "client"} : Has(r, H(n, j)) => Has(q, H(n, j))
  BY WaitTurns
<1>2. /\ Shifted(q, Rest, H("step", k)) /\ Line(q, task) /\ Ending(q, task, reader.eof) /\ Await(q, task, conn, reader)
      /\ (conn.closing => reader.eof) /\ k \in DOMAIN task
  BY TurnTakes
<1>3. /\ conn'.waiters = conn.waiters \cup W /\ conn'.drainers = conn.drainers \cup D /\ conn'.closing = conn.closing
      /\ conn'.connected = conn.connected /\ conn'.role = conn.role /\ conn'.client = conn.client
      /\ conn'.connection_closed = conn.connection_closed
  BY DEF Joins
<1>4. /\ task[k].op \in Reads \cup {"wait_for", "flush"} /\ task[k].op \notin Enders /\ task[k].op # "start"
      /\ task[k].op \in Reads => ~task[k].cancelling /\ reader'.waiter /\ reader'.future = "pending" /\ ~reader.eof
      /\ task[k].op \in Reads \/ reader' = reader
      /\ task[k].op \in Reads \/ task[k].at = "ready"
      /\ W \in SUBSET {k} /\ D \in SUBSET {k} /\ (task[k].op = "wait_for" <=> W = {k}) /\ (D = {} \/ task[k].op = "flush")
  BY DEF Reads, Enders
<1> HIDE DEF k, r
<1>5. /\ Line(r, task') /\ (Ending(q, task, reader.eof) => Ending(r, task', reader.eof))
      /\ \A j \in DOMAIN task : task[j].op \in Reads /\ GivenUp(q, task, j) => GivenUp(r, task', j)
  <2>1. task'[k].at = "waiting" => ~reader.eof \/ task[k].at = "ready"
    BY <1>4
  <2>2. task'[k].at \in {"waiting", "over"} /\ (task'[k].at = "over" => task[k].op = "start")
    BY <1>1
  <2>3. Shifted(q, r, H("step", k))
    BY <1>1, <1>2
  <2> HIDE DEF q
  <2> QED
    BY <1>1, <1>2, <1>4, <2>1, <2>2, <2>3, WaitsKeeps
<1>6. Forward
  BY <1>1, <1>2, <1>5 DEF Forward, q, r
<1>7. Await(r, task', conn', reader')
  <2>1. conn'.closing => reader'.eof
    BY <1>2, <1>3
  <2>2. task'[k].at = "waiting" /\ task[k].op \in Reads =>
          reader'.waiter /\ reader'.future = "pending" /\ ~reader'.eof /\ ~task'[k].cancelling
    BY <1>1, <1>2, <1>4
  <2>3. /\ W # {} => task'[k].at = "waiting" /\ task[k].op = "wait_for"
        /\ D # {} => task'[k].at = "waiting" /\ task[k].op = "flush"
    BY <1>1, <1>4
  <2>4. /\ \A j : Has(r, H("step", j)) <=> Has(Rest, H("step", j))
        /\ \A j \in DOMAIN task \ {k} : task'[j].cancelling => task[j].cancelling
    BY <1>1
  <2>5. task'[k].at \in {"waiting", "over"}
    BY <1>1
  <2> HIDE DEF q
  <2>6. Goes(q, Rest, r, k) /\ Leaves(task, k, conn, reader, conn', reader', W, D)
    BY <1>1, <1>2, <1>3, <1>4, <2>1, <2>4 DEF Goes, Leaves
  <2>7. Sits(task, task', k, reader', W, D)
    BY <1>1, <1>4, <2>2, <2>3, <2>4, <2>5 DEF Sits
  <2> QED
    BY ONLY <1>2, <2>6, <2>7, TurnAwaits, SMTT(30)
<1>8. Plainly
  BY <1>1, <1>3 DEF Plainly, q, r
<1> QED
  BY <1>6, <1>7, <1>8, PlainlyKeeps DEF r

LEMMA ReadMoves == IInv /\ RInv /\ StepRead => RInv'
<1> SUFFICES ASSUME IInv, RInv, StepRead PROVE RInv'
  OBVIOUS
<1> DEFINE k == Which
           resumed == task[k].at = "waiting"
           r == IF resumed THEN Awoken(reader) ELSE reader
           o == ReadTurn(task[k].op, r, task[k].held, resumed)
<1>1. /\ Runs("step") /\ task[k].op \in Reads /\ thread' = thread /\ conn' = conn
      /\ \/ reader' = r /\ \E how, data : Ends(k, how, data)
         \/ reader' = o.r /\ \E how, data : Ends(k, how, data)
         \/ reader' = o.r /\ o.how = "wait" /\ ~task[k].cancelling /\ Waits(k, o.data)
  BY DEF StepRead, StepOf
<1>2. DOMAIN r = ReaderFields /\ r.eof = reader.eof
  BY <1>1, TurnTakes DEF Awoken, ReaderFields
<1> HIDE DEF r
<1>3. Left(r, o)
  BY <1>1, <1>2, ReadLeaves
<1> HIDE DEF o, resumed
<1>4. task[k].op \notin Enders
  BY <1>1 DEF Reads, Enders
<1>5. CASE \E how, data : Ends(k, how, data)
  <2>1. PICK how, data : Ends(k, how, data)
    BY <1>5
  <2>2. reader'.eof = reader.eof /\ DOMAIN reader' = ReaderFields
    BY <1>1, <1>2, <1>3 DEF Left
  <2> QED
    BY <1>1, <1>4, <2>1, <2>2, EndsMoves
<1>6. CASE reader' = o.r /\ o.how = "wait" /\ ~task[k].cancelling /\ Waits(k, o.data)
  <2>1. reader'.eof = reader.eof /\ DOMAIN reader' = ReaderFields /\ reader'.waiter /\ reader'.future = "pending" /\ ~reader.eof
    BY <1>2, <1>3, <1>6 DEF Left
  <2> DEFINE W == {}
  <2>2. Joins(W, W)
    BY <1>1 DEF Joins
  <2>3. W \in SUBSET {k} /\ W = {} /\ W # {k} /\ task[k].op # "wait_for"
    BY <1>1 DEF Reads
  <2> HIDE DEF W
  <2> QED
    BY <1>1, <1>6, <2>1, <2>2, <2>3, WaitsMoves
<1> QED
  BY <1>1, <1>5, <1>6

LEMMA WaitForMoves == IInv /\ RInv /\ StepWaitFor => RInv'
<1> SUFFICES ASSUME IInv, RInv, StepWaitFor PROVE RInv'
  OBVIOUS
<1> DEFINE k == Which
<1>1. /\ Runs("step") /\ task[k].op = "wait_for" /\ thread' = thread /\ reader' = reader
      /\ \/ conn' = conn /\ \E how, data : Ends(k, how, data)
         \/ /\ task[k].at # "waiting" /\ Waits(k, <<>>)
            /\ conn' = [conn EXCEPT !.waiters = @ \cup {k}]
  BY DEF StepWaitFor, StepOf
<1>2. DOMAIN reader' = ReaderFields /\ task[k].at \in {"ready", "waiting"} /\ DOMAIN conn = ConnFields
  BY <1>1, TurnTakes
<1>3. task[k].op \notin Enders /\ task[k].op \notin Reads
  BY <1>1 DEF Reads, Enders
<1>4. CASE conn' = conn /\ \E how, data : Ends(k, how, data)
  BY <1>1, <1>2, <1>3, <1>4, EndsMoves
<1>5. CASE /\ task[k].at # "waiting" /\ Waits(k, <<>>)
           /\ conn' = [conn EXCEPT !.waiters = @ \cup {k}]
  <2> DEFINE D == {}
             W == {k}
  <2>1. Joins(W, D)
    BY <1>2, <1>5 DEF Joins, ConnFields
  <2>2. W \in SUBSET {k} /\ D \in SUBSET {k} /\ W = {k} /\ D = {}
    OBVIOUS
  <2> HIDE DEF W, D
  <2> QED
    BY <1>1, <1>2, <1>3, <1>5, <2>1, <2>2, WaitsMoves
<1> QED
  BY <1>1, <1>4, <1>5

LEMMA FlushMoves == IInv /\ RInv /\ StepFlush => RInv'
<1> SUFFICES ASSUME IInv, RInv, StepFlush PROVE RInv'
  OBVIOUS
<1> DEFINE k == Which
<1>1. /\ Runs("step") /\ task[k].op = "flush" /\ thread' = thread /\ reader' = reader
      /\ \/ conn' = conn /\ \E how, data : Ends(k, how, data)
         \/ /\ task[k].at = "ready" /\ Waits(k, <<>>)
            /\ conn' = [conn EXCEPT !.drainers = @ \cup {k}]
  BY DEF StepFlush, StepOf
<1>2. DOMAIN reader' = ReaderFields /\ DOMAIN conn = ConnFields
  BY <1>1, TurnTakes
<1>3. task[k].op \notin Enders /\ task[k].op \notin Reads
  BY <1>1 DEF Reads, Enders
<1>4. CASE conn' = conn /\ \E how, data : Ends(k, how, data)
  BY <1>1, <1>2, <1>3, <1>4, EndsMoves
<1>5. CASE /\ task[k].at = "ready" /\ Waits(k, <<>>)
           /\ conn' = [conn EXCEPT !.drainers = @ \cup {k}]
  <2> DEFINE D == {k}
             W == {}
  <2>1. Joins(W, D)
    BY <1>2, <1>5 DEF Joins, ConnFields
  <2>2. W \in SUBSET {k} /\ D \in SUBSET {k} /\ W # {k} /\ task[k].op # "wait_for"
    BY <1>1
  <2> HIDE DEF W, D
  <2> QED
    BY <1>1, <1>2, <1>3, <1>5, <2>1, <2>2, WaitsMoves
<1> QED
  BY <1>1, <1>4, <1>5

\* The connection is made, or not; the server listens, or not.
LEMMA MadeMoves ==
  ASSUME IInv, RInv, Runs("step"), NEW op \in {"connect", "start"}, task[Which].op = op, thread' = thread, reader' = reader,
         conn'.waiters = conn.waiters, conn'.drainers = conn.drainers, conn'.closing = conn.closing, conn'.role = conn.role,
         conn'.connection_closed = conn.connection_closed, conn'.connected \/ conn'.client = conn.client,
         \/ \E how, data : Ends(Which, how, data)
         \/ /\ op = "start" /\ loop'.state = "stopped" /\ loop'.ready = Rest /\ ~conn'.connected
            /\ task' = [task EXCEPT ![Which].at = "over", ![Which].outcome = "raised"]
  PROVE  RInv'
<1> DEFINE k == Which
           q == loop.ready
           r == loop'.ready
<1>1. /\ Shifted(q, Rest, H("step", k)) /\ Line(q, task) /\ Ending(q, task, reader.eof) /\ Await(q, task, conn, reader)
      /\ (conn.closing => reader.eof) /\ k \in DOMAIN task /\ task[k].at \in {"ready", "waiting"}
      /\ loop.state \in {"running", "stopping"} /\ DOMAIN reader = ReaderFields
      /\ \A j \in DOMAIN task : DOMAIN task[j] = TaskFields
  BY TurnTakes
<1>2. ~conn.connected /\ DOMAIN task = {k} /\ conn.client = "none" /\ thread["user"].at = "idle"
  <2>1. ~conn.connected
    BY <1>1 DEF RInv, Begun
  <2>2. DOMAIN task \subseteq {1} /\ conn.client = "none" /\ thread["user"].at = "idle"
    BY <2>1 DEF RInv, Begun
  <2> QED
    BY <1>1, <2>1, <2>2
<1>3. task[k].op \notin Enders /\ task[k].op \notin Reads \cup {"wait_for", "flush"}
  BY DEF Reads, Enders
<1>4. /\ (loop'.state = loop.state \/ (loop'.state = "stopped" /\ op = "start" /\ ~conn'.connected)) /\ Line(r, task')
      /\ Ending(r, task', reader.eof)
      /\ Others(task, task', k) /\ task'[k].at = "over"
      /\ \A j : Has(r, H("step", j)) <=> Has(Rest, H("step", j))
      /\ \A j : \A n \in {"stop", "client"} : Has(r, H(n, j)) => Has(q, H(n, j))
  <2>1. CASE \E how, data : Ends(k, how, data)
    <3>1. /\ loop'.state = loop.state
          /\ Added(Rest, r, {H("settle", k)})
          /\ Others(task, task', k) /\ task'[k].at = "over" /\ \A j \in DOMAIN task : task'[j].fut = task[j].fut
          /\ \A j : Has(r, H("step", j)) <=> Has(Rest, H("step", j))
          /\ \A j : \A n \in {"stop", "client"} : Has(r, H(n, j)) => Has(q, H(n, j))
      BY <2>1, EndTurns
    <3> HIDE DEF k, r
    <3>2. Line(r, task') /\ \A e : Ending(q, task, e) => Ending(r, task', e)
      BY <1>1, <1>3, <3>1, OverKeeps
    <3> QED
      BY <1>1, <3>1, <3>2
  <2>2. CASE /\ op = "start" /\ loop'.state = "stopped" /\ loop'.ready = Rest /\ ~conn'.connected
             /\ task' = [task EXCEPT ![k].at = "over", ![k].outcome = "raised"]
    <3>1. /\ DOMAIN task' = DOMAIN task /\ task'[k].at = "over"
          /\ \A j \in DOMAIN task :
               /\ task'[j].op = task[j].op /\ task'[j].early = task[j].early /\ task'[j].fut = task[j].fut
               /\ task'[j].cancelling = task[j].cancelling /\ (j # k => task'[j].at = task[j].at)
      BY <1>1, <2>2 DEF TaskFields
    <3>2. Others(task, task', k) /\ \A j \in DOMAIN task : task'[j].fut = task[j].fut
      BY <3>1 DEF Others
    <3>3. Line(Rest, task') /\ (Ending(q, task, reader.eof) => Ending(Rest, task', reader.eof))
      <4>1. /\ task'[k].at \in {"waiting", "over"} /\ (task'[k].at = "waiting" => ~reader.eof \/ task[k].at = "ready")
            /\ (task'[k].at = "over" => task[k].op = "start")
        BY <2>2, <3>1
      <4>2. task[k].op \in Reads => ~task[k].cancelling
        BY <1>3
      <4> HIDE DEF k, q
      <4> QED
        BY <1>1, <1>3, <3>2, <4>1, <4>2, WaitsKeeps
    <3>4. \A j : \A n \in {"stop", "client"} : Has(Rest, H(n, j)) => Has(q, H(n, j))
      BY <1>1 DEF Shifted, Passed
    <3> QED
      BY <1>1, <2>2, <3>1, <3>2, <3>3, <3>4
  <2> QED
    BY <2>1, <2>2
<1> HIDE DEF r
<1>5. Await(r, task', conn', reader')
  <2> DEFINE W == {}
  <2>1. Goes(q, Rest, r, k) /\ Leaves(task, k, conn, reader, conn', reader', W, W)
    BY <1>1, <1>4 DEF Goes, Leaves
  <2>2. Sits(task, task', k, reader', W, W)
    BY <1>2, <1>4 DEF Sits, Others
  <2> HIDE DEF W, q, k
  <2> QED
    BY ONLY <1>1, <2>1, <2>2, TurnAwaits, SMTT(30)
<1>6. DOMAIN task' = {k} /\ task'[k].op = op /\ task'[k].at = "over"
  BY <1>2, <1>4 DEF Others
<1>7. Users(loop', task', thread')
  BY <1>3, <1>6 DEF Users
<1>8. k = 1
  BY <1>2 DEF RInv, Begun
<1>9. Begun(loop', task', conn', thread')
  BY <1>1, <1>2, <1>4, <1>6, <1>8 DEF RInv, Begun, r, q
<1>10. Stopping(loop', task', thread')
  BY <1>1, <1>3, <1>4, <1>6 DEF RInv, Stopping
<1>11. Unshut(task', conn')
  <2>1. ~(\E j \in DOMAIN task : task[j].op = "cleanup")
    BY <1>2
  <2> QED
    BY <2>1 DEF RInv, Unshut
<1> QED
  BY <1>4, <1>5, <1>7, <1>9, <1>10, <1>11 DEF RInv, r

LEMMA ConnectStepMoves == IInv /\ RInv /\ StepConnect => RInv'
<1> SUFFICES ASSUME IInv, RInv, StepConnect PROVE RInv'
  OBVIOUS
<1>1. PICK ok \in BOOLEAN :
        /\ conn' = [conn EXCEPT !.connected = ok, !.open = ok, !.client = IF ok THEN "taken" ELSE @]
        /\ \E how, data : Ends(Which, how, data)
  BY DEF StepConnect
<1>2. Runs("step") /\ task[Which].op = "connect" /\ thread' = thread /\ reader' = reader
  BY DEF StepConnect, StepOf
<1>3. /\ conn'.waiters = conn.waiters /\ conn'.drainers = conn.drainers /\ conn'.closing = conn.closing /\ conn'.role = conn.role
      /\ conn'.connection_closed = conn.connection_closed /\ (conn'.connected \/ conn'.client = conn.client)
  BY <1>1, <1>2, TurnTakes DEF ConnFields
<1> QED
  BY <1>1, <1>2, <1>3, MadeMoves

LEMMA StartStepMoves == IInv /\ RInv /\ StepStart => RInv'
<1> SUFFICES ASSUME IInv, RInv, StepStart PROVE RInv'
  OBVIOUS
<1>1. /\ Runs("step") /\ task[Which].op = "start" /\ thread' = thread /\ reader' = reader
      /\ \/ conn' = [conn EXCEPT !.connected = TRUE] /\ \E how, data : Ends(Which, how, data)
         \/ /\ conn' = conn /\ loop' = [state |-> "stopped", ready |-> Rest]
            /\ task' = [task EXCEPT ![Which].at = "over", ![Which].outcome = "raised"]
  BY DEF StepStart, StepOf
<1>2. /\ conn'.waiters = conn.waiters /\ conn'.drainers = conn.drainers /\ conn'.closing = conn.closing /\ conn'.role = conn.role
      /\ conn'.connection_closed = conn.connection_closed /\ conn'.client = conn.client
      /\ (conn' = conn => ~conn'.connected)
  <2>1. Which \in DOMAIN task /\ task[Which].at \in {"ready", "waiting"} /\ DOMAIN conn = ConnFields
    BY <1>1, TurnTakes
  <2>2. ~conn.connected
    BY <1>1, <2>1 DEF RInv, Begun
  <2> QED
    BY <1>1, <2>1, <2>2 DEF ConnFields
<1> QED
  BY <1>1, <1>2, MadeMoves

\* Whoever ends it all has the first of its two turns.
LEMMA FirstTurnMoves ==
  ASSUME IInv, RInv, Runs("step"), task[Which].op \in Enders, task[Which].at = "ready", NEW cs, NEW ks, ks \subseteq DOMAIN task,
         \A j \in ks : task[j].at = "waiting" /\ ~Has(loop.ready, H("step", j)),
         task' = [CancelAll(cs) EXCEPT ![Which].at = "waiting"], thread' = thread,
         loop'.ready = Call(CallEach(Rest, "step", ks), "step", Which), loop'.state = loop.state,
         Expected(conn, reader, conn', reader', ks), reader'.eof,
         reader' = reader \/ (\A j \in DOMAIN task : Unread(loop.ready, task, j) => j \in ks),
         \A j \in DOMAIN task : Unread(loop.ready, task, j) /\ j \in cs => j \in ks,
         \A j \in conn.waiters : j \in ks,
         conn'.connected = conn.connected, conn'.role = conn.role, conn'.client = conn.client,
         conn'.connection_closed = conn.connection_closed \/ task[Which].op = "cleanup"
  PROVE  RInv'
<1> DEFINE k == Which
           q == loop.ready
           s == CallEach(Rest, "step", ks)
           r == loop'.ready
           S == {H("step", j) : j \in ks}
           u == CancelAll(cs)
<1>1. /\ Shifted(q, Rest, H("step", k)) /\ Line(q, task) /\ Ending(q, task, reader.eof) /\ Await(q, task, conn, reader)
      /\ k \in DOMAIN task /\ IsList(Rest) /\ Once(Rest)
  BY TurnTakes
<1>2. /\ DOMAIN u = DOMAIN task
      /\ \A j \in DOMAIN task :
           /\ u[j].op = task[j].op /\ u[j].early = task[j].early /\ u[j].at = task[j].at /\ u[j].fut = task[j].fut
           /\ (task[j].cancelling => u[j].cancelling) /\ (j \in cs => u[j].cancelling)
           /\ u[j].cancelling => task[j].cancelling \/ j \in cs
           /\ DOMAIN u[j] = TaskFields
  BY AllKept
<1>3. task' = [u EXCEPT ![k].at = "waiting"]
  OBVIOUS
<1> HIDE DEF u
<1>4. /\ DOMAIN task' = DOMAIN task /\ task'[k].at = "waiting"
      /\ \A j \in DOMAIN task :
           /\ task'[j].op = task[j].op /\ task'[j].early = task[j].early /\ task'[j].fut = task[j].fut
           /\ task'[j].cancelling = u[j].cancelling
           /\ (j # k => task'[j].at = task[j].at)
  BY <1>1, <1>2, <1>3 DEF TaskFields
<1>5. Others(task, task', k)
  BY <1>2, <1>4 DEF Others
<1>6. Added(Rest, s, S) /\ IsList(s) /\ Once(s)
  <2>1. IsFiniteSet(DOMAIN task)
    BY FirstTaken
  <2>2. \A j \in ks : ~Has(Rest, H("step", j))
    BY <1>1 DEF Shifted, Passed
  <2> QED
    BY <1>1, <2>1, <2>2, EachAfter
<1>7. r = Call(s, "step", k)
  OBVIOUS
<1> HIDE DEF k, s, r
<1>8. Added(s, r, {H("step", k)})
  BY <1>6, <1>7, CallAdded
<1>9. \A j : H("step", j) \in S <=> j \in ks
  BY Handle
<1>10. \A h : Has(r, h) <=> Has(Rest, h) \/ h \in S \/ h = H("step", k)
  BY <1>6, <1>8 DEF Added
<1>11. \A j : Has(r, H("step", j)) <=> Has(q, H("step", j)) \/ j \in ks
  <2>1. \A j : Has(r, H("step", j)) <=> Has(Rest, H("step", j)) \/ j \in ks \/ H("step", j) = H("step", k)
    BY <1>9, <1>10
  <2>2. \A j : Has(q, H("step", j)) <=> Has(Rest, H("step", j)) \/ H("step", j) = H("step", k)
    BY <1>1 DEF Shifted, Passed
  <2> QED
    BY <2>1, <2>2
<1>12. \A j \in Owed(task) \ {k} : task[j].at = "waiting" => j \in ks \/ Has(q, H("step", j))
  <2> SUFFICES ASSUME NEW j \in Owed(task) \ {k}, task[j].at = "waiting", ~Has(q, H("step", j)) PROVE j \in ks
    OBVIOUS
  <2>1. /\ j \in DOMAIN task /\ task[j].op \in Reads \cup {"wait_for"}
        /\ task[j].op \in Reads => ~reader.eof
        /\ task[j].op = "wait_for" => j \in conn.waiters
    BY <1>1 DEF Await, Owed
  <2> QED
    BY <2>1 DEF Unread, q
<1>13. /\ Line(r, task') /\ Ending(r, task', TRUE)
       /\ \A j \in DOMAIN task : task[j].op \in Reads /\ GivenUp(q, task, j) => GivenUp(r, task', j)
  <2>1. task[k].at = "ready" /\ task[k].op \in Enders
    BY DEF k
  <2>2. /\ ks \subseteq DOMAIN task /\ \A j \in ks : task[j].at = "waiting" /\ ~Has(q, H("step", j))
    OBVIOUS
  <2> HIDE DEF q
  <2>3. /\ Line(r, task') /\ \A e : Ending(q, task, e) => Ending(r, task', TRUE)
        /\ \A j \in DOMAIN task : task[j].op \in Reads /\ GivenUp(q, task, j) => GivenUp(r, task', j)
    <3>1. Final(q, task, k, Rest, ks, s, r, task')
      BY <1>1, <1>4, <1>5, <1>6, <1>8, <1>12, <2>1, <2>2 DEF Final
    <3>2. Line(q, task)
      BY <1>1
    <3> QED
      BY ONLY <3>1, <3>2, CloserKeeps
  <2> QED
    BY <1>1, <2>3
<1>14. Forward
  <2>1. Ending(r, task', reader'.eof)
    BY <1>13 DEF Ending, Closer
  <2> QED
    BY <1>13, <2>1 DEF Forward, q, r
<1>15. Await(r, task', conn', reader')
  <2>1. Kept(task, u)
    BY <1>2 DEF Kept
  <2>2. \A j \in DOMAIN task : Unread(q, task, j) /\ u[j].cancelling => task[j].cancelling \/ j \in ks
    BY <1>2
  <2>3. Await(r, u, conn', reader')
    BY <1>1, <1>11, <2>1, <2>2, AwaitWoken
  <2>4. Has(r, H("step", k))
    BY <1>10
  <2>5. \A j \in DOMAIN task : j # k => task'[j].op = u[j].op /\ task'[j].at = u[j].at /\ task'[j].cancelling = u[j].cancelling
    BY <1>2, <1>4
  <2> QED
    BY <1>2, <1>4, <2>3, <2>4, <2>5 DEF Await
<1>16. Along(task, task')
  <2>1. \A j \in DOMAIN task : task[j].at \in {"over", "waiting"} => task'[j].at = task[j].at
    BY <1>4 DEF k
  <2> QED
    BY <1>4, <2>1 DEF Along
<1>17. \A j : \A n \in {"stop", "client"} : Has(r, H(n, j)) => Has(q, H(n, j))
  <2>1. \A n \in {"stop", "client"} : \A j : H(n, j) \notin S /\ H(n, j) # H("step", k)
    BY Handle
  <2> QED
    BY <1>1, <1>10, <2>1 DEF Shifted, Passed
<1>18. Users(loop', task', thread')
  BY <1>14, <1>16, UsersForward
<1>19. Begun(loop', task', conn', thread')
  BY <1>16, <1>17 DEF RInv, Begun, Along, r, q
<1>20. Stopping(loop', task', thread')
  BY <1>16, <1>17 DEF RInv, Stopping, Along, r, q
<1>21. Unshut(task', conn')
  <2>1. CASE conn'.connection_closed = conn.connection_closed
    BY <1>16, <2>1, UnshutAlong
  <2>2. CASE task[k].op = "cleanup"
    BY <1>1, <1>4, <2>2 DEF Unshut
  <2> QED
    BY <2>1, <2>2 DEF k
<1> QED
  BY <1>14, <1>15, <1>18, <1>19, <1>20, <1>21 DEF RInv, Forward, r

LEMMA CleanupMoves == IInv /\ RInv /\ StepCleanup => RInv'
<1> SUFFICES ASSUME IInv, RInv, StepCleanup PROVE RInv'
  OBVIOUS
<1> DEFINE k == Which
           x == ToldOfEof
           ks == WritersDue \cup Woken(x)
<1>1. Runs("step") /\ task[k].op = "cleanup" /\ thread' = thread
  BY DEF StepCleanup, StepOf
<1>2. /\ k \in DOMAIN task /\ Ending(loop.ready, task, reader.eof) /\ task[k].op \in Enders
      /\ DOMAIN loop = {"state", "ready"} /\ DOMAIN reader = ReaderFields
  BY <1>1, TurnTakes DEF Enders
<1>3. CASE task[k].at = "ready"
  <2>1. /\ conn' = WriterClosed /\ reader' = x /\ task' = [CancelAll(WritersDue) EXCEPT ![k].at = "waiting"]
        /\ loop'.ready = Call(CallEach(Rest, "step", ks), "step", k) /\ loop'.state = loop.state
    BY <1>2, <1>3 DEF StepCleanup
  <2>2. x = ToldOfEof
    OBVIOUS
  <2> HIDE DEF x
  <2>3. ks = WritersDue \cup Woken(x)
    OBVIOUS
  <2> HIDE DEF ks
  <2>4. /\ ks \subseteq DOMAIN task /\ \A j \in ks : task[j].at = "waiting" /\ ~Has(loop.ready, H("step", j))
        /\ Expected(conn, reader, conn', reader', ks)
        /\ reader' = reader \/ (\A j \in DOMAIN task : Unread(loop.ready, task, j) => j \in ks)
        /\ WritersDue \subseteq ks /\ (~conn.connection_closed => conn.waiters \subseteq ks)
        /\ conn'.connected = conn.connected /\ conn'.role = conn.role /\ conn'.client = conn.client
        /\ reader'.eof
    BY <2>1, <2>2, <2>3, WriterShuts
  <2>5. ~conn.connection_closed
    <3>1. conn.role = "client"
      BY <1>1, <1>2 DEF IInv, CleanedUp
    <3>2. \A j \in DOMAIN task : task[j].op = "cleanup" => j = k
      BY <1>2 DEF Ending, Closer, Enders
    <3> QED
      BY <1>3, <3>1, <3>2 DEF RInv, Unshut
  <2> QED
    BY <1>1, <1>2, <1>3, <2>1, <2>4, <2>5, FirstTurnMoves
<1>4. CASE task[k].at # "ready"
  <2>1. Ends(k, "ok", <<>>) /\ conn' = conn /\ reader' = reader
    BY <1>4 DEF StepCleanup
  <2>2. task[k].at = "waiting"
    BY <1>1, <1>4, TurnTakes
  <2> QED
    BY <1>1, <1>2, <2>1, <2>2, EndsMoves
<1> QED
  BY <1>3, <1>4

LEMMA ShutdownMoves == IInv /\ RInv /\ StepShutdown => RInv'
<1> SUFFICES ASSUME IInv, RInv, StepShutdown PROVE RInv'
  OBVIOUS
<1> DEFINE k == Which
           ks == Reading \cup conn.waiters \cup conn.drainers
           cs == {i \in DOMAIN task : task[i].at \in {"ready", "waiting"}} \ {k}
<1>1. Runs("step") /\ task[k].op = "shutdown" /\ thread' = thread
  BY DEF StepShutdown, StepOf
<1>2. /\ k \in DOMAIN task /\ task[k].op \in Enders
      /\ DOMAIN loop = {"state", "ready"} /\ DOMAIN reader = ReaderFields /\ DOMAIN conn = ConnFields
  BY <1>1, TurnTakes DEF Enders
<1>3. CASE task[k].at = "ready"
  <2>1. /\ conn' = [Lost(conn) EXCEPT !.waiters = {}, !.drainers = {}]
        /\ reader' = ToldOfEof \/ reader' = [ToldOfEof EXCEPT !.waiter = TRUE, !.future = "cancelled"]
        /\ task' = [CancelAll(cs) EXCEPT ![k].at = "waiting"]
        /\ loop'.ready = Call(CallEach(Rest, "step", ks), "step", k) /\ loop'.state = loop.state
    BY <1>2, <1>3 DEF StepShutdown
  <2>2. /\ conn'.waiters = {} /\ conn'.drainers = {}
        /\ conn'.connected = conn.connected /\ conn'.role = conn.role /\ conn'.client = conn.client
        /\ conn'.connection_closed = conn.connection_closed
    BY <1>2, <2>1 DEF Lost, ConnFields
  <2>3. DOMAIN ToldOfEof = ReaderFields /\ ToldOfEof.eof
    BY <1>2, Fed, Awaited DEF ToldOfEof
  <2>4. DOMAIN reader' = ReaderFields /\ reader'.eof
    BY <2>1, <2>3 DEF ReaderFields
  <2>5. Reading \subseteq ks /\ conn.waiters \subseteq ks
    OBVIOUS
  <2>6. ks \subseteq DOMAIN task /\ \A j \in ks : task[j].at = "waiting" /\ ~Has(loop.ready, H("step", j))
    BY Awaited
  <2>7. \A j \in DOMAIN task : Unread(loop.ready, task, j) => j \in ks
    BY <2>5, Awaited
  <2> HIDE DEF ks, cs
  <2>8. Expected(conn, reader, conn', reader', ks)
    BY <2>2, <2>4, <2>5 DEF Expected
  <2> QED
    BY <1>1, <1>2, <1>3, <2>1, <2>2, <2>4, <2>5, <2>6, <2>7, <2>8, FirstTurnMoves
<1>4. CASE task[k].at # "ready"
  <2>1. Ends(k, "ok", <<>>) /\ conn' = conn /\ reader' = reader
    BY <1>4 DEF StepShutdown
  <2>2. task[k].at = "waiting"
    BY <1>1, <1>4, TurnTakes
  <2> QED
    BY <1>1, <1>2, <2>1, <2>2, EndsMoves
<1> QED
  BY <1>3, <1>4

(***************************************************************************)
(* The threads' steps.                                                     *)
(***************************************************************************)
\* What a thread does without a task of its own: at most it calls something.
Aside(n, k) ==
  /\ loop'.ready = loop.ready \/ loop'.ready = Call(loop.ready, n, k)
  /\ n \in {"write", "cancel", "wclose", "stop"}
  /\ Kept(task, task') /\ \A j \in DOMAIN task : task'[j].cancelling = task[j].cancelling
  /\ reader' = reader /\ conn'.waiters = conn.waiters /\ conn'.drainers = conn.drainers /\ conn'.closing = conn.closing
  /\ conn'.connected = conn.connected /\ conn'.role = conn.role /\ conn'.connection_closed = conn.connection_closed

LEMMA AsideKeeps ==
  ASSUME RInv, NEW n, NEW k, Aside(n, k)
  PROVE  /\ Line(loop'.ready, task') /\ Ending(loop'.ready, task', reader'.eof)
         /\ Await(loop'.ready, task', conn', reader') /\ Unshut(task', conn')
         /\ \A j \in DOMAIN task : task[j].op \in Reads /\ GivenUp(loop.ready, task, j) => GivenUp(loop'.ready, task', j)
         /\ \A j : Has(loop'.ready, H("client", j)) => Has(loop.ready, H("client", j))
         /\ \A h : Has(loop.ready, h) => Has(loop'.ready, h)
         /\ loop'.ready # loop.ready => Has(loop'.ready, H(n, k))
<1> DEFINE q == loop.ready
           r == loop'.ready
           c == Call(q, n, k)
<1>1. n \notin Single /\ n # "client" /\ n # "step"
  BY DEF Aside, Single
<1>2. Line(q, task) /\ Ending(q, task, reader.eof) /\ Await(q, task, conn, reader) /\ Kept(task, task')
  BY DEF RInv, Aside
<1>3. /\ Line(c, task') /\ \A e : Ending(q, task, e) => Ending(c, task', e)
      /\ \A j \in DOMAIN task : task[j].op \in Reads /\ GivenUp(q, task, j) => GivenUp(c, task', j)
      /\ \A h : Has(c, h) <=> Has(q, h) \/ h = H(n, k)
  <2> HIDE DEF q
  <2> QED
    BY <1>1, <1>2, CallKeeps
<1>4. /\ Line(q, task') /\ \A e : Ending(q, task, e) => Ending(q, task', e)
      /\ \A j \in DOMAIN task : task[j].op \in Reads /\ GivenUp(q, task, j) => GivenUp(q, task', j)
  <2> DEFINE h == H("none", 0)
  <2>1. IsList(q) /\ Once(q)
    BY <1>2 DEF Line, Fit
  <2>2. Passed(q, q, h) /\ h = H(h.name, h.k) /\ h.name \notin Single /\ Cancels(h, q, task')
    BY <2>1, Handle DEF Passed, Single, Cancels
  <2>3. Added(q, q, {}) /\ \A g \in {} : MayAdd(q, task, g) /\ g.name # "settle"
    BY <2>1 DEF Added
  <2> HIDE DEF q, h
  <2>4. Moved(q, task, q, task')
    BY <1>2, <2>2, <2>3 DEF Moved
  <2> QED
    BY <1>2, <2>4, MovedKeeps
<1>5. r = q \/ r = c
  BY DEF Aside
<1> HIDE DEF c, r
<1>6. /\ Line(r, task') /\ \A e : Ending(q, task, e) => Ending(r, task', e)
      /\ \A j \in DOMAIN task : task[j].op \in Reads /\ GivenUp(q, task, j) => GivenUp(r, task', j)
      /\ \A h : Has(r, h) <=> Has(q, h) \/ (r # q /\ h = H(n, k))
  BY <1>3, <1>4, <1>5
<1>7. /\ \A j : Has(r, H("step", j)) <=> Has(q, H("step", j))
      /\ \A j : Has(r, H("client", j)) => Has(q, H("client", j))
  BY <1>1, <1>6, Handle
<1>8. Await(r, task', conn', reader')
  BY <1>2, <1>7, AwaitSame DEF Aside, Kept
<1>9. Unshut(task', conn')
  BY DEF RInv, Unshut, Aside, Kept
<1>10. Ending(r, task', reader'.eof)
  BY <1>2, <1>6 DEF Aside
<1> QED
  BY <1>6, <1>7, <1>8, <1>9, <1>10 DEF q, r

LEMMA AsideSteps ==
  ASSUME IInv, RInv, accept \/ Check \/ Write \/ HandlerCloses
  PROVE  RInv'
<1>1. /\ IsLoop(loop) /\ DOMAIN conn = ConnFields /\ IsThread(thread)
  BY DEF IInv, IsConn
<1>2. Kept(task, task)
  BY DEF Kept
<1>3. /\ \E n, k : Aside(n, k)
      /\ loop'.state = loop.state /\ task' = task
      /\ thread'["owner"] = thread["owner"] /\ thread["user"].at \in {"idle", "checked"}
      /\ thread' = thread \/ conn.client = "taken" \/ thread["user"].at = "checked"
      /\ conn'.client = conn.client \/ conn.client = "queued"
      /\ conn'.connected = conn.connected
      /\ thread'["user"].at \in {"idle", "checked"}
  <2>1. CASE accept
    <3>1. /\ loop' = loop /\ task' = task /\ thread' = thread /\ reader' = reader
          /\ thread["user"].at = "idle" /\ conn.client = "queued" /\ conn' = [conn EXCEPT !.client = "taken"]
      BY <2>1 DEF accept
    <3>2. Aside("write", 0) /\ conn'.connected = conn.connected
      BY <1>1, <1>2, <3>1 DEF Aside, ConnFields
    <3> QED
      BY <3>1, <3>2
  <2>2. CASE Check
    <3>1. /\ loop' = loop /\ task' = task /\ reader' = reader /\ conn' = conn
          /\ thread["user"].at = "idle" /\ conn.client = "taken"
          /\ \E op : thread' = [thread EXCEPT !["user"] = [at |-> "checked", op |-> op, k |-> 0]]
      BY <2>2 DEF Check
    <3>2. Aside("write", 0)
      BY <1>1, <1>2, <3>1 DEF Aside
    <3>3. thread'["owner"] = thread["owner"] /\ thread'["user"].at = "checked"
      BY <1>1, <3>1 DEF IsThread, Threads
    <3> QED
      BY <3>1, <3>2, <3>3
  <2>3. CASE Write
    <3>1. /\ task' = task /\ reader' = reader /\ conn' = conn
          /\ thread["user"].at = "checked" /\ thread' = [thread EXCEPT !["user"] = Resting]
          /\ loop' = loop \/ loop' = [loop EXCEPT !.ready = Call(@, "write", Len(written) + 1)]
      BY <2>3 DEF Write
    <3>2. loop'.state = loop.state /\ (loop'.ready = loop.ready \/ loop'.ready = Call(loop.ready, "write", Len(written) + 1))
      BY <1>1, <3>1 DEF IsLoop
    <3>3. Aside("write", Len(written) + 1)
      BY <1>1, <1>2, <3>1, <3>2 DEF Aside
    <3>4. thread'["owner"] = thread["owner"] /\ thread'["user"].at = "idle"
      BY <1>1, <3>1 DEF IsThread, Threads, Resting
    <3> QED
      BY <3>1, <3>2, <3>3, <3>4
  <2>4. CASE HandlerCloses
    <3>1. /\ task' = task /\ thread' = thread /\ reader' = reader
          /\ thread["user"].at = "idle" /\ conn.client = "taken" /\ conn' = [conn EXCEPT !.closed = TRUE]
          /\ loop' = loop \/ loop' = [loop EXCEPT !.ready = Call(@, "wclose", 0)]
      BY <2>4 DEF HandlerCloses, CloseSoon
    <3>2. loop'.state = loop.state /\ (loop'.ready = loop.ready \/ loop'.ready = Call(loop.ready, "wclose", 0))
      BY <1>1, <3>1 DEF IsLoop
    <3>3. Aside("wclose", 0) /\ conn'.connected = conn.connected /\ conn'.client = conn.client
      BY <1>1, <1>2, <3>1, <3>2 DEF Aside, ConnFields
    <3> QED
      BY <3>1, <3>2, <3>3
  <2> QED
    BY <2>1, <2>2, <2>3, <2>4
<1>4. PICK n, k : Aside(n, k)
  BY <1>3
<1>5. /\ Line(loop'.ready, task') /\ Ending(loop'.ready, task', reader'.eof)
      /\ Await(loop'.ready, task', conn', reader') /\ Unshut(task', conn')
      /\ \A j \in DOMAIN task : task[j].op \in Reads /\ GivenUp(loop.ready, task, j) => GivenUp(loop'.ready, task', j)
      /\ \A j : Has(loop'.ready, H("client", j)) => Has(loop.ready, H("client", j))
  BY <1>4, AsideKeeps
<1>6. Users(loop', task', thread')
  BY <1>3, <1>5 DEF RInv, Users
<1>7. ~conn.connected => thread' = thread /\ conn'.client = conn.client
  BY <1>3 DEF RInv, Begun
<1>8. Begun(loop', task', conn', thread')
  BY <1>3, <1>5, <1>7 DEF RInv, Begun
<1>9. Stopping(loop', task', thread')
  BY <1>3, <1>5 DEF RInv, Stopping
<1> QED
  BY <1>5, <1>6, <1>8, <1>9 DEF RInv

\* The owner goes on by itself: it gives up waiting, stops the loop, joins its
\* thread and closes it.
LEMMA OwnerEnds ==
  ASSUME IInv, RInv,
         ConnectTimesOut \/ GivesUp \/ Stop \/ Joined \/ JoinFails
         \/ (Cleans /\ task' = task /\ thread' = [thread EXCEPT !["owner"].at = "stopping"] /\ loop' = loop)
  PROVE  RInv'
<1>1. /\ IsLoop(loop) /\ DOMAIN conn = ConnFields /\ IsThread(thread)
  BY DEF IInv, IsConn
<1>2. Kept(task, task)
  BY DEF Kept
<1>3. PICK at \in {"cleaning", "stopping", "joining", "gone"} : thread' = [thread EXCEPT !["owner"].at = at]
  BY DEF ConnectTimesOut, GivesUp, Cleans, Stop, Joined, JoinFails
<1>4. thread'["user"] = thread["user"] /\ thread'["owner"].at = at
  BY <1>1, <1>3 DEF IsThread, Threads
<1>5. /\ task' = task /\ reader' = reader /\ conn' = conn
      /\ loop' = loop \/ loop' = [loop EXCEPT !.ready = Call(@, "stop", 0)]
         \/ (loop' = [loop EXCEPT !.state = "closed"] /\ loop.state = "stopped" /\ at = "gone")
  <2>1. CASE Stop
    BY <2>1 DEF Stop
  <2>2. CASE Joined
    BY <1>4, <2>2, <1>1 DEF Joined, IsThread, Threads
  <2>3. CASE ConnectTimesOut \/ GivesUp \/ JoinFails
    BY <2>3 DEF ConnectTimesOut, GivesUp, JoinFails
  <2>4. CASE Cleans /\ task' = task /\ loop' = loop
    BY <2>4 DEF Cleans
  <2> QED
    BY <2>1, <2>2, <2>3, <2>4
<1>6. /\ loop'.ready = loop.ready \/ loop'.ready = Call(loop.ready, "stop", 0)
      /\ loop'.state = loop.state \/ (loop.state = "stopped" /\ loop'.state = "closed" /\ at = "gone")
  BY <1>1, <1>5 DEF IsLoop
<1>7. Aside("stop", 0)
  BY <1>2, <1>5, <1>6 DEF Aside
<1>8. /\ Line(loop'.ready, task') /\ Ending(loop'.ready, task', reader'.eof)
      /\ Await(loop'.ready, task', conn', reader') /\ Unshut(task', conn')
      /\ \A j \in DOMAIN task : task[j].op \in Reads /\ GivenUp(loop.ready, task, j) => GivenUp(loop'.ready, task', j)
      /\ \A j : Has(loop'.ready, H("client", j)) => Has(loop.ready, H("client", j))
  BY <1>7, AsideKeeps
<1>9. Users(loop', task', thread')
  BY <1>4, <1>5, <1>6, <1>8 DEF RInv, Users
<1>10. Begun(loop', task', conn', thread')
  BY <1>4, <1>5, <1>6, <1>8 DEF RInv, Begun
<1>11. Stopping(loop', task', thread')
  <2>1. loop.state = "closed" => at = "gone"
    <3>1. loop.state = "closed" => thread["owner"].at = "gone"
      BY DEF RInv, Stopping
    <3>2. thread["owner"].at # "gone"
      BY DEF ConnectTimesOut, Expires, GivesUp, Cleans, Stop, Joined, JoinFails
    <3> QED
      BY <3>1, <3>2
  <2>2. at = "cleaning" => thread["owner"].at = "blocked" /\ thread["owner"].op = "connect"
    <3>1. at = "cleaning" => ConnectTimesOut
      BY <1>1, <1>4 DEF GivesUp, Cleans, Stop, Joined, JoinFails, IsThread, Threads
    <3> QED
      BY <3>1 DEF ConnectTimesOut, Expires
  <2> QED
    BY <1>4, <1>5, <1>6, <2>1, <2>2 DEF RInv, Stopping
<1> QED
  BY <1>8, <1>9, <1>10, <1>11 DEF RInv

LEMMA ReturnsMoves ==
  ASSUME IInv, RInv, NEW t \in Threads, Returns(t)
  PROVE  RInv'
<1>1. /\ IsLoop(loop) /\ IsThread(thread)
  BY DEF IInv
<1>2. /\ loop' = loop /\ task' = task /\ conn' = conn /\ reader' = reader
      /\ thread[t].at = "blocked" /\ task[thread[t].k].fut = "done"
      /\ thread' = [thread EXCEPT ![t] =
           IF t = "user" \/ (thread[t].op \in {"connect", "start"} /\ conn.connected) THEN Resting
           ELSE [@ EXCEPT !.at = "stopping"]]
  BY DEF Returns
<1>3. /\ Line(loop.ready, task) /\ Ending(loop.ready, task, reader.eof) /\ Await(loop.ready, task, conn, reader)
      /\ Unshut(task, conn) /\ DOMAIN thread = Threads
  BY <1>1 DEF RInv, IsThread
<1>4. CASE t = "user"
  <2>1. thread'["owner"] = thread["owner"] /\ thread'["user"].at = "idle"
    BY <1>2, <1>3, <1>4 DEF Resting, Threads
  <2>2. Users(loop', task', thread')
    <3>1. \A j \in DOMAIN task : j = thread["user"].k => task[j].at = "over"
      BY <1>2, <1>3, <1>4 DEF Line, Settling
    <3> QED
      BY <1>2, <3>1 DEF RInv, Users
  <2>3. Begun(loop', task', conn', thread') /\ Stopping(loop', task', thread')
    BY <1>2, <2>1 DEF RInv, Begun, Stopping
  <2> QED
    BY <1>2, <1>3, <2>2, <2>3 DEF RInv
<1>5. CASE t = "owner"
  <2>1. thread'["user"] = thread["user"] /\ thread'["owner"].at \in {"idle", "stopping"}
    BY <1>1, <1>2, <1>5 DEF Resting, Threads, IsThread
  <2>2. Users(loop', task', thread') /\ Begun(loop', task', conn', thread')
    BY <1>2, <2>1 DEF RInv, Users, Begun
  <2>3. Stopping(loop', task', thread')
    BY <1>2, <1>5, <2>1 DEF RInv, Stopping
  <2> QED
    BY <1>2, <1>3, <2>2, <2>3 DEF RInv
<1> QED
  BY <1>4, <1>5 DEF Threads

\* A call that times out leaves a read that is over, or that is to be cancelled.
LEMMA TimeoutMoves ==
  ASSUME IInv, RInv, Timeouts # "ever", TimesOut
  PROVE  RInv'
<1> DEFINE k == thread["user"].k
<1>1. /\ IsLoop(loop) /\ IsThread(thread) /\ \A j \in DOMAIN task : DOMAIN task[j] = TaskFields
  BY DEF IInv, IsTasks
<1>2. /\ thread["user"].at = "blocked" /\ task[k].fut = "pending" /\ task[k].at \notin {"queued", "ready"}
      /\ task' = [task EXCEPT ![k].fut = "cancelled"]
      /\ loop' = IF task[k].at \in {"queued", "over"} \/ loop.state = "closed" THEN loop
                 ELSE [loop EXCEPT !.ready = Call(@, "cancel", k)]
      /\ thread' = [thread EXCEPT !["user"] = Resting] /\ conn' = conn /\ reader' = reader
  BY CallsAssumption DEF TimesOut, Expires
<1>3. /\ loop'.state = loop.state
      /\ loop'.ready = loop.ready \/ loop'.ready = Call(loop.ready, "cancel", k)
      /\ loop.state = "closed" \/ task[k].at = "over" \/ loop'.ready = Call(loop.ready, "cancel", k)
  BY <1>1, <1>2 DEF IsLoop
<1>4. /\ DOMAIN task' = DOMAIN task
      /\ \A j \in DOMAIN task :
           /\ task'[j].op = task[j].op /\ task'[j].early = task[j].early /\ task'[j].at = task[j].at
           /\ task'[j].cancelling = task[j].cancelling
           /\ task'[j].fut = task[j].fut \/ (task[j].fut = "pending" /\ task'[j].fut = "cancelled")
  BY <1>1, <1>2 DEF TaskFields
<1>5. thread'["owner"] = thread["owner"] /\ thread'["user"].at = "idle"
  BY <1>1, <1>2 DEF IsThread, Threads, Resting
<1> HIDE DEF k
<1>6. Kept(task, task')
  BY <1>4 DEF Kept
<1>7. Aside("cancel", k)
  BY <1>2, <1>3, <1>4, <1>6 DEF Aside
<1>8. /\ Line(loop'.ready, task') /\ Ending(loop'.ready, task', reader'.eof)
      /\ Await(loop'.ready, task', conn', reader') /\ Unshut(task', conn')
      /\ \A j \in DOMAIN task : task[j].op \in Reads /\ GivenUp(loop.ready, task, j) => GivenUp(loop'.ready, task', j)
      /\ \A j : Has(loop'.ready, H("client", j)) => Has(loop.ready, H("client", j))
  BY <1>7, AsideKeeps
<1>9. ASSUME k \in DOMAIN task, task[k].op \in Reads
      PROVE  task'[k].at = "over" \/ loop'.state = "closed" \/ GivenUp(loop'.ready, task', k)
  <2>0. task'[k].at = task[k].at /\ loop'.state = loop.state
    BY <1>3, <1>4, <1>9
  <2> SUFFICES ASSUME task[k].at # "over", loop.state # "closed" PROVE GivenUp(loop'.ready, task', k)
    BY <2>0
  <2>1. task[k].at = "waiting"
    BY <1>2, <1>9 DEF RInv, Line, Fit, Fitting
  <2>2. Has(loop'.ready, H("cancel", k))
    <3>1. IsList(loop.ready) /\ Once(loop.ready)
      BY DEF RInv, Line, Fit
    <3> DEFINE q == loop.ready
               r == Call(q, "cancel", k)
    <3> HIDE DEF q
    <3>2. Added(q, r, {H("cancel", k)})
      BY <3>1, CallAdded DEF q
    <3>3. Has(r, H("cancel", k))
      BY <3>2 DEF Added
    <3> QED
      BY <1>3, <3>3 DEF q
  <2> QED
    BY <1>4, <1>9, <2>1, <2>2 DEF GivenUp
<1>10. Users(loop', task', thread')
  BY <1>2, <1>3, <1>4, <1>8, <1>9 DEF RInv, Users, k
<1>11. Begun(loop', task', conn', thread')
  BY <1>2, <1>3, <1>4, <1>5, <1>8 DEF RInv, Begun
<1>12. Stopping(loop', task', thread')
  BY <1>2, <1>3, <1>4, <1>5, <1>8 DEF RInv, Stopping
<1> QED
  BY <1>8, <1>10, <1>11, <1>12 DEF RInv

\* A thread hands the loop a task.
LEMMA SubmitMoves ==
  ASSUME IInv, RInv, NEW t \in Threads, NEW op, Submit(t, op),
         op \in Reads \cup {"wait_for", "flush"} \cup Enders,
         op \in Reads \cup {"wait_for", "flush"} => t = "user" /\ thread["user"].at = "checked",
         op \in Enders => t = "owner" /\ thread["owner"].at \in {"idle", "cleaning"}
                          /\ \A j \in DOMAIN task : task[j].op \notin Enders,
         conn.connected, loop.state # "closed", reader' = reader,
         conn'.waiters = conn.waiters, conn'.drainers = conn.drainers, conn'.closing = conn.closing,
         conn'.connected = conn.connected, conn'.role = conn.role, conn'.connection_closed = conn.connection_closed
  PROVE  RInv'
<1> DEFINE n == Len(task) + 1
           e == [op |-> op, at |-> "queued", cancelling |-> FALSE, held |-> <<>>,
                 fut |-> "pending", outcome |-> "none",
                 early |-> \A i \in DOMAIN task : task[i].op \notin {"cleanup", "shutdown"}]
           q == loop.ready
           r == Call(q, "start", n)
<1>1. /\ IsLoop(loop) /\ IsThread(thread) /\ IsList(task)
      /\ Line(q, task) /\ Ending(q, task, reader.eof) /\ Await(q, task, conn, reader)
  BY DEF IInv, IsTasks, RInv
<1>2. /\ task' = Append(task, e) /\ loop'.ready = r /\ loop'.state = loop.state
      /\ thread' = [thread EXCEPT ![t] = [at |-> "blocked", op |-> op, k |-> n]]
  BY <1>1 DEF Submit, IsLoop
<1>3. /\ e.op = op /\ e.at = "queued" /\ e.fut = "pending" /\ e.cancelling = FALSE
      /\ e.early => \A j \in DOMAIN task : task[j].op \notin Enders
  BY DEF Enders
<1> HIDE DEF e
<1>4. /\ n \in Nat /\ n \notin DOMAIN task /\ DOMAIN task' = DOMAIN task \cup {n} /\ task'[n] = e
      /\ \A j \in DOMAIN task : task'[j] = task[j] /\ j < n
  <2>1. PICK S : task \in Seq(S)
    BY <1>1 DEF IsList
  <2> DEFINE U == S \cup {e}
  <2>2. S \subseteq U /\ e \in U
    OBVIOUS
  <2> HIDE DEF U
  <2>3. task \in Seq(U)
    BY <2>1, <2>2, SeqMonotonic
  <2>4. /\ Len(task) \in Nat /\ DOMAIN task = 1 .. Len(task) /\ DOMAIN task' = 1 .. n /\ task'[n] = e
        /\ \A j \in 1 .. Len(task) : task'[j] = task[j]
    BY <1>2, <2>2, <2>3, AppendProperties, LenProperties
  <2> QED
    BY <2>4
<1>5. Added(q, r, {H("start", n)}) /\ \A h : Has(r, h) <=> Has(q, h) \/ h = H("start", n)
  <2>1. IsList(q) /\ Once(q)
    BY <1>1 DEF Line, Fit
  <2> HIDE DEF q, n
  <2>2. Added(q, r, {H("start", n)})
    BY <2>1, CallAdded
  <2> QED
    BY <2>2 DEF Added
<1> HIDE DEF n, r
<1>6. thread[t].at # "blocked"
  BY DEF Threads, Reads, Enders
<1>7. op \in Reads => \A j \in DOMAIN task : task[j].op \in Reads => task[j].at = "over" \/ GivenUp(q, task, j)
  BY <1>6 DEF RInv, Users, q, Reads, Enders
<1>8. /\ Line(r, task') /\ \A f : Ending(q, task, f) => Ending(r, task', f)
      /\ \A j \in DOMAIN task : task[j].op \in Reads /\ GivenUp(q, task, j) => GivenUp(r, task', j)
  <2>1. /\ task'[n].at = "queued" /\ task'[n].fut = "pending" /\ task'[n].op # "start"
        /\ task'[n].early => \A j \in DOMAIN task : task[j].op \notin Enders
        /\ task'[n].op \in Reads => \A j \in DOMAIN task : task[j].op \in Reads => task[j].at = "over" \/ GivenUp(q, task, j)
        /\ task'[n].op \in Enders => \A j \in DOMAIN task : task[j].op \notin Enders
    BY <1>3, <1>4, <1>7 DEF Reads, Enders
  <2> HIDE DEF q
  <2> QED
    BY <1>1, <1>4, <1>5, <2>1, AskedKeeps
<1>9. /\ \A j : Has(r, H("step", j)) <=> Has(q, H("step", j))
      /\ \A j : \A m \in {"stop", "client"} : Has(r, H(m, j)) => Has(q, H(m, j))
  BY <1>5, Handle
<1>10. Await(r, task', conn', reader')
  <2>1. \A j \in DOMAIN task' : task'[j].at = "waiting" => j \in DOMAIN task /\ task'[j] = task[j]
    BY <1>3, <1>4
  <2>2. \A j \in DOMAIN task : j \in DOMAIN task' /\ task'[j] = task[j]
    BY <1>4
  <2> HIDE DEF q
  <2> QED
    BY <1>1, <1>9, <2>1, <2>2 DEF Await
<1>11. Unshut(task', conn')
  BY <1>4 DEF RInv, Unshut
<1>12. /\ thread'[t].at = "blocked" /\ thread'[t].op = op /\ thread'[t].k = n
       /\ \A s \in Threads : s # t => thread'[s] = thread[s]
  BY <1>1, <1>2 DEF IsThread
<1>13. "user" \in Threads /\ "owner" \in Threads /\ "user" # "owner"
  BY DEF Threads
<1>14. op \in Reads => t = "user"
  OBVIOUS
<1>15. Users(loop', task', thread')
  <2> SUFFICES ASSUME NEW j \in DOMAIN task', task'[j].op \in Reads
               PROVE  \/ task'[j].at = "over" \/ loop'.state = "closed" \/ GivenUp(r, task', j)
                      \/ (thread'["user"].at = "blocked" /\ thread'["user"].k = j)
    BY <1>2 DEF Users
  <2>1. CASE j = n
    BY <1>3, <1>4, <1>12, <1>14, <2>1
  <2>2. CASE j \in DOMAIN task
    <3>1. task'[j] = task[j] /\ task[j].op \in Reads
      BY <1>4, <2>2
    <3>2. \/ task[j].at = "over" \/ GivenUp(q, task, j)
          \/ (thread["user"].at = "blocked" /\ thread["user"].k = j)
      BY <2>2, <3>1 DEF RInv, Users, q
    <3>3. thread["user"].at = "blocked" => thread'["user"] = thread["user"]
      BY <1>6, <1>12, <1>13
    <3> QED
      BY <1>8, <2>2, <3>1, <3>2, <3>3
  <2> QED
    BY <1>4, <2>1, <2>2
<1>16. loop.state # "none"
  BY DEF RInv, Begun
<1>17. Begun(loop', task', conn', thread')
  <2>1. \A j \in DOMAIN task' : task'[j].op \in {"connect", "start"} => j \in DOMAIN task /\ task'[j] = task[j]
    BY <1>3, <1>4 DEF Reads, Enders
  <2> QED
    BY <1>2, <1>9, <1>16, <2>1 DEF RInv, Begun, q
<1>18. Stopping(loop', task', thread')
  <2>1. CASE t = "owner"
    <3>1. op \in Enders /\ thread'["owner"].at = "blocked" /\ thread'["owner"].op # "connect"
      BY <1>12, <2>1 DEF Reads, Enders
    <3> QED
      BY <1>2, <3>1 DEF Stopping
  <2>2. CASE t = "user"
    <3>1. thread'["owner"] = thread["owner"] /\ op \notin Enders
      BY <1>12, <1>13, <2>2 DEF Enders
    <3> QED
      BY <1>2, <1>3, <1>4, <3>1 DEF RInv, Stopping
  <2> QED
    BY <2>1, <2>2 DEF Threads
<1>19. Ending(r, task', reader'.eof)
  BY <1>1, <1>8
<1> QED
  BY <1>2, <1>8, <1>10, <1>11, <1>15, <1>17, <1>18, <1>19 DEF RInv

\* A call begins, unless the loop is closed by then.
LEMMA BeginMoves == IInv /\ RInv /\ Begin => RInv'
<1> SUFFICES ASSUME IInv, RInv, Begin PROVE RInv'
  OBVIOUS
<1>1. /\ IsThread(thread) /\ thread["user"].at = "checked" /\ thread["user"].op # "write"
      /\ conn' = conn /\ reader' = reader /\ conn.connected
  BY DEF Begin, IInv, RInv, Begun
<1>2. CASE loop.state = "closed"
  <2>1. loop' = loop /\ task' = task /\ thread' = [thread EXCEPT !["user"] = Resting]
    BY <1>2 DEF Begin
  <2>2. thread'["owner"] = thread["owner"] /\ thread'["user"].at = "idle"
    BY <1>1, <2>1 DEF IsThread, Threads, Resting
  <2>3. Users(loop', task', thread')
    BY <1>1, <2>1 DEF RInv, Users
  <2>4. Begun(loop', task', conn', thread') /\ Stopping(loop', task', thread')
    BY <1>1, <2>1, <2>2 DEF RInv, Begun, Stopping
  <2> QED
    BY <1>1, <2>1, <2>3, <2>4 DEF RInv
<1>3. CASE loop.state # "closed"
  <2> DEFINE op == thread["user"].op
  <2>1. op \in {"read", "readline", "read_until", "wait_for", "flush"}
    BY <1>1, CallsAssumption DEF IsThread
  <2>2. Submit("user", op)
    BY <1>3 DEF Begin
  <2> HIDE DEF op
  <2>3. op \in Reads \cup {"wait_for", "flush"} /\ op \notin Enders /\ "user" \in Threads
    BY <2>1 DEF Reads, Enders, Threads
  <2> QED
    BY <1>1, <1>3, <2>2, <2>3, SubmitMoves
<1> QED
  BY <1>2, <1>3

\* The owner has what it closes cleaned up by the loop.
LEMMA ClosesMoves == IInv /\ RInv /\ (Close \/ Cleans) => RInv'
<1> SUFFICES ASSUME IInv, RInv, Close \/ Cleans PROVE RInv'
  OBVIOUS
<1>1. CASE Cleans /\ task' = task /\ thread' = [thread EXCEPT !["owner"].at = "stopping"] /\ loop' = loop
  BY <1>1, OwnerEnds
<1>2. CASE /\ thread["owner"].at \in {"idle", "cleaning"} /\ conn.connected /\ reader' = reader
           /\ \A i \in DOMAIN task : task[i].op \notin Enders
           /\ (\E op \in Enders : Submit("owner", op))
           /\ conn' = conn \/ conn' = [conn EXCEPT !.closed = TRUE]
  <2>1. PICK op \in Enders : Submit("owner", op)
    BY <1>2
  <2>2. loop.state # "closed" /\ "owner" \in Threads
    BY <1>2 DEF RInv, Stopping, Threads
  <2>3. DOMAIN conn = ConnFields
    BY DEF IInv, IsConn
  <2>4. /\ conn'.waiters = conn.waiters /\ conn'.drainers = conn.drainers /\ conn'.closing = conn.closing
        /\ conn'.connected = conn.connected /\ conn'.role = conn.role /\ conn'.connection_closed = conn.connection_closed
    BY <1>2, <2>3 DEF ConnFields
  <2>5. op \notin Reads \cup {"wait_for", "flush"}
    BY DEF Reads, Enders
  <2> QED
    BY <1>2, <2>1, <2>2, <2>4, <2>5, SubmitMoves
<1>3. CASE Close
  BY <1>2, <1>3 DEF Close, Enders
<1>4. CASE Cleans
  <2>1. thread["owner"].at = "cleaning" /\ reader' = reader /\ conn' = conn
    BY <1>4 DEF Cleans
  <2>2. \A i \in DOMAIN task : task[i].op \notin Enders
    BY <2>1 DEF RInv, Stopping
  <2>3. \/ conn.connected /\ Submit("owner", "cleanup")
        \/ task' = task /\ thread' = [thread EXCEPT !["owner"].at = "stopping"] /\ loop' = loop
    BY <1>4 DEF Cleans
  <2>4. "cleanup" \in Enders
    BY DEF Enders
  <2> QED
    BY <1>1, <1>2, <1>4, <2>1, <2>2, <2>3, <2>4
<1> QED
  BY <1>3, <1>4

\* The loop begins with the one task.
LEMMA BeginningsMove == IInv /\ RInv /\ (Connect \/ start) => RInv'
<1> SUFFICES ASSUME IInv, RInv, Connect \/ start PROVE RInv'
  OBVIOUS
<1> DEFINE e == task'[1]
           q == loop'.ready
<1>1. PICK op, at : /\ task' = <<Call0(op, at)>> /\ thread' = [thread EXCEPT !["owner"] = [at |-> "blocked", op |-> op, k |-> 1]]
                    /\ \/ op = "connect" /\ at = "queued" /\ q = <<H("poll", 0), H("start", 1)>>
                       \/ op = "start" /\ at = "ready" /\ q = <<H("step", 1), H("poll", 0)>>
  BY DEF Connect, start
<1>2. /\ loop'.state = "running" /\ conn' = conn /\ reader' = reader /\ loop.state = "none"
  BY DEF Connect, start
<1>3. /\ DOMAIN task' = {1} /\ e.op = op /\ e.at = at /\ e.fut = "pending" /\ e.early = (op = "connect") /\ e.cancelling = FALSE
      /\ IsTasks(task')
  <2> DEFINE c == Call0(op, at)
  <2>1. c.op = op /\ c.at = at /\ c.fut = "pending" /\ c.early = (op = "connect") /\ c.cancelling = FALSE
    BY DEF Call0
  <2>2. DOMAIN task' = {1} /\ IsTasks(task') /\ task' = <<c>>
    BY <1>1, FirstTask
  <2> HIDE DEF c
  <2>3. task'[1] = c
    BY <2>2
  <2> QED
    BY <2>1, <2>2, <2>3
<1> HIDE DEF e
<1>4. /\ DOMAIN thread = Threads /\ conn.waiters = {} /\ conn.drainers = {} /\ ~conn.connected
      /\ (conn.closing => reader.eof) /\ DOMAIN reader = ReaderFields
      /\ thread["user"].at = "idle" /\ conn.client = "none"
  BY <1>2 DEF IInv, IsThread, Before, RInv, Begun, Await
<1>5. thread'["user"] = thread["user"] /\ thread'["owner"].at = "blocked" /\ thread'["owner"].op = op /\ thread'["owner"].k = 1
  BY <1>1, <1>4 DEF Threads
<1> DEFINE m == IF op = "connect" THEN "start" ELSE "step"
<1>6. /\ IsList(q) /\ DOMAIN q = {1, 2} /\ {q[1], q[2]} = {H("poll", 0), H(m, 1)} /\ q[1] # q[2]
  <2> DEFINE All == {H("poll", 0), H("start", 1), H("step", 1)}
  <2>1. H("poll", 0) \in All /\ H("start", 1) \in All /\ H("step", 1) \in All
    OBVIOUS
  <2>2. H("poll", 0) # H("start", 1) /\ H("poll", 0) # H("step", 1)
    BY DEF H
  <2> HIDE DEF All, q
  <2>3. q \in Seq(All)
    <3>1. <<H("poll", 0), H("start", 1)>> \in Seq(All) /\ <<H("step", 1), H("poll", 0)>> \in Seq(All)
      BY <2>1
    <3> QED
      BY <1>1, <3>1
  <2>4. CASE op = "connect"
    <3>1. q = <<H("poll", 0), H("start", 1)>>
      BY <1>1, <2>4
    <3>2. DOMAIN q = {1, 2} /\ q[1] = H("poll", 0) /\ q[2] = H("start", 1)
      BY <3>1
    <3> QED
      BY <2>2, <2>3, <2>4, <3>2 DEF IsList
  <2>5. CASE op = "start"
    <3>1. q = <<H("step", 1), H("poll", 0)>>
      BY <1>1, <2>5
    <3>2. DOMAIN q = {1, 2} /\ q[1] = H("step", 1) /\ q[2] = H("poll", 0)
      BY <3>1
    <3> QED
      BY <2>2, <2>3, <2>5, <3>2 DEF IsList
  <2> QED
    BY <1>1, <2>4, <2>5
<1> HIDE DEF q
<1>7. \A h : Has(q, h) <=> h = H("poll", 0) \/ h = H(m, 1)
  BY <1>6 DEF Has
<1>8. (m = "start" /\ at = "queued") \/ (m = "step" /\ at = "ready")
  BY <1>1
<1> HIDE DEF m
<1>9. /\ \A k : Has(q, H("start", k)) <=> k = 1 /\ m = "start"
      /\ \A k : Has(q, H("step", k)) <=> k = 1 /\ m = "step"
      /\ \A n, k : n \notin {"poll", "start", "step"} => ~Has(q, H(n, k))
      /\ \A h : Has(q, h) => h = H(h.name, h.k)
  BY <1>7, <1>8, Handle
<1>10. Once(q)
  BY <1>6 DEF Once
<1>11. Fitting(q, task')
  BY <1>3, <1>8, <1>9 DEF Fitting, e
<1>12. Line(q, task')
  <2>1. InTurn(q, task') /\ Alternate(q, task')
    BY <1>3 DEF InTurn, Alternate
  <2>2. Settling(q, task')
    BY <1>3, <1>8 DEF Settling, e
  <2> QED
    BY <1>6, <1>10, <1>11, <2>1, <2>2 DEF Line, Fit
<1>13. op \in {"connect", "start"} /\ op \notin Enders \cup Reads
  BY <1>1 DEF Enders, Reads
<1>14. Ending(q, task', reader'.eof)
  BY <1>1, <1>3, <1>13 DEF Ending, e
<1>15. Await(q, task', conn', reader')
  BY <1>2, <1>3, <1>4, <1>8 DEF Await, e
<1>16. Users(loop', task', thread')
  BY <1>3, <1>13 DEF Users, e
<1>17. Begun(loop', task', conn', thread')
  BY <1>2, <1>3, <1>4, <1>5, <1>9, <1>13 DEF Begun, e, q
<1>18. Stopping(loop', task', thread')
  BY <1>2, <1>3, <1>5, <1>13 DEF Stopping, e, q
<1>19. Unshut(task', conn')
  BY <1>2, <1>3, <1>4 DEF RInv, Unshut, Begun
<1> QED
  BY <1>12, <1>14, <1>15, <1>16, <1>17, <1>18, <1>19 DEF RInv, q

(***************************************************************************)
(* The theorem about the calls that are released.                          *)
(***************************************************************************)
LEMMA InitReleases == Init => RInv
<1> SUFFICES ASSUME Init PROVE RInv
  OBVIOUS
<1>1. <<>> \in Seq({}) /\ DOMAIN <<>> = {}
  BY EmptySeq, LenProperties
<1>2. DOMAIN task = {} /\ IsList(loop.ready) /\ DOMAIN loop.ready = {} /\ loop.state = "none"
  BY <1>1 DEF Init, IsList
<1>3. /\ ~conn.connected /\ conn.client = "none" /\ conn.waiters = {} /\ conn.drainers = {}
      /\ ~conn.closing /\ ~conn.connection_closed
  BY DEF Init
<1>4. DOMAIN reader = ReaderFields
  BY DEF Init, NewReader, ReaderFields
<1>5. thread["user"].at = "idle" /\ thread["owner"].at = "idle"
  BY DEF Init, Threads, Resting
<1>6. \A h : ~Has(loop.ready, h)
  BY <1>2 DEF Has
<1>7. Line(loop.ready, task)
  BY <1>2, <1>6 DEF Line, Fit, Once, Fitting, InTurn, Settling, Alternate
<1>8. Ending(loop.ready, task, reader.eof) /\ Users(loop, task, thread) /\ Unshut(task, conn)
  BY <1>2, <1>3 DEF Ending, Users, Unshut
<1>9. Await(loop.ready, task, conn, reader)
  BY <1>2, <1>3, <1>4 DEF Await
<1>10. Begun(loop, task, conn, thread) /\ Stopping(loop, task, thread)
  BY <1>2, <1>3, <1>5, <1>6 DEF Begun, Stopping
<1> QED
  BY <1>7, <1>8, <1>9, <1>10 DEF RInv

LEMMA StepReleases ==
  ASSUME Timeouts # "ever", IInv, RInv, [Next]_vars
  PROVE  RInv'
<1>1. CASE Run
  <2>1. CASE Start \/ CancelTask \/ Settle
    BY <2>1, StartMoves, CancelTaskMoves, SettleMoves
  <2>2. CASE StepRead \/ StepWaitFor \/ StepFlush \/ StepConnect \/ StepStart \/ StepCleanup \/ StepShutdown
    BY <2>2, ReadMoves, WaitForMoves, FlushMoves, ConnectStepMoves, StartStepMoves, CleanupMoves, ShutdownMoves
  <2>3. CASE RunClose \/ RunStop
    BY <2>3, CloseMoves, StopMoves
  <2>4. CASE RunClient \/ RunWrite \/ RunData \/ RunEof \/ RunOption \/ RunCongestion \/ RunNothing
    BY <2>4, NetworkSteps
  <2> QED
    BY <1>1, <2>1, <2>2, <2>3, <2>4 DEF Run
<1>2. CASE Poll \/ Exit
  BY <1>2, PollMoves, ExitMoves
<1>3. CASE Owner
  <2>1. "owner" \in Threads
    BY DEF Threads
  <2> QED
    BY <1>3, <2>1, BeginningsMove, ClosesMoves, OwnerEnds, ReturnsMoves DEF Owner
<1>4. CASE User
  <2>1. "user" \in Threads
    BY DEF Threads
  <2>2. CASE accept \/ Check \/ Write \/ HandlerCloses
    BY <2>2, AsideSteps
  <2> QED
    BY <1>4, <2>1, <2>2, BeginMoves, TimeoutMoves, ReturnsMoves DEF User
<1>5. CASE UNCHANGED vars
  <2>1. loop' = loop /\ task' = task /\ conn' = conn /\ reader' = reader /\ thread' = thread
    BY <1>5 DEF vars
  <2> QED
    BY <2>1 DEF RInv
<1> QED
  BY <1>1, <1>2, <1>3, <1>4, <1>5 DEF Next

\* When the clean-up or the shutdown is done, nobody is left blocked in a call
\* made before the connection was being closed, but in a flush: its own future is
\* settled behind all of theirs.  It need not be done when the loop is stopped,
\* nor do calls count that time out before the loop has taken them up.
THEOREM ReleasedByCloseHolds ==
  ASSUME Timeouts # "ever"
  PROVE  Spec => []ReleasedByClose
<1>1. ASSUME RInv PROVE ReleasedByClose
  <2> SUFFICES ASSUME NEW c \in DOMAIN task, NEW k \in DOMAIN task,
                      task[c].op \in Enders, task[c].fut = "done", task[k].early, task[k].op # "flush"
               PROVE  task[k].fut # "pending"
    BY DEF ReleasedByClose, Enders
  <2>1. Closer(loop.ready, task, reader.eof, c)
    BY <1>1 DEF RInv, Ending
  <2> QED
    BY <2>1 DEF Closer, Released, Owed
<1>2. Init => IInv /\ RInv
  BY InitEstablishes, InitReleases
<1>3. IInv /\ RInv /\ [Next]_vars => (IInv /\ RInv)'
  BY StepKeeps, StepReleases
<1>4. RInv => ReleasedByClose
  BY <1>1
<1> QED
  BY <1>2, <1>3, <1>4, PTL DEF Spec

(***************************************************************************)
(* ReadsInOrder.  What the reads hold, one after the other.                *)
(***************************************************************************)
IsFlat(q, n, g) == g = [i \in 1 .. n |-> IF i = 1 THEN q[i] ELSE g[i - 1] \o q[i]]
Flat(q, n) == CHOOSE g : IsFlat(q, n, g)

LEMMA FlatExists == ASSUME NEW q, NEW n \in Nat PROVE \E g : IsFlat(q, n, g)
<1> DEFINE T == {m \in Nat : ~ \E g : IsFlat(q, m, g)}
<1> SUFFICES ASSUME T # {} PROVE FALSE
  OBVIOUS
<1>1. PICK m \in T : \A k \in T : m <= k
  <2>1. T \in SUBSET Nat
    OBVIOUS
  <2> HIDE DEF T
  <2> QED
    BY <2>1, NatMin
<1>2. CASE m = 0
  <2> DEFINE g == [i \in 1 .. m |-> q]
  <2>1. 1 .. m = {}
    BY <1>2
  <2>2. IsFlat(q, m, g)
    BY <2>1 DEF IsFlat
  <2> QED
    BY <2>2
<1>3. CASE m # 0
  <2>1. m - 1 \in Nat /\ m - 1 \notin T /\ m \in Nat \ {0}
    BY <1>1, <1>3
  <2>2. PICK f : IsFlat(q, m - 1, f)
    BY <2>1
  <2> DEFINE g == [i \in 1 .. m |-> IF i = m THEN (IF i = 1 THEN q[i] ELSE f[i - 1] \o q[i]) ELSE f[i]]
  <2>3. \A i \in 1 .. m : i # m => i \in 1 .. m - 1 /\ g[i] = f[i]
    BY <2>1
  <2>4. ASSUME NEW i \in 1 .. m PROVE g[i] = IF i = 1 THEN q[i] ELSE g[i - 1] \o q[i]
    <3>1. i # 1 => i - 1 \in 1 .. m /\ i - 1 # m
      BY <2>1
    <3>2. CASE i = m
      BY <2>3, <3>1, <3>2
    <3>3. CASE i # m
      <4>1. f[i] = IF i = 1 THEN q[i] ELSE f[i - 1] \o q[i]
        BY <2>2, <2>3, <3>3 DEF IsFlat
      <4> QED
        BY <2>3, <3>1, <3>3, <4>1
    <3> QED
      BY <3>2, <3>3
  <2>5. g = [i \in 1 .. m |-> g[i]]
    OBVIOUS
  <2> HIDE DEF g
  <2>6. IsFlat(q, m, g)
    BY <2>4, <2>5 DEF IsFlat
  <2> QED
    BY <2>6
<1> QED
  BY <1>2, <1>3

\* The sums h of a list q of sequences: what its first i elements make.
Sums(q, h) ==
  /\ h[0] = <<>> /\ \A i \in 1 .. Len(q) : h[i] = h[i - 1] \o q[i]
  /\ FlattenSeq(q) = h[Len(q)]

LEMMA SumsExist ==
  ASSUME NEW B, NEW q \in Seq(Seq(B))
  PROVE  \E h : Sums(q, h) /\ \A i \in 0 .. Len(q) : h[i] \in Seq(B)
<1> DEFINE n == Len(q)
           g == Flat(q, n)
           h == [i \in 0 .. n |-> IF i = 0 THEN <<>> ELSE g[i]]
<1>1. n \in Nat /\ <<>> \in Seq(B) /\ \A i \in 1 .. n : q[i] \in Seq(B)
  BY LenProperties, ElementOfSeq, EmptySeq
<1>2. IsFlat(q, n, g)
  BY <1>1, FlatExists DEF Flat
<1>3. FlattenSeq(q) = IF n = 0 THEN q ELSE g[n]
  BY DEF FlattenSeq, Flat, IsFlat
<1> HIDE DEF g
<1>4. h[0] = <<>> /\ \A i \in 1 .. n : h[i] = g[i]
  BY <1>1
<1>5. ASSUME NEW i \in 1 .. n PROVE h[i] = h[i - 1] \o q[i]
  <2>1. g[i] = IF i = 1 THEN q[i] ELSE g[i - 1] \o q[i]
    BY <1>2 DEF IsFlat
  <2>2. CASE i = 1
    <3>1. <<>> \o q[i] = q[i]
      BY <1>1, ConcatEmptySeq
    <3>2. i - 1 = 0
      BY <2>2
    <3> QED
      BY <1>4, <2>1, <2>2, <3>1, <3>2
  <2>3. CASE i # 1
    <3>1. i - 1 \in 1 .. n
      BY <1>1, <2>3
    <3> QED
      BY <1>4, <2>1, <2>3, <3>1
  <2> QED
    BY <2>2, <2>3
<1>6. FlattenSeq(q) = h[n]
  <2>1. n = 0 => q = <<>>
    BY EmptySeq
  <2>2. n # 0 => n \in 1 .. n
    BY <1>1
  <2> QED
    BY <1>3, <1>4, <2>1, <2>2
<1> HIDE DEF h, n
<1>7. \A i \in 0 .. n : h[i] \in Seq(B)
  <2> DEFINE T == {m \in 0 .. n : h[m] \notin Seq(B)}
  <2> SUFFICES ASSUME T # {} PROVE FALSE
    OBVIOUS
  <2>1. PICK m \in T : \A k \in T : m <= k
    <3>1. T \in SUBSET Nat
      BY <1>1
    <3> HIDE DEF T
    <3> QED
      BY <3>1, NatMin
  <2>2. m # 0
    BY <1>1, <1>4, <2>1
  <2>3. m \in 1 .. n /\ m - 1 \in 0 .. n /\ m - 1 \notin T
    BY <1>1, <2>1, <2>2
  <2>4. h[m - 1] \in Seq(B) /\ q[m] \in Seq(B) /\ h[m] = h[m - 1] \o q[m]
    BY <1>1, <1>5, <2>3
  <2>5. h[m] \in Seq(B)
    BY <2>4, ConcatProperties
  <2> QED
    BY <2>1, <2>5
<1> QED
  BY <1>4, <1>5, <1>6, <1>7 DEF Sums, n

\* As far as two lists are the same, so are their sums.
Alike(q, r, n) ==
  /\ Len(q) \in Nat /\ Len(r) \in Nat /\ n \in Nat /\ n <= Len(q) /\ n <= Len(r)
  /\ \A i \in 1 .. n : q[i] = r[i]

LEMMA SumsAgree ==
  ASSUME NEW q, NEW r, NEW n, Alike(q, r, n), NEW h, NEW f, Sums(q, h), Sums(r, f)
  PROVE  h[n] = f[n]
<1>0. /\ Len(q) \in Nat /\ Len(r) \in Nat /\ n \in Nat /\ n <= Len(q) /\ n <= Len(r)
      /\ \A i \in 1 .. n : q[i] = r[i]
  BY DEF Alike
<1> DEFINE T == {m \in 0 .. n : h[m] # f[m]}
<1> SUFFICES ASSUME T # {} PROVE FALSE
  <2>1. n \in 0 .. n
    BY <1>0
  <2> QED
    BY <2>1
<1>1. PICK m \in T : \A k \in T : m <= k
  <2>1. T \in SUBSET Nat
    BY <1>0
  <2> HIDE DEF T
  <2> QED
    BY <2>1, NatMin
<1>2. m # 0
  BY <1>1 DEF Sums
<1>3. m \in 1 .. n /\ m - 1 \in 0 .. n /\ m - 1 \notin T /\ m \in 1 .. Len(q) /\ m \in 1 .. Len(r)
  BY <1>0, <1>1, <1>2
<1>4. h[m - 1] = f[m - 1] /\ q[m] = r[m]
  BY <1>0, <1>3
<1>5. h[m] = h[m - 1] \o q[m] /\ f[m] = f[m - 1] \o r[m]
  BY <1>3 DEF Sums
<1> QED
  BY <1>1, <1>4, <1>5

\* Elements that are empty add nothing.
LEMMA SumsStay ==
  ASSUME NEW B, NEW q \in Seq(Seq(B)), NEW h, Sums(q, h), \A i \in 0 .. Len(q) : h[i] \in Seq(B),
         NEW k \in 0 .. Len(q), \A i \in 1 .. Len(q) : i > k => q[i] = <<>>
  PROVE  FlattenSeq(q) = h[k]
<1> DEFINE n == Len(q)
           T == {m \in k .. n : h[m] # h[k]}
<1>1. n \in Nat /\ k \in Nat /\ n \in k .. n
  BY LenProperties
<1>2. T = {}
  <2> SUFFICES ASSUME T # {} PROVE FALSE
    OBVIOUS
  <2>1. PICK m \in T : \A j \in T : m <= j
    <3>1. T \in SUBSET Nat
      BY <1>1
    <3> HIDE DEF T
    <3> QED
      BY <3>1, NatMin
  <2>2. m # k
    BY <2>1
  <2>3. m \in 1 .. n /\ m > k /\ m - 1 \in k .. n /\ m - 1 \notin T /\ m - 1 \in 0 .. n
    BY <1>1, <2>1, <2>2
  <2>4. h[m - 1] = h[k] /\ h[m] = h[m - 1] \o <<>> /\ h[m - 1] \in Seq(B)
    BY <2>3 DEF Sums
  <2>5. h[m] = h[k]
    BY <2>4, ConcatEmptySeq
  <2> QED
    BY <2>1, <2>5
<1> QED
  BY <1>1, <1>2 DEF Sums

LEMMA FlatAppended ==
  ASSUME NEW B, NEW q \in Seq(Seq(B)), NEW r \in Seq(Seq(B)), Len(r) = Len(q) + 1,
         \A i \in 1 .. Len(q) : r[i] = q[i], r[Len(q) + 1] = <<>>
  PROVE  FlattenSeq(r) = FlattenSeq(q)
<1> DEFINE n == Len(q)
<1>1. n \in Nat /\ Len(r) \in Nat /\ n \in 0 .. Len(r) /\ n <= Len(q) /\ n <= Len(r)
  BY LenProperties
<1>2. PICK h : Sums(q, h) /\ \A i \in 0 .. Len(q) : h[i] \in Seq(B)
  BY SumsExist
<1>3. PICK f : Sums(r, f) /\ \A i \in 0 .. Len(r) : f[i] \in Seq(B)
  BY SumsExist
<1>4. \A i \in 1 .. n : q[i] = r[i]
  OBVIOUS
<1>5. \A i \in 1 .. Len(r) : i > n => r[i] = <<>>
  BY <1>1
<1> HIDE DEF n
<1>6. h[n] = f[n]
  <2>1. Alike(q, r, n)
    BY <1>1, <1>4 DEF Alike, n
  <2> QED
    BY <1>2, <1>3, <2>1, SumsAgree
<1>7. FlattenSeq(r) = f[n]
  BY <1>1, <1>3, <1>5, SumsStay
<1> QED
  BY <1>2, <1>6, <1>7 DEF Sums, n

\* The last that is not empty changes.
LEMMA FlatChanged ==
  ASSUME NEW B, NEW q \in Seq(Seq(B)), NEW r \in Seq(Seq(B)), Len(r) = Len(q), NEW k \in 1 .. Len(q),
         \A i \in 1 .. Len(q) : i # k => r[i] = q[i], \A i \in 1 .. Len(q) : i > k => q[i] = <<>>
  PROVE  \E p \in Seq(B) : FlattenSeq(q) = p \o q[k] /\ FlattenSeq(r) = p \o r[k]
<1>1. /\ Len(q) \in Nat /\ Len(r) \in Nat /\ k \in 0 .. Len(r) /\ k - 1 <= Len(r)
      /\ k \in 0 .. Len(q) /\ k - 1 \in Nat /\ k - 1 <= Len(q) /\ k - 1 \in 0 .. Len(q)
      /\ \A i \in 1 .. k - 1 : i \in 1 .. Len(q) /\ i # k
      /\ \A i \in 1 .. Len(q) : i > k => i # k
  BY LenProperties
<1>2. PICK h : Sums(q, h) /\ \A i \in 0 .. Len(q) : h[i] \in Seq(B)
  BY SumsExist
<1>3. PICK f : Sums(r, f) /\ \A i \in 0 .. Len(r) : f[i] \in Seq(B)
  BY SumsExist
<1>4. h[k - 1] = f[k - 1]
  <2> DEFINE n == k - 1
  <2>1. n \in Nat /\ n <= Len(q) /\ n <= Len(r) /\ \A i \in 1 .. n : q[i] = r[i]
    BY <1>1
  <2> HIDE DEF n
  <2>2. Alike(q, r, n)
    BY <1>1, <2>1 DEF Alike
  <2>4. h[n] = f[n]
    BY <1>2, <1>3, <2>2, SumsAgree
  <2> QED
    BY <2>4 DEF n
<1>5. FlattenSeq(q) = h[k]
  <2>1. k \in 0 .. Len(q) /\ \A i \in 1 .. Len(q) : i > k => q[i] = <<>>
    BY <1>1
  <2> QED
    BY <1>2, <2>1, SumsStay
<1>6. FlattenSeq(r) = f[k]
  <2>1. k \in 0 .. Len(r) /\ \A i \in 1 .. Len(r) : i > k => r[i] = <<>>
    BY <1>1
  <2> QED
    BY <1>3, <2>1, SumsStay
<1>7. h[k] = h[k - 1] \o q[k] /\ f[k] = f[k - 1] \o r[k]
  BY <1>2, <1>3 DEF Sums
<1> QED
  BY <1>1, <1>2, <1>4, <1>5, <1>6, <1>7

(***************************************************************************)
(* The invariant: a read that has not begun holds nothing, nor does one    *)
(* that waits, but a readline; and what the tasks hold, what is buffered   *)
(* and what is to come make up an input.                                   *)
(***************************************************************************)
Helds(t) == [k \in DOMAIN t |-> t[k].held]
TakenBy(t) == FlattenSeq(Helds(t))

Empty(e) ==
  \/ e.op \notin Reads \/ e.at \in {"queued", "ready"}
  \/ e.at = "waiting" /\ e.op # "readline"
Holds(t, B) == \A k \in DOMAIN t : t[k].held \in Seq(B) /\ (Empty(t[k]) => t[k].held = <<>>)
Whole(t, r, c) == \E input \in Input : TakenBy(t) \o (r.buffer \o c) = input

HInv(B) ==
  /\ IsReader(reader, B) /\ toCome \in Seq(B) /\ Holds(task, B)
  /\ Whole(task, reader, toCome)

LEMMA HeldsList ==
  ASSUME NEW t, IsList(t), NEW B, Holds(t, B)
  PROVE  /\ Helds(t) \in Seq(Seq(B)) /\ Len(Helds(t)) = Len(t) /\ Len(t) \in Nat /\ DOMAIN t = 1 .. Len(t)
         /\ \A k \in 1 .. Len(t) : Helds(t)[k] = t[k].held
<1> DEFINE h == Helds(t)
           n == Len(t)
<1>1. n \in Nat /\ DOMAIN t = 1 .. n
  BY LenProperties DEF IsList
<1>2. h \in [1 .. n -> Seq(B)] /\ \A k \in 1 .. n : h[k] = t[k].held
  BY <1>1 DEF Helds, Holds
<1> HIDE DEF h, n
<1>3. h \in Seq(Seq(B)) /\ Len(h) = n
  <2> DEFINE S == Seq(B)
  <2>1. h \in [1 .. n -> S]
    BY <1>2
  <2> HIDE DEF S
  <2>2. h \in Seq(S)
    BY <1>1, <2>1, SeqDef
  <2>3. Len(h) = n
    BY <1>1, <2>1, <2>2, LenProperties
  <2> QED
    BY <2>2, <2>3 DEF S
<1> QED
  BY <1>1, <1>2, <1>3 DEF h, n

\* Steps at which nobody takes anything.
Undisturbed ==
  /\ DOMAIN task' = DOMAIN task /\ toCome' = toCome
  /\ \A j \in DOMAIN task :
       /\ task'[j].op = task[j].op /\ task'[j].held = task[j].held
       /\ \/ task'[j].at \in {task[j].at, "over"} \/ task[j].op \notin Reads
          \/ task[j].at = "queued" /\ task'[j].at = "ready"
  /\ DOMAIN reader' = ReaderFields /\ reader'.buffer = reader.buffer

LEMMA UndisturbedKeeps ==
  ASSUME NEW B, HInv(B), Undisturbed
  PROVE  HInv(B)'
<1>1. IsReader(reader', B) /\ toCome' \in Seq(B)
  BY DEF HInv, IsReader, Undisturbed
<1>2. Holds(task', B)
  <2> SUFFICES ASSUME NEW j \in DOMAIN task PROVE task'[j].held \in Seq(B) /\ (Empty(task'[j]) => task'[j].held = <<>>)
    BY DEF Holds, Undisturbed
  <2>1. task'[j].op = task[j].op /\ task'[j].held = task[j].held
    BY DEF Undisturbed
  <2>2. Empty(task'[j]) => Empty(task[j])
    BY <2>1 DEF Undisturbed, Empty
  <2> QED
    BY <2>1, <2>2 DEF HInv, Holds
<1>4. Helds(task') = Helds(task)
  BY DEF Helds, Undisturbed
<1>5. Whole(task', reader', toCome')
  BY <1>4 DEF HInv, Whole, TakenBy, Undisturbed
<1> QED
  BY <1>1, <1>2, <1>5 DEF HInv

\* A task more, that holds nothing.
LEMMA MoreHeld ==
  ASSUME NEW B, HInv(B), IsList(task), IsList(task'), Len(task') = Len(task) + 1,
         \A j \in 1 .. Len(task) : task'[j] = task[j], task'[Len(task) + 1].held = <<>>, reader' = reader, toCome' = toCome
  PROVE  HInv(B)'
<1> DEFINE n == Len(task)
<1>1. n \in Nat /\ DOMAIN task = 1 .. n /\ DOMAIN task' = 1 .. n + 1 /\ <<>> \in Seq(B)
  BY LenProperties, EmptySeq DEF IsList
<1>2. Holds(task', B)
  <2> SUFFICES ASSUME NEW j \in 1 .. n + 1 PROVE task'[j].held \in Seq(B) /\ (Empty(task'[j]) => task'[j].held = <<>>)
    BY <1>1 DEF Holds
  <2>1. CASE j \in 1 .. n
    BY <1>1, <2>1 DEF HInv, Holds
  <2>2. CASE j = n + 1
    BY <1>1, <2>2
  <2> QED
    BY <1>1, <2>1, <2>2
<1>4. /\ Helds(task) \in Seq(Seq(B)) /\ Len(Helds(task)) = n
      /\ Helds(task') \in Seq(Seq(B)) /\ Len(Helds(task')) = n + 1
      /\ \A i \in 1 .. n : Helds(task')[i] = Helds(task)[i]
      /\ Helds(task')[n + 1] = <<>>
  <2>1. /\ Helds(task) \in Seq(Seq(B)) /\ Len(Helds(task)) = n /\ \A i \in 1 .. n : Helds(task)[i] = task[i].held
    BY HeldsList DEF HInv
  <2>2. /\ Helds(task') \in Seq(Seq(B)) /\ Len(Helds(task')) = n + 1
        /\ \A i \in 1 .. n + 1 : Helds(task')[i] = task'[i].held
    BY <1>2, HeldsList
  <2>3. n + 1 \in 1 .. n + 1 /\ \A i \in 1 .. n : i \in 1 .. n + 1
    BY <1>1
  <2> QED
    BY <2>1, <2>2, <2>3
<1>5. TakenBy(task') = TakenBy(task)
  BY <1>4, FlatAppended DEF TakenBy
<1> QED
  BY <1>2, <1>5 DEF HInv, Whole

\* A read takes from the buffer, and none that was begun after it holds anything.
Reaches(B, k) ==
  /\ DOMAIN task' = DOMAIN task /\ toCome' = toCome /\ k \in DOMAIN task /\ IsReader(reader', B)
  /\ \A j \in DOMAIN task : j # k => task'[j] = task[j]
  /\ \A j \in DOMAIN task : j > k => task[j].held = <<>>
  /\ task'[k].op = task[k].op /\ task'[k].held \in Seq(B) /\ (Empty(task'[k]) => task'[k].held = <<>>)
  /\ task'[k].held \o reader'.buffer = task[k].held \o reader.buffer

LEMMA ReachesKeeps ==
  ASSUME NEW B, HInv(B), IsList(task), IsList(task'), NEW k, Reaches(B, k)
  PROVE  HInv(B)'
<1>1. DOMAIN task' = DOMAIN task /\ k \in DOMAIN task /\ \A j \in DOMAIN task : j # k => task'[j] = task[j]
  BY DEF Reaches
<1>2. Holds(task', B)
  BY <1>1 DEF Reaches, HInv, Holds
<1>3. /\ Helds(task) \in Seq(Seq(B)) /\ Len(Helds(task)) = Len(task) /\ Len(task) \in Nat /\ DOMAIN task = 1 .. Len(task)
      /\ \A i \in 1 .. Len(task) : Helds(task)[i] = task[i].held
  BY HeldsList DEF HInv
<1>4. /\ Helds(task') \in Seq(Seq(B)) /\ Len(Helds(task')) = Len(task') /\ Len(task') \in Nat /\ DOMAIN task' = 1 .. Len(task')
      /\ \A i \in 1 .. Len(task') : Helds(task')[i] = task'[i].held
  BY <1>2, HeldsList
<1> DEFINE q == Helds(task)
           r == Helds(task')
<1>5. Len(task') = Len(task)
  BY <1>1, <1>3, <1>4
<1>6. /\ q \in Seq(Seq(B)) /\ r \in Seq(Seq(B)) /\ Len(r) = Len(q) /\ k \in 1 .. Len(q)
      /\ \A i \in 1 .. Len(q) : i # k => r[i] = q[i]
      /\ \A i \in 1 .. Len(q) : i > k => q[i] = <<>>
      /\ q[k] = task[k].held /\ r[k] = task'[k].held
  BY <1>1, <1>3, <1>4, <1>5 DEF Reaches
<1> HIDE DEF q, r
<1>7. PICK p \in Seq(B) : FlattenSeq(q) = p \o q[k] /\ FlattenSeq(r) = p \o r[k]
  BY <1>6, FlatChanged
<1> DEFINE a == task[k].held
           b == task'[k].held
           u == reader.buffer
           v == reader'.buffer
<1>8. /\ a \in Seq(B) /\ b \in Seq(B) /\ u \in Seq(B) /\ v \in Seq(B) /\ toCome \in Seq(B)
      /\ b \o v = a \o u /\ toCome' = toCome
  BY <1>1 DEF HInv, Holds, IsReader, Reaches
<1>9. TakenBy(task) = p \o a /\ TakenBy(task') = p \o b
  BY <1>6, <1>7 DEF TakenBy, q, r
<1> HIDE DEF a, b, u, v
<1>10. (p \o b) \o (v \o toCome) = (p \o a) \o (u \o toCome)
  <2>1. \A x, y \in Seq(B) : (p \o x) \o (y \o toCome) = p \o ((x \o y) \o toCome)
    <3> SUFFICES ASSUME NEW x \in Seq(B), NEW y \in Seq(B) PROVE (p \o x) \o (y \o toCome) = p \o ((x \o y) \o toCome)
      OBVIOUS
    <3> DEFINE z == y \o toCome
    <3>1. z \in Seq(B) /\ (x \o y) \o toCome = x \o z
      BY <1>8, Together, SMTT(30)
    <3> HIDE DEF z
    <3>2. (p \o x) \o z = p \o (x \o z)
      BY <3>1, Together, SMTT(30)
    <3> QED
      BY <3>1, <3>2 DEF z
  <2>3. (p \o b) \o (v \o toCome) = p \o ((b \o v) \o toCome)
    BY <1>8, <2>1
  <2>4. (p \o a) \o (u \o toCome) = p \o ((a \o u) \o toCome)
    BY <1>8, <2>1
  <2> QED
    BY <1>8, <2>3, <2>4
<1>11. Whole(task', reader', toCome')
  BY <1>8, <1>9, <1>10 DEF HInv, Whole, u, v
<1> QED
  BY <1>2, <1>11 DEF HInv, Reaches

(***************************************************************************)
(* The steps that leave what is held and what is buffered alone.           *)
(***************************************************************************)
LEMMA Idle ==
  ASSUME NEW B, HInv(B), task' = task, toCome' = toCome, Same(reader, reader', B)
  PROVE  Undisturbed
BY DEF HInv, Undisturbed, Same, IsReader

LEMMA IdleSteps ==
  ASSUME NEW B, HInv(B),
         \/ accept \/ Check \/ Write \/ (\E t \in Threads : Returns(t)) \/ HandlerCloses
         \/ ConnectTimesOut \/ GivesUp \/ Stop \/ Joined \/ JoinFails
         \/ RunClient \/ RunWrite \/ RunStop \/ RunEof \/ RunOption \/ RunCongestion \/ RunNothing \/ Exit \/ Poll
         \/ UNCHANGED vars
  PROVE  Undisturbed
<1>1. IsReader(reader, B) /\ Same(reader, reader, B) /\ Same(reader, feed_eof(reader), B)
  BY WakingKeeps DEF HInv, Same
<1>2. task' = task /\ toCome' = toCome
  BY DEF accept, Check, Write, Returns, ConnectTimesOut, GivesUp, Stop, Joined, JoinFails, HandlerCloses, RunClient, RunWrite, RunStop, RunEof, RunOption,
         RunCongestion, RunNothing, Exit, Poll, vars
<1>3. reader' = reader \/ reader' = feed_eof(reader)
  BY DEF accept, Check, Write, Returns, ConnectTimesOut, GivesUp, Stop, Joined, JoinFails, HandlerCloses, RunClient, RunWrite, RunStop, RunEof, RunOption,
         RunCongestion, RunNothing, Exit, Poll, Tell, vars
<1> QED
  BY <1>1, <1>2, <1>3, Idle

\* A task is marked, cancelled or begun.
LEMMA MarkSteps ==
  ASSUME NEW B, IInv, RInv, HInv(B), TimesOut \/ Start \/ CancelTask \/ Settle
  PROVE  Undisturbed
<1>1. IsReader(reader, B) /\ DOMAIN reader = ReaderFields /\ \A j \in DOMAIN task : DOMAIN task[j] = TaskFields
  BY DEF HInv, IsReader, IInv, IsTasks
<1>2. toCome' = toCome
  BY DEF TimesOut, Start, CancelTask, Settle
<1>3. DOMAIN reader' = ReaderFields /\ reader'.buffer = reader.buffer
  <2>1. reader' = reader \/ reader' = [reader EXCEPT !.future = "cancelled"]
    BY DEF TimesOut, Start, CancelTask, Settle
  <2> QED
    BY <1>1, <2>1 DEF ReaderFields
<1>4. CASE TimesOut
  <2>1. task' = [task EXCEPT ![thread["user"].k].fut = "cancelled"]
    BY <1>4 DEF TimesOut
  <2> QED
    BY <1>1, <1>2, <1>3, <2>1 DEF Undisturbed, TaskFields
<1>5. CASE CancelTask
  <2>1. \E c : task' = [task EXCEPT ![Which].cancelling = c]
    BY <1>5 DEF CancelTask
  <2> QED
    BY <1>1, <1>2, <1>3, <2>1 DEF Undisturbed, TaskFields
<1>6. CASE Settle
  <2>1. \E f : task' = [task EXCEPT ![Which].fut = f]
    BY <1>6 DEF Settle
  <2> QED
    BY <1>1, <1>2, <1>3, <2>1 DEF Undisturbed, TaskFields
<1>7. CASE Start
  <2>1. task' = [task EXCEPT ![Which].at = "ready"] /\ Runs("start")
    BY <1>7 DEF Start
  <2>2. Has(loop.ready, H("start", Which))
    BY <2>1, FirstTaken DEF Shifted
  <2>3. Which \in DOMAIN task /\ task[Which].at = "queued"
    BY <2>2 DEF RInv, Line, Fit, Fitting
  <2> QED
    BY <1>1, <1>2, <1>3, <2>1, <2>3 DEF Undisturbed, TaskFields
<1> QED
  BY <1>4, <1>5, <1>6, <1>7

\* A turn of what is no read, which holds nothing.
LEMMA TurnHolds ==
  ASSUME NEW B, IInv, HInv(B), NEW k, k \in DOMAIN task, NEW at, NEW outcome,
         \/ task' = [task EXCEPT ![k].at = at, ![k].outcome = outcome]
         \/ task' = [task EXCEPT ![k].at = at, ![k].outcome = outcome, ![k].held = <<>>]
         \/ task' = [task EXCEPT ![k].at = at, ![k].held = <<>>],
         task[k].op \notin Reads, toCome' = toCome, reader' = reader
  PROVE  Undisturbed
<1>1. DOMAIN reader = ReaderFields /\ \A j \in DOMAIN task : DOMAIN task[j] = TaskFields
  BY DEF HInv, IsReader, IInv, IsTasks
<1>2. task[k].held = <<>>
  BY DEF HInv, Holds, Empty
<1> QED
  BY <1>1, <1>2 DEF Undisturbed, TaskFields

LEMMA OtherTurns ==
  ASSUME NEW B, IInv, RInv, HInv(B), StepWaitFor \/ StepFlush \/ StepConnect \/ StepStart
  PROVE  Undisturbed
<1> DEFINE k == Which
<1>1. /\ Runs("step") /\ toCome' = toCome /\ reader' = reader
      /\ task[k].op \in {"wait_for", "flush", "connect", "start"}
  BY DEF StepWaitFor, StepFlush, StepConnect, StepStart, StepOf
<1>2. k \in DOMAIN task
  <2>1. Has(loop.ready, H("step", Which))
    BY <1>1, FirstTaken DEF Shifted
  <2> QED
    BY <2>1 DEF RInv, Line, Fit, Fitting
<1>3. task[k].op \notin Reads
  BY <1>1 DEF Reads
<1>4. \/ \E outcome : Ends(k, outcome, <<>>)
      \/ Waits(k, <<>>)
      \/ \E outcome : task' = [task EXCEPT ![k].at = "over", ![k].outcome = outcome]
  <2>1. CASE StepWaitFor
    BY <2>1 DEF StepWaitFor
  <2>2. CASE StepFlush
    BY <2>2 DEF StepFlush
  <2>3. CASE StepConnect
    <3>1. PICK ok \in BOOLEAN : Ends(k, IF ok THEN "ok" ELSE "raised", <<>>)
      BY <2>3 DEF StepConnect
    <3> QED
      BY <3>1
  <2>4. CASE StepStart
    BY <2>4 DEF StepStart
  <2> QED
    BY <2>1, <2>2, <2>3, <2>4
<1> HIDE DEF k
<1>5. CASE \E outcome : Ends(k, outcome, <<>>)
  <2>1. PICK outcome : Ends(k, outcome, <<>>)
    BY <1>5
  <2>2. task' = [task EXCEPT ![k].at = "over", ![k].outcome = outcome, ![k].held = <<>>]
    BY <2>1 DEF Ends
  <2> QED
    BY <1>1, <1>2, <1>3, <2>2, TurnHolds
<1>6. CASE Waits(k, <<>>)
  <2>1. task' = [task EXCEPT ![k].at = "waiting", ![k].held = <<>>]
    BY <1>6 DEF Waits
  <2> QED
    BY <1>1, <1>2, <1>3, <2>1, TurnHolds
<1>7. CASE \E outcome : task' = [task EXCEPT ![k].at = "over", ![k].outcome = outcome]
  <2>1. PICK outcome : task' = [task EXCEPT ![k].at = "over", ![k].outcome = outcome]
    BY <1>7
  <2> QED
    BY <1>1, <1>2, <1>3, <2>1, TurnHolds
<1> QED
  BY <1>4, <1>5, <1>6, <1>7

\* A closing marks tasks and ends the reader's stream.
LEMMA Closings ==
  ASSUME NEW B, IInv, RInv, HInv(B), StepCleanup \/ StepShutdown \/ RunClose
  PROVE  Undisturbed
<1>1. IsReader(reader, B) /\ DOMAIN reader = ReaderFields /\ \A j \in DOMAIN task : DOMAIN task[j] = TaskFields
  BY DEF HInv, IsReader, IInv, IsTasks
<1>2. toCome' = toCome
  BY DEF StepCleanup, StepShutdown, RunClose
<1>3. DOMAIN reader' = ReaderFields /\ reader'.buffer = reader.buffer
  <2> DEFINE r == ToldOfEof
  <2>1. DOMAIN r = ReaderFields /\ r.buffer = reader.buffer
    BY <1>1, WakingKeeps DEF ToldOfEof, Same, IsReader
  <2>2. reader' = reader \/ reader' = r \/ reader' = [r EXCEPT !.waiter = TRUE, !.future = "cancelled"]
    BY DEF StepCleanup, StepShutdown, RunClose
  <2> HIDE DEF r
  <2> QED
    BY <1>1, <2>1, <2>2 DEF ReaderFields
<1>4. \A ks : /\ DOMAIN CancelAll(ks) = DOMAIN task
              /\ \A j \in DOMAIN task :
                   /\ CancelAll(ks)[j].op = task[j].op /\ CancelAll(ks)[j].held = task[j].held
                   /\ CancelAll(ks)[j].at = task[j].at /\ DOMAIN CancelAll(ks)[j] = TaskFields
  BY <1>1 DEF CancelAll, TaskFields
<1>5. CASE RunClose
  <2>1. task' = CancelAll(WritersDue)
    BY <1>5 DEF RunClose
  <2> QED
    BY <1>2, <1>3, <1>4, <2>1 DEF Undisturbed
<1>6. CASE StepCleanup \/ StepShutdown
  <2> DEFINE k == Which
  <2>1. /\ Runs("step") /\ task[k].op \in {"cleanup", "shutdown"}
        /\ \/ \E ks : task' = [CancelAll(ks) EXCEPT ![k].at = "waiting"]
           \/ task' = [task EXCEPT ![k].at = "over", ![k].outcome = "ok", ![k].held = <<>>]
    BY <1>6 DEF StepCleanup, StepShutdown, StepOf, Ends
  <2>2. k \in DOMAIN task
    <3>1. Has(loop.ready, H("step", Which))
      BY <2>1, FirstTaken DEF Shifted
    <3> QED
      BY <3>1 DEF RInv, Line, Fit, Fitting
  <2> HIDE DEF k
  <2>3. task[k].op \notin Reads
    BY <2>1 DEF Reads
  <2>4. task[k].held = <<>>
    BY <2>2, <2>3 DEF HInv, Holds, Empty
  <2>5. CASE \E ks : task' = [CancelAll(ks) EXCEPT ![k].at = "waiting"]
    <3>1. PICK ks : task' = [CancelAll(ks) EXCEPT ![k].at = "waiting"]
      BY <2>5
    <3> DEFINE c == CancelAll(ks)
    <3>2. DOMAIN c = DOMAIN task /\ \A j \in DOMAIN task :
                   /\ c[j].op = task[j].op /\ c[j].held = task[j].held
                   /\ c[j].at = task[j].at /\ DOMAIN c[j] = TaskFields
      BY <1>4
    <3> HIDE DEF c
    <3>3. task' = [c EXCEPT ![k].at = "waiting"]
      BY <3>1 DEF c
    <3>4. /\ DOMAIN task' = DOMAIN task
          /\ \A j \in DOMAIN task :
               /\ task'[j].op = task[j].op /\ task'[j].held = task[j].held
               /\ j # k => task'[j].at = task[j].at
      BY <3>2, <3>3 DEF TaskFields
    <3> QED
      BY <1>2, <1>3, <2>3, <3>4 DEF Undisturbed
  <2>6. CASE task' = [task EXCEPT ![k].at = "over", ![k].outcome = "ok", ![k].held = <<>>]
    BY <1>1, <1>2, <1>3, <2>4, <2>6 DEF Undisturbed, TaskFields
  <2> QED
    BY <2>1, <2>5, <2>6
<1> QED
  BY <1>5, <1>6

(***************************************************************************)
(* The reads.                                                              *)
(***************************************************************************)
\* A read that is not over is the last that may hold anything.
LEMMA LaterEmpty ==
  ASSUME RInv, NEW B, HInv(B), NEW k \in DOMAIN task, task[k].op \in Reads, task[k].at # "over"
  PROVE  \A j \in DOMAIN task : j > k => task[j].held = <<>>
<1> SUFFICES ASSUME NEW j \in DOMAIN task, j > k PROVE task[j].held = <<>>
  OBVIOUS
<1>1. DOMAIN task \subseteq Nat
  BY DEF RInv, Line, Fit, Fitting
<1>2. Empty(task[j])
  <2>1. CASE task[j].op \in Reads
    <3>1. k < j /\ Alternate(loop.ready, task)
      BY <1>1 DEF RInv, Line
    <3>2. task[j].at \in {"queued", "ready"}
      BY <2>1, <3>1 DEF Alternate
    <3> QED
      BY <3>2 DEF Empty
  <2> QED
    BY <2>1 DEF Empty
<1> QED
  BY <1>2 DEF HInv, Holds

\* What a turn takes from the buffer it puts behind what the call has gathered.
LEMMA TurnSplits ==
  ASSUME NEW B, "NUL" \notin B, NEW op \in Reads, NEW r, IsReader(r, B), NEW held \in Seq(B),
         op # "readline" => held = <<>>, NEW resumed
  PROVE  LET o == ReadTurn(op, r, held, resumed)
         IN  Splits(r, held, o, B) /\ (op # "readline" /\ o.how = "wait" => o.data = <<>>)
<1> DEFINE o == ReadTurn(op, r, held, resumed)
<1>1. CASE op = "read"
  <2>1. o = read(r, limit, resumed)
    BY <1>1 DEF ReadTurn
  <2>2. limit \in Nat
    BY LimitAssumption
  <2> HIDE DEF o
  <2>3. Takes(r, o, B)
    BY <2>1, <2>2, ReadSplits
  <2>4. Splits(r, held, o, B) /\ (o.how = "wait" => o.data = <<>>)
    BY <1>1, <2>3 DEF Takes
  <2> QED
    BY <2>4 DEF o
<1>2. CASE op = "read_until"
  <2>1. o = readuntil(r, <<"LF">>)
    BY <1>2 DEF ReadTurn
  <2> HIDE DEF o
  <2>3. Takes(r, o, B)
    BY <2>1, ReadUntilSplits
  <2>4. Splits(r, held, o, B) /\ (o.how = "wait" => o.data = <<>>)
    BY <1>2, <2>3 DEF Takes
  <2> QED
    BY <2>4 DEF o
<1>3. CASE op = "readline"
  <2>1. o = readline(r, held)
    BY <1>3 DEF ReadTurn
  <2> HIDE DEF o
  <2>2. SplitsLine(r, held, o, B)
    BY <2>1, ReadLineSplits
  <2>3. PICK drop \in {<<>>, <<"NUL">>} : drop \in Seq(B) /\ (o.data \o drop) \o o.r.buffer = held \o r.buffer
    BY <2>2 DEF SplitsLine
  <2>4. drop = <<>>
    <3>1. CASE drop = <<"NUL">>
      <4>1. drop[1] = "NUL" /\ 1 \in 1 .. Len(drop)
        BY <3>1
      <4>2. drop[1] \in B
        BY <2>3, <4>1, ElementOfSeq
      <4> QED
        BY <4>1, <4>2
    <3> QED
      BY <2>3, <3>1
  <2>5. o.data \in Seq(B) /\ o.data \o <<>> = o.data
    BY <2>2, ConcatEmptySeq DEF SplitsLine
  <2>6. Splits(r, held, o, B)
    BY <2>2, <2>3, <2>4, <2>5 DEF SplitsLine, Splits
  <2> QED
    BY <1>3, <2>6 DEF o
<1> QED
  BY <1>1, <1>2, <1>3 DEF Reads

LEMMA ReadHolds ==
  ASSUME NEW B, "NUL" \notin B, IInv, RInv, HInv(B), StepRead
  PROVE  Undisturbed \/ Reaches(B, Which)
<1> DEFINE k == Which
           resumed == task[k].at = "waiting"
           r == IF resumed THEN Awoken(reader) ELSE reader
           held == task[k].held
           o == ReadTurn(task[k].op, r, held, resumed)
<1>1. /\ Runs("step") /\ task[k].op \in Reads /\ toCome' = toCome
      /\ \/ reader' = r /\ \E how : Ends(k, how, held)
         \/ reader' = r /\ r.waiter /\ \E how : Ends(k, how, <<>>)
         \/ reader' = o.r /\ o.how = "wait" /\ Waits(k, o.data)
         \/ reader' = o.r /\ o.how # "wait" /\ \E how : Ends(k, how, o.data)
  BY DEF StepRead, StepOf
<1>2. k \in DOMAIN task /\ task[k].at \in {"ready", "waiting"}
  <2>1. Has(loop.ready, H("step", Which))
    BY <1>1, FirstTaken DEF Shifted
  <2> QED
    BY <2>1 DEF RInv, Line, Fit, Fitting
<1>3. IsReader(reader, B) /\ DOMAIN reader = ReaderFields /\ \A j \in DOMAIN task : DOMAIN task[j] = TaskFields
  BY DEF HInv, IsReader, IInv, IsTasks
<1>4. Same(reader, r, B) /\ (r.waiter => ~resumed)
  <2>1. Same(reader, Awoken(reader), B) /\ Same(reader, reader, B) /\ ~Awoken(reader).waiter
    BY <1>3, WakingKeeps DEF Same, Awoken, ReaderFields
  <2> QED
    BY <2>1
<1>5. held \in Seq(B) /\ (task[k].op # "readline" \/ ~resumed => held = <<>>)
  BY <1>2 DEF HInv, Holds, Empty
<1> HIDE DEF r
<1>6. Splits(r, held, o, B) /\ (task[k].op # "readline" /\ o.how = "wait" => o.data = <<>>)
  <2>1. task[k].op \in Reads /\ IsReader(r, B) /\ held \in Seq(B) /\ (task[k].op # "readline" => held = <<>>)
    BY <1>1, <1>4, <1>5 DEF Same
  <2> HIDE DEF held, resumed, k
  <2> QED
    BY <2>1, TurnSplits
<1>7. \A j \in DOMAIN task : j > k => task[j].held = <<>>
  BY <1>1, <1>2, LaterEmpty
<1> HIDE DEF o, k, resumed
<1>8. CASE reader' = r /\ \E how : Ends(k, how, held)
  <2>1. PICK how : task' = [task EXCEPT ![k].at = "over", ![k].outcome = how, ![k].held = held]
    BY <1>8 DEF Ends
  <2> QED
    BY <1>1, <1>2, <1>3, <1>4, <1>8, <2>1 DEF Undisturbed, TaskFields, Same, IsReader
<1>9. CASE reader' = r /\ r.waiter /\ \E how : Ends(k, how, <<>>)
  <2>1. PICK how : task' = [task EXCEPT ![k].at = "over", ![k].outcome = how, ![k].held = <<>>]
    BY <1>9 DEF Ends
  <2>2. task[k].held = <<>>
    BY <1>4, <1>5, <1>9
  <2> QED
    BY <1>1, <1>2, <1>3, <1>4, <1>9, <2>1, <2>2 DEF Undisturbed, TaskFields, Same, IsReader
<1>10. ASSUME reader' = o.r, NEW at, DOMAIN task' = DOMAIN task, \A j \in DOMAIN task : j # k => task'[j] = task[j],
              task'[k].op = task[k].op, task'[k].at = at, task'[k].held = o.data,
              at = "over" \/ (at = "waiting" /\ o.how = "wait")
       PROVE  Reaches(B, k)
  <2>1. IsReader(reader', B) /\ task'[k].held \in Seq(B)
    BY <1>6, <1>10 DEF Splits
  <2>2. task'[k].held \o reader'.buffer = task[k].held \o reader.buffer
    BY <1>4, <1>6, <1>10 DEF Splits, Same
  <2>3. Empty(task'[k]) => task'[k].held = <<>>
    <3>1. Empty(task'[k]) => at = "waiting" /\ task[k].op # "readline"
      BY <1>1, <1>10 DEF Empty
    <3> QED
      BY <1>6, <1>10, <3>1
  <2> QED
    BY <1>1, <1>2, <1>7, <1>10, <2>1, <2>2, <2>3 DEF Reaches
<1>11. CASE reader' = o.r /\ o.how = "wait" /\ Waits(k, o.data)
  <2>1. task' = [task EXCEPT ![k].at = "waiting", ![k].held = o.data]
    BY <1>11 DEF Waits
  <2>2. /\ DOMAIN task' = DOMAIN task /\ \A j \in DOMAIN task : j # k => task'[j] = task[j]
        /\ task'[k].op = task[k].op /\ task'[k].at = "waiting" /\ task'[k].held = o.data
    BY <1>2, <1>3, <2>1 DEF TaskFields
  <2>3. Reaches(B, k)
    BY <1>10, <1>11, <2>2
  <2> QED
    BY <2>3 DEF k
<1>12. CASE reader' = o.r /\ o.how # "wait" /\ \E how : Ends(k, how, o.data)
  <2>1. PICK how : task' = [task EXCEPT ![k].at = "over", ![k].outcome = how, ![k].held = o.data]
    BY <1>12 DEF Ends
  <2>2. /\ DOMAIN task' = DOMAIN task /\ \A j \in DOMAIN task : j # k => task'[j] = task[j]
        /\ task'[k].op = task[k].op /\ task'[k].at = "over" /\ task'[k].held = o.data
    BY <1>2, <1>3, <2>1 DEF TaskFields
  <2>3. Reaches(B, k)
    BY <1>10, <1>12, <2>2
  <2> QED
    BY <2>3 DEF k
<1> QED
  BY <1>1, <1>8, <1>9, <1>11, <1>12

\* A byte arrives.
LEMMA DataHolds ==
  ASSUME NEW B, HInv(B), RunData
  PROVE  HInv(B)'
<1> DEFINE b == Head(toCome)
           left == Tail(toCome)
           u == reader.buffer
           T == TakenBy(task)
<1>1. /\ task' = task /\ reader' = feed_data(reader, <<b>>) /\ toCome' = left /\ toCome # <<>>
      /\ toCome \in Seq(B) /\ IsReader(reader, B) /\ u \in Seq(B)
  BY DEF RunData, Tell, HInv, IsReader
<1>2. b \in B /\ left \in Seq(B) /\ <<b>> \in Seq(B) /\ toCome = <<b>> \o left
  <2>1. b \in B /\ left \in Seq(B)
    BY <1>1, HeadTailProperties
  <2>2. toCome = <<b>> \o left
    BY <1>1
  <2>3. <<b>> \in Seq(B)
    BY <2>1
  <2> QED
    BY <2>1, <2>2, <2>3
<1> HIDE DEF b, left
<1>3. IsReader(reader', B) /\ reader'.buffer = u \o <<b>>
  BY <1>1, <1>2, FeedAppends
<1>4. reader'.buffer \o toCome' = u \o toCome
  <2> DEFINE w == <<b>>
  <2>1. w \in Seq(B) /\ toCome = w \o left /\ reader'.buffer = u \o w
    BY <1>2, <1>3
  <2> HIDE DEF w, u
  <2>2. (u \o w) \o left = u \o (w \o left)
    BY <1>1, <1>2, <2>1, Together, SMTT(30)
  <2> QED
    BY <1>1, <2>1, <2>2
<1>5. Whole(task', reader', toCome')
  BY <1>1, <1>4 DEF HInv, Whole
<1> QED
  BY <1>1, <1>2, <1>3, <1>5 DEF HInv

\* A call begins, and holds nothing.
LEMMA SubmitHolds ==
  ASSUME NEW B, IInv, HInv(B), NEW t \in Threads, NEW op, Submit(t, op), reader' = reader, toCome' = toCome
  PROVE  HInv(B)'
<1> DEFINE e == [op |-> op, at |-> "queued", cancelling |-> FALSE, held |-> <<>>,
                 fut |-> "pending", outcome |-> "none",
                 early |-> \A i \in DOMAIN task : task[i].op \notin {"cleanup", "shutdown"}]
<1>1. task' = Append(task, e) /\ e.held = <<>>
  BY DEF Submit
<1> HIDE DEF e
<1>2. IsList(task) /\ IsList(task')
  BY Submits DEF IInv, IsTasks
<1>3. PICK S : task \in Seq(S)
  BY <1>2 DEF IsList
<1> DEFINE U == S \cup {e}
<1>4. S \subseteq U /\ e \in U
  OBVIOUS
<1> HIDE DEF U
<1>5. task \in Seq(U)
  BY <1>3, <1>4, SeqMonotonic
<1>6. /\ Len(task') = Len(task) + 1 /\ task'[Len(task) + 1] = e
      /\ \A j \in 1 .. Len(task) : task'[j] = task[j]
  BY <1>1, <1>4, <1>5, AppendProperties, LenProperties
<1>7. task'[Len(task) + 1].held = <<>>
  BY <1>1, <1>6
<1> QED
  BY <1>2, <1>6, <1>7, MoreHeld

LEMMA BeginningsHold ==
  ASSUME NEW B, IInv, RInv, HInv(B), Connect \/ start
  PROVE  HInv(B)'
<1>1. PICK op, at : task' = <<Call0(op, at)>>
  BY DEF Connect, start
<1>2. loop.state = "none" /\ reader' = reader /\ toCome' = toCome
  BY DEF Connect, start
<1>3. IsList(task) /\ DOMAIN task = {}
  BY <1>2 DEF IInv, IsTasks, RInv, Begun
<1>4. Len(task) = 0
  BY <1>3, LenProperties DEF IsList
<1> DEFINE c == Call0(op, at)
<1>5. c.held = <<>>
  BY DEF Call0
<1>6. IsList(task')
  BY <1>1, FirstTask DEF IsTasks
<1> HIDE DEF c
<1>7. task' = <<c>>
  BY <1>1 DEF c
<1>8. Len(task') = 1 /\ task'[1] = c
  BY <1>7
<1>9. Len(task') = Len(task) + 1 /\ (\A j \in 1 .. Len(task) : task'[j] = task[j]) /\ task'[Len(task) + 1].held = <<>>
  BY <1>4, <1>5, <1>8
<1> QED
  BY <1>2, <1>3, <1>6, <1>9, MoreHeld

LEMMA InitHolds ==
  ASSUME NEW B, Input \subseteq Seq(B), Init
  PROVE  HInv(B)
<1>1. <<>> \in Seq({}) /\ <<>> \in Seq(B) /\ DOMAIN <<>> = {} /\ Len(<<>>) = 0
  BY EmptySeq, LenProperties
<1>2. task = <<>> /\ reader = NewReader /\ toCome \in Input /\ toCome \in Seq(B)
  BY DEF Init
<1>3. IsReader(reader, B) /\ reader.buffer = <<>>
  BY <1>1, <1>2 DEF IsReader, NewReader, ReaderFields
<1>4. IsList(task) /\ Holds(task, B)
  BY <1>1, <1>2 DEF IsList, Holds
<1>5. Helds(task) \in Seq(Seq(B)) /\ Len(Helds(task)) = 0
  BY <1>1, <1>2, <1>4, HeldsList
<1>6. PICK h : Sums(Helds(task), h)
  BY <1>5, SumsExist
<1>7. TakenBy(task) = <<>>
  BY <1>5, <1>6 DEF Sums, TakenBy
<1>8. <<>> \o (<<>> \o toCome) = toCome
  BY <1>2, ConcatEmptySeq
<1>9. Whole(task, reader, toCome)
  BY <1>2, <1>3, <1>7, <1>8 DEF Whole
<1> QED
  BY <1>2, <1>3, <1>4, <1>9 DEF HInv

LEMMA StepHolds ==
  ASSUME NEW B, "NUL" \notin B, IInv, IInv', RInv, HInv(B), [Next]_vars
  PROVE  HInv(B)'
<1>1. CASE Undisturbed
  BY <1>1, UndisturbedKeeps
<1>2. CASE StepRead
  <2>1. Undisturbed \/ Reaches(B, Which)
    BY <1>2, ReadHolds
  <2>2. IsList(task) /\ IsList(task')
    BY DEF IInv, IsTasks
  <2> QED
    BY <1>1, <2>1, <2>2, ReachesKeeps
<1>3. CASE Run
  <2>1. CASE StepRead \/ RunData
    BY <1>2, <2>1, DataHolds
  <2>2. CASE Start \/ CancelTask \/ Settle
    BY <1>1, <2>2, MarkSteps
  <2>3. CASE StepWaitFor \/ StepFlush \/ StepConnect \/ StepStart
    BY <1>1, <2>3, OtherTurns
  <2>4. CASE StepCleanup \/ StepShutdown \/ RunClose
    BY <1>1, <2>4, Closings
  <2>5. CASE RunClient \/ RunWrite \/ RunStop \/ RunEof \/ RunOption \/ RunCongestion \/ RunNothing
    BY <1>1, <2>5, IdleSteps
  <2> QED
    BY <1>3, <2>1, <2>2, <2>3, <2>4, <2>5 DEF Run
<1>4. CASE Poll \/ Exit \/ UNCHANGED vars
  BY <1>1, <1>4, IdleSteps
<1>5. "owner" \in Threads /\ "user" \in Threads
  BY DEF Threads
<1>6. CASE Owner
  <2>1. CASE Connect \/ start
    BY <2>1, BeginningsHold
  <2>2. CASE Close
    <3>1. /\ reader' = reader /\ toCome' = toCome
          /\ Submit("owner", IF conn.role = "client" THEN "cleanup" ELSE "shutdown")
      BY <2>2 DEF Close
    <3> QED
      BY <1>5, <3>1, SubmitHolds
  <2>3. CASE ConnectTimesOut \/ GivesUp \/ Stop \/ Joined \/ JoinFails \/ Returns("owner")
    BY <1>1, <1>5, <2>3, IdleSteps
  <2>4. CASE Cleans
    <3>1. reader' = reader /\ toCome' = toCome /\ (task' = task \/ Submit("owner", "cleanup"))
      BY <2>4 DEF Cleans
    <3>2. CASE task' = task
      <4>1. Same(reader, reader', B)
        BY <3>1 DEF HInv, Same
      <4> QED
        BY <1>1, <3>1, <3>2, <4>1, Idle
    <3>3. CASE Submit("owner", "cleanup")
      BY <1>5, <3>1, <3>3, SubmitHolds
    <3> QED
      BY <3>1, <3>2, <3>3
  <2> QED
    BY <1>6, <2>1, <2>2, <2>3, <2>4 DEF Owner
<1>7. CASE User
  <2>1. CASE Begin
    <3>1. /\ reader' = reader /\ toCome' = toCome
          /\ task' = task \/ Submit("user", thread["user"].op)
      BY <2>1 DEF Begin
    <3>2. CASE task' = task
      <4>1. Same(reader, reader', B)
        BY <3>1 DEF HInv, Same
      <4> QED
        BY <1>1, <3>1, <3>2, <4>1, Idle
    <3>3. CASE Submit("user", thread["user"].op)
      BY <1>5, <3>1, <3>3, SubmitHolds
    <3> QED
      BY <3>1, <3>2, <3>3
  <2>2. CASE TimesOut
    BY <1>1, <2>2, MarkSteps
  <2>3. CASE accept \/ Check \/ Write \/ HandlerCloses \/ Returns("user")
    BY <1>1, <1>5, <2>3, IdleSteps
  <2> QED
    BY <1>7, <2>1, <2>2, <2>3 DEF User
<1> QED
  BY <1>3, <1>4, <1>6, <1>7 DEF Next

\* The blocking reads take what the peer sent in the order of the calls, and
\* leave no byte between two of them, whichever timed out and were retried.
\* The NUL of a CR NUL, which readline drops, is no byte of the input, and no
\* call times out before the loop has taken it up: see the README.
THEOREM ReadsInOrderHolds ==
  ASSUME Timeouts # "ever", NEW B, Input \subseteq Seq(B), "NUL" \notin B
  PROVE  Spec => []ReadsInOrder
<1>1. HInv(B) => ReadsInOrder
  BY DEF HInv, Whole, TakenBy, Helds, ReadsInOrder
<1>2. Init => IInv /\ RInv /\ HInv(B)
  BY InitEstablishes, InitReleases, InitHolds
<1>3. IInv /\ RInv /\ HInv(B) /\ [Next]_vars => (IInv /\ RInv /\ HInv(B))'
  <2> SUFFICES ASSUME IInv, RInv, HInv(B), [Next]_vars PROVE IInv' /\ RInv' /\ HInv(B)'
    OBVIOUS
  <2>1. IInv'
    BY StepKeeps
  <2>2. RInv'
    BY StepReleases
  <2>3. HInv(B)'
    BY <2>1, StepHolds
  <2> QED
    BY <2>1, <2>2, <2>3
<1> QED
  BY <1>1, <1>2, <1>3, PTL DEF Spec
=============================================================================
