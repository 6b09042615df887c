------------------------- MODULE ClientSessionProofs -------------------------
(***************************************************************************)
(* A client's session, for any input, watermarks, limit and bursts: what   *)
(* the transport delivered is what the shell has read, what the reader     *)
(* buffers and what the receive queue holds, put together; and neither the *)
(* receive task, the timer nor the loss of the connection finds the        *)
(* negotiation ended when it ends it, unless the opener's cancellation has *)
(* ended it, because `connected' goes with the removal of the timer and of *)
(* every handle of it.                                                     *)
(***************************************************************************)
EXTENDS ClientSession, TelnetReaderProofs

(***************************************************************************)
(* The folds.                                                              *)
(***************************************************************************)
Chunk == Seq(Nat)
Callback == {"begin_negotiation", "timer", "begin_shell", "open", "lost", "rx", "read", "shell", "poll"}
Handle == [name : Callback, n : Int]
Without(loop, name) == \A i \in DOMAIN loop : loop[i].name # name

AddBlock(e, data, item) == AndBlock(data, item)
AddChunk(e, data, chunk) == AndChunk(data, chunk)
KeepHandle(e, loop, h) == ButTimer(loop, h)

InNat(e, s) == s \in Seq(Nat)
HeadFirst(e, q) == q # <<>> => Queued(q) = Blocks(Head(q)) \o Queued(Tail(q))
TimerGone(e, l) ==
  /\ l \in Seq(Handle) /\ Without(l, "timer")
  /\ Without(e, "begin_negotiation") => Without(l, "begin_negotiation")

OfItems == INSTANCE FoldInduction WITH op <- AddBlock, P <- InNat
OfChunks == INSTANCE FoldInduction WITH op <- AddChunk, P <- InNat
Heads == INSTANCE FoldInduction WITH op <- AddChunk, P <- HeadFirst
OfHandles == INSTANCE FoldInduction WITH op <- KeepHandle, P <- TimerGone

LEMMA BlocksType == ASSUME NEW s \in Seq(Nat) PROVE Blocks(s) \in Seq(Nat)
<1>1. Blocks(s) = OfItems!Folded(<<>>, <<>>, s)
  BY DEF Blocks, AddBlock, OfItems!Folded, OfItems!IsFold, OfItems!Last, FoldLeft, MapThenFoldSet, Max
<1>2. InNat(<<>>, <<>>)
  BY EmptySeq DEF InNat
<1>3. ASSUME NEW u, NEW i \in DOMAIN s, InNat(<<>>, u) PROVE InNat(<<>>, AddBlock(<<>>, u, s[i]))
  <2>1. s[i] \in Nat
    BY ElementOfSeq, LenProperties
  <2> QED
    BY <1>3, <2>1, AppendProperties DEF InNat, AddBlock, AndBlock
<1>4. InNat(<<>>, OfItems!Folded(<<>>, <<>>, s))
  BY <1>2, <1>3, OfItems!FoldStays
<1> QED
  BY <1>1, <1>4 DEF InNat

LEMMA QueuedIsFold == \A q : Queued(q) = OfChunks!Folded(<<>>, <<>>, q)
BY DEF Queued, AddChunk, OfChunks!Folded, OfChunks!IsFold, OfChunks!Last, FoldLeft, MapThenFoldSet, Max

LEMMA QueuedComputes ==
  /\ Queued(<<>>) = <<>>
  /\ \A q \in Seq(Chunk), x \in Chunk : Queued(Append(q, x)) = Queued(q) \o Blocks(x)
<1>1. \A q \in Seq(Chunk), x \in Chunk :
        OfChunks!Folded(<<>>, <<>>, Append(q, x)) = AddChunk(<<>>, OfChunks!Folded(<<>>, <<>>, q), x)
  BY OfChunks!FoldOfAppend
<1>2. OfChunks!Folded(<<>>, <<>>, <<>>) = <<>>
  BY OfChunks!FoldOfNone
<1> QED
  BY <1>1, <1>2, QueuedIsFold DEF AddChunk, AndChunk

LEMMA QueuedType == ASSUME NEW q \in Seq(Chunk) PROVE Queued(q) \in Seq(Nat)
<1>2. InNat(<<>>, <<>>)
  BY EmptySeq DEF InNat
<1>3. ASSUME NEW u, NEW i \in DOMAIN q, InNat(<<>>, u) PROVE InNat(<<>>, AddChunk(<<>>, u, q[i]))
  <2>1. q[i] \in Seq(Nat)
    BY ElementOfSeq, LenProperties DEF Chunk
  <2>2. Blocks(q[i]) \in Seq(Nat)
    BY <2>1, BlocksType
  <2> QED
    BY <1>3, <2>2, ConcatProperties DEF InNat, AddChunk, AndChunk
<1>4. InNat(<<>>, OfChunks!Folded(<<>>, <<>>, q))
  BY <1>2, <1>3, OfChunks!FoldStays
<1> QED
  BY <1>4, QueuedIsFold DEF InNat

\* The tail of a sequence to which an element is appended.
LEMMA TailOfAppend ==
  ASSUME NEW X, NEW q \in Seq(X), NEW x \in X, q # <<>>
  PROVE  Head(Append(q, x)) = Head(q) /\ Tail(Append(q, x)) = Append(Tail(q), x)
<1> DEFINE n == Len(q)
           a == Append(q, x)
           t == Tail(q)
           l == Tail(a)
           r == Append(t, x)
<1>1. n \in Nat \ {0} /\ DOMAIN q = 1 .. n /\ Head(q) = q[1]
  BY EmptySeq, LenProperties, HeadTailProperties
<1>2. /\ a \in Seq(X) /\ Len(a) = n + 1 /\ a # <<>> /\ a[n + 1] = x
      /\ \A i \in 1 .. n : a[i] = q[i]
  BY AppendProperties
<1>3. t \in Seq(X) /\ Len(t) = n - 1 /\ \A i \in 1 .. n - 1 : t[i] = q[i + 1]
  BY HeadTailProperties
<1> HIDE DEF n, a, t
<1>4. /\ l \in Seq(X) /\ Len(l) = n /\ Head(a) = a[1] /\ \A i \in 1 .. n : l[i] = a[i + 1]
  BY <1>1, <1>2, HeadTailProperties
<1>5. /\ r \in Seq(X) /\ Len(r) = n /\ r[n] = x /\ \A i \in 1 .. n - 1 : r[i] = t[i]
  BY <1>1, <1>3, AppendProperties
<1> HIDE DEF l, r
<1>6. \A i \in 1 .. n : l[i] = r[i]
  <2> SUFFICES ASSUME NEW i \in 1 .. n PROVE l[i] = r[i]
    OBVIOUS
  <2>1. CASE i = n
    BY <1>1, <1>2, <1>4, <1>5, <2>1
  <2>2. CASE i # n
    <3>1. i \in 1 .. n - 1 /\ i + 1 \in 1 .. n
      BY <1>1, <2>2
    <3> QED
      BY <1>2, <1>3, <1>4, <1>5, <3>1
  <2> QED
    BY <2>1, <2>2
<1>7. l = r
  BY <1>4, <1>5, <1>6, SeqEqual
<1> QED
  BY <1>1, <1>2, <1>4, <1>7 DEF l, r, a, t

\* The data of a queue is that of its first chunk and then of the others.
LEMMA QueuedHead ==
  ASSUME NEW q \in Seq(Chunk), q # <<>>
  PROVE  Queued(q) = Blocks(Head(q)) \o Queued(Tail(q))
<1>1. HeadFirst(<<>>, <<>>)
  BY DEF HeadFirst
<1>2. ASSUME NEW s \in Seq(Chunk), NEW x \in Chunk, HeadFirst(<<>>, s)
      PROVE  HeadFirst(<<>>, Append(s, x))
  <2>1. Queued(Append(s, x)) = Queued(s) \o Blocks(x)
    BY QueuedComputes
  <2>2. Blocks(x) \in Seq(Nat)
    BY BlocksType DEF Chunk
  <2>3. CASE s = <<>>
    <3>1. Append(s, x) = <<x>> /\ Head(<<x>>) = x /\ Tail(<<x>>) = <<>>
      BY <2>3
    <3>2. <<>> \o Blocks(x) = Blocks(x) /\ Blocks(x) \o <<>> = Blocks(x)
      BY <2>2, ConcatEmptySeq
    <3> QED
      BY <2>1, <2>3, <3>1, <3>2, QueuedComputes DEF HeadFirst
  <2>4. CASE s # <<>>
    <3> DEFINE h == Head(s)
               t == Tail(s)
               a == Blocks(h)
               b == Queued(t)
               d == Blocks(x)
    <3>1. h \in Chunk /\ t \in Seq(Chunk)
      BY <2>4, HeadTailProperties
    <3>2. a \in Seq(Nat) /\ b \in Seq(Nat)
      BY <3>1, BlocksType, QueuedType DEF Chunk
    <3>3. Queued(s) = a \o b
      BY <1>2, <2>4 DEF HeadFirst
    <3>4. Queued(Append(t, x)) = b \o d
      BY <3>1, QueuedComputes
    <3>5. Head(Append(s, x)) = h /\ Tail(Append(s, x)) = Append(t, x)
      BY <2>4, TailOfAppend
    <3> HIDE DEF h, t, a, b, d
    <3>6. (a \o b) \o d = a \o (b \o d)
      BY <2>2, <3>2, ConcatAssociative, SMTT(30) DEF d
    <3>7. Queued(Append(s, x)) = a \o Queued(Append(t, x))
      BY <2>1, <3>3, <3>4, <3>6 DEF d
    <3> QED
      BY <3>5, <3>7 DEF HeadFirst, a
  <2> QED
    BY <2>3, <2>4
<1>3. HeadFirst(<<>>, q)
  BY <1>1, <1>2, Heads!PrefixInduction
<1> QED
  BY <1>3 DEF HeadFirst
(***************************************************************************)
(* The loop's handles.                                                     *)
(***************************************************************************)
LEMMA TimersGone ==
  ASSUME NEW l \in Seq(Handle)
  PROVE  TimerGone(l, FoldLeft(ButTimer, <<>>, l))
<1>1. FoldLeft(ButTimer, <<>>, l) = OfHandles!Folded(l, <<>>, l)
  BY DEF KeepHandle, OfHandles!Folded, OfHandles!IsFold, OfHandles!Last, FoldLeft, MapThenFoldSet, Max
<1>2. TimerGone(l, <<>>)
  <2>1. <<>> \in Seq(Handle) /\ DOMAIN <<>> = {}
    BY EmptySeq, LenProperties
  <2> QED
    BY <2>1 DEF TimerGone, Without
<1>3. ASSUME NEW u, NEW i \in DOMAIN l, TimerGone(l, u) PROVE TimerGone(l, KeepHandle(l, u, l[i]))
  <2>1. CASE l[i].name = "timer"
    BY <1>3, <2>1 DEF KeepHandle, ButTimer
  <2>2. CASE l[i].name # "timer"
    <3> DEFINE v == Append(u, l[i])
               n == Len(u)
    <3>1. l[i] \in Handle /\ u \in Seq(Handle)
      BY <1>3, ElementOfSeq, LenProperties DEF TimerGone
    <3>2. /\ v \in Seq(Handle) /\ n \in Nat /\ DOMAIN u = 1 .. n /\ DOMAIN v = 1 .. n + 1
          /\ v[n + 1] = l[i] /\ \A j \in 1 .. n : v[j] = u[j]
      BY <3>1, AppendProperties, LenProperties
    <3> HIDE DEF v, n
    <3>3. \A j \in DOMAIN v : v[j] = l[i] \/ (j \in DOMAIN u /\ v[j] = u[j])
      BY <3>2
    <3>4. TimerGone(l, v)
      BY <1>3, <2>2, <3>2, <3>3 DEF TimerGone, Without
    <3> QED
      BY <2>2, <3>4 DEF KeepHandle, ButTimer, v
  <2> QED
    BY <2>1, <2>2
<1>4. TimerGone(l, OfHandles!Folded(l, <<>>, l))
  BY <1>2, <1>3, OfHandles!FoldStays
<1> QED
  BY <1>1, <1>4

LEMMA HandleMore ==
  ASSUME NEW l \in Seq(Handle), NEW h \in Handle, NEW name
  PROVE  /\ Append(l, h) \in Seq(Handle) /\ Append(l, h) # <<>>
         /\ Without(l, name) /\ h.name # name => Without(Append(l, h), name)
<1> DEFINE v == Append(l, h)
           n == Len(l)
<1>1. /\ v \in Seq(Handle) /\ n \in Nat /\ DOMAIN l = 1 .. n /\ DOMAIN v = 1 .. n + 1 /\ v # <<>>
      /\ v[n + 1] = h /\ \A j \in 1 .. n : v[j] = l[j]
  BY AppendProperties, LenProperties
<1> HIDE DEF v, n
<1>2. \A j \in DOMAIN v : v[j] = h \/ (j \in DOMAIN l /\ v[j] = l[j])
  BY <1>1
<1>3. Without(l, name) /\ h.name # name => Without(v, name)
  BY <1>2 DEF Without
<1> QED
  BY <1>1, <1>3 DEF v

LEMMA HandleLess ==
  ASSUME NEW l \in Seq(Handle), l # <<>>, NEW name
  PROVE  /\ Tail(l) \in Seq(Handle) /\ Head(l) \in Handle
         /\ Without(l, name) => Without(Tail(l), name) /\ Head(l).name # name
         /\ Without(Tail(l), name) /\ Head(l).name # name => Without(l, name)
<1> DEFINE t == Tail(l)
           n == Len(l)
<1>1. /\ t \in Seq(Handle) /\ n \in Nat \ {0} /\ DOMAIN l = 1 .. n /\ DOMAIN t = 1 .. n - 1
      /\ Head(l) = l[1] /\ Head(l) \in Handle /\ \A j \in 1 .. n - 1 : t[j] = l[j + 1]
  BY EmptySeq, HeadTailProperties, LenProperties
<1> HIDE DEF t, n
<1>2. 1 \in DOMAIN l /\ \A j \in DOMAIN t : j + 1 \in DOMAIN l /\ t[j] = l[j + 1]
  BY <1>1
<1>3. Without(l, name) => Without(t, name) /\ Head(l).name # name
  BY <1>1, <1>2 DEF Without
<1>4. Without(t, name) /\ Head(l).name # name => Without(l, name)
  <2> SUFFICES ASSUME Without(t, name), Head(l).name # name, NEW i \in DOMAIN l PROVE l[i].name # name
    BY DEF Without
  <2>1. CASE i = 1
    BY <1>1, <2>1
  <2>2. CASE i # 1
    <3>1. i - 1 \in DOMAIN t /\ t[i - 1] = l[(i - 1) + 1] /\ (i - 1) + 1 = i
      BY <1>1, <2>2
    <3>2. t[i - 1].name # name
      BY <3>1 DEF Without
    <3> QED
      BY <3>1, <3>2
  <2> QED
    BY <2>1, <2>2
<1> QED
  BY <1>1, <1>3, <1>4 DEF t

(***************************************************************************)
(* A client once its negotiation has begun.                                *)
(***************************************************************************)
ClientFields ==
  {"loop", "clock", "opening", "reader", "transport", "closing", "connected", "closed", "raised",
   "rx_queue", "rx", "processed", "any_cmd", "reading_paused", "check_later", "pending", "critical",
   "shell"}

IsClient(s) ==
  /\ DOMAIN s = ClientFields /\ s.loop \in Seq(Handle)
  /\ IsReader(s.reader, Nat) /\ s.rx_queue \in Seq(Chunk)
  /\ s.connected \in BOOLEAN /\ s.closing \in BOOLEAN /\ s.transport \in BOOLEAN

\* Begun, and the negotiation is over just when no timer is due or ready,
\* unless a cancelled opener has ended it.
Good(s) ==
  /\ IsClient(s)
  /\ Without(s.loop, "begin_negotiation")
  /\ IF s.opening = "cancelled" THEN s.connected
     ELSE /\ s.connected => s.check_later = "none" /\ Without(s.loop, "timer")
          /\ ~s.connected => s.check_later # "none"
          /\ s.raised = FALSE
  /\ s.closing => ~s.transport

\* The data on its way to the shell.
Data(s) == s.reader.buffer \o Queued(s.rx_queue)

Keeps(s, t) == Good(t) /\ Data(t) = Data(s) /\ t.closing = s.closing

LEMMA DataType == ASSUME NEW s, IsClient(s) PROVE Data(s) \in Seq(Nat)
<1>1. s.reader.buffer \in Seq(Nat) /\ Queued(s.rx_queue) \in Seq(Nat)
  BY QueuedType DEF IsClient, IsReader
<1> QED
  BY <1>1, ConcatProperties DEF Data

\* A callback is scheduled that neither begins nor is the timer's.
Ordinary(name) == name \in Callback /\ name # "begin_negotiation" /\ name # "timer"
LEMMA Callbacks ==
  /\ Ordinary("shell") /\ Ordinary("begin_shell") /\ Ordinary("open") /\ Ordinary("rx")
  /\ Ordinary("lost") /\ Ordinary("read") /\ Ordinary("poll")
<1>1. Ordinary("shell")
  BY DEF Ordinary, Callback
<1>2. Ordinary("begin_shell")
  BY DEF Ordinary, Callback
<1>3. Ordinary("open")
  BY DEF Ordinary, Callback
<1>4. Ordinary("rx")
  BY DEF Ordinary, Callback
<1>5. Ordinary("lost")
  BY DEF Ordinary, Callback
<1>6. Ordinary("read")
  BY DEF Ordinary, Callback
<1>7. Ordinary("poll")
  BY DEF Ordinary, Callback
<1> QED
  BY <1>1, <1>2, <1>3, <1>4, <1>5, <1>6, <1>7

\* Two clients that differ in nothing Good and Data speak of but the loop.
ButLoop(s, t) ==
  /\ DOMAIN t = ClientFields
  /\ t.reader = s.reader /\ t.rx_queue = s.rx_queue /\ t.connected = s.connected
  /\ t.closing = s.closing /\ t.transport = s.transport
  /\ t.check_later = s.check_later /\ t.raised = s.raised 
  /\ (t.opening = "cancelled") = (s.opening = "cancelled")

LEMMA LoopKeeps ==
  ASSUME NEW s, Good(s), NEW t, ButLoop(s, t), t.loop \in Seq(Handle),
         Without(t.loop, "begin_negotiation"), Without(s.loop, "timer") => Without(t.loop, "timer")
  PROVE  Keeps(s, t)
BY DEF Good, IsClient, Keeps, Data, ButLoop

\* A step that leaves alone what Good and Data speak of.
LEMMA AsideKeeps ==
  ASSUME NEW s, Good(s), NEW t, ButLoop(s, t), t.loop = s.loop
  PROVE  Keeps(s, t)
BY DEF Good, IsClient, Keeps, Data, ButLoop

LEMMA CallSoonKeeps ==
  ASSUME NEW s, Good(s), NEW name, Ordinary(name)
  PROVE  /\ Keeps(s, CallSoon(s, name)) /\ CallSoon(s, name).loop # <<>>
         /\ CallSoon(s, name).connected = s.connected /\ CallSoon(s, name).transport = s.transport
<1> DEFINE h == H(name, 0)
           t == CallSoon(s, name)
           l == Append(s.loop, h)
<1>1. h \in Handle /\ h.name = name /\ name # "begin_negotiation" /\ name # "timer"
  BY DEF H, Handle, Ordinary
<1>2. s.loop \in Seq(Handle) /\ Without(s.loop, "begin_negotiation")
  BY DEF Good, IsClient
<1> HIDE DEF h
<1>3. l \in Seq(Handle) /\ l # <<>> /\ (Without(s.loop, "timer") => Without(l, "timer"))
  BY <1>1, <1>2, HandleMore
<1>4. Without(l, "begin_negotiation")
  BY <1>1, <1>2, HandleMore
<1> HIDE DEF l
<1>5. t = [s EXCEPT !.loop = l]
  BY DEF CallSoon, h, l
<1> HIDE DEF t
<1>6. ButLoop(s, t) /\ t.loop = l
  BY <1>5 DEF Good, IsClient, ClientFields, ButLoop
<1>7. Keeps(s, t)
  BY <1>3, <1>4, <1>6, LoopKeeps
<1> QED
  BY <1>3, <1>6, <1>7 DEF t, ButLoop

LEMMA CloseKeeps ==
  ASSUME NEW s, Good(s)
  PROVE  Keeps(s, CloseTransport(s))
<1> DEFINE h == H("lost", 1)
           l == Append(s.loop, h)
           t == [s EXCEPT !.loop = Append(@, H("lost", 1))]
<1>1. h \in Handle /\ h.name = "lost"
  BY DEF H, Handle, Callback
<1>2. s.loop \in Seq(Handle) /\ Without(s.loop, "begin_negotiation")
  BY DEF Good, IsClient
<1>5. ButLoop(s, t) /\ t.loop = l
  BY DEF Good, IsClient, ClientFields, ButLoop
<1> HIDE DEF h, t
<1>3. l \in Seq(Handle) /\ (Without(s.loop, "timer") => Without(l, "timer"))
  BY <1>1, <1>2, HandleMore
<1>4. Without(l, "begin_negotiation")
  BY <1>1, <1>2, HandleMore
<1> HIDE DEF l
<1>6. Keeps(s, t)
  BY <1>3, <1>4, <1>5, LoopKeeps
<1>7. CloseTransport(s) = t \/ CloseTransport(s) = s
  BY DEF CloseTransport, t
<1> QED
  BY <1>6, <1>7 DEF Keeps

\* A reader with as much in its buffer.
LEMMA WithReaderKeeps ==
  ASSUME NEW s, Good(s), NEW r, IsReader(r, Nat)
  PROVE  /\ Good(WithReader(s, r)) /\ WithReader(s, r).closing = s.closing
         /\ Data(WithReader(s, r)) = r.buffer \o Queued(s.rx_queue)
         /\ WithReader(s, r).connected = s.connected /\ WithReader(s, r).transport = s.transport
         /\ s.loop # <<>> => WithReader(s, r).loop # <<>>
<1> DEFINE t == [s EXCEPT !.reader = r]
<1>0. /\ DOMAIN t = ClientFields /\ t.reader = r /\ t.loop = s.loop /\ t.rx_queue = s.rx_queue
      /\ t.connected = s.connected /\ t.closing = s.closing /\ t.transport = s.transport
      /\ t.check_later = s.check_later /\ t.raised = s.raised /\ t.opening = s.opening
  BY DEF Good, IsClient, ClientFields
<1> HIDE DEF t
<1>1. Good(t) /\ Data(t) = r.buffer \o Queued(s.rx_queue)
  BY <1>0 DEF Good, IsClient, Data
<1>2. /\ Keeps(t, CallSoon(t, "shell")) /\ CallSoon(t, "shell").connected = t.connected
      /\ CallSoon(t, "shell").transport = t.transport /\ CallSoon(t, "shell").loop # <<>>
  BY <1>1, Callbacks, CallSoonKeeps
<1>3. WithReader(s, r) = t \/ WithReader(s, r) = CallSoon(t, "shell")
  BY DEF WithReader, t
<1> QED
  BY <1>0, <1>1, <1>2, <1>3 DEF Keeps

\* The negotiation is over, or is about to end without its timers.
Calm(s) ==
  /\ IsClient(s) /\ Without(s.loop, "begin_negotiation") /\ Without(s.loop, "timer")
  /\ s.check_later = "none" /\ (s.opening # "cancelled" => s.raised = FALSE)
  /\ (s.closing => ~s.transport) /\ (s.opening = "cancelled" => s.connected)

\* The negotiation ends, when it has not.
Ending(s) == Calm(s) /\ ~s.connected

LEMMA SetConnectedKeeps ==
  ASSUME NEW s, Ending(s)
  PROVE  Keeps(s, SetConnected(s)) /\ SetConnected(s).loop # <<>>
<1> DEFINE t == [s EXCEPT !.connected = TRUE]
           begun == CallSoon(t, "begin_shell")
<1>5. /\ DOMAIN t = ClientFields /\ t.connected = TRUE /\ t.transport = s.transport /\ t.closing = s.closing
      /\ t.loop = s.loop /\ t.reader = s.reader /\ t.rx_queue = s.rx_queue
      /\ t.check_later = s.check_later /\ t.raised = s.raised /\ t.opening = s.opening
  BY DEF Ending, Calm, IsClient, ClientFields
<1> HIDE DEF t
<1>1. Keeps(s, t)
  BY <1>5 DEF Ending, Calm, Good, IsClient, Keeps, Data
<1>2. Keeps(t, begun) /\ begun.loop # <<>>
  BY <1>1, Callbacks, CallSoonKeeps DEF Keeps
<1> HIDE DEF begun
<1>3. Keeps(begun, CallSoon(begun, "open")) /\ CallSoon(begun, "open").loop # <<>>
  BY <1>2, Callbacks, CallSoonKeeps DEF Keeps
<1>4. SetConnected(s) = begun \/ SetConnected(s) = CallSoon(begun, "open")
  BY DEF SetConnected, Ending, Calm, begun, t
<1> QED
  BY <1>1, <1>2, <1>3, <1>4 DEF Keeps

LEMMA UntimedKeeps ==
  ASSUME NEW s, IsClient(s), Without(s.loop, "begin_negotiation")
  PROVE  /\ IsClient(Untimed(s)) /\ Without(Untimed(s).loop, "begin_negotiation")
         /\ Without(Untimed(s).loop, "timer") /\ Untimed(s) = [s EXCEPT !.loop = Untimed(s).loop]
<1> DEFINE l == FoldLeft(ButTimer, <<>>, s.loop)
<1>1. TimerGone(s.loop, l)
  BY TimersGone DEF IsClient
<1> HIDE DEF l
<1>2. Untimed(s) = [s EXCEPT !.loop = l]
  BY DEF Untimed, l
<1> QED
  BY <1>1, <1>2 DEF IsClient, ClientFields, TimerGone

\* Mid or late: the check is made while the negotiation is not over.
LEMMA CheckKeeps ==
  ASSUME NEW s, Good(s), ~s.connected \/ s.opening = "cancelled"
  PROVE  Keeps(s, _check_negotiation_timer(s))
<1> DEFINE u == Untimed(s)
           t == [u EXCEPT !.check_later = "none"]
           v == CheckLater(t)
           w == [s EXCEPT !.raised = TRUE]
           x == [t EXCEPT !.raised = TRUE]
<1>1. /\ IsClient(u) /\ Without(u.loop, "begin_negotiation") /\ Without(u.loop, "timer")
      /\ u = [s EXCEPT !.loop = u.loop]
  BY UntimedKeeps DEF Good
<1> HIDE DEF u
<1>6. /\ DOMAIN u = ClientFields /\ u.connected = s.connected /\ u.transport = s.transport
      /\ u.closing = s.closing /\ u.reader = s.reader /\ u.rx_queue = s.rx_queue /\ u.raised = s.raised
      /\ u.opening = s.opening
  BY <1>1 DEF Good, IsClient, ClientFields
<1>7. /\ DOMAIN t = ClientFields /\ t.connected = s.connected /\ t.transport = s.transport
      /\ t.closing = s.closing /\ t.reader = s.reader /\ t.rx_queue = s.rx_queue /\ t.raised = s.raised
      /\ t.opening = s.opening
      /\ t.loop = u.loop /\ t.check_later = "none"
  BY <1>6 DEF ClientFields
<1> HIDE DEF t
<1>8. /\ DOMAIN v = ClientFields /\ v.connected = s.connected /\ v.transport = s.transport
      /\ v.closing = s.closing /\ v.reader = s.reader /\ v.rx_queue = s.rx_queue /\ v.raised = s.raised
      /\ v.opening = s.opening
      /\ v.loop = u.loop /\ v.check_later # "none"
  BY <1>7 DEF ClientFields, CheckLater
<1> HIDE DEF v
<1>2. Calm(t) /\ Data(t) = Data(s) /\ t.closing = s.closing
  BY <1>1, <1>7 DEF Good, IsClient, Calm, Data
<1>3. Good(v) /\ Data(v) = Data(s) /\ v.closing = s.closing
  BY <1>1, <1>8 DEF Good, IsClient, Data
<1>4. Keeps(t, SetConnected(t))
  <2>1. CASE ~t.connected
    BY <1>2, <2>1, SetConnectedKeeps DEF Ending
  <2>2. CASE t.connected
    <3>1. t.opening = "cancelled" /\ SetConnected(t) = x
      BY <1>7, <2>2 DEF SetConnected
    <3>2. /\ DOMAIN x = ClientFields /\ x.loop = t.loop /\ x.reader = t.reader /\ x.rx_queue = t.rx_queue
          /\ x.connected = t.connected /\ x.closing = t.closing /\ x.transport = t.transport
          /\ x.opening = t.opening
      BY <1>7 DEF ClientFields
    <3> HIDE DEF x
    <3> QED
      BY <1>2, <2>2, <3>1, <3>2 DEF Calm, IsClient, Good, Keeps, Data
  <2> QED
    BY <2>1, <2>2
<1>5. s.opening = "cancelled" => Keeps(s, w)
  <2>1. /\ DOMAIN w = ClientFields /\ w.loop = s.loop /\ w.reader = s.reader /\ w.rx_queue = s.rx_queue
        /\ w.connected = s.connected /\ w.closing = s.closing /\ w.transport = s.transport
        /\ w.opening = s.opening
    BY DEF Good, IsClient, ClientFields
  <2> HIDE DEF w
  <2> QED
    BY <2>1 DEF Good, IsClient, Keeps, Data
<1>9. \/ _check_negotiation_timer(s) = SetConnected(t) \/ _check_negotiation_timer(s) = v
      \/ s.opening = "cancelled" /\ _check_negotiation_timer(s) = w
  BY DEF _check_negotiation_timer, Good, w, v, t, u
<1> QED
  BY <1>2, <1>3, <1>4, <1>5, <1>9 DEF Keeps

LEMMA CalmWithReader ==
  ASSUME NEW s, Calm(s), NEW r, IsReader(r, Nat)
  PROVE  /\ Calm(WithReader(s, r)) /\ WithReader(s, r).closing = s.closing
         /\ Data(WithReader(s, r)) = r.buffer \o Queued(s.rx_queue)
         /\ s.loop # <<>> => WithReader(s, r).loop # <<>>
<1> DEFINE t == [s EXCEPT !.reader = r]
           h == H("shell", 0)
           l == Append(s.loop, h)
           u == [t EXCEPT !.loop = l]
<1>1. h \in Handle /\ h.name = "shell"
  BY DEF H, Handle, Callback
<1>2. s.loop \in Seq(Handle)
  BY DEF Calm, IsClient
<1> HIDE DEF h
<1>3. l \in Seq(Handle) /\ l # <<>> /\ (Without(s.loop, "timer") => Without(l, "timer"))
  BY <1>1, <1>2, HandleMore
<1>4. Without(s.loop, "begin_negotiation") => Without(l, "begin_negotiation")
  BY <1>1, <1>2, HandleMore
<1> HIDE DEF l
<1>5. /\ DOMAIN t = ClientFields /\ t.reader = r /\ t.loop = s.loop /\ t.rx_queue = s.rx_queue
      /\ t.connected = s.connected /\ t.closing = s.closing /\ t.transport = s.transport
      /\ t.check_later = s.check_later /\ t.raised = s.raised /\ t.opening = s.opening
  BY DEF Calm, IsClient, ClientFields
<1> HIDE DEF t
<1>6. /\ DOMAIN u = ClientFields /\ u.reader = r /\ u.loop = l /\ u.rx_queue = s.rx_queue
      /\ u.connected = s.connected /\ u.closing = s.closing /\ u.transport = s.transport
      /\ u.check_later = s.check_later /\ u.raised = s.raised /\ u.opening = s.opening
  BY <1>5 DEF ClientFields
<1> HIDE DEF u
<1>7. Calm(t) /\ Data(t) = r.buffer \o Queued(s.rx_queue)
  BY <1>5 DEF Calm, IsClient, Data
<1>8. Calm(u) /\ Data(u) = r.buffer \o Queued(s.rx_queue)
  BY <1>3, <1>4, <1>6 DEF Calm, IsClient, Data
<1>9. WithReader(s, r) = t \/ WithReader(s, r) = u
  BY DEF WithReader, CallSoon, t, u, l, h
<1> QED
  BY <1>3, <1>5, <1>6, <1>7, <1>8, <1>9

\* What is left of a loop whose first handle is not the timer's.
FirstStays(e, l) == l # <<>> /\ Head(l).name # "timer" => FoldLeft(ButTimer, <<>>, l) # <<>>
Firsts == INSTANCE FoldInduction WITH op <- KeepHandle, P <- FirstStays

LEMMA HeadStays ==
  ASSUME NEW l \in Seq(Handle), l # <<>>, Head(l).name # "timer"
  PROVE  FoldLeft(ButTimer, <<>>, l) # <<>>
<1>0. \A q : FoldLeft(ButTimer, <<>>, q) = Firsts!Folded(<<>>, <<>>, q)
  BY DEF KeepHandle, Firsts!Folded, Firsts!IsFold, Firsts!Last, FoldLeft, MapThenFoldSet, Max
<1>1. FirstStays(<<>>, <<>>)
  BY DEF FirstStays
<1>2. ASSUME NEW s \in Seq(Handle), NEW x \in Handle, FirstStays(<<>>, s)
      PROVE  FirstStays(<<>>, Append(s, x))
  <2> DEFINE f == FoldLeft(ButTimer, <<>>, s)
             g == FoldLeft(ButTimer, <<>>, Append(s, x))
  <2>1. g = ButTimer(f, x)
    <3>1. Firsts!Folded(<<>>, <<>>, Append(s, x)) = KeepHandle(<<>>, Firsts!Folded(<<>>, <<>>, s), x)
      BY Firsts!FoldOfAppend
    <3> QED
      BY <1>0, <3>1 DEF KeepHandle
  <2>2. f \in Seq(Handle)
    BY TimersGone DEF TimerGone
  <2> HIDE DEF f, g
  <2>3. CASE s = <<>>
    <3>1. Head(Append(s, x)) = x
      BY <2>3
    <3>2. Append(f, x) # <<>>
      BY <2>2, AppendProperties
    <3> QED
      BY <2>1, <3>1, <3>2 DEF FirstStays, ButTimer, g
  <2>4. CASE s # <<>>
    <3>1. Head(Append(s, x)) = Head(s)
      BY <2>4, TailOfAppend
    <3>2. Append(f, x) # <<>>
      BY <2>2, AppendProperties
    <3> QED
      BY <1>2, <2>1, <2>4, <3>1, <3>2 DEF FirstStays, ButTimer, f, g
  <2> QED
    BY <2>3, <2>4
<1>3. FirstStays(<<>>, l)
  BY <1>1, <1>2, Firsts!PrefixInduction
<1> QED
  BY <1>3 DEF FirstStays

(***************************************************************************)
(* The connection is lost.                                                 *)
(***************************************************************************)
\* A handle that is not the timer's is due.
Stands(loop) == loop # <<>> /\ Head(loop).name # "timer"
\* What the receive queue held is dropped.
Loses(s, t) ==
  /\ Good(t) /\ t.closing = TRUE /\ Data(t) = s.reader.buffer
  /\ Stands(s.loop) => t.loop # <<>>

LEMMA LostKeeps ==
  ASSUME NEW s, Good(s), ~s.closing, NEW exc
  PROVE  Loses(s, connection_lost(s, exc))
<1> DEFINE d == [s EXCEPT !.closing = TRUE, !.rx_queue = <<>>, !.transport = FALSE,
                          !.rx = IF @ = "ready" THEN "cancelled" ELSE @, !.check_later = "none"]
           u == Untimed(d)
           r == IF exc THEN set_exception(s.reader) ELSE feed_eof(s.reader)
           told == WithReader(u, r)
           done == IF told.connected THEN told ELSE SetConnected(told)
           over == IF HasShell THEN done ELSE [done EXCEPT !.closed = TRUE]
<1>1. /\ DOMAIN d = ClientFields /\ d.reader = s.reader /\ d.loop = s.loop /\ d.rx_queue = <<>>
      /\ d.connected = s.connected /\ d.closing = TRUE /\ d.transport = FALSE
      /\ d.check_later = "none" /\ d.raised = s.raised /\ d.opening = s.opening
  BY DEF Good, IsClient, ClientFields
<1> HIDE DEF d
<1>2. IsClient(d) /\ Without(d.loop, "begin_negotiation")
  <2>1. <<>> \in Seq(Chunk)
    BY EmptySeq
  <2> QED
    BY <1>1, <2>1 DEF Good, IsClient
<1>3. /\ IsClient(u) /\ Without(u.loop, "begin_negotiation") /\ Without(u.loop, "timer")
      /\ u = [d EXCEPT !.loop = u.loop]
  BY <1>2, UntimedKeeps
<1>4. Stands(s.loop) => u.loop # <<>>
  <2> SUFFICES ASSUME Stands(s.loop) PROVE u.loop # <<>>
    OBVIOUS
  <2>1. u.loop = FoldLeft(ButTimer, <<>>, d.loop)
    BY <1>1 DEF Untimed, ClientFields
  <2>2. FoldLeft(ButTimer, <<>>, s.loop) # <<>>
    BY HeadStays DEF Good, IsClient, Stands
  <2> QED
    BY <1>1, <2>1, <2>2
<1> HIDE DEF u
<1>5. /\ DOMAIN u = ClientFields /\ u.reader = d.reader /\ u.rx_queue = d.rx_queue
      /\ u.closing = d.closing /\ u.transport = d.transport /\ u.connected = d.connected
      /\ u.check_later = d.check_later /\ u.raised = d.raised /\ u.opening = d.opening
  BY <1>1, <1>3 DEF ClientFields
<1>6. Calm(u)
  BY <1>1, <1>3, <1>5 DEF Calm, Good
<1>7. IsReader(r, Nat) /\ r.buffer = s.reader.buffer
  BY WakingKeeps DEF Same, Good, IsClient
<1> HIDE DEF r
<1>8. /\ Calm(told) /\ told.closing = TRUE /\ (u.loop # <<>> => told.loop # <<>>)
      /\ Data(told) = s.reader.buffer
  <2>1. /\ Calm(told) /\ told.closing = u.closing /\ (u.loop # <<>> => told.loop # <<>>)
        /\ Data(told) = r.buffer \o Queued(u.rx_queue)
    BY <1>6, <1>7, CalmWithReader
  <2>2. Queued(u.rx_queue) = <<>> /\ r.buffer \in Seq(Nat)
    BY <1>1, <1>5, <1>7, QueuedComputes DEF IsReader
  <2>3. r.buffer \o <<>> = r.buffer
    BY <2>2, ConcatEmptySeq
  <2> HIDE DEF told
  <2> QED
    BY <1>1, <1>5, <1>7, <2>1, <2>2, <2>3
<1> HIDE DEF told
<1>9. /\ Good(done) /\ done.closing = TRUE /\ (told.loop # <<>> => done.loop # <<>>)
      /\ Data(done) = s.reader.buffer
  <2>1. CASE told.connected
    BY <1>8, <2>1 DEF Good, Calm
  <2>2. CASE ~told.connected
    <3>1. Keeps(told, SetConnected(told)) /\ SetConnected(told).loop # <<>>
      BY <1>8, <2>2, SetConnectedKeeps DEF Ending
    <3> QED
      BY <1>8, <2>2, <3>1 DEF Keeps
  <2> QED
    BY <2>1, <2>2
<1> HIDE DEF done
<1>10. /\ Good(over) /\ over.closing = TRUE /\ (done.loop # <<>> => over.loop # <<>>)
       /\ Data(over) = s.reader.buffer
  <2>1. CASE HasShell
    BY <1>9, <2>1
  <2>2. CASE ~HasShell
    <3> DEFINE x == [done EXCEPT !.closed = TRUE]
    <3>1. ButLoop(done, x) /\ x.loop = done.loop
      BY <1>9 DEF Good, IsClient, ButLoop, ClientFields
    <3> HIDE DEF x
    <3>2. Keeps(done, x)
      BY <1>9, <3>1, AsideKeeps
    <3> QED
      BY <1>9, <2>2, <3>1, <3>2 DEF Keeps, x
  <2> QED
    BY <2>1, <2>2
<1>11. connection_lost(s, exc) = over
  BY DEF connection_lost, over, done, told, r, u, d
<1> QED
  BY <1>4, <1>8, <1>9, <1>10, <1>11 DEF Loses

\* The first handle has run, or is still there in another form.
LEMMA RestKeeps ==
  ASSUME NEW s, Good(s), s.loop # <<>>
  PROVE  Keeps(s, [s EXCEPT !.loop = Tail(@)]) /\ [s EXCEPT !.loop = Tail(@)].connected = s.connected
<1> DEFINE l == Tail(s.loop)
           t == [s EXCEPT !.loop = Tail(@)]
<1>1. s.loop \in Seq(Handle) /\ Without(s.loop, "begin_negotiation")
  BY DEF Good, IsClient
<1>2. l \in Seq(Handle) /\ Without(l, "begin_negotiation")
  BY <1>1, HandleLess
<1>3. Without(s.loop, "timer") => Without(l, "timer")
  BY <1>1, HandleLess
<1>4. ButLoop(s, t) /\ t.loop = l
  BY DEF Good, IsClient, ButLoop, ClientFields
<1> HIDE DEF t, l
<1>5. Keeps(s, t)
  BY <1>2, <1>3, <1>4, LoopKeeps
<1> QED
  BY <1>4, <1>5 DEF t, ButLoop

LEMMA AgainKeeps ==
  ASSUME NEW s, Good(s), s.loop # <<>>
  PROVE  Keeps(s, Again(s))
<1> DEFINE l == s.loop
           h == [l[1] EXCEPT !.n = @ - 1]
           m == [l EXCEPT ![1] = h]
           t == [s EXCEPT !.loop[1].n = @ - 1]
<1>1. l \in Seq(Handle) /\ Without(l, "begin_negotiation") /\ Len(l) \in Nat \ {0} /\ DOMAIN l = 1 .. Len(l)
  BY EmptySeq, LenProperties DEF Good, IsClient
<1>2. l[1] \in Handle
  BY <1>1, ElementOfSeq
<1>3. h \in Handle /\ h.name = l[1].name
  BY <1>2 DEF Handle
<1> HIDE DEF h
<1>4. /\ m \in Seq(Handle) /\ DOMAIN m = DOMAIN l /\ \A i \in DOMAIN l : m[i].name = l[i].name
  <2>1. DOMAIN m = 1 .. Len(l) /\ \A i \in 1 .. Len(l) : m[i] \in Handle /\ m[i].name = l[i].name
    BY <1>1, <1>3, ElementOfSeq
  <2>2. m \in [1 .. Len(l) -> Handle]
    BY <1>1, <1>3, ElementOfSeq
  <2> QED
    BY <1>1, <2>1, <2>2, SeqDef
<1>5. t = [s EXCEPT !.loop = m]
  BY <1>1, <1>2 DEF h, Good, IsClient, ClientFields, Handle
<1> HIDE DEF m, t
<1>6. ButLoop(s, t) /\ t.loop = m
  BY <1>5 DEF Good, IsClient, ButLoop, ClientFields
<1>7. Keeps(s, t)
  <2>1. Without(m, "begin_negotiation") /\ (Without(l, "timer") => Without(m, "timer"))
    BY <1>1, <1>4 DEF Without
  <2> QED
    BY <1>4, <1>6, <2>1, LoopKeeps
<1>8. Keeps(s, [s EXCEPT !.loop = Tail(@)])
  BY RestKeeps
<1> QED
  BY <1>7, <1>8 DEF Again, t

(***************************************************************************)
(* The receive queue.                                                      *)
(***************************************************************************)
\* A client whose queue or whose reader, but nothing else, has changed.
LEMMA QueueKeeps ==
  ASSUME NEW s, Good(s), NEW q \in Seq(Chunk), NEW t, DOMAIN t = ClientFields, t.loop = s.loop,
         t.reader = s.reader, t.rx_queue = q, t.connected = s.connected, t.closing = s.closing,
         t.transport = s.transport, t.check_later = s.check_later, t.raised = s.raised,
         t.opening = s.opening
  PROVE  Good(t) /\ Data(t) = s.reader.buffer \o Queued(q) /\ t.closing = s.closing
BY DEF Good, IsClient, Data

LEMMA ReceivesKeeps ==
  ASSUME NEW s, Good(s), NEW chunk \in Chunk
  PROVE  /\ Good(data_received(s, chunk)) /\ data_received(s, chunk).closing = s.closing
         /\ Data(data_received(s, chunk)) = Data(s) \o Blocks(chunk)
<1> DEFINE q == Append(s.rx_queue, chunk)
           t == QueueRx(s, chunk)
           ready == [t EXCEPT !.rx = "ready"]
           started == StartRx(t)
           paused == [started EXCEPT !.reading_paused = TRUE, !.reader.reading = FALSE]
<1>1. q \in Seq(Chunk) /\ s.rx_queue \in Seq(Chunk) /\ IsReader(s.reader, Nat)
  BY AppendProperties DEF Good, IsClient
<1>2. Queued(q) = Queued(s.rx_queue) \o Blocks(chunk)
  BY <1>1, QueuedComputes
<1>3. s.reader.buffer \in Seq(Nat) /\ Queued(s.rx_queue) \in Seq(Nat) /\ Blocks(chunk) \in Seq(Nat)
  BY <1>1, QueuedType, BlocksType DEF IsReader, Chunk
<1>4. s.reader.buffer \o Queued(q) = Data(s) \o Blocks(chunk)
  <2> DEFINE b == s.reader.buffer
             k == Queued(s.rx_queue)
             d == Blocks(chunk)
  <2>1. b \in Seq(Nat) /\ k \in Seq(Nat) /\ d \in Seq(Nat)
    BY <1>3
  <2> HIDE DEF b, k, d
  <2>2. (b \o k) \o d = b \o (k \o d)
    BY <2>1, ConcatAssociative, SMTT(30)
  <2> QED
    BY <1>2, <2>2 DEF Data, b, k, d
<1> HIDE DEF q
<1>5. /\ DOMAIN t = ClientFields /\ t.loop = s.loop /\ t.reader = s.reader /\ t.rx_queue = q
      /\ t.connected = s.connected /\ t.closing = s.closing /\ t.transport = s.transport
      /\ t.check_later = s.check_later /\ t.raised = s.raised /\ t.opening = s.opening
  BY DEF QueueRx, q, Good, IsClient, ClientFields
<1> HIDE DEF t
<1>6. Good(t) /\ Data(t) = Data(s) \o Blocks(chunk) /\ t.closing = s.closing
  BY <1>1, <1>4, <1>5, QueueKeeps
<1>7. Keeps(t, ready)
  <2>1. ButLoop(t, ready) /\ ready.loop = t.loop
    BY <1>5 DEF ButLoop, ClientFields
  <2> HIDE DEF ready
  <2> QED
    BY <1>6, <2>1, AsideKeeps
<1> HIDE DEF ready
<1>8. Keeps(ready, CallSoon(ready, "rx"))
  BY <1>7, Callbacks, CallSoonKeeps DEF Keeps
<1>9. started = t \/ started = CallSoon(ready, "rx")
  BY DEF StartRx, ready
<1> HIDE DEF started
<1>10. Good(started) /\ Data(started) = Data(t) /\ started.closing = t.closing
  BY <1>6, <1>7, <1>8, <1>9 DEF Keeps
<1>11. Keeps(started, paused)
  <2> DEFINE r == [started.reader EXCEPT !.reading = FALSE]
  <2>1. IsReader(r, Nat) /\ r.buffer = started.reader.buffer
    BY <1>10 DEF Good, IsClient, IsReader, ReaderFields
  <2>2. paused = [started EXCEPT !.reading_paused = TRUE, !.reader = r]
    BY <1>10 DEF Good, IsClient, ClientFields
  <2> HIDE DEF r, paused
  <2>3. /\ DOMAIN paused = ClientFields /\ paused.loop = started.loop /\ paused.reader = r
        /\ paused.rx_queue = started.rx_queue /\ paused.connected = started.connected
        /\ paused.closing = started.closing /\ paused.transport = started.transport
        /\ paused.check_later = started.check_later /\ paused.raised = started.raised
        /\ paused.opening = started.opening
    BY <1>10, <2>2 DEF Good, IsClient, ClientFields
  <2> QED
    BY <1>10, <2>1, <2>3 DEF Good, IsClient, Keeps, Data
<1>12. data_received(s, chunk) = started \/ data_received(s, chunk) = paused
  BY DEF data_received, started, t, paused
<1> QED
  BY <1>6, <1>10, <1>11, <1>12 DEF Keeps

LEMMA ResumeKeeps ==
  ASSUME NEW s, Good(s)
  PROVE  Keeps(s, ResumeRx(s)) /\ ResumeRx(s).loop = s.loop
<1> DEFINE r == [s.reader EXCEPT !.reading = TRUE]
           t == [s EXCEPT !.reading_paused = FALSE, !.reader.reading = TRUE]
<1>1. IsReader(r, Nat) /\ r.buffer = s.reader.buffer
  BY DEF Good, IsClient, IsReader, ReaderFields
<1>2. t = [s EXCEPT !.reading_paused = FALSE, !.reader = r]
  BY DEF Good, IsClient, ClientFields
<1> HIDE DEF r, t
<1>3. /\ DOMAIN t = ClientFields /\ t.loop = s.loop /\ t.reader = r /\ t.rx_queue = s.rx_queue
      /\ t.connected = s.connected /\ t.closing = s.closing /\ t.transport = s.transport
      /\ t.check_later = s.check_later /\ t.raised = s.raised /\ t.opening = s.opening
  BY <1>2 DEF Good, IsClient, ClientFields
<1>4. Keeps(s, t)
  BY <1>1, <1>3 DEF Good, IsClient, Keeps, Data
<1>5. Keeps(s, s)
  BY DEF Keeps
<1>6. ResumeRx(s) = t \/ ResumeRx(s) = s
  BY DEF ResumeRx, t
<1> QED
  BY <1>3, <1>4, <1>5, <1>6

\* The data of a chunk is put behind the reader's.
Feeds(s, chunk, t) ==
  /\ Good(t) /\ t.closing = s.closing /\ t.loop # <<>>
  /\ Data(t) = (s.reader.buffer \o Blocks(chunk)) \o Queued(s.rx_queue)

LEMMA ChunkKeeps ==
  ASSUME NEW s, Good(s), NEW chunk \in Chunk, NEW pending, NEW critical, s.loop # <<>>
  PROVE  Feeds(s, chunk, _process_chunk(s, chunk, pending, critical))
<1> DEFINE r == feed_data(s.reader, Blocks(chunk))
           fed == WithReader(s, r)
           cmd == 0 \in Range(chunk)
           t == [fed EXCEPT !.any_cmd = @ \/ cmd, !.pending = IF cmd THEN pending ELSE @,
                            !.critical = IF cmd THEN critical ELSE @]
<1>1. Blocks(chunk) \in Seq(Nat) /\ IsReader(s.reader, Nat)
  BY BlocksType DEF Chunk, Good, IsClient
<1>2. IsReader(r, Nat) /\ r.buffer = s.reader.buffer \o Blocks(chunk)
  BY <1>1, FeedAppends
<1> HIDE DEF r
<1>3. /\ Good(fed) /\ fed.closing = s.closing /\ fed.loop # <<>>
      /\ Data(fed) = r.buffer \o Queued(s.rx_queue)
  BY <1>2, WithReaderKeeps
<1> HIDE DEF fed, cmd
<1>4. ButLoop(fed, t) /\ t.loop = fed.loop
  BY <1>3 DEF Good, IsClient, ButLoop, ClientFields
<1> HIDE DEF t
<1>5. Keeps(fed, t)
  BY <1>3, <1>4, AsideKeeps
<1>6. _process_chunk(s, chunk, pending, critical) = t
  BY DEF _process_chunk, t, cmd, fed, r
<1> QED
  BY <1>2, <1>3, <1>4, <1>5, <1>6 DEF Keeps, Feeds

LEMMA RoundKeeps ==
  ASSUME NEW s, Good(s), NEW pending, NEW critical, s.loop # <<>>, s.rx_queue # <<>>
  PROVE  Keeps(s, RxRound(s, pending, critical))
<1> DEFINE chunk == Head(s.rx_queue)
           q == Tail(s.rx_queue)
           b == s.reader.buffer
           t == [s EXCEPT !.rx_queue = Tail(@)]
           done == _process_chunk(t, chunk, pending, critical)
           counted == [done EXCEPT !.processed = @ + Len(Blocks(chunk))]
           resumed == ResumeRx(counted)
           l == resumed.loop
           turned == Append(Tail(l), Head(l))
           last == [resumed EXCEPT !.processed = 0, !.loop = Append(Tail(@), Head(@))]
<1>1. s.rx_queue \in Seq(Chunk) /\ b \in Seq(Nat)
  BY DEF Good, IsClient, IsReader
<1>2. chunk \in Chunk /\ q \in Seq(Chunk)
  BY <1>1, HeadTailProperties
<1>3. Queued(s.rx_queue) = Blocks(chunk) \o Queued(q)
  BY <1>1, QueuedHead
<1>4. Blocks(chunk) \in Seq(Nat) /\ Queued(q) \in Seq(Nat)
  BY <1>2, BlocksType, QueuedType DEF Chunk
<1>5. Data(s) = (b \o Blocks(chunk)) \o Queued(q)
  <2> DEFINE d == Blocks(chunk)
             k == Queued(q)
  <2>1. b \in Seq(Nat) /\ d \in Seq(Nat) /\ k \in Seq(Nat)
    BY <1>1, <1>4
  <2> HIDE DEF b, d, k
  <2>2. (b \o d) \o k = b \o (d \o k)
    BY <2>1, ConcatAssociative, SMTT(30)
  <2> QED
    BY <1>3, <2>2 DEF Data, b, d, k
<1> HIDE DEF chunk, q
<1>6. /\ DOMAIN t = ClientFields /\ t.loop = s.loop /\ t.reader = s.reader /\ t.rx_queue = q
      /\ t.connected = s.connected /\ t.closing = s.closing /\ t.transport = s.transport
      /\ t.check_later = s.check_later /\ t.raised = s.raised /\ t.opening = s.opening
  BY DEF q, Good, IsClient, ClientFields
<1> HIDE DEF t
<1>7. Good(t) /\ t.closing = s.closing
  BY <1>2, <1>6, QueueKeeps
<1>8. /\ Good(done) /\ done.closing = s.closing /\ done.loop # <<>> /\ Data(done) = Data(s)
  <2>1. t.loop # <<>> /\ chunk \in Chunk /\ Good(t)
    BY <1>2, <1>6, <1>7
  <2>2. Feeds(t, chunk, done)
    BY ONLY <2>1, ChunkKeeps
  <2> HIDE DEF done
  <2> QED
    BY <1>5, <1>6, <1>7, <2>2 DEF Feeds
<1> HIDE DEF done
<1>9. ButLoop(done, counted) /\ counted.loop = done.loop
  BY <1>8 DEF Good, IsClient, ButLoop, ClientFields
<1> HIDE DEF counted
<1>10. Keeps(done, counted)
  BY <1>8, <1>9, AsideKeeps
<1>11. Keeps(counted, resumed) /\ l = counted.loop
  BY <1>10, ResumeKeeps DEF Keeps
<1>12. Keeps(s, resumed) /\ l # <<>>
  BY <1>8, <1>9, <1>10, <1>11 DEF Keeps
<1> HIDE DEF resumed
<1>13. l \in Seq(Handle) /\ Without(l, "begin_negotiation") /\ Good(resumed)
  BY <1>12 DEF Keeps, Good, IsClient
<1>14. turned \in Seq(Handle) /\ Without(turned, "begin_negotiation")
  <2>1. Tail(l) \in Seq(Handle) /\ Head(l) \in Handle
    BY <1>12, <1>13, HandleLess
  <2>2. Without(Tail(l), "begin_negotiation") /\ Head(l).name # "begin_negotiation"
    BY <1>12, <1>13, HandleLess
  <2> QED
    BY <2>1, <2>2, HandleMore
<1>15. Without(l, "timer") => Without(turned, "timer")
  <2> SUFFICES ASSUME Without(l, "timer") PROVE Without(turned, "timer")
    OBVIOUS
  <2>1. Tail(l) \in Seq(Handle) /\ Head(l) \in Handle
    BY <1>12, <1>13, HandleLess
  <2>2. Without(Tail(l), "timer") /\ Head(l).name # "timer"
    BY <1>12, <1>13, HandleLess
  <2> QED
    BY <2>1, <2>2, HandleMore
<1>16. ButLoop(resumed, last) /\ last.loop = turned
  BY <1>13 DEF Good, IsClient, ButLoop, ClientFields
<1> HIDE DEF last, turned, l
<1>17. Keeps(resumed, last)
  BY <1>13, <1>14, <1>15, <1>16, LoopKeeps DEF l
<1>18. RxRound(s, pending, critical) = last \/ RxRound(s, pending, critical) = resumed
  BY DEF RxRound, last, resumed, counted, done, t, chunk
<1> QED
  BY <1>12, <1>17, <1>18 DEF Keeps

LEMMA FinallyKeeps ==
  ASSUME NEW s, Good(s), s.loop # <<>>
  PROVE  Keeps(s, RxFinally(s))
<1> DEFINE t == [s EXCEPT !.loop = Tail(@)]
           over == [s EXCEPT !.loop = Tail(@), !.rx = "none", !.processed = 0, !.any_cmd = FALSE]
<1>1. Keeps(s, t) /\ t.connected = s.connected
  BY RestKeeps
<1>2. ButLoop(t, over) /\ over.loop = t.loop
  BY DEF Good, IsClient, ButLoop, ClientFields
<1> HIDE DEF t, over
<1>3. Keeps(s, over) /\ over.connected = s.connected
  BY <1>1, <1>2, AsideKeeps DEF Keeps, ButLoop
<1>4. ~over.connected => Keeps(over, _check_negotiation_timer(over))
  BY <1>3, CheckKeeps DEF Keeps
<1>5. \/ RxFinally(s) = over
      \/ ~s.connected /\ RxFinally(s) = _check_negotiation_timer(over)
  BY DEF RxFinally, over
<1> QED
  BY <1>3, <1>4, <1>5 DEF Keeps

(***************************************************************************)
(* The selector, and the shell.                                            *)
(***************************************************************************)
LEMMA HandlesJoin ==
  ASSUME NEW l \in Seq(Handle), NEW m \in Seq(Handle), NEW name
  PROVE  l \o m \in Seq(Handle) /\ (Without(l, name) /\ Without(m, name) => Without(l \o m, name))
<1> DEFINE v == l \o m
<1>1. /\ v \in Seq(Handle) /\ Len(l) \in Nat /\ Len(m) \in Nat /\ Len(v) = Len(l) + Len(m)
      /\ DOMAIN l = 1 .. Len(l) /\ DOMAIN m = 1 .. Len(m) /\ DOMAIN v = 1 .. Len(v)
      /\ \A i \in 1 .. Len(v) : v[i] = IF i <= Len(l) THEN l[i] ELSE m[i - Len(l)]
  BY ConcatProperties, LenProperties
<1> HIDE DEF v
<1>2. \A i \in DOMAIN v : \/ i \in DOMAIN l /\ v[i] = l[i]
                          \/ i - Len(l) \in DOMAIN m /\ v[i] = m[i - Len(l)]
  BY <1>1
<1> QED
  BY <1>1, <1>2 DEF Without, v

LEMMA PollKeeps ==
  ASSUME NEW s, Good(s), s.loop # <<>>,
         NEW events, events = <<>> \/ events = <<H("read", Burst)>>,
         NEW due \in BOOLEAN, due => s.check_later # "none",
         NEW timers, timers = IF due THEN <<H("timer", 0)>> ELSE <<>>
  PROVE  Keeps(s, [s EXCEPT !.loop = Append(Tail(s.loop) \o events \o timers, Head(s.loop)),
                            !.check_later = IF due THEN "soon" ELSE @])
<1> DEFINE l == Append(Tail(s.loop) \o events \o timers, Head(s.loop))
           t == [s EXCEPT !.loop = l, !.check_later = IF due THEN "soon" ELSE @]
           h == H("read", Burst)
           k == H("timer", 0)
           rest == Tail(s.loop)
           first == Head(s.loop)
           some == rest \o events
<1>1. h \in Handle /\ h.name = "read" /\ k \in Handle /\ k.name = "timer"
  BY WatermarksAssumption DEF H, Handle, Callback
<1> HIDE DEF h, k
<1>2. /\ events \in Seq(Handle) /\ timers \in Seq(Handle)
      /\ Without(events, "begin_negotiation") /\ Without(events, "timer")
      /\ Without(timers, "begin_negotiation") /\ (~due => Without(timers, "timer"))
  <2>1. /\ <<h>> \in Seq(Handle) /\ <<k>> \in Seq(Handle) /\ <<>> \in Seq(Handle)
        /\ DOMAIN <<h>> = {1} /\ DOMAIN <<k>> = {1} /\ <<h>>[1] = h /\ <<k>>[1] = k
        /\ \A i : i \notin DOMAIN <<>>
    BY <1>1, EmptySeq
  <2> QED
    BY <1>1, <2>1 DEF Without, h, k
<1>3. s.loop \in Seq(Handle) /\ Without(s.loop, "begin_negotiation")
  BY DEF Good, IsClient
<1>4. rest \in Seq(Handle) /\ first \in Handle
  BY <1>3, HandleLess
<1>5. Without(rest, "begin_negotiation") /\ first.name # "begin_negotiation"
  BY <1>3, HandleLess
<1>6. Without(s.loop, "timer") => Without(rest, "timer") /\ first.name # "timer"
  BY <1>3, HandleLess
<1> HIDE DEF rest, first
<1>7. some \in Seq(Handle) /\ Without(some, "begin_negotiation")
  BY <1>2, <1>4, <1>5, HandlesJoin
<1>8. Without(s.loop, "timer") => Without(some, "timer")
  BY <1>2, <1>4, <1>6, HandlesJoin
<1> HIDE DEF some
<1>9. some \o timers \in Seq(Handle) /\ Without(some \o timers, "begin_negotiation")
  BY <1>2, <1>7, HandlesJoin
<1>10. ~due /\ Without(s.loop, "timer") => Without(some \o timers, "timer")
  BY <1>2, <1>7, <1>8, HandlesJoin
<1>11. l = Append(some \o timers, first)
  BY DEF some, rest, first
<1> HIDE DEF l
<1>12. l \in Seq(Handle) /\ Without(l, "begin_negotiation")
  BY <1>4, <1>5, <1>9, <1>11, HandleMore
<1>13. ~due /\ Without(s.loop, "timer") => Without(l, "timer")
  BY <1>4, <1>6, <1>9, <1>10, <1>11, HandleMore
<1>14. /\ DOMAIN t = ClientFields /\ t.loop = l /\ t.reader = s.reader /\ t.rx_queue = s.rx_queue
       /\ t.connected = s.connected /\ t.closing = s.closing /\ t.transport = s.transport
       /\ t.check_later = (IF due THEN "soon" ELSE s.check_later) /\ t.raised = s.raised
       /\ t.opening = s.opening
  BY DEF Good, IsClient, ClientFields
<1> HIDE DEF t
<1>15. due /\ s.opening # "cancelled" => ~s.connected
  BY DEF Good
<1>16. Keeps(s, t)
  BY <1>12, <1>13, <1>14, <1>15 DEF Good, IsClient, Keeps, Data
<1> QED
  BY <1>16 DEF t, l

\* The shell has ended, or leaves what has been read of the reader.
LEMMA LeavesReader ==
  ASSUME NEW s, Good(s), NEW r, IsReader(r, Nat), NEW t, DOMAIN t = ClientFields,
         t.reader = r, t.rx_queue = s.rx_queue, t.connected = s.connected, t.closing = s.closing,
         t.transport = s.transport, t.check_later = s.check_later, t.raised = s.raised,
         t.opening = s.opening,
         t.loop = s.loop \/ (s.loop # <<>> /\ t.loop = Tail(s.loop))
  PROVE  Good(t) /\ Data(t) = r.buffer \o Queued(s.rx_queue) /\ t.closing = s.closing
<1>1. s.loop \in Seq(Handle) /\ Without(s.loop, "begin_negotiation")
  BY DEF Good, IsClient
<1>2. t.loop \in Seq(Handle) /\ Without(t.loop, "begin_negotiation")
  BY <1>1, HandleLess
<1>3. Without(s.loop, "timer") => Without(t.loop, "timer")
  BY <1>1, HandleLess
<1> QED
  BY <1>2, <1>3 DEF Good, IsClient, Data

\* A turn of the shell: what it has read is before what is left.
Reads(s, t, data) ==
  /\ Good(t) /\ t.closing = s.closing /\ data \in Seq(Nat) /\ Data(s) = data \o Data(t)

LEMMA ShellReads ==
  ASSUME NEW s, Good(s), NEW data, NEW r, IsReader(r, Nat), data \in Seq(Nat),
         data \o r.buffer = s.reader.buffer, NEW t, DOMAIN t = ClientFields,
         t.reader = r, t.rx_queue = s.rx_queue, t.connected = s.connected, t.closing = s.closing,
         t.transport = s.transport, t.check_later = s.check_later, t.raised = s.raised,
         t.opening = s.opening,
         t.loop = s.loop \/ (s.loop # <<>> /\ t.loop = Tail(s.loop))
  PROVE  Reads(s, t, data)
<1> DEFINE b == r.buffer
           k == Queued(s.rx_queue)
<1>1. Good(t) /\ Data(t) = b \o k /\ t.closing = s.closing
  BY LeavesReader
<1>2. data \in Seq(Nat) /\ b \in Seq(Nat) /\ k \in Seq(Nat)
  BY QueuedType DEF Good, IsClient, IsReader
<1>3. Data(s) = (data \o b) \o k
  BY DEF Data
<1> HIDE DEF b, k
<1>4. (data \o b) \o k = data \o (b \o k)
  BY ONLY <1>2, ConcatAssociative, SMTT(30)
<1> QED
  BY <1>1, <1>3, <1>4 DEF Reads

(***************************************************************************)
(* The invariant: begin_negotiation is the first to run; until then the    *)
(* client can only lose its transport or its opener, or see time pass.     *)
(* What the shell has taken and what is on its way are what was received,  *)
(* but for what a lost connection dropped.                                 *)
(***************************************************************************)
Starting(s) ==
  /\ IsClient(s) /\ s.loop # <<>> /\ Head(s.loop).name = "begin_negotiation"
  /\ Without(Tail(s.loop), "begin_negotiation") /\ Without(s.loop, "timer")
  /\ ~s.connected /\ ~s.closing /\ s.raised = FALSE /\ s.shell = "none"
  /\ s.opening \in {"connecting", "abandoned"}

Holds(s, had, got) ==
  IF s.closing THEN \E lost \in Seq(Nat) : (had \o Data(s)) \o lost = got ELSE had \o Data(s) = got

Items == taken \in Seq(Nat) /\ received \in Seq(Nat) /\ toCome \in Seq(Nat)

IInv == Items /\ (Good(c) \/ Starting(c)) /\ Holds(c, taken, received)

LEMMA Kept ==
  ASSUME Items, Holds(c, taken, received), Keeps(c, c'), UNCHANGED <<toCome, received, taken>>
  PROVE  IInv'
BY DEF Items, Holds, Keeps, IInv

\* A shell's read takes the first of the data.
LEMMA Read ==
  ASSUME Items, Holds(c, taken, received), NEW data, Reads(c, c', data), taken' = taken \o data,
         UNCHANGED <<toCome, received>>, Good(c)
  PROVE  IInv'
<1> DEFINE t == taken
           d == Data(c')
<1>1. t \in Seq(Nat) /\ data \in Seq(Nat) /\ d \in Seq(Nat)
  BY DataType DEF Items, Reads, Good
<1> HIDE DEF t, d
<1>2. (t \o data) \o d = t \o (data \o d)
  BY <1>1, ConcatAssociative, SMTT(30)
<1>3. t \o data \in Seq(Nat)
  BY <1>1, ConcatProperties
<1>4. Holds(c', taken', received')
  BY <1>2 DEF Holds, Reads, t, d
<1> QED
  BY <1>3, <1>4 DEF IInv, Items, Reads, t

\* A lost connection drops the receive queue.
LEMMA Lost ==
  ASSUME Items, Good(c), ~c.closing, Holds(c, taken, received),
         UNCHANGED <<toCome, received, taken>>,
         Good(c'), c'.closing = TRUE, Data(c') = c.reader.buffer
  PROVE  IInv'
<1> DEFINE b == c.reader.buffer
           k == Queued(c.rx_queue)
           t == taken
<1>1. t \in Seq(Nat) /\ b \in Seq(Nat) /\ k \in Seq(Nat)
  BY QueuedType DEF Items, Good, IsClient, IsReader
<1>2. t \o (b \o k) = received
  BY DEF Holds, Data
<1> HIDE DEF b, k, t
<1>3. (t \o b) \o k = received
  <2>1. (t \o b) \o k = t \o (b \o k)
    BY ONLY <1>1, ConcatAssociative, SMTT(30)
  <2> QED
    BY <1>2, <2>1
<1>4. Holds(c', taken', received')
  BY <1>1, <1>3 DEF Holds, b, t
<1> QED
  BY <1>4 DEF IInv, Items

LEMMA BeginKeeps ==
  ASSUME NEW s, Starting(s), NEW asks
  PROVE  Keeps(s, begin_negotiation([s EXCEPT !.loop = Tail(@)], asks))
<1> DEFINE h == H("timer", 0)
           l == Tail(s.loop)
           m == Append(l, h)
           t == begin_negotiation([s EXCEPT !.loop = Tail(@)], asks)
<1>1. h \in Handle /\ h.name = "timer"
  BY DEF H, Handle, Callback
<1>2. l \in Seq(Handle) /\ Without(l, "begin_negotiation")
  BY HandleLess DEF Starting, IsClient
<1> HIDE DEF h
<1>3. m \in Seq(Handle) /\ Without(m, "begin_negotiation")
  BY <1>1, <1>2, HandleMore
<1>4. /\ DOMAIN t = ClientFields /\ t.loop = m /\ t.reader = s.reader /\ t.rx_queue = s.rx_queue
      /\ t.connected = s.connected /\ t.closing = s.closing /\ t.transport = s.transport
      /\ t.check_later = "soon" /\ t.raised = s.raised /\ t.opening = s.opening
  BY DEF begin_negotiation, CallSoon, h, Starting, IsClient, ClientFields
<1> HIDE DEF t, m
<1> QED
  BY <1>3, <1>4 DEF Starting, IsClient, Good, Keeps, Data, t

\* Before it has begun the client can lose its transport or its opener, or time
\* can pass.
LEMMA StartingStep ==
  ASSUME Items, Starting(c), Holds(c, taken, received), Next
  PROVE  IInv'
<1>1. c.loop \in Seq(Handle) /\ c.loop # <<>> /\ Head(c.loop).name = "begin_negotiation"
  BY DEF Starting, IsClient
<1>2. CASE RunBegin
  <2>1. PICK asks : c' = begin_negotiation(Rest, asks)
    BY <1>2 DEF RunBegin
  <2>2. Keeps(c, c')
    BY <2>1, BeginKeeps DEF Rest
  <2> QED
    BY <1>2, <2>2, Kept DEF RunBegin
<1>3. ASSUME DOMAIN c' = ClientFields, c'.reader = c.reader, c'.rx_queue = c.rx_queue,
             c'.connected = c.connected, c'.closing = c.closing, c'.transport = c.transport,
             c'.shell = c.shell, c'.raised = c.raised, UNCHANGED <<toCome, received, taken>>,
             c'.opening \in {"connecting", "abandoned"},
             c'.loop = c.loop \/ c'.loop = Append(c.loop, H("lost", 0))
      PROVE  IInv'
  <2> DEFINE h == H("lost", 0)
             l == Append(c.loop, h)
             m == Tail(l)
  <2>1. h \in Handle /\ h.name = "lost"
    BY DEF H, Handle, Callback
  <2> HIDE DEF h
  <2>2. l \in Seq(Handle) /\ l # <<>> /\ (Without(c.loop, "timer") => Without(l, "timer"))
    BY <1>1, <2>1, HandleMore
  <2>3. Head(l) = Head(c.loop) /\ m = Append(Tail(c.loop), h) /\ Tail(c.loop) \in Seq(Handle)
    BY <1>1, <2>1, TailOfAppend, HandleLess
  <2>4. Without(Tail(c.loop), "begin_negotiation") => Without(m, "begin_negotiation")
    BY <2>1, <2>3, HandleMore
  <2> HIDE DEF l, m
  <2>5. Starting(c')
    <3>1. CASE c'.loop = c.loop
      BY <1>3, <3>1 DEF Starting, IsClient
    <3>2. CASE c'.loop = l
      BY <1>3, <2>2, <2>3, <2>4, <3>2 DEF Starting, IsClient, m
    <3> QED
      BY <1>3, <3>1, <3>2 DEF l, h
  <2>6. Data(c') = Data(c)
    BY <1>3 DEF Data
  <2> QED
    BY <1>3, <2>5, <2>6 DEF IInv, Items, Holds
<1>4. CASE Fails
  <2>1. c' = [c EXCEPT !.loop = Append(c.loop, H("lost", 0))]
    BY <1>4 DEF Fails, CallSoon
  <2>2. UNCHANGED <<toCome, received, taken>>
    BY <1>4 DEF Fails
  <2> QED
    BY <1>3, <2>1, <2>2 DEF Starting, IsClient, ClientFields
<1>5. CASE Elapse
  <2>1. c' = [c EXCEPT !.clock = IF @ = "early" THEN "mid" ELSE "late"]
    BY <1>5 DEF Elapse
  <2>2. UNCHANGED <<toCome, received, taken>>
    BY <1>5 DEF Elapse
  <2> QED
    BY <1>3, <2>1, <2>2 DEF Starting, IsClient, ClientFields
<1>7. CASE CancelOpener
  <2>1. c' = [c EXCEPT !.opening = "abandoned"] /\ UNCHANGED <<toCome, received, taken>>
    BY <1>7 DEF CancelOpener, Starting
  <2> QED
    BY <1>3, <2>1 DEF Starting, IsClient, ClientFields
<1>6. /\ ~Runs("open") /\ ~Runs("timer") /\ ~Runs("begin_shell") /\ ~Runs("lost") /\ ~Runs("rx")
      /\ ~Runs("read") /\ ~Runs("poll") /\ ~Runs("shell") /\ c.shell = "none"
  BY DEF Starting, Runs
<1> QED
  BY <1>2, <1>4, <1>5, <1>6, <1>7
  DEF Next, Run, open_connection, RunTimer, RunBeginShell, RunLost, _process_rx, ReadData, ReadEof,
      ReadNothing, RunShell, Poll, ShellLeaves, ShellCloses, ShellReturns

\* What the handles of a client that has begun do.
LEMMA ShellKeeps ==
  ASSUME Items, Good(c), Holds(c, taken, received), RunShell
  PROVE  IInv'
<1> DEFINE r == Awoken(c.reader)
           outcome == read(r, limit, c.shell = "waiting")
           o == outcome.r
           data == outcome.data
           b == c.reader.buffer
<1>1. IsReader(r, Nat) /\ r.buffer = b /\ b \in Seq(Nat)
  BY WakingKeeps, ZenonT(40) DEF Same, Good, IsClient, IsReader
<1> HIDE DEF r
<1>2. Takes(r, outcome, Nat)
  BY <1>1, LimitAssumption, ReadSplits
<1> HIDE DEF outcome
<1>3. IsReader(o, Nat) /\ data \in Seq(Nat) /\ data \o o.buffer = b /\ (outcome.how = "wait" => data = <<>>)
  <2>1. <<>> \o b = b
    BY <1>1, ConcatEmptySeq
  <2> QED
    BY <1>1, <1>2, <2>1 DEF Takes, Splits
<1>4. c.loop # <<>> /\ DOMAIN c = ClientFields
  BY DEF RunShell, Runs, Good, IsClient
<1>5. <<>> \o b = b /\ taken \o <<>> = taken /\ <<>> \in Seq(Nat)
  BY <1>1, ConcatEmptySeq, EmptySeq DEF Items
<1>6. UNCHANGED <<toCome, received>>
  BY DEF RunShell
<1>7. CASE c' = [ShellEnds(c) EXCEPT !.reader = r] /\ UNCHANGED taken
  <2>1. /\ DOMAIN c' = ClientFields /\ c'.reader = r /\ c'.rx_queue = c.rx_queue
        /\ c'.connected = c.connected /\ c'.closing = c.closing /\ c'.transport = c.transport
        /\ c'.check_later = c.check_later /\ c'.raised = c.raised /\ c'.opening = c.opening /\ c'.loop = Tail(c.loop)
    BY <1>4, <1>7 DEF ShellEnds, ClientFields
  <2>2. <<>> \o r.buffer = c.reader.buffer
    BY <1>1, <1>5
  <2>3. Reads(c, c', <<>>)
    BY ONLY <1>1, <1>4, <1>5, <2>1, <2>2, Good(c), ShellReads
  <2> QED
    BY <1>5, <1>6, <1>7, <2>3, Read
<1>8. ASSUME c' = [Rest EXCEPT !.shell = "waiting", !.reader = o] \/ c' = [ShellEnds(c) EXCEPT !.reader = o],
             data = <<>>, UNCHANGED taken
      PROVE  IInv'
  <2>1. /\ DOMAIN c' = ClientFields /\ c'.reader = o /\ c'.rx_queue = c.rx_queue
        /\ c'.connected = c.connected /\ c'.closing = c.closing /\ c'.transport = c.transport
        /\ c'.check_later = c.check_later /\ c'.raised = c.raised /\ c'.opening = c.opening /\ c'.loop = Tail(c.loop)
    BY <1>4, <1>8 DEF ShellEnds, Rest, ClientFields
  <2>2. Reads(c, c', data)
    BY ONLY <1>3, <1>4, <2>1, Good(c), ShellReads
  <2> QED
    BY <1>5, <1>6, <1>8, <2>2, Read
<1>9. CASE c' = [c EXCEPT !.shell = "ready", !.reader = o] /\ taken' = taken \o data
  <2>1. /\ DOMAIN c' = ClientFields /\ c'.reader = o /\ c'.rx_queue = c.rx_queue
        /\ c'.connected = c.connected /\ c'.closing = c.closing /\ c'.transport = c.transport
        /\ c'.check_later = c.check_later /\ c'.raised = c.raised /\ c'.opening = c.opening /\ c'.loop = c.loop
    BY <1>4, <1>9 DEF ClientFields
  <2>2. Reads(c, c', data)
    BY ONLY <1>3, <2>1, Good(c), ShellReads
  <2> QED
    BY <1>6, <1>9, <2>2, Read
<1>10. \/ c' = [ShellEnds(c) EXCEPT !.reader = r] /\ UNCHANGED taken
       \/ c' = [Rest EXCEPT !.shell = "waiting", !.reader = o] /\ outcome.how = "wait" /\ UNCHANGED taken
       \/ c' = [ShellEnds(c) EXCEPT !.reader = o] /\ data = <<>> /\ UNCHANGED taken
       \/ c' = [c EXCEPT !.shell = "ready", !.reader = o] /\ taken' = taken \o data
  BY DEF RunShell, outcome, r
<1> QED
  BY <1>3, <1>7, <1>8, <1>9, <1>10

LEMMA ReceiveKeeps ==
  ASSUME Items, Good(c), Holds(c, taken, received), ReadData
  PROVE  IInv'
<1>1. PICK n \in 1 .. Len(toCome) :
        /\ c' = data_received(Again(c), SubSeq(toCome, 1, n))
        /\ received' = received \o Blocks(SubSeq(toCome, 1, n))
        /\ toCome' = SubSeq(toCome, n + 1, Len(toCome))
  BY DEF ReadData
<1>2. UNCHANGED taken /\ c.loop # <<>> /\ ~c.closing
  BY DEF ReadData, Readable, Runs, Good
<1> DEFINE chunk == SubSeq(toCome, 1, n)
           s == Again(c)
           d == Data(c)
           k == Blocks(chunk)
           t == taken
<1>3. toCome \in Seq(Nat) /\ n \in 0 .. Len(toCome)
  BY LenProperties DEF Items
<1>4. chunk \in Seq(Nat) /\ toCome' \in Seq(Nat)
  BY <1>1, <1>3, Cut
<1> HIDE DEF chunk
<1>5. Keeps(c, s)
  BY <1>2, AgainKeeps
<1> HIDE DEF s
<1>6. Good(c') /\ c'.closing = s.closing /\ Data(c') = Data(s) \o k
  BY <1>1, <1>4, <1>5, ReceivesKeeps DEF Keeps, Chunk, s, chunk
<1>7. t \in Seq(Nat) /\ d \in Seq(Nat) /\ k \in Seq(Nat)
  BY <1>4, DataType, BlocksType DEF Items, Good
<1>8. t \o d = received /\ received' = received \o k
  BY <1>1, <1>2 DEF Holds, chunk
<1>9. Data(c') = d \o k /\ c'.closing = c.closing
  BY <1>5, <1>6 DEF Keeps
<1> HIDE DEF d, k, t
<1>10. (t \o d) \o k = t \o (d \o k) /\ (t \o d) \o k \in Seq(Nat)
  BY ONLY <1>7, ConcatAssociative, ConcatProperties, SMTT(30)
<1>11. Holds(c', taken', received') /\ received' \in Seq(Nat)
  BY <1>2, <1>8, <1>9, <1>10 DEF Holds, t
<1> QED
  BY <1>2, <1>4, <1>6, <1>11 DEF IInv, Items

LEMMA LostStep ==
  ASSUME Items, Good(c), Holds(c, taken, received), UNCHANGED <<toCome, received, taken>>,
         c.loop # <<>>, NEW exc, c' = connection_lost(Rest, exc)
  PROVE  IInv'
<1> DEFINE s == Rest
<1>1. Keeps(c, s) /\ s.reader = c.reader
  BY RestKeeps DEF Rest, Good, IsClient, ClientFields
<1> HIDE DEF s
<1>2. CASE s.closing
  <2>1. c' = s
    BY <1>2 DEF connection_lost, s
  <2> QED
    BY <1>1, <2>1, Kept
<1>3. CASE ~s.closing
  <2>1. Loses(s, connection_lost(s, exc))
    BY <1>1, <1>3, LostKeeps DEF Keeps
  <2>2. Good(c') /\ c'.closing = TRUE /\ Data(c') = c.reader.buffer /\ ~c.closing
    BY <1>1, <1>3, <2>1 DEF Loses, Keeps, s
  <2> QED
    BY <2>2, Lost
<1> QED
  BY <1>2, <1>3

LEMMA CloseStep ==
  ASSUME Items, Good(c), Holds(c, taken, received), ShellCloses
  PROVE  IInv'
<1> DEFINE s == connection_lost(c, FALSE)
           u == [ShellEnds(s) EXCEPT !.shell = "left"]
<1>1. /\ c.loop # <<>> /\ Stands(c.loop) /\ c' = u /\ UNCHANGED <<toCome, received, taken>>
  BY DEF ShellCloses, Runs, Stands
<1>2. Good(s) /\ s.loop # <<>> /\ (~c.closing => Loses(c, s)) /\ (c.closing => s = c)
  <2>1. CASE c.closing
    BY <1>1, <2>1 DEF connection_lost
  <2>2. CASE ~c.closing
    <3>1. Loses(c, s)
      BY <2>2, LostKeeps
    <3> HIDE DEF s
    <3> QED
      BY <1>1, <2>2, <3>1 DEF Loses
  <2> QED
    BY <2>1, <2>2 DEF Good, IsClient
<1> HIDE DEF s
<1>3. /\ DOMAIN u = ClientFields /\ u.reader = s.reader /\ u.rx_queue = s.rx_queue
      /\ u.connected = s.connected /\ u.closing = s.closing /\ u.transport = s.transport
      /\ u.check_later = s.check_later /\ u.raised = s.raised /\ u.opening = s.opening /\ u.loop = Tail(s.loop)
  BY <1>2 DEF ShellEnds, ClientFields, Good, IsClient
<1> HIDE DEF u
<1>4. IsReader(s.reader, Nat)
  BY <1>2 DEF Good, IsClient
<1>5. Good(u) /\ Data(u) = s.reader.buffer \o Queued(s.rx_queue) /\ u.closing = s.closing
  BY ONLY <1>2, <1>3, <1>4, LeavesReader
<1>6. Keeps(s, u)
  BY <1>5 DEF Keeps, Data
<1>7. CASE c.closing
  BY <1>1, <1>2, <1>6, <1>7, Kept
<1>8. CASE ~c.closing
  <2>1. Good(c') /\ c'.closing = TRUE /\ Data(c') = c.reader.buffer
    BY <1>1, <1>2, <1>6, <1>8 DEF Loses, Keeps
  <2> QED
    BY <1>1, <1>8, <2>1, Lost
<1> QED
  BY <1>7, <1>8

LEMMA GoodStep ==
  ASSUME Items, Good(c), Holds(c, taken, received), Next
  PROVE  IInv'
<1>1. c.loop \in Seq(Handle) /\ Without(c.loop, "begin_negotiation") /\ DOMAIN c = ClientFields
  BY DEF Good, IsClient
<1>2. c.loop # <<>> => Keeps(c, Rest) /\ Rest.connected = c.connected
  BY RestKeeps DEF Rest
<1>3. CASE RunBegin
  <2>1. c.loop # <<>> /\ Head(c.loop).name = "begin_negotiation"
    BY <1>3 DEF RunBegin, Runs
  <2>2. Head(c.loop).name # "begin_negotiation"
    BY <1>1, <2>1, HandleLess
  <2> QED
    BY <2>1, <2>2
<1>4. CASE open_connection
  <2> DEFINE t == [Rest EXCEPT !.opening = "interrupted"]
             u == [Rest EXCEPT !.opening = IF c.connected THEN "returned" ELSE "waiting"]
  <2>1. Keeps(c, Rest) /\ UNCHANGED <<toCome, received, taken>>
    BY <1>2, <1>4, ZenonT(40) DEF open_connection, Runs
  <2>2. \/ c.opening # "cancelled" /\ c' = u
        \/ c.opening # "cancelled" /\ c' = CloseTransport(t)
        \/ c' = Rest
    BY <1>4 DEF open_connection
  <2>3. /\ c.opening # "cancelled" => ButLoop(Rest, t) /\ ButLoop(Rest, u)
        /\ t.loop = Rest.loop /\ u.loop = Rest.loop
    BY <1>1 DEF Rest, ButLoop, ClientFields
  <2> HIDE DEF t, u
  <2>4. c.opening # "cancelled" => Keeps(Rest, t) /\ Keeps(Rest, u)
    BY <2>1, <2>3, AsideKeeps DEF Keeps
  <2>5. c.opening # "cancelled" => Keeps(t, CloseTransport(t))
    BY <2>4, CloseKeeps DEF Keeps
  <2>6. Keeps(c, c')
    BY <2>1, <2>2, <2>4, <2>5 DEF Keeps
  <2> QED
    BY <2>1, <2>6, Kept
<1>5. CASE RunTimer
  <2>1. c.loop # <<>> /\ Head(c.loop).name = "timer"
    BY <1>5 DEF RunTimer, Runs
  <2>2. ~Without(c.loop, "timer")
    BY <1>1, <2>1, HandleLess
  <2>3. Good(Rest) /\ (~Rest.connected \/ Rest.opening = "cancelled")
    BY <1>2, <2>1, <2>2 DEF Good, Keeps, Rest
  <2>4. Keeps(Rest, _check_negotiation_timer(Rest))
    BY <2>3, CheckKeeps
  <2>5. Keeps(c, c')
    BY <1>2, <1>5, <2>1, <2>4 DEF RunTimer, Keeps
  <2> QED
    BY <1>5, <2>5, Kept DEF RunTimer
<1>6. CASE RunBeginShell
  <2> DEFINE t == [Rest EXCEPT !.shell = "ready"]
  <2>1. Keeps(c, Rest) /\ Good(Rest)
    BY <1>2, <1>6 DEF RunBeginShell, Runs, Keeps
  <2>2. ButLoop(Rest, t) /\ t.loop = Rest.loop
    BY <1>1 DEF Rest, ButLoop, ClientFields
  <2> HIDE DEF t
  <2>3. Keeps(Rest, t)
    BY <2>1, <2>2, AsideKeeps
  <2>4. Keeps(t, CallSoon(t, "shell"))
    BY <2>3, Callbacks, CallSoonKeeps DEF Keeps
  <2>5. c' = Rest \/ c' = CallSoon(t, "shell")
    BY <1>6 DEF RunBeginShell, begin_shell, t
  <2>6. Keeps(c, c')
    BY <2>1, <2>3, <2>4, <2>5 DEF Keeps
  <2> QED
    BY <1>6, <2>6, Kept DEF RunBeginShell
<1>7. CASE RunLost
  <2>1. c.loop # <<>> /\ c' = connection_lost(Rest, Head(c.loop).n = 0) /\ UNCHANGED <<toCome, received, taken>>
    BY <1>7 DEF RunLost, Runs
  <2> QED
    BY ONLY <2>1, Items, Good(c), Holds(c, taken, received), LostStep
<1>8. CASE _process_rx
  <2>1. c.loop # <<>> /\ UNCHANGED <<toCome, received, taken>>
    BY <1>8 DEF _process_rx, Runs
  <2>2. CASE c' = RxFinally(c)
    BY <2>1, <2>2, FinallyKeeps, Kept
  <2>3. ASSUME c.rx_queue # <<>>, NEW pending, NEW critical, c' = RxRound(c, pending, critical)
        PROVE  IInv'
    BY <2>1, <2>3, RoundKeeps, Kept
  <2> QED
    BY <1>8, <2>2, <2>3 DEF _process_rx
<1>9. CASE ReadData
  BY <1>9, ReceiveKeeps
<1>10. CASE ReadEof
  <2>1. c.loop # <<>> /\ c' = connection_lost(Rest, FALSE) /\ UNCHANGED <<toCome, received, taken>>
    BY <1>10 DEF ReadEof, Runs
  <2> QED
    BY ONLY <2>1, Items, Good(c), Holds(c, taken, received), LostStep
<1>11. CASE ReadNothing
  <2>1. Keeps(c, c')
    BY <1>2, <1>11 DEF ReadNothing, Runs
  <2> QED
    BY <1>11, <2>1, Kept DEF ReadNothing
<1>12. CASE RunShell
  BY <1>12, ShellKeeps
<1>13. CASE Poll
  <2> DEFINE timers == IF Due THEN <<H("timer", 0)>> ELSE <<>>
  <2>1. PICK arrived \in BOOLEAN :
          c' = [c EXCEPT !.loop = Append(Tail(c.loop) \o (IF arrived /\ Readable THEN <<H("read", Burst)>> ELSE <<>>)
                                           \o timers, Head(c.loop)),
                         !.check_later = IF Due THEN "soon" ELSE @]
    BY <1>13 DEF Poll
  <2> DEFINE events == IF arrived /\ Readable THEN <<H("read", Burst)>> ELSE <<>>
  <2>2. c.loop # <<>> /\ UNCHANGED <<toCome, received, taken>>
    BY <1>13 DEF Poll, Runs
  <2>3. Due \in BOOLEAN /\ (Due => c.check_later # "none")
    BY DEF Due
  <2>4. /\ events = <<>> \/ events = <<H("read", Burst)>>
        /\ timers = IF Due THEN <<H("timer", 0)>> ELSE <<>>
        /\ c' = [c EXCEPT !.loop = Append(Tail(c.loop) \o events \o timers, Head(c.loop)),
                          !.check_later = IF Due THEN "soon" ELSE @]
    BY <2>1
  <2> HIDE DEF events, timers
  <2>5. Keeps(c, [c EXCEPT !.loop = Append(Tail(c.loop) \o events \o timers, Head(c.loop)),
                           !.check_later = IF Due THEN "soon" ELSE @])
    BY ONLY <2>2, <2>3, <2>4, Good(c), PollKeeps
  <2>6. Keeps(c, c')
    BY ONLY <2>4, <2>5
  <2> QED
    BY <2>2, <2>6, Kept
<1>14. CASE ShellLeaves
  <2>1. ButLoop(Rest, c') /\ c'.loop = Rest.loop
    BY <1>1, <1>14 DEF ShellLeaves, Rest, ButLoop, ClientFields
  <2>2. Keeps(Rest, c') /\ Keeps(c, Rest)
    BY <1>2, <1>14, <2>1, AsideKeeps DEF ShellLeaves, Runs, Keeps
  <2> QED
    BY <1>14, <2>2, Kept DEF ShellLeaves, Keeps
<1>15. CASE ShellCloses
  BY <1>15, CloseStep
<1>16. CASE ShellReturns
  <2> DEFINE t == [c EXCEPT !.shell = "ready"]
  <2>1. ButLoop(c, t) /\ t.loop = c.loop
    BY <1>1 DEF ButLoop, ClientFields
  <2> HIDE DEF t
  <2>2. Keeps(c, t)
    BY <2>1, AsideKeeps
  <2>3. Keeps(t, CallSoon(t, "shell"))
    BY <2>2, Callbacks, CallSoonKeeps DEF Keeps
  <2>4. Keeps(c, c')
    BY <1>16, <2>2, <2>3 DEF ShellReturns, Keeps, t
  <2> QED
    BY <1>16, <2>4, Kept DEF ShellReturns
<1>17. CASE Fails
  <2>1. Keeps(c, CallSoon(c, "lost"))
    BY Callbacks, CallSoonKeeps
  <2> QED
    BY <1>17, <2>1, Kept DEF Fails
<1>18. CASE Elapse
  <2>1. ButLoop(c, c') /\ c'.loop = c.loop
    BY <1>1, <1>18 DEF Elapse, ButLoop, ClientFields
  <2>2. Keeps(c, c')
    BY <2>1, AsideKeeps
  <2> QED
    BY <1>18, <2>2, Kept DEF Elapse
<1>19. CASE CancelOpener
  <2> DEFINE t == [c EXCEPT !.connected = TRUE, !.opening = "cancelled"]
             begun == CallSoon(t, "begin_shell")
  <2>1. CASE c.opening # "cancelled" /\ \E o \in {"abandoned", "interrupted"} : c' = [c EXCEPT !.opening = o]
    <3>1. ButLoop(c, c') /\ c'.loop = c.loop
      BY <1>1, <2>1 DEF ButLoop, ClientFields
    <3> QED
      BY <1>19, <3>1, AsideKeeps, Kept DEF CancelOpener
  <2>2. CASE c' = CallSoon(begun, "open")
    <3>1. /\ DOMAIN t = ClientFields /\ t.reader = c.reader /\ t.rx_queue = c.rx_queue /\ t.loop = c.loop
          /\ t.connected = TRUE /\ t.closing = c.closing /\ t.transport = c.transport
          /\ t.opening = "cancelled"
      BY <1>1 DEF ClientFields
    <3> HIDE DEF t
    <3>2. Keeps(c, t)
      BY <3>1 DEF Good, IsClient, Keeps, Data
    <3>3. Keeps(t, begun)
      BY <3>2, Callbacks, CallSoonKeeps DEF Keeps
    <3> HIDE DEF begun
    <3>4. Keeps(begun, CallSoon(begun, "open"))
      BY <3>3, Callbacks, CallSoonKeeps DEF Keeps
    <3>5. Keeps(c, c')
      BY <2>2, <3>2, <3>3, <3>4 DEF Keeps
    <3> QED
      BY <1>19, <3>5, Kept DEF CancelOpener
  <2> QED
    BY <1>19, <2>1, <2>2 DEF CancelOpener
<1> QED
  BY <1>3, <1>4, <1>5, <1>6, <1>7, <1>8, <1>9, <1>10, <1>11, <1>12, <1>13, <1>14, <1>15, <1>16,
     <1>17, <1>18, <1>19 DEF Next, Run

(***************************************************************************)
(* The theorems.                                                           *)
(***************************************************************************)
LEMMA Started == Init => IInv
<1> SUFFICES ASSUME Init PROVE IInv
  OBVIOUS
<1> DEFINE begin == H("begin_negotiation", 0)
           open == H("open", 0)
           poll == H("poll", 0)
           l == <<begin, open, poll>>
<1>1. PICK clock \in {"early", "mid"} :
        c = [loop |-> l, clock |-> clock, opening |-> "connecting",
             reader |-> NewReader, transport |-> TRUE,
             closing |-> FALSE, connected |-> FALSE, closed |-> FALSE, raised |-> FALSE,
             rx_queue |-> <<>>, rx |-> "none", processed |-> 0, any_cmd |-> FALSE,
             reading_paused |-> FALSE, check_later |-> "none",
             pending |-> FALSE, critical |-> FALSE, shell |-> "none"]
  BY DEF Init
<1>2. /\ begin \in Handle /\ open \in Handle /\ poll \in Handle
      /\ begin.name = "begin_negotiation" /\ open.name = "open" /\ poll.name = "poll"
  BY DEF H, Handle, Callback
<1> HIDE DEF begin, open, poll
<1>3. l \in Seq(Handle) /\ l # <<>> /\ Head(l) = begin /\ Tail(l) = <<open, poll>>
  BY <1>2
<1>4. Without(<<open, poll>>, "begin_negotiation") /\ Without(l, "timer")
  BY <1>2 DEF Without
<1> HIDE DEF l
<1>5. IsReader(NewReader, Nat) /\ NewReader.buffer = <<>>
  <2>1. <<>> \in Seq(Nat)
    BY EmptySeq
  <2> QED
    BY <2>1 DEF NewReader, IsReader, ReaderFields
<1>6. <<>> \in Seq(Chunk) /\ <<>> \in Seq(Nat)
  BY EmptySeq
<1>7. /\ DOMAIN c = ClientFields /\ c.loop = l /\ c.reader = NewReader /\ c.rx_queue = <<>>
      /\ c.connected = FALSE /\ c.closing = FALSE /\ c.transport = TRUE /\ c.raised = FALSE
      /\ c.shell = "none" /\ c.opening = "connecting"
  BY <1>1 DEF ClientFields
<1>8. Starting(c)
  BY <1>2, <1>3, <1>4, <1>5, <1>6, <1>7 DEF Starting, IsClient
<1>9. Data(c) = <<>> /\ <<>> \o <<>> = <<>>
  BY <1>5, <1>6, <1>7, QueuedComputes, ConcatEmptySeq DEF Data
<1>10. taken = <<>> /\ received = <<>> /\ toCome \in Seq(Nat)
  BY InputAssumption DEF Init
<1> QED
  BY <1>6, <1>7, <1>8, <1>9, <1>10 DEF IInv, Items, Holds

LEMMA Stays == IInv /\ [Next]_vars => IInv'
<1>1. ASSUME IInv, Next PROVE IInv'
  BY <1>1, GoodStep, StartingStep DEF IInv
<1>2. ASSUME IInv, UNCHANGED vars PROVE IInv'
  BY <1>2 DEF IInv, Items, vars
<1> QED
  BY <1>1, <1>2

\* A sequence is a prefix of itself with more behind it.
LEMMA PrefixOf ==
  ASSUME NEW s \in Seq(Nat), NEW u \in Seq(Nat)
  PROVE  IsPrefix(s, s \o u)
<1> DEFINE w == s \o u
           n == Len(s)
<1>1. /\ w \in Seq(Nat) /\ n \in Nat /\ Len(w) \in Nat /\ n <= Len(w) /\ s \in Seq(Nat)
      /\ \A i \in 1 .. n : w[i] = s[i]
  BY ConcatProperties, LenProperties
<1> HIDE DEF w, n
<1>2. SubSeq(s, 1, n) = SubSeq(w, 1, n)
  <2> DEFINE a == SubSeq(s, 1, n)
             b == SubSeq(w, 1, n)
  <2>1. a \in Seq(Nat) /\ Len(a) = n /\ \A i \in 1 .. n : a[i] = s[i]
    BY <1>1, SubSeqProperties, LenProperties DEF n
  <2>2. b \in Seq(Nat) /\ Len(b) = n /\ \A i \in 1 .. n : b[i] = w[i]
    BY <1>1, SubSeqProperties
  <2> HIDE DEF a, b
  <2>3. a = b
    BY <1>1, <2>1, <2>2, SeqEqual
  <2> QED
    BY <2>3 DEF a, b
<1> QED
  BY <1>1, <1>2 DEF IsPrefix, w, n

\* The invariant says what the shell has and what is kept for it.
LEMMA Means == IInv => NeverRaises /\ InOrder
<1> SUFFICES ASSUME IInv PROVE NeverRaises /\ InOrder
  OBVIOUS
<1>1. NeverRaises
  BY DEF IInv, Good, Starting, NeverRaises
<1> DEFINE t == taken
           b == c.reader.buffer
           k == Queued(c.rx_queue)
           kept == (t \o b) \o k
<1>2. t \in Seq(Nat) /\ b \in Seq(Nat) /\ k \in Seq(Nat)
  BY QueuedType DEF IInv, Items, Good, Starting, IsClient, IsReader
<1>3. Data(c) = b \o k
  BY DEF Data
<1>4. Holds(c, t, received)
  BY DEF IInv
<1> HIDE DEF t, b, k
<1>5. t \o (b \o k) = (t \o b) \o k /\ (t \o b) \o k \in Seq(Nat)
  <2>1. (t \o b) \o k = t \o (b \o k)
    BY ONLY <1>2, ConcatAssociative, SMTT(30)
  <2>2. t \o b \in Seq(Nat)
    BY ONLY <1>2, ConcatProperties
  <2>3. (t \o b) \o k \in Seq(Nat)
    BY ONLY <1>2, <2>2, ConcatProperties
  <2> QED
    BY ONLY <2>1, <2>3
<1>6. IF c.closing THEN \E lost \in Seq(Nat) : kept \o lost = received ELSE kept = received
  BY <1>3, <1>4, <1>5 DEF Holds
<1> HIDE DEF kept
<1>7. c.closing => IsPrefix(kept, received)
  BY <1>5, <1>6, PrefixOf DEF kept
<1>8. InOrder
  BY <1>6, <1>7 DEF InOrder, kept, t, b, k
<1> QED
  BY <1>1, <1>8

\* A shell reads what the transport delivered, each block once and in order,
\* whatever the chunks, the pauses and the turns of the receive task
\* (data_received, _process_rx and the reader); a connection that is lost cuts
\* the end off and nothing else.
THEOREM InOrderHolds == Spec => []InOrder
<1>1. Init => IInv
  BY Started
<1>2. IInv /\ [Next]_vars => IInv'
  BY Stays
<1>3. IInv => InOrder
  BY Means
<1> QED
  BY <1>1, <1>2, <1>3, PTL DEF Spec

\* No callback of the client raises unless the opener's cancellation has taken
\* the future from it: _waiter_connected is given one result and the timer is
\* removed while it is there (_check_negotiation_timer, called by the timer and
\* by _process_rx, and connection_lost), and a cancelled opener is the only
\* other one to end it (open_connection, which awaits it).
THEOREM NeverRaisesHolds == Spec => []NeverRaises
<1>1. Init => IInv
  BY Started
<1>2. IInv /\ [Next]_vars => IInv'
  BY Stays
<1>3. IInv => NeverRaises
  BY Means
<1> QED
  BY <1>1, <1>2, <1>3, PTL DEF Spec
==============================================================================
