------------------------- MODULE StreamReaderProofs -------------------------
(***************************************************************************)
(* Nothing is lost between the transport and the coroutine, for any        *)
(* stream, limit, chunks, calls and number of calls.  What a turn gives    *)
(* back and what it leaves in the buffer make up what there was but for    *)
(* a NUL (TelnetReaderProofs); dropping NULs and putting data together     *)
(* are folds, so what they do is proved along them (FoldInduction).        *)
(***************************************************************************)
EXTENDS StreamReader, TelnetReaderProofs

(***************************************************************************)
(* The two folds.                                                          *)
(***************************************************************************)
Unless(c, t, b) == WithoutNul(t, b)
InBytes(c, t) == t \in Seq(Bytes)
Apart(c, t) == NoNul(c[1] \o t) = NoNul(c[1]) \o NoNul(t)
And(c, t, x) == AndData(t, x)

Nuls == INSTANCE FoldInduction WITH op <- Unless, P <- InBytes
Parts == INSTANCE FoldInduction WITH op <- Unless, P <- Apart
Datas == INSTANCE FoldInduction WITH op <- And, P <- InBytes

LEMMA AppendOfConcat ==
  ASSUME NEW S, NEW s \in Seq(S), NEW t \in Seq(S), NEW x \in S
  PROVE  s \o Append(t, x) = Append(s \o t, x)
<1>1. <<x>> \in Seq(S) /\ s \o t \in Seq(S)
  BY ConcatProperties
<1>2. Append(t, x) = t \o <<x>> /\ Append(s \o t, x) = (s \o t) \o <<x>>
  BY <1>1, AppendIsConcat
<1>3. (s \o t) \o <<x>> = s \o (t \o <<x>>)
  BY <1>1, ConcatAssociative, SMTT(30)
<1> QED
  BY <1>2, <1>3

LEMMA NoNulIsFold == \A s : NoNul(s) = Nuls!Folded(<<>>, <<>>, s)
BY DEF NoNul, Unless, Nuls!Folded, Nuls!IsFold, Nuls!Last, FoldLeft, MapThenFoldSet, Max

LEMMA NoNulComputes ==
  /\ NoNul(<<>>) = <<>>
  /\ \A s \in Seq(Bytes), b \in Bytes : NoNul(Append(s, b)) = WithoutNul(NoNul(s), b)
<1>1. \A s \in Seq(Bytes), b \in Bytes :
        Nuls!Folded(<<>>, <<>>, Append(s, b)) = Unless(<<>>, Nuls!Folded(<<>>, <<>>, s), b)
  BY Nuls!FoldOfAppend
<1>2. Nuls!Folded(<<>>, <<>>, <<>>) = <<>>
  BY Nuls!FoldOfNone
<1> QED
  BY <1>1, <1>2, NoNulIsFold DEF Unless

LEMMA NoNulType == ASSUME NEW s \in Seq(Bytes) PROVE NoNul(s) \in Seq(Bytes)
<1>1. InBytes(<<>>, <<>>)
  BY EmptySeq DEF InBytes
<1>2. ASSUME NEW u, NEW i \in DOMAIN s, InBytes(<<>>, u) PROVE InBytes(<<>>, Unless(<<>>, u, s[i]))
  <2>1. s[i] \in Bytes
    BY ElementOfSeq, LenProperties
  <2> QED
    BY <1>2, <2>1, AppendProperties DEF InBytes, Unless, WithoutNul
<1>3. InBytes(<<>>, Nuls!Folded(<<>>, <<>>, s))
  BY <1>1, <1>2, Nuls!FoldStays
<1> QED
  BY <1>3, NoNulIsFold DEF InBytes

\* Dropping the NULs of two sequences put together.
LEMMA NoNulOfBoth ==
  ASSUME NEW s \in Seq(Bytes), NEW t \in Seq(Bytes)
  PROVE  NoNul(s \o t) = NoNul(s) \o NoNul(t)
<1> DEFINE c == <<s>>
<1>1. Apart(c, <<>>)
  <2>1. NoNul(s) \in Seq(Bytes) /\ NoNul(<<>>) = <<>>
    BY NoNulType, NoNulComputes
  <2>2. s \o <<>> = s /\ NoNul(s) \o <<>> = NoNul(s)
    BY <2>1, ConcatEmptySeq
  <2> QED
    BY <2>1, <2>2 DEF Apart
<1>2. ASSUME NEW u \in Seq(Bytes), NEW b \in Bytes, Apart(c, u) PROVE Apart(c, Append(u, b))
  <2> DEFINE n == NoNul(s)
             m == NoNul(u)
             v == s \o u
  <2>1. NoNul(v) = n \o m
    BY <1>2 DEF Apart
  <2>2. v \in Seq(Bytes) /\ s \o Append(u, b) = Append(v, b)
    BY ConcatProperties, AppendOfConcat
  <2>3. NoNul(Append(v, b)) = WithoutNul(n \o m, b) /\ NoNul(Append(u, b)) = WithoutNul(m, b)
    BY <2>1, <2>2, NoNulComputes
  <2>4. n \in Seq(Bytes) /\ m \in Seq(Bytes)
    BY NoNulType
  <2> HIDE DEF n, m
  <2>5. n \o Append(m, b) = Append(n \o m, b)
    BY <2>4, AppendOfConcat
  <2>6. WithoutNul(n \o m, b) = n \o WithoutNul(m, b)
    BY <2>5 DEF WithoutNul
  <2> QED
    BY <2>2, <2>3, <2>6 DEF Apart, n, m
<1> HIDE DEF c
<1>3. Apart(c, t)
  BY <1>1, <1>2, Parts!PrefixInduction
<1> QED
  BY <1>3 DEF Apart, c

Result == [op : Ops, how : Outcomes \cup {"raise", "cancelled"}, data : Seq(Bytes)]

LEMMA GivenIsFold == \A rs : Given(rs) = Datas!Folded(<<>>, <<>>, rs)
BY DEF Given, And, Datas!Folded, Datas!IsFold, Datas!Last, FoldLeft, MapThenFoldSet, Max

LEMMA GivenComputes ==
  /\ Given(<<>>) = <<>>
  /\ \A rs \in Seq(Result), x \in Result : Given(Append(rs, x)) = Given(rs) \o x.data
<1>2. \A s \in Seq(Result), x \in Result :
        Datas!Folded(<<>>, <<>>, Append(s, x)) = And(<<>>, Datas!Folded(<<>>, <<>>, s), x)
  BY Datas!FoldOfAppend
<1>3. Datas!Folded(<<>>, <<>>, <<>>) = <<>>
  BY Datas!FoldOfNone
<1> QED
  BY <1>2, <1>3, GivenIsFold DEF And, AndData

LEMMA GivenType == ASSUME NEW rs \in Seq(Result) PROVE Given(rs) \in Seq(Bytes)
<1>1. InBytes(<<>>, <<>>)
  BY EmptySeq DEF InBytes
<1>2. ASSUME NEW u, NEW i \in DOMAIN rs, InBytes(<<>>, u) PROVE InBytes(<<>>, And(<<>>, u, rs[i]))
  <2>1. rs[i] \in Result
    BY ElementOfSeq, LenProperties
  <2>2. rs[i].data \in Seq(Bytes)
    BY <2>1 DEF Result
  <2> QED
    BY <1>2, <2>2, ConcatProperties DEF InBytes, And, AndData
<1>3. InBytes(<<>>, Datas!Folded(<<>>, <<>>, rs))
  BY <1>1, <1>2, Datas!FoldStays
<1> QED
  BY <1>3, GivenIsFold DEF InBytes

(***************************************************************************)
(* One turn of a coroutine of the bytes' reader.                           *)
(***************************************************************************)
CallFields == {"at", "op", "n", "ends", "held", "cancelling"}
IsCall(c) ==
  /\ DOMAIN c = CallFields /\ c.op \in BinaryOps /\ c.n \in Nat /\ c.held \in Seq(Bytes)
  /\ c.op \notin {"read_all", "readline"} => c.held = <<>>

\* What the outcome gives and leaves is what there was, the NULs apart.
Preserves(r, held, o) ==
  /\ IsReader(o.r, Bytes) /\ o.data \in Seq(Bytes) /\ o.how \in Outcomes
  /\ NoNul(o.data \o o.r.buffer) = NoNul(held \o r.buffer)

LEMMA SplitsPreserves ==
  ASSUME NEW r, IsReader(r, Bytes), NEW held \in Seq(Bytes), NEW o,
         Splits(r, held, o, Bytes) \/ SplitsLine(r, held, o, Bytes)
  PROVE  Preserves(r, held, o)
<1>1. IsReader(o.r, Bytes) /\ o.data \in Seq(Bytes) /\ o.how \in Outcomes
  BY DEF Splits, SplitsLine
<1>2. CASE Splits(r, held, o, Bytes)
  BY <1>1, <1>2 DEF Splits, Preserves
<1>3. CASE SplitsLine(r, held, o, Bytes)
  <2> DEFINE data == o.data
             rest == o.r.buffer
  <2>1. PICK drop \in {<<>>, <<"NUL">>} :
          drop \in Seq(Bytes) /\ (data \o drop) \o rest = held \o r.buffer
    BY <1>3 DEF SplitsLine
  <2>2. data \in Seq(Bytes) /\ rest \in Seq(Bytes) /\ drop \in Seq(Bytes)
    BY <1>1, <2>1 DEF IsReader
  <2> HIDE DEF data, rest
  <2>3. data \o drop \in Seq(Bytes)
    BY <2>2, ConcatProperties
  <2>4. NoNul(drop) = <<>>
    <3>1. CASE drop = <<>>
      BY <3>1, NoNulComputes
    <3>2. CASE drop = <<"NUL">>
      <4>1. "NUL" \in Bytes /\ <<>> \in Seq(Bytes)
        BY <2>2, <3>2, ElementOfSeq, LenProperties, EmptySeq
      <4>2. drop = Append(<<>>, "NUL")
        BY <3>2
      <4> QED
        BY <4>1, <4>2, NoNulComputes DEF WithoutNul
    <3> QED
      BY <2>1, <3>1, <3>2
  <2>5. NoNul(data) \in Seq(Bytes) /\ NoNul(data) \o <<>> = NoNul(data)
    BY <2>2, NoNulType, ConcatEmptySeq
  <2>6. NoNul(data \o drop) = NoNul(data)
    BY <2>2, <2>4, <2>5, NoNulOfBoth, ZenonT(40)
  <2>7. NoNul((data \o drop) \o rest) = NoNul(data) \o NoNul(rest)
    BY <2>2, <2>3, <2>6, NoNulOfBoth
  <2>8. NoNul(data \o rest) = NoNul(data) \o NoNul(rest)
    BY <2>2, NoNulOfBoth
  <2>9. NoNul(data \o rest) = NoNul(held \o r.buffer)
    BY <2>1, <2>7, <2>8
  <2> QED
    BY <1>1, <2>9 DEF Preserves, data, rest
<1> QED
  BY <1>2, <1>3

LEMMA TurnPreserves ==
  ASSUME NEW r, IsReader(r, Bytes), NEW c, IsCall(c), NEW waited
  PROVE  /\ Preserves(r, c.held, Turn(r, c, waited))
         /\ c.op \notin {"read_all", "readline"} /\ Turn(r, c, waited).how \in {"wait", "again"} =>
              Turn(r, c, waited).data = <<>>
<1> DEFINE o == Turn(r, c, waited)
<1>1. c.n \in Nat /\ c.held \in Seq(Bytes)
  BY DEF IsCall
<1>2. CASE c.op \notin {"read_all", "readline"}
  <2>1. \/ o = read(r, c.n, waited) \/ o = readexactly(r, c.n)
        \/ o = readuntil(r, CHOOSE e \in c.ends : TRUE) \/ o = readuntil_pattern(r, c.ends)
    BY <1>2 DEF IsCall, BinaryOps, Turn
  <2>2. c.held = <<>> /\ <<>> \in Seq(Bytes)
    BY <1>2, EmptySeq DEF IsCall
  <2> HIDE DEF o
  <2>3. Takes(r, o, Bytes)
    BY <1>1, <2>1, ReadSplits, ReadExactlySplits, ReadUntilSplits, ReadUntilPatternSplits
  <2>4. Preserves(r, c.held, o)
    BY <2>2, <2>3, SplitsPreserves DEF Takes
  <2> QED
    BY <2>3, <2>4 DEF Takes, o
<1>3. CASE c.op = "read_all"
  <2>1. o = read_all(r, c.held, waited)
    BY <1>3 DEF Turn
  <2>2. Splits(r, c.held, read_all(r, c.held, waited), Bytes)
    BY <1>1, ReadAllSplits
  <2> HIDE DEF o
  <2>3. Preserves(r, c.held, o)
    BY <1>1, <2>1, <2>2, SplitsPreserves
  <2> QED
    BY <1>3, <2>3 DEF o
<1>4. CASE c.op = "readline"
  <2>1. o = readline(r, c.held)
    BY <1>4 DEF Turn
  <2>2. SplitsLine(r, c.held, readline(r, c.held), Bytes)
    BY <1>1, ReadLineSplits
  <2> HIDE DEF o
  <2>3. Preserves(r, c.held, o)
    BY <1>1, <2>1, <2>2, SplitsPreserves
  <2> QED
    BY <1>4, <2>3 DEF o
<1> QED
  BY <1>2, <1>3, <1>4

(***************************************************************************)
(* The books: what was given back, what the call holds and what is in the  *)
(* buffer are what was fed.                                                *)
(***************************************************************************)
Sound(r, held, rs, f) ==
  /\ IsReader(r, Bytes) /\ held \in Seq(Bytes) /\ rs \in Seq(Result) /\ f \in Seq(Bytes)
  /\ NoNul(Given(rs) \o (held \o r.buffer)) = NoNul(f)

LEMMA GoesOnSound ==
  ASSUME NEW r, NEW held, NEW rs, NEW f, Sound(r, held, rs, f),
         NEW s, IsReader(s, Bytes), NEW more \in Seq(Bytes),
         NoNul(more \o s.buffer) = NoNul(held \o r.buffer)
  PROVE  Sound(s, more, rs, f)
<1> DEFINE g == Given(rs)
           before == held \o r.buffer
           after == more \o s.buffer
<1>1. /\ g \in Seq(Bytes) /\ before \in Seq(Bytes) /\ after \in Seq(Bytes)
      /\ NoNul(after) = NoNul(before) /\ NoNul(g \o before) = NoNul(f)
  BY GivenType, ConcatProperties DEF Sound, IsReader
<1> HIDE DEF g, before, after
<1>2. NoNul(g \o after) = NoNul(g \o before)
  <2>1. g \in Seq(Bytes) /\ before \in Seq(Bytes) /\ after \in Seq(Bytes)
    BY <1>1
  <2>2. NoNul(g \o after) = NoNul(g) \o NoNul(after)
    BY <2>1, NoNulOfBoth
  <2>3. NoNul(g \o before) = NoNul(g) \o NoNul(before)
    BY <2>1, NoNulOfBoth
  <2> QED
    BY <1>1, <2>2, <2>3
<1> QED
  BY <1>1, <1>2 DEF Sound, g, after

LEMMA OverSound ==
  ASSUME NEW r, NEW held, NEW rs, NEW f, Sound(r, held, rs, f),
         NEW s, IsReader(s, Bytes), NEW x \in Result,
         NoNul(x.data \o s.buffer) = NoNul(held \o r.buffer)
  PROVE  Sound(s, <<>>, Append(rs, x), f)
<1> DEFINE g == Given(rs)
           data == x.data
           rest == s.buffer
<1>1. rs \in Seq(Result) /\ f \in Seq(Bytes) /\ data \in Seq(Bytes) /\ rest \in Seq(Bytes)
  BY DEF Sound, Result, IsReader
<1>2. Sound(s, data, rs, f)
  BY <1>1, GoesOnSound
<1>3. g \in Seq(Bytes) /\ Given(Append(rs, x)) = g \o data
  BY <1>1, GivenType, GivenComputes
<1>4. Append(rs, x) \in Seq(Result)
  BY <1>1, AppendProperties
<1>5. NoNul(g \o (data \o rest)) = NoNul(f)
  BY <1>2 DEF Sound
<1>6. <<>> \in Seq(Bytes) /\ <<>> \o rest = rest
  BY <1>1, EmptySeq, ConcatEmptySeq
<1> HIDE DEF g, data, rest
<1>7. (g \o data) \o rest = g \o (data \o rest)
  BY <1>1, <1>3, Together, SMTT(30)
<1>8. NoNul(Given(Append(rs, x)) \o (<<>> \o rest)) = NoNul(f)
  BY <1>3, <1>5, <1>6, <1>7
<1> QED
  BY <1>1, <1>4, <1>6, <1>8 DEF Sound, rest

LEMMA FeedSound ==
  ASSUME NEW r, NEW held, NEW rs, NEW f, Sound(r, held, rs, f), NEW data \in Seq(Bytes)
  PROVE  Sound(feed_data(r, data), held, rs, f \o data)
<1> DEFINE g == Given(rs)
           b == r.buffer
           fed1 == feed_data(r, data)
           hb == held \o b
<1>1. g \in Seq(Bytes) /\ b \in Seq(Bytes) /\ held \in Seq(Bytes) /\ f \in Seq(Bytes)
  BY GivenType DEF Sound, IsReader
<1>8. IsReader(r, Bytes) /\ rs \in Seq(Result) /\ NoNul(g \o hb) = NoNul(f)
  BY DEF Sound
<1>2. IsReader(fed1, Bytes) /\ fed1.buffer = b \o data
  BY <1>8, FeedAppends
<1> HIDE DEF g, b, fed1
<1>3. hb \in Seq(Bytes) /\ held \o (b \o data) = hb \o data
  BY <1>1, Together, SMTT(30)
<1> HIDE DEF hb
<1>4. hb \in Seq(Bytes)
  BY <1>3
<1>5. g \o hb \in Seq(Bytes) /\ (g \o hb) \o data = g \o (hb \o data)
  BY <1>1, <1>4, Together, SMTT(30)
<1> DEFINE ghb == g \o hb
<1>9. ghb \in Seq(Bytes) /\ f \in Seq(Bytes)
  BY <1>1, <1>5
<1> HIDE DEF ghb
<1>10. NoNul(ghb \o data) = NoNul(ghb) \o NoNul(data)
  BY <1>9, NoNulOfBoth
<1>11. NoNul(f \o data) = NoNul(f) \o NoNul(data) /\ f \o data \in Seq(Bytes)
  BY <1>9, NoNulOfBoth, ConcatProperties
<1>6. NoNul((g \o hb) \o data) = NoNul(f \o data) /\ f \o data \in Seq(Bytes)
  BY <1>8, <1>10, <1>11 DEF ghb
<1>7. NoNul(g \o (held \o fed1.buffer)) = NoNul(f \o data)
  BY <1>2, <1>3, <1>5, <1>6
<1> QED
  BY <1>1, <1>2, <1>6, <1>7, <1>8 DEF Sound, g, fed1

LEMMA SameSound ==
  ASSUME NEW r, NEW held, NEW rs, NEW f, Sound(r, held, rs, f), NEW s, Same(r, s, Bytes)
  PROVE  Sound(s, held, rs, f)
BY DEF Sound, Same

InCall(c) ==
  DOMAIN c = CallFields /\ (c.at = "idle" => c.held = <<>>) /\ (c.at # "idle" => IsCall(c))

\* The inductive invariant.
IInv ==
  /\ is_binary_reader \in BOOLEAN
  /\ is_binary_reader =>
       Sound(reader, call.held, results, fed) /\ InCall(call) /\ toCome \in Seq(Bytes)

LEMMA OverKeeps ==
  ASSUME NEW r, NEW c, IsCall(c), Sound(r, c.held, results, fed),
         NEW how \in Outcomes \cup {"raise", "cancelled"}, NEW data \in Seq(Bytes),
         NEW s, IsReader(s, Bytes), NoNul(data \o s.buffer) = NoNul(c.held \o r.buffer),
         Over(c, how, data), reader' = s
  PROVE  Sound(reader', call'.held, results', fed) /\ InCall(call')
<1> DEFINE x == [op |-> c.op, how |-> how, data |-> data]
<1>1. x \in Result /\ x.data = data /\ results' = Append(results, x)
  BY DEF Over, Result, Ops, IsCall
<1> HIDE DEF x
<1>2. Sound(s, <<>>, results', fed)
  BY <1>1, OverSound
<1>3. call'.held = <<>> /\ InCall(call')
  BY DEF Over, Idle, InCall, CallFields
<1> QED
  BY <1>2, <1>3

LEMMA GoesKeeps ==
  ASSUME NEW r, NEW c, IsCall(c), Sound(r, c.held, results, fed), NEW waited,
         Goes(c, Turn(r, c, waited))
  PROVE  Sound(reader', call'.held, results', fed) /\ InCall(call')
<1> DEFINE o == Turn(r, c, waited)
<1>1. Preserves(r, c.held, o)
  BY TurnPreserves DEF Sound
<1>2. c.op \notin {"read_all", "readline"} /\ o.how \in {"wait", "again"} => o.data = <<>>
  BY TurnPreserves DEF Sound
<1>3. Goes(c, o)
  OBVIOUS
<1> HIDE DEF o
<1>4. /\ IsReader(o.r, Bytes) /\ o.data \in Seq(Bytes) /\ o.how \in Outcomes
      /\ NoNul(o.data \o o.r.buffer) = NoNul(c.held \o r.buffer) /\ reader' = o.r
  BY <1>1, <1>3 DEF Preserves, Goes
<1>5. CASE o.how \in {"wait", "again"}
  <2>1. /\ DOMAIN call' = CallFields /\ call'.held = o.data /\ call'.op = c.op /\ call'.n = c.n
        /\ call'.at # "idle" /\ results' = results
    BY <1>3, <1>5 DEF Goes, IsCall, CallFields
  <2>2. InCall(call')
    BY <1>2, <1>4, <1>5, <2>1 DEF InCall, IsCall
  <2>3. Sound(o.r, o.data, results, fed)
    BY <1>4, GoesOnSound
  <2> QED
    BY <1>4, <2>1, <2>2, <2>3
<1>6. CASE o.how \notin {"wait", "again"}
  <2>1. Over(c, o.how, o.data)
    BY <1>3, <1>6 DEF Goes
  <2> QED
    BY <1>4, <2>1, OverKeeps
<1> QED
  BY <1>5, <1>6

LEMMA EnterKeeps ==
  ASSUME NEW c, IsCall(c), Sound(reader, c.held, results, fed), Enter(c)
  PROVE  Sound(reader', call'.held, results', fed) /\ InCall(call')
<1>1. CASE reader.exception
  BY <1>1, OverKeeps DEF Enter, IsCall, Sound
<1>2. CASE ~reader.exception
  BY <1>2, GoesKeeps DEF Enter
<1> QED
  BY <1>1, <1>2

LEMMA Keeps == IInv /\ [Next]_vars => IInv'
<1> SUFFICES ASSUME IInv, [Next]_vars PROVE IInv'
  OBVIOUS
<1>1. is_binary_reader' = is_binary_reader
  BY DEF Next, Coroutine, Begin, Again, Resumed, Cancel, Feed, FeedEof, Lose, Recode, vars
<1>2. CASE ~is_binary_reader
  BY <1>1, <1>2 DEF IInv
<1> SUFFICES ASSUME is_binary_reader
             PROVE  Sound(reader, call.held, results, fed)' /\ InCall(call') /\ toCome' \in Seq(Bytes)
  BY <1>1, <1>2 DEF IInv
<1>3. Sound(reader, call.held, results, fed) /\ InCall(call) /\ toCome \in Seq(Bytes)
  BY DEF IInv
<1>4. IsReader(reader, Bytes) /\ <<>> \in Seq(Bytes)
  BY <1>3, EmptySeq DEF Sound
<1>5. CASE Begin
  <2>1. PICK c \in Calls :
          /\ c.op \notin UnicodeOps
          /\ Enter([Idle EXCEPT !.op = c.op, !.n = c.n, !.ends = c.ends])
    BY <1>5 DEF Begin
  <2> DEFINE d == [Idle EXCEPT !.op = c.op, !.n = c.n, !.ends = c.ends]
  <2>2. c.op \in BinaryOps /\ c.n \in Nat
    BY <2>1, CallsAssumption DEF Ops
  <2>3. IsCall(d) /\ d.held = <<>>
    BY <1>4, <2>2 DEF IsCall, Idle, CallFields
  <2>4. call.held = <<>>
    BY <1>3, <1>5 DEF Begin, InCall
  <2> HIDE DEF d
  <2>5. Sound(reader, d.held, results, fed)
    BY <1>3, <2>3, <2>4
  <2>6. Sound(reader', call'.held, results', fed) /\ InCall(call')
    BY <2>1, <2>3, <2>5, EnterKeeps DEF d
  <2> QED
    BY <1>3, <1>5, <2>6 DEF Begin
<1>6. CASE Again
  <2>1. IsCall(call)
    BY <1>3, <1>6 DEF Again, InCall
  <2>2. Sound(reader', call'.held, results', fed) /\ InCall(call')
    BY <1>3, <1>6, <2>1, EnterKeeps DEF Again
  <2> QED
    BY <1>3, <1>6, <2>2 DEF Again
<1>7. CASE Resumed
  <2> DEFINE r == Awoken(reader)
  <2>1. IsCall(call) /\ call.held \in Seq(Bytes)
    BY <1>3, <1>7 DEF Resumed, InCall, IsCall
  <2>2. Same(reader, r, Bytes)
    BY <1>4, WakingKeeps
  <2> HIDE DEF r
  <2>3. Sound(r, call.held, results, fed) /\ IsReader(r, Bytes)
    BY <1>3, <2>2, SameSound DEF Same
  <2>4. \/ Over(call, "cancelled", call.held) /\ reader' = r
        \/ Over(call, "raise", call.held) /\ reader' = r
        \/ Goes(call, Turn(r, call, TRUE))
    BY <1>7 DEF Resumed, r
  <2>5. Sound(reader', call'.held, results', fed) /\ InCall(call')
    BY <2>1, <2>3, <2>4, OverKeeps, GoesKeeps
  <2> QED
    BY <1>3, <1>7, <2>5 DEF Resumed
<1>8. CASE Cancel
  <2>1. Same(reader, reader', Bytes)
    BY <1>4, <1>8 DEF Cancel, Same, IsReader, ReaderFields
  <2>2. InCall(call') /\ call'.held = call.held
    BY <1>3, <1>8 DEF Cancel, InCall, IsCall, CallFields
  <2>3. Sound(reader', call.held, results, fed)
    BY <1>3, <2>1, SameSound
  <2> QED
    BY <1>3, <1>8, <2>2, <2>3 DEF Cancel
<1>9. CASE Feed
  <2>1. PICK n \in 1 .. MaxChunk :
          /\ n <= Len(toCome)
          /\ reader' = feed_data(reader, SubSeq(toCome, 1, n))
          /\ fed' = fed \o SubSeq(toCome, 1, n)
          /\ toCome' = SubSeq(toCome, n + 1, Len(toCome))
    BY <1>9 DEF Feed
  <2>2. n \in 0 .. Len(toCome)
    BY <1>3, <2>1, LenProperties
  <2>3. SubSeq(toCome, 1, n) \in Seq(Bytes) /\ toCome' \in Seq(Bytes)
    BY <1>3, <2>1, <2>2, Cut
  <2>4. Sound(reader', call.held, results, fed')
    BY <1>3, <2>1, <2>3, FeedSound
  <2> QED
    BY <1>3, <1>9, <2>3, <2>4 DEF Feed
<1>10. CASE FeedEof \/ Lose
  <2>1. Same(reader, reader', Bytes)
    BY <1>4, <1>10, WakingKeeps DEF FeedEof, Lose
  <2>2. Sound(reader', call.held, results, fed)
    BY <1>3, <2>1, SameSound
  <2> QED
    BY <1>3, <1>10, <2>2 DEF FeedEof, Lose
<1>11. CASE Recode
  <2>1. Same(reader, reader', Bytes)
    BY <1>4, <1>11 DEF Recode, Same, IsReader, ReaderFields
  <2>2. Sound(reader', call.held, results, fed)
    BY <1>3, <2>1, SameSound
  <2> QED
    BY <1>3, <1>11, <2>2 DEF Recode
<1>12. CASE UNCHANGED vars
  BY <1>3, <1>12 DEF vars
<1> QED
  BY <1>5, <1>6, <1>7, <1>8, <1>9, <1>10, <1>11, <1>12 DEF Next, Coroutine

\* Whatever the peer sends, however it is cut, whichever calls are made and
\* cancelled and whenever the connection ends: every byte that was fed is in
\* one result, in a call's hands or in the buffer, in its order, but for NULs.
THEOREM NothingLostHolds == Spec => []NothingLost
<1>1. Init => IInv
  <2> SUFFICES ASSUME Init PROVE IInv
    OBVIOUS
  <2>1. <<>> \in Seq(Bytes) /\ <<>> \in Seq(Result) /\ toCome \in Seq(Bytes)
    BY EmptySeq, InputAssumption DEF Init
  <2>2. IsReader(reader, Bytes) /\ reader.buffer = <<>> /\ call.held = <<>> /\ InCall(call)
    BY <2>1 DEF Init, NewReader, IsReader, ReaderFields, Idle, InCall, CallFields
  <2>3. Given(<<>>) \o (<<>> \o <<>>) = <<>>
    BY GivenComputes, <2>1, ConcatEmptySeq
  <2>4. Sound(reader, call.held, results, fed)
    BY <2>1, <2>2, <2>3 DEF Sound, Init
  <2> QED
    BY <2>1, <2>2, <2>4 DEF IInv, Init
<1>2. IInv => NothingLost
  <2> SUFFICES ASSUME IInv, is_binary_reader PROVE NothingLost
    BY DEF NothingLost
  <2> DEFINE g == Given(results)
             h == call.held
             b == reader.buffer
  <2>1. g \in Seq(Bytes) /\ h \in Seq(Bytes) /\ b \in Seq(Bytes)
    BY GivenType DEF IInv, Sound, IsReader
  <2>2. NoNul(g \o (h \o b)) = NoNul(fed)
    BY DEF IInv, Sound
  <2> HIDE DEF g, h, b
  <2>3. (g \o h) \o b = g \o (h \o b)
    BY <2>1, Together, SMTT(30)
  <2> QED
    BY <2>2, <2>3 DEF NothingLost, g, h, b
<1> QED
  BY <1>1, <1>2, Keeps, PTL DEF Spec
=============================================================================
