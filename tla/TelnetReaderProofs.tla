------------------------- MODULE TelnetReaderProofs -------------------------
(***************************************************************************)
(* The TelnetReader as a queue of bytes: what each reading method takes    *)
(* from the buffer and what it leaves there, put together, is what there   *)
(* was.  Only readline drops anything, the NUL of a CR NUL.                *)
(***************************************************************************)
EXTENDS TelnetReader, SequenceTheorems, FiniteSetTheorems, WellFoundedInduction, TLAPS

ReaderFields ==
  {"buffer", "eof", "exception", "paused", "reading", "waiter", "future", "encoding", "decoder"}
IsReader(r, B) == DOMAIN r = ReaderFields /\ r.buffer \in Seq(B)

\* The reader x is r but for its buffer; an outcome leaves such a reader.
Same(r, x, B) == IsReader(x, B) /\ x.buffer = r.buffer
Outcomes == {"return", "incomplete", "overrun", "wait", "again"}

\* A call that had gathered held, and ends a turn with outcome o.
Splits(r, held, o, B) ==
  /\ IsReader(o.r, B) /\ o.data \in Seq(B) /\ o.how \in Outcomes
  /\ o.data \o o.r.buffer = held \o r.buffer

\* A call that gathers nothing: if it goes on, it has taken nothing.
Takes(r, o, B) == Splits(r, <<>>, o, B) /\ (o.how \in {"wait", "again"} => o.data = <<>>)

\* Three sequences put together, either way.
LEMMA Together ==
  ASSUME NEW B, NEW s \in Seq(B), NEW t \in Seq(B), NEW u \in Seq(B)
  PROVE  /\ s \o t \in Seq(B) /\ t \o u \in Seq(B)
         /\ (s \o t) \o u = s \o (t \o u)
BY ConcatProperties, ConcatAssociative, SMTT(30)

LEMMA WakingKeeps ==
  ASSUME NEW B, NEW r, IsReader(r, B)
  PROVE  /\ Same(r, _wakeup_waiter(r), B) /\ Same(r, set_exception(r), B)
         /\ Same(r, feed_eof(r), B) /\ Same(r, Awoken(r), B)
         /\ Same(r, _maybe_resume_transport(r), B) /\ Same(r, _wait_for_data(r), B)
         /\ Same(r, Pause(r), B)
BY DEF Same, IsReader, ReaderFields, _wakeup_waiter, set_exception, feed_eof, Awoken, Complete,
       _maybe_resume_transport, _wait_for_data, Resume, Pause

LEMMA FeedAppends ==
  ASSUME NEW B, NEW r, IsReader(r, B), NEW data \in Seq(B)
  PROVE  IsReader(feed_data(r, data), B) /\ feed_data(r, data).buffer = r.buffer \o data
<1> DEFINE x == [r EXCEPT !.buffer = @ \o data]
           fed == _wakeup_waiter(x)
<1>1. r.buffer \o data \in Seq(B)
  BY ConcatProperties DEF IsReader
<1>2. IsReader(x, B) /\ x.buffer = r.buffer \o data
  BY <1>1 DEF IsReader, ReaderFields
<1> HIDE DEF x
<1>3. Same(x, fed, B)
  BY <1>2, WakingKeeps
<1> HIDE DEF fed
<1>4. IsReader(fed, B) /\ fed.buffer = r.buffer \o data
  BY <1>2, <1>3 DEF Same
<1>5. Same(fed, Pause(fed), B)
  BY <1>4, WakingKeeps
<1>6. data = <<>> => r.buffer = r.buffer \o data
  BY ConcatEmptySeq DEF IsReader
<1>7. feed_data(r, data) = IF data = <<>> THEN r
        ELSE IF ~fed.paused /\ Len(fed.buffer) > 2 * limit THEN Pause(fed) ELSE fed
  BY DEF feed_data, fed, x
<1> QED
  BY <1>4, <1>5, <1>6, <1>7 DEF Same

\* A prefix and the rest.
LEMMA Cut ==
  ASSUME NEW B, NEW s \in Seq(B), NEW n \in 0 .. Len(s)
  PROVE  /\ SubSeq(s, 1, n) \in Seq(B) /\ SubSeq(s, n + 1, Len(s)) \in Seq(B)
         /\ SubSeq(s, 1, n) \o SubSeq(s, n + 1, Len(s)) = s
<1>1. Len(s) \in Nat /\ \A i \in 1 .. Len(s) : s[i] \in B
  BY LenProperties, ElementOfSeq
<1>2. 1 \in 1 .. Len(s) + 1 /\ n \in 1 - 1 .. Len(s) /\ Len(s) \in n .. Len(s)
  BY <1>1
<1>3. SubSeq(s, 1, n) \o SubSeq(s, n + 1, Len(s)) = SubSeq(s, 1, Len(s))
  BY <1>2, ConcatAdjacentSubSeq
<1>4. SubSeq(s, 1, Len(s)) = s
  BY SubSeqFull
<1>5. SubSeq(s, 1, n) \in Seq(B)
  <2>1. 1 \in Int /\ n \in Int /\ \A i \in 1 .. n : s[i] \in B
    BY <1>1
  <2> QED
    BY <2>1, SubSeqProperties
<1>6. SubSeq(s, n + 1, Len(s)) \in Seq(B)
  <2>1. n + 1 \in Int /\ Len(s) \in Int /\ \A i \in n + 1 .. Len(s) : s[i] \in B
    BY <1>1
  <2> QED
    BY <2>1, SubSeqProperties
<1> QED
  BY <1>3, <1>4, <1>5, <1>6

LEMMA TakeFirst ==
  ASSUME NEW B, NEW r, IsReader(r, B), NEW n \in 0 .. Len(r.buffer)
  PROVE  /\ IsReader(Take(r, n), B) /\ First(r, n) \in Seq(B)
         /\ First(r, n) \o Take(r, n).buffer = r.buffer
<1>1. r.buffer \in Seq(B)
  BY DEF IsReader
<1>2. Take(r, n).buffer = SubSeq(r.buffer, n + 1, Len(r.buffer)) /\ DOMAIN Take(r, n) = ReaderFields
  BY DEF IsReader, ReaderFields, Take
<1> QED
  BY <1>1, <1>2, Cut DEF IsReader, First

\* The outcomes of a turn.
LEMMA TurnEnds ==
  ASSUME NEW B, NEW r, IsReader(r, B), NEW data \in Seq(B)
  PROVE  /\ Return(r, data).data = data /\ Same(r, Return(r, data).r, B)
         /\ Return(r, data).how = "return" /\ Wait(r, data).how = "wait"
         /\ Wait(r, data).data = data /\ Same(r, Wait(r, data).r, B)
         /\ Outcome(r, "x", data).data = data
BY WakingKeeps DEF Return, Wait, Outcome

LEMMA ReturnSplits ==
  ASSUME NEW B, NEW r, IsReader(r, B), NEW n \in 0 .. Len(r.buffer)
  PROVE  Takes(r, Return(Take(r, n), First(r, n)), B)
<1> DEFINE t == Take(r, n)
           d == First(r, n)
<1>1. IsReader(t, B) /\ d \in Seq(B) /\ d \o t.buffer = r.buffer
  BY TakeFirst
<1>2. <<>> \o r.buffer = r.buffer
  BY ConcatEmptySeq DEF IsReader
<1> HIDE DEF t, d
<1>3. Return(t, d).data = d /\ Same(t, Return(t, d).r, B) /\ Return(t, d).how = "return"
  BY <1>1, TurnEnds
<1> DEFINE o == Return(t, d)
<1>5. o.data = d /\ Same(t, o.r, B) /\ o.how = "return"
  BY <1>3
<1> HIDE DEF o
<1>6. Splits(r, <<>>, o, B)
  BY <1>1, <1>2, <1>5 DEF Splits, Same, Outcomes
<1>4. Takes(r, Return(t, d), B)
  BY <1>5, <1>6 DEF Takes, o
<1> QED
  BY <1>4 DEF t, d

LEMMA NoneSplits ==
  ASSUME NEW B, NEW r, IsReader(r, B)
  PROVE  /\ \A held \in Seq(B) : Splits(r, held, Wait(r, held), B)
         /\ Takes(r, Wait(r, <<>>), B) /\ Takes(r, Outcome(r, "overrun", <<>>), B)
         /\ Takes(r, AtEof(r), B)
<1>1. r.buffer \in Seq(B) /\ <<>> \in Seq(B) /\ <<>> \o r.buffer = r.buffer /\ r.buffer \o <<>> = r.buffer
  BY ConcatEmptySeq, EmptySeq DEF IsReader
<1>2. ASSUME NEW held \in Seq(B) PROVE Splits(r, held, Wait(r, held), B)
  <2> DEFINE o == Wait(r, held)
  <2>1. o.data = held /\ Same(r, o.r, B) /\ o.how = "wait"
    BY TurnEnds
  <2> HIDE DEF o
  <2>2. Splits(r, held, o, B)
    BY <2>1 DEF Splits, Same, Outcomes
  <2> QED
    BY <2>2 DEF o
<1>3. Takes(r, Outcome(r, "overrun", <<>>), B)
  BY <1>1 DEF Takes, Splits, Outcome, Outcomes
<1>4. Takes(r, AtEof(r), B)
  BY <1>1 DEF Takes, Splits, AtEof, Outcome, Outcomes, IsReader, ReaderFields
<1>5. Takes(r, Wait(r, <<>>), B)
  <2> DEFINE o == Wait(r, <<>>)
  <2>1. Splits(r, <<>>, o, B)
    BY <1>1, <1>2
  <2>3. o.data = <<>>
    BY DEF Wait, Outcome
  <2> HIDE DEF o
  <2>2. Takes(r, o, B)
    BY <2>1, <2>3 DEF Takes
  <2> QED
    BY <2>2 DEF o
<1> QED
  BY <1>2, <1>3, <1>4, <1>5

\* Every set of natural numbers but the empty one has a least element.
LEMMA NatMin == ASSUME NEW T \in SUBSET Nat, T # {} PROVE \E x \in T : \A y \in T : x <= y
<1> DEFINE U == {0 .. x : x \in T}
<1>1. U \subseteq FiniteSubsetsOf(Nat) /\ U # {}
  <2>1. \A x \in T : 0 .. x \in SUBSET Nat /\ IsFiniteSet(0 .. x)
    BY FS_Interval
  <2> QED
    BY <2>1 DEF FiniteSubsetsOf
<1>2. PICK u \in U : \A v \in U : ~(<<v, u>> \in StrictSubsetOrdering(Nat))
  <2> HIDE DEF U
  <2> QED BY <1>1, FS_StrictSubsetOrderingWellFounded, WFMin
<1>3. PICK x \in T : u = 0 .. x
  OBVIOUS
<1>4. ASSUME NEW y \in T, y < x PROVE FALSE
  <2>1. 0 .. y \in U
    OBVIOUS
  <2>2. 0 .. y \subseteq 0 .. x /\ 0 .. y # 0 .. x /\ 0 .. x \subseteq Nat
    BY <1>4
  <2> HIDE DEF U
  <2> QED BY <2>1, <2>2, <1>2, <1>3 DEF StrictSubsetOrdering
<1> QED BY <1>4

\* The first match ends inside the buffer.
LEMMA LeastOf ==
  ASSUME NEW S \in SUBSET Nat, S # {}
  PROVE  Least(S) \in S
<1>1. \E x \in S : \A y \in S : x <= y
  BY NatMin
<1> QED
  BY <1>1 DEF Least

LEMMA MatchInside ==
  ASSUME NEW B, NEW r, IsReader(r, B), NEW ends, MatchEnds(r, ends) # {}
  PROVE  Least(MatchEnds(r, ends)) \in 1 .. Len(r.buffer)
<1>1. MatchEnds(r, ends) \subseteq 1 .. Len(r.buffer)
  BY LenProperties DEF MatchEnds, IsReader
<1>2. MatchEnds(r, ends) \in SUBSET Nat
  BY <1>1
<1> HIDE DEF MatchEnds
<1> QED
  BY <1>1, <1>2, LeastOf

LEMMA ReadUntilSplits ==
  ASSUME NEW B, NEW r, IsReader(r, B), NEW separator
  PROVE  Takes(r, readuntil(r, separator), B)
<1> DEFINE found == MatchEnds(r, {separator})
           n == Least(found)
           o == readuntil(r, separator)
<1>1. found # {} => n \in 0 .. Len(r.buffer)
  BY MatchInside, SMTT(30)
<1>2. <<>> \in Seq(B)
  BY EmptySeq
<1>3. found # {} => Takes(r, Return(Take(r, n), First(r, n)), B)
  BY <1>1, ReturnSplits
<1>4. \/ found # {} /\ o = Return(Take(r, n), First(r, n))
      \/ o = Outcome(r, "overrun", <<>>) \/ o = AtEof(r) \/ o = Wait(r, <<>>)
  BY DEF readuntil
<1> HIDE DEF o, n, found
<1>5. Takes(r, o, B)
  BY <1>2, <1>3, <1>4, NoneSplits
<1> QED
  BY <1>5 DEF o

LEMMA ReadUntilPatternSplits ==
  ASSUME NEW B, NEW r, IsReader(r, B), NEW pattern
  PROVE  Takes(r, readuntil_pattern(r, pattern), B)
<1> DEFINE found == MatchEnds(r, pattern)
           n == Least(found)
           o == readuntil_pattern(r, pattern)
<1>1. found # {} => n \in 0 .. Len(r.buffer)
  BY MatchInside
<1>2. <<>> \in Seq(B)
  BY EmptySeq
<1>3. found # {} => Takes(r, Return(Take(r, n), First(r, n)), B)
  BY <1>1, ReturnSplits
<1>4. \/ found # {} /\ o = Return(Take(r, n), First(r, n))
      \/ o = Outcome(r, "overrun", <<>>) \/ o = AtEof(r) \/ o = Wait(r, <<>>)
  BY DEF readuntil_pattern
<1> HIDE DEF o, n, found
<1>5. Takes(r, o, B)
  BY <1>2, <1>3, <1>4, NoneSplits
<1> QED
  BY <1>5 DEF o

LEMMA ReadExactlySplits ==
  ASSUME NEW B, NEW r, IsReader(r, B), NEW n \in Nat
  PROVE  Takes(r, readexactly(r, n), B)
<1> DEFINE o == readexactly(r, n)
<1>1. Len(r.buffer) \in Nat /\ <<>> \in Seq(B)
  BY LenProperties, EmptySeq DEF IsReader
<1>2. Len(r.buffer) >= n => n \in 0 .. Len(r.buffer)
  BY <1>1
<1>3. Len(r.buffer) >= n => Takes(r, Return(Take(r, n), First(r, n)), B)
  BY <1>2, ReturnSplits
<1>4. \/ Len(r.buffer) >= n /\ o = Return(Take(r, n), First(r, n))
      \/ o = AtEof(r) \/ o = Wait(r, <<>>)
  BY DEF readexactly
<1> HIDE DEF o
<1>5. Takes(r, o, B)
  BY <1>1, <1>3, <1>4, NoneSplits
<1> QED
  BY <1>5 DEF o

LEMMA ReadSplits ==
  ASSUME NEW B, NEW r, IsReader(r, B), NEW n \in Nat, NEW waited
  PROVE  Takes(r, read(r, n, waited), B)
<1> DEFINE m == IF n < Len(r.buffer) THEN n ELSE Len(r.buffer)
           o == read(r, n, waited)
<1>1. Len(r.buffer) \in Nat /\ <<>> \in Seq(B)
  BY LenProperties, EmptySeq DEF IsReader
<1>2. m \in 0 .. Len(r.buffer)
  BY <1>1
<1> HIDE DEF m
<1>3. Takes(r, Return(Take(r, m), First(r, m)), B)
  BY <1>2, ReturnSplits
<1>4. o = Return(Take(r, m), First(r, m)) \/ o = Wait(r, <<>>)
  BY DEF read, m
<1> HIDE DEF o
<1>5. Takes(r, o, B)
  BY <1>1, <1>3, <1>4, NoneSplits
<1> QED
  BY <1>5 DEF o

\* read(-1) gathers blocks, each put after those it has.
LEMMA ReadAllSplits ==
  ASSUME NEW B, NEW r, IsReader(r, B), NEW held \in Seq(B), NEW waited
  PROVE  Splits(r, held, read_all(r, held, waited), B)
<1> DEFINE block == read(r, limit, waited)
           o == read_all(r, held, waited)
<1>1. limit \in Nat
  BY LimitAssumption
<1>2. Splits(r, <<>>, block, B)
  BY <1>1, ReadSplits DEF Takes
<1>3. r.buffer \in Seq(B) /\ <<>> \o r.buffer = r.buffer
  BY ConcatEmptySeq DEF IsReader
<1>4. Splits(r, held, Wait(r, held), B)
  BY NoneSplits
<1>5. \/ o = Wait(r, held)
      \/ block.data = <<>> /\ o = Outcome(block.r, "return", held)
      \/ o = Outcome(block.r, "again", held \o block.data)
  BY DEF read_all
<1> HIDE DEF o, block
<1>6. IsReader(block.r, B) /\ block.data \in Seq(B) /\ block.data \o block.r.buffer = r.buffer
  BY <1>2, <1>3 DEF Splits
<1>7. block.data = <<>> => block.r.buffer = r.buffer
  BY <1>6, ConcatEmptySeq DEF IsReader
<1>8. held \o block.data \in Seq(B) /\ (held \o block.data) \o block.r.buffer = held \o r.buffer
  <2>1. block.r.buffer \in Seq(B) /\ block.data \in Seq(B)
    BY <1>6 DEF IsReader
  <2> DEFINE taken == block.data
             left == block.r.buffer
  <2>2. left \in Seq(B) /\ taken \in Seq(B)
    BY <2>1
  <2>5. taken \o left = r.buffer
    BY <1>6
  <2> HIDE DEF taken, left
  <2>3. held \o taken \in Seq(B) /\ (held \o taken) \o left = held \o (taken \o left)
    BY <2>2, Together, SMTT(30)
  <2>4. held \o taken \in Seq(B) /\ (held \o taken) \o left = held \o r.buffer
    BY <2>3, <2>5
  <2> QED
    BY <2>4 DEF taken, left
<1>9. ASSUME o = Wait(r, held) PROVE Splits(r, held, o, B)
  BY <1>4, <1>9
<1>10. ASSUME block.data = <<>> /\ o = Outcome(block.r, "return", held) PROVE Splits(r, held, o, B)
  <2>1. o.data = held /\ o.r = block.r
    BY <1>10 DEF Outcome
  <2>2. o.how \in Outcomes
    BY <1>10 DEF Outcome, Outcomes
  <2> QED
    BY <1>6, <1>7, <1>10, <2>1, <2>2 DEF Splits
<1>11. ASSUME o = Outcome(block.r, "again", held \o block.data) PROVE Splits(r, held, o, B)
  <2>1. o.data = held \o block.data /\ o.r = block.r
    BY <1>11 DEF Outcome
  <2>2. o.how \in Outcomes
    BY <1>11 DEF Outcome, Outcomes
  <2> QED
    BY <1>6, <1>8, <2>1, <2>2 DEF Splits
<1>12. Splits(r, held, o, B)
  BY <1>5, <1>9, <1>10, <1>11
<1> QED
  BY <1>12 DEF o

\* readline moves the buffer to the line, or takes a line off it; what it
\* drops is a NUL.
SplitsLine(r, held, o, B) ==
  /\ IsReader(o.r, B) /\ o.data \in Seq(B) /\ o.how \in Outcomes
  /\ \E drop \in {<<>>, <<"NUL">>} :
       drop \in Seq(B) /\ (o.data \o drop) \o o.r.buffer = held \o r.buffer

LEMMA ReadLineSplits ==
  ASSUME NEW B, NEW r, IsReader(r, B), NEW held \in Seq(B)
  PROVE  SplitsLine(r, held, readline(r, held), B)
<1> DEFINE ends == MatchEnds(r, {<<"CR">>, <<"LF">>})
           p == Least(ends)
           b == r.buffer
           two == b[p] = "CR" /\ p < Len(b) /\ b[p + 1] \in {"LF", "NUL"}
           length == IF two /\ b[p + 1] = "LF" THEN p + 1 ELSE p
           taken == IF two THEN p + 1 ELSE p
           gathered == [r EXCEPT !.buffer = <<>>]
           o == readline(r, held)
<1>1. b \in Seq(B) /\ Len(b) \in Nat /\ <<>> \in Seq(B)
  BY LenProperties, EmptySeq DEF IsReader
<1>2. IsReader(gathered, B) /\ gathered.buffer = <<>>
  BY <1>1 DEF IsReader, ReaderFields
<1>3. held \o b \in Seq(B) /\ (held \o b) \o <<>> = held \o b
  <2>1. held \o b \in Seq(B)
    BY <1>1, ConcatProperties
  <2> QED
    BY <2>1, ConcatEmptySeq
<1>4. \/ ends # {} /\ o = Return(Take(r, taken), held \o First(r, length))
      \/ o = Return(gathered, held \o b)
      \/ o = Wait(gathered, held \o b)
  BY DEF readline
<1> HIDE DEF gathered
<1>5. SplitsLine(r, held, Return(gathered, held \o b), B)
      /\ SplitsLine(r, held, Wait(gathered, held \o b), B)
  <2> DEFINE d == held \o b
  <2>1. IsReader(gathered, B) /\ gathered.buffer = <<>> /\ d \in Seq(B) /\ d \o <<>> = d
    BY <1>2, <1>3
  <2> HIDE DEF d
  <2>2. /\ Return(gathered, d).data = d /\ Same(gathered, Return(gathered, d).r, B)
        /\ Return(gathered, d).how = "return" /\ Wait(gathered, d).how = "wait"
        /\ Wait(gathered, d).data = d /\ Same(gathered, Wait(gathered, d).r, B)
    BY <2>1, TurnEnds
  <2> DEFINE x == Return(gathered, d)
             y == Wait(gathered, d)
  <2>3. /\ IsReader(x.r, B) /\ x.data = d /\ x.r.buffer = <<>>
        /\ IsReader(y.r, B) /\ y.data = d /\ y.r.buffer = <<>>
        /\ x.how \in Outcomes /\ y.how \in Outcomes
    BY <2>1, <2>2 DEF Same, Outcomes
  <2>4. (d \o <<>>) \o <<>> = d
    BY <2>1
  <2> HIDE DEF x, y
  <2>5. SplitsLine(r, held, x, B) /\ SplitsLine(r, held, y, B)
    BY <1>1, <2>1, <2>3, <2>4 DEF SplitsLine, d
  <2> QED
    BY <2>5 DEF x, y, d
<1>6. ASSUME ends # {} PROVE SplitsLine(r, held, Return(Take(r, taken), held \o First(r, length)), B)
  <2>1. p \in 1 .. Len(b)
    BY <1>6, MatchInside
  <2> HIDE DEF ends, p
  <2>2. taken \in 0 .. Len(b) /\ length \in 0 .. Len(b) /\ taken \in {length, length + 1}
        /\ (taken = length + 1 => b[taken] = "NUL")
    BY <1>1, <2>1
  <2> HIDE DEF taken, length, two
  <2> DEFINE drop == IF taken = length THEN <<>> ELSE <<"NUL">>
             t == Take(r, taken)
             f == First(r, length)
  <2>3. IsReader(t, B) /\ First(r, taken) \in Seq(B) /\ First(r, taken) \o t.buffer = b
    BY <2>2, TakeFirst
  <2>4. f \in Seq(B) /\ drop \in Seq(B) /\ First(r, taken) = f \o drop
    <3>1. f \in Seq(B)
      BY <2>2, TakeFirst
    <3>2. CASE taken = length
      BY <1>1, <3>1, <3>2, ConcatEmptySeq
    <3>3. CASE taken = length + 1
      <4>1. taken \in 1 .. Len(b) /\ 1 \in 1 .. Len(b) /\ taken \in 1 .. Len(b) /\ taken - 1 = length
        BY <1>1, <2>2, <3>3
      <4>2. SubSeq(b, 1, taken) = SubSeq(b, 1, taken - 1) \o <<b[taken]>>
        BY <1>1, <4>1, SubSeqRecursiveSecond
      <4>3. b[taken] = "NUL" /\ b[taken] \in B /\ taken # length
        BY <1>1, <2>2, <3>3, <4>1, ElementOfSeq
      <4>4. f = SubSeq(b, 1, taken - 1) /\ First(r, taken) = SubSeq(b, 1, taken)
        BY <4>1 DEF First
      <4>5. drop = <<"NUL">> /\ drop = <<b[taken]>>
        BY <4>3
      <4>6. drop \in Seq(B)
        BY <4>3, <4>5
      <4> HIDE DEF b, drop, f
      <4> QED
        BY <3>1, <4>2, <4>4, <4>5, <4>6
    <3> QED
      BY <2>2, <3>2, <3>3
  <2> HIDE DEF drop, t, f, b
  <2>5. held \o f \in Seq(B) /\ ((held \o f) \o drop) \o t.buffer = held \o b
    <3> DEFINE g == f \o drop
               rest == t.buffer
    <3>1. held \o f \in Seq(B) /\ g \in Seq(B) /\ rest \in Seq(B) /\ (held \o f) \o drop = held \o g
      BY <2>3, <2>4, Together, SMTT(30) DEF IsReader
    <3>2. g \o rest = b
      BY <2>3, <2>4
    <3> HIDE DEF g, rest
    <3>3. (held \o g) \o rest = held \o (g \o rest)
      BY <3>1, Together, SMTT(30)
    <3>4. held \o f \in Seq(B) /\ ((held \o f) \o drop) \o rest = held \o b
      BY <3>1, <3>2, <3>3
    <3> QED
      BY <3>4 DEF rest
  <2> DEFINE d == held \o f
             x == Return(t, d)
  <2>9. d \in Seq(B)
    BY <2>5
  <2> HIDE DEF d
  <2>6. x.data = d /\ Same(t, x.r, B) /\ x.how = "return"
    BY <2>3, <2>9, TurnEnds
  <2> HIDE DEF x
  <2>7. drop \in {<<>>, <<"NUL">>}
    BY DEF drop
  <2>8. SplitsLine(r, held, x, B)
    <3>1. IsReader(x.r, B) /\ x.data \in Seq(B) /\ x.r.buffer = t.buffer /\ x.how \in Outcomes
      BY <2>6, <2>9 DEF Same, Outcomes
    <3>2. drop \in Seq(B) /\ (x.data \o drop) \o x.r.buffer = held \o b
      BY <2>4, <2>5, <2>6, <3>1 DEF d
    <3> QED
      BY <2>7, <3>1, <3>2 DEF SplitsLine, b
  <2> QED
    BY <2>8 DEF x, d, t, f
<1> HIDE DEF ends, taken, length, two, p, o
<1>7. SplitsLine(r, held, o, B)
  BY <1>4, <1>5, <1>6
<1> QED
  BY <1>7 DEF o
=============================================================================
