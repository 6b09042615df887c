---------------------------- MODULE FoldInduction ----------------------------
(***************************************************************************)
(* What the steps of a fold preserve, the fold preserves.  A module that   *)
(* folds over a sequence instantiates this one with the operator folded    *)
(* and with the property: op(c, u, x) is the value after u and the element *)
(* x, P(c, u) the property, and c carries what both need to know of the    *)
(* place where they are used.                                              *)
(*                                                                         *)
(* FoldLeft of the community modules folds over a function by taking the   *)
(* largest index off its domain until none is left; Folded is what it      *)
(* becomes when its definitions are unfolded.                              *)
(***************************************************************************)
EXTENDS Integers, Sequences, SequenceTheorems, FiniteSetTheorems, WellFoundedInduction, TLAPS

CONSTANTS op(_, _, _), P(_, _)

Last(s) == CHOOSE x \in s : \A y \in s : x >= y

IsFold(c, b, q, S, g) ==
  g = [s \in SUBSET S |-> IF s = {} THEN b ELSE op(c, g[s \ {Last(s)}], q[Last(s)])]

Folded(c, b, q) == (CHOOSE g : IsFold(c, b, q, DOMAIN q, g))[DOMAIN q]

\* Every set of natural numbers but the empty one has a least element.
LEMMA NatMin == ASSUME NEW T \in SUBSET Nat, T # {} PROVE \E x \in T : \A y \in T : x <= y
<1> DEFINE U == {0 .. x : x \in T}
<1>1. U \subseteq FiniteSubsetsOf(Nat) /\ U # {}
  <2>1. \A x \in T : 0 .. x \in SUBSET Nat /\ IsFiniteSet(0 .. x)
    BY FS_Interval
  <2> QED
    BY <2>1 DEF FiniteSubsetsOf
<1>2. PICK u \in U : \A v \in U : ~(<<v, u>> \in StrictSubsetOrdering(Nat))
  <2> HIDE DEF U
  <2> QED BY <1>1, FS_StrictSubsetOrderingWellFounded, WFMin
<1>3. PICK x \in T : u = 0 .. x
  OBVIOUS
<1>4. ASSUME NEW y \in T, y < x PROVE FALSE
  <2>1. 0 .. y \in U
    OBVIOUS
  <2>2. 0 .. y \subseteq 0 .. x /\ 0 .. y # 0 .. x /\ 0 .. x \subseteq Nat
    BY <1>4
  <2> HIDE DEF U
  <2> QED BY <2>1, <2>2, <1>2, <1>3 DEF StrictSubsetOrdering
<1> QED BY <1>4

\* The last of the first n + 1 indices.
LEMMA LastOf == ASSUME NEW n \in Nat PROVE \A s \in SUBSET (1 .. n + 1) : n + 1 \in s => Last(s) = n + 1
<1> SUFFICES ASSUME NEW s \in SUBSET (1 .. n + 1), n + 1 \in s PROVE Last(s) = n + 1
  OBVIOUS
<1>1. \A y \in s : n + 1 >= y
  OBVIOUS
<1>2. \A x \in s : (\A y \in s : x >= y) => x = n + 1
  <2> SUFFICES ASSUME NEW x \in s, \A y \in s : x >= y PROVE x = n + 1
    OBVIOUS
  <2>1. x >= n + 1 /\ x <= n + 1 /\ x \in Nat
    OBVIOUS
  <2> QED
    BY <2>1
<1> QED
  BY <1>1, <1>2 DEF Last

\* There is a function that satisfies the recursion of the fold, for every
\* length: by induction, the one for n - 1 with the sets that hold n added.
LEMMA FoldExists == ASSUME NEW c, NEW b, NEW q, NEW n \in Nat PROVE \E g : IsFold(c, b, q, 1 .. n, g)
<1> DEFINE T == {m \in Nat : ~ \E g : IsFold(c, b, q, 1 .. m, g)}
<1> SUFFICES ASSUME T # {} PROVE FALSE
  OBVIOUS
<1>1. PICK m \in T : \A k \in T : m <= k
  BY NatMin
<1>2. CASE m = 0
  <2> DEFINE g == [s \in SUBSET (1 .. m) |-> b]
  <2>1. SUBSET (1 .. m) = {{}}
    BY <1>2
  <2>2. IsFold(c, b, q, 1 .. m, g)
    BY <2>1 DEF IsFold
  <2> QED
    BY <2>2
<1>3. CASE m # 0
  <2>1. m - 1 \in Nat /\ m - 1 \notin T /\ (m - 1) + 1 = m
    BY <1>1, <1>3
  <2>2. PICK f : IsFold(c, b, q, 1 .. (m - 1), f)
    BY <2>1
  <2> DEFINE g == [s \in SUBSET (1 .. m) |->
                     IF m \in s THEN op(c, f[s \ {m}], q[m]) ELSE f[s]]
  <2>3. ASSUME NEW s \in SUBSET (1 .. m), m \in s
        PROVE  g[s] = op(c, g[s \ {Last(s)}], q[Last(s)])
    <3>1. Last(s) = m
      BY <2>1, <2>3, LastOf
    <3>2. s \ {m} \in SUBSET (1 .. m) /\ m \notin s \ {m}
      OBVIOUS
    <3> QED
      BY <2>3, <3>1, <3>2
  <2>4. ASSUME NEW s \in SUBSET (1 .. m), m \notin s
        PROVE  g[s] = IF s = {} THEN b ELSE op(c, g[s \ {Last(s)}], q[Last(s)])
    <3>1. s \in SUBSET (1 .. (m - 1))
      BY <2>1, <2>4
    <3>2. /\ g[s] = f[s]
          /\ \A t \in SUBSET s : g[t] = f[t]
      BY <2>4
    <3>3. f[s] = IF s = {} THEN b ELSE op(c, f[s \ {Last(s)}], q[Last(s)])
      BY <2>2, <3>1 DEF IsFold
    <3>4. s \ {Last(s)} \in SUBSET s
      OBVIOUS
    <3> QED
      BY <3>2, <3>3, <3>4
  <2>5. g = [s \in SUBSET (1 .. m) |-> IF s = {} THEN b ELSE op(c, g[s \ {Last(s)}], q[Last(s)])]
    <3>1. \A s \in SUBSET (1 .. m) :
            g[s] = IF s = {} THEN b ELSE op(c, g[s \ {Last(s)}], q[Last(s)])
      BY <2>3, <2>4
    <3>2. g = [s \in SUBSET (1 .. m) |-> g[s]]
      OBVIOUS
    <3> HIDE DEF g
    <3> QED
      BY <3>1, <3>2
  <2>6. IsFold(c, b, q, 1 .. m, g)
    BY <2>5 DEF IsFold
  <2> QED
    BY <2>6
<1> QED
  BY <1>2, <1>3

\* Induction along a sequence: what holds of the base and is kept by every
\* step holds of the result.
THEOREM FoldStays ==
  ASSUME NEW c, NEW b, NEW X, NEW q \in Seq(X), P(c, b),
         \A u : \A i \in DOMAIN q : P(c, u) => P(c, op(c, u, q[i]))
  PROVE  P(c, Folded(c, b, q))
<1> DEFINE g == CHOOSE h : IsFold(c, b, q, DOMAIN q, h)
           N == Len(q)
<1>0. Folded(c, b, q) = g[DOMAIN q]
  BY DEF Folded
<1>1. N \in Nat /\ DOMAIN q = 1 .. N
  OBVIOUS
<1>2. IsFold(c, b, q, 1 .. N, g)
  BY <1>1, FoldExists
<1> HIDE DEF g
<1> DEFINE T == {m \in 0 .. N : ~P(c, g[1 .. m])}
<1>3. T = {}
  <2> SUFFICES ASSUME T # {} PROVE FALSE
    OBVIOUS
  <2>1. PICK m \in T : \A k \in T : m <= k
    <3>1. T \in SUBSET Nat
      BY <1>1
    <3> HIDE DEF T
    <3> QED
      BY <3>1, NatMin
  <2>2. CASE m = 0
    BY <1>2, <2>1, <2>2 DEF IsFold
  <2>3. CASE m # 0
    <3>1. m - 1 \in 0 .. N /\ m - 1 \notin T /\ (m - 1) + 1 = m /\ m \in 1 .. N /\ m - 1 \in Nat
      BY <1>1, <2>1, <2>3
    <3>2. Last(1 .. m) = m
      <4>1. m \in 1 .. m /\ 1 .. m \in SUBSET (1 .. (m - 1) + 1)
        BY <3>1
      <4> QED
        BY <3>1, <4>1, LastOf
    <3>3. (1 .. m) \ {m} = 1 .. (m - 1) /\ 1 .. m # {} /\ 1 .. m \in SUBSET (1 .. N)
      <4>1. m \in Nat /\ N \in Nat /\ m <= N /\ m >= 1
        BY <1>1, <3>1
      <4>2. \A x : x \in 1 .. m /\ x # m <=> x \in 1 .. (m - 1)
        BY <4>1
      <4>3. \A x : x \in 1 .. m => x \in 1 .. N
        BY <4>1
      <4>4. m \in 1 .. m
        BY <4>1
      <4> HIDE DEF N, T
      <4> QED
        BY <4>2, <4>3, <4>4
    <3>4. g[1 .. m] = op(c, g[1 .. (m - 1)], q[m])
      BY <1>2, <3>2, <3>3 DEF IsFold
    <3> QED
      BY <1>1, <2>1, <3>1, <3>4
  <2> QED
    BY <2>2, <2>3
<1>4. N \in 0 .. N
  BY <1>1
<1> QED
  BY <1>0, <1>1, <1>3, <1>4

\* Two folds that have the first n elements in common agree on them.
LEMMA FoldUnique ==
  ASSUME NEW c, NEW b, NEW q, NEW r, NEW n \in Nat, NEW N \in Nat, NEW M \in Nat,
         n <= N, n <= M, \A i \in 1 .. n : q[i] = r[i],
         NEW g, NEW h, IsFold(c, b, q, 1 .. N, g), IsFold(c, b, r, 1 .. M, h)
  PROVE  g[1 .. n] = h[1 .. n]
<1> DEFINE T == {m \in 0 .. n : g[1 .. m] # h[1 .. m]}
<1> SUFFICES ASSUME T # {} PROVE FALSE
  <2>1. n \in 0 .. n
    OBVIOUS
  <2> QED
    BY <2>1
<1>1. PICK m \in T : \A k \in T : m <= k
  <2>1. T \in SUBSET Nat
    OBVIOUS
  <2> HIDE DEF T
  <2> QED
    BY <2>1, NatMin
<1>2. CASE m = 0
  <2>1. 1 .. m = {}
    BY <1>2
  <2> QED
    BY <1>1, <2>1 DEF IsFold
<1>3. CASE m # 0
  <2>1. m - 1 \in 0 .. n /\ m - 1 \notin T /\ m \in 1 .. n /\ m - 1 \in Nat /\ (m - 1) + 1 = m
    BY <1>1, <1>3
  <2>2. g[1 .. (m - 1)] = h[1 .. (m - 1)]
    BY <2>1
  <2>3. Last(1 .. m) = m
    <3>1. m \in 1 .. m /\ 1 .. m \in SUBSET (1 .. (m - 1) + 1)
      BY <2>1
    <3> QED
      BY <2>1, <3>1, LastOf
  <2>4. /\ (1 .. m) \ {m} = 1 .. (m - 1) /\ 1 .. m # {}
        /\ 1 .. m \in SUBSET (1 .. N) /\ 1 .. m \in SUBSET (1 .. M)
    <3>1. m \in Nat /\ m >= 1 /\ m <= N /\ m <= M
      BY <2>1
    <3>2. \A x : x \in 1 .. m /\ x # m <=> x \in 1 .. (m - 1)
      BY <3>1
    <3>3. \A x : x \in 1 .. m => x \in 1 .. N /\ x \in 1 .. M
      BY <3>1
    <3>4. m \in 1 .. m
      BY <3>1
    <3> HIDE DEF T
    <3> QED
      BY <3>2, <3>3, <3>4
  <2> DEFINE Z == 1 .. m
  <2> HIDE DEF T, Z
  <2>5. g[Z] = op(c, g[Z \ {Last(Z)}], q[Last(Z)])
    BY <2>4 DEF IsFold, Z
  <2>6. h[Z] = op(c, h[Z \ {Last(Z)}], r[Last(Z)])
    BY <2>4 DEF IsFold, Z
  <2>7. g[Z] = op(c, g[1 .. (m - 1)], q[m]) /\ h[Z] = op(c, h[1 .. (m - 1)], r[m])
    BY <2>3, <2>4, <2>5, <2>6 DEF Z
  <2>8. g[Z] = h[Z]
    BY <2>1, <2>2, <2>7
  <2> USE DEF T, Z
  <2> QED
    BY <1>1, <2>8
<1> QED
  BY <1>2, <1>3

\* A fold computes what it should: the base of no element, and a step for
\* every element more.
THEOREM FoldOfNone == ASSUME NEW c, NEW b PROVE Folded(c, b, <<>>) = b
<1> DEFINE g == CHOOSE h : IsFold(c, b, <<>>, DOMAIN <<>>, h)
<1>1. DOMAIN <<>> = {} /\ 1 .. 0 = {} /\ 0 \in Nat
  OBVIOUS
<1>2. IsFold(c, b, <<>>, {}, g)
  BY <1>1, FoldExists
<1>3. Folded(c, b, <<>>) = g[{}]
  BY <1>1 DEF Folded
<1> HIDE DEF g
<1> QED
  BY <1>2, <1>3 DEF IsFold

THEOREM FoldOfAppend ==
  ASSUME NEW c, NEW b, NEW X, NEW q \in Seq(X), NEW x \in X
  PROVE  Folded(c, b, Append(q, x)) = op(c, Folded(c, b, q), x)
<1> DEFINE n == Len(q)
           r == Append(q, x)
           g == CHOOSE f : IsFold(c, b, q, DOMAIN q, f)
           h == CHOOSE f : IsFold(c, b, r, DOMAIN r, f)
<1>1. /\ n \in Nat /\ DOMAIN q = 1 .. n /\ DOMAIN r = 1 .. n + 1 /\ n + 1 \in Nat
      /\ r[n + 1] = x /\ \A i \in 1 .. n : q[i] = r[i]
      /\ n <= n /\ n <= n + 1
  BY AppendProperties, LenProperties
<1>2. Folded(c, b, q) = g[1 .. n] /\ Folded(c, b, r) = h[1 .. n + 1]
  BY <1>1 DEF Folded
<1> HIDE DEF n, r
<1>3. IsFold(c, b, q, 1 .. n, g) /\ IsFold(c, b, r, 1 .. n + 1, h)
  BY <1>1, FoldExists
<1> HIDE DEF g, h
<1>4. g[1 .. n] = h[1 .. n]
  <2> DEFINE M == n + 1
  <2>1. /\ n \in Nat /\ M \in Nat /\ n <= n /\ n <= M
        /\ IsFold(c, b, q, 1 .. n, g) /\ IsFold(c, b, r, 1 .. M, h)
    BY <1>1, <1>3
  <2>2. \A i \in 1 .. n : q[i] = r[i]
    BY <1>1
  <2> HIDE DEF M
  <2> QED
    BY <2>1, <2>2, FoldUnique
<1>5. /\ Last(1 .. n + 1) = n + 1 /\ (1 .. n + 1) \ {n + 1} = 1 .. n
      /\ 1 .. n + 1 # {} /\ 1 .. n + 1 \in SUBSET (1 .. n + 1)
  <2>1. n + 1 \in 1 .. n + 1
    BY <1>1
  <2>2. \A y : y \in 1 .. n + 1 /\ y # n + 1 <=> y \in 1 .. n
    BY <1>1
  <2>3. Last(1 .. n + 1) = n + 1
    BY <1>1, <2>1, LastOf
  <2> QED
    BY <2>1, <2>2, <2>3
<1>6. h[1 .. n + 1] = op(c, h[1 .. n], r[n + 1])
  BY <1>3, <1>5 DEF IsFold
<1> QED
  BY <1>1, <1>2, <1>4, <1>6 DEF r

\* Induction along the prefixes of a sequence, for a property P of sequences.
THEOREM PrefixInduction ==
  ASSUME NEW c, NEW X, NEW q \in Seq(X), P(c, <<>>),
         \A s \in Seq(X), x \in X : P(c, s) => P(c, Append(s, x))
  PROVE  P(c, q)
<1> DEFINE N == Len(q)
           p(m) == SubSeq(q, 1, m)
           T == {m \in 0 .. N : ~P(c, p(m))}
<1>1. N \in Nat /\ p(0) = <<>> /\ p(N) = q
  BY SubSeqEmpty, SubSeqFull
<1>2. T = {}
  <2> SUFFICES ASSUME T # {} PROVE FALSE
    OBVIOUS
  <2>1. PICK m \in T : \A k \in T : m <= k
    <3>1. T \in SUBSET Nat
      BY <1>1
    <3> HIDE DEF T
    <3> QED
      BY <3>1, NatMin
  <2>2. m # 0
    BY <1>1, <2>1
  <2>3. m \in 1 .. N /\ m - 1 \in 0 .. N /\ m - 1 \notin T
    BY <1>1, <2>1, <2>2
  <2>4. 1 \in 1 .. N /\ m \in 1 .. N /\ q[m] \in X /\ p(m - 1) \in Seq(X)
    <3>1. 1 \in 1 .. N /\ m \in 1 .. N /\ q[m] \in X
      BY <1>1, <2>3, ElementOfSeq
    <3>2. p(m - 1) \in Seq(X)
      <4>1. \A i \in 1 .. m - 1 : q[i] \in X
        BY <1>1, <2>3
      <4>2. 1 \in Int /\ m - 1 \in Int
        BY <2>3
      <4> QED
        BY <4>1, <4>2, SubSeqProperties
    <3> QED
      BY <3>1, <3>2
  <2>5. p(m) = p(m - 1) \o <<q[m]>>
    BY <2>4, SubSeqRecursiveSecond
  <2>6. p(m) = Append(p(m - 1), q[m])
    BY <2>4, <2>5, AppendIsConcat
  <2>7. P(c, p(m - 1))
    BY <2>3
  <2>8. P(c, p(m))
    <3> DEFINE s == p(m - 1)
    <3>1. s \in Seq(X) /\ P(c, s) /\ p(m) = Append(s, q[m])
      BY <2>4, <2>6, <2>7
    <3> HIDE DEF s, T, N
    <3> QED
      BY <2>4, <3>1
  <2> QED
    BY <2>1, <2>8
<1>3. N \in 0 .. N
  BY <1>1
<1> QED
  BY <1>1, <1>2, <1>3

==============================================================================
