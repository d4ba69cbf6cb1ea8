--------------------------- MODULE CdcClientProofs ---------------------------
(***************************************************************************)
(* Proofs about CdcClient, for every input, every number of workers and    *)
(* every capacity of the channels.                                         *)
(***************************************************************************)
EXTENDS CdcClient, NatLemmas, NaturalsInduction, FiniteSetTheorems
-----------------------------------------------------------------------------
(* Running sums and concatenations.                                        *)

\* The recursion of RunningSum, unfolded.
LEMMA RunningSumDef ==
    ASSUME NEW sizes
    PROVE  /\ RunningSum(sizes)[0] = 0
           /\ \A i \in Nat \ {0} : RunningSum(sizes)[i] = RunningSum(sizes)[i - 1] + sizes[i]
  <1> DEFINE Plus(v, i) == v + sizes[i]
             f == RunningSum(sizes)
  <1>1. NatInductiveDefHypothesis(f, 0, Plus)
    BY DEF NatInductiveDefHypothesis, RunningSum
  <1> HIDE DEF f
  <1>2. NatInductiveDefConclusion(f, 0, Plus)
    BY <1>1, NatInductiveDef
  <1>3. f = [i \in Nat |-> IF i = 0 THEN 0 ELSE f[i - 1] + sizes[i]]
    BY <1>2 DEF NatInductiveDefConclusion
  <1>4. f[0] = 0 /\ \A i \in Nat \ {0} : f[i] = f[i - 1] + sizes[i]
    BY <1>3
  <1> QED BY <1>4 DEF f

\* Sums of naturals are naturals.
LEMMA RunningSumType ==
    ASSUME NEW sizes \in Seq(Nat)
    PROVE  \A i \in 0 .. Len(sizes) : RunningSum(sizes)[i] \in Nat
  <1> DEFINE f == RunningSum(sizes)
             S == {i \in Nat : i <= Len(sizes) => f[i] \in Nat}
  <1>1. f[0] = 0 /\ \A i \in Nat \ {0} : f[i] = f[i - 1] + sizes[i]
    BY RunningSumDef, Zenon
  <1> HIDE DEF f
  <1>2. \A n \in Nat : n \in S => n + 1 \in S
    <2> SUFFICES ASSUME NEW n \in Nat, n \in S, n + 1 <= Len(sizes)
                 PROVE  f[n + 1] \in Nat
      OBVIOUS
    <2>1. f[n] \in Nat /\ sizes[n + 1] \in Nat
      OBVIOUS
    <2>2. f[n + 1] = f[(n + 1) - 1] + sizes[n + 1] /\ (n + 1) - 1 = n
      BY <1>1
    <2> QED BY <2>1, <2>2
  <1>3. 0 \in S
    BY <1>1
  <1> HIDE DEF S
  <1>4. Nat \subseteq S
    BY <1>2, <1>3, NatInSet
  <1> QED BY <1>4 DEF S, f

\* The recursion of FlattenSeq, unfolded: Cat(ss)[i] is the first i members in a row.
Cat(ss) == CHOOSE f : f = [i \in 1 .. Len(ss) |-> IF i = 1 THEN ss[i] ELSE f[i - 1] \o ss[i]]

\* Cat obeys its recursion equation.
LEMMA CatDef ==
    ASSUME NEW ss, Len(ss) \in Nat \ {0}
    PROVE  /\ FlattenSeq(ss) = Cat(ss)[Len(ss)]
           /\ Cat(ss)[1] = ss[1]
           /\ \A i \in 2 .. Len(ss) : Cat(ss)[i] = Cat(ss)[i - 1] \o ss[i]
  <1> DEFINE Plus(v, i) == v \o ss[i]
             f == Cat(ss)
  <1>0. FlattenSeq(ss) = f[Len(ss)]
    BY DEF FlattenSeq, Cat
  <1>1. FiniteNatInductiveDefHypothesis(f, ss[1], Plus, 1, Len(ss))
    BY DEF FiniteNatInductiveDefHypothesis, Cat
  <1> HIDE DEF f
  <1>2. FiniteNatInductiveDefConclusion(f, ss[1], Plus, 1, Len(ss))
    BY <1>1, FiniteNatInductiveDef
  <1>3. f = [i \in 1 .. Len(ss) |-> IF i = 1 THEN ss[1] ELSE f[i - 1] \o ss[i]]
    BY <1>2 DEF FiniteNatInductiveDefConclusion
  <1>4. /\ f[1] = ss[1]
        /\ \A i \in 2 .. Len(ss) : f[i] = f[i - 1] \o ss[i]
    <2> HIDE DEF Plus
    <2>1. 1 \in 1 .. Len(ss) /\ \A i \in 2 .. Len(ss) : i \in 1 .. Len(ss) /\ i # 1
      OBVIOUS
    <2> QED BY <1>3, <2>1, Zenon
  <1> QED BY <1>0, <1>4 DEF f

\* ab is a followed by b.
Joined(S, a, b, ab) ==
    /\ ab \in Seq(S) /\ Len(ab) = Len(a) + Len(b)
    /\ \A k \in 1 .. Len(a) : ab[k] = a[k]
    /\ \A k \in 1 .. Len(b) : ab[Len(a) + k] = b[k]

\* \o joins.
LEMMA ConcatFacts ==
    ASSUME NEW S, NEW a \in Seq(S), NEW b \in Seq(S)
    PROVE  Joined(S, a, b, a \o b)
  <1>1. \A k \in 1 .. Len(b) : /\ Len(a) + k \in 1 .. Len(a) + Len(b)
                                /\ ~(Len(a) + k <= Len(a)) /\ (Len(a) + k) - Len(a) = k
    OBVIOUS
  <1> QED BY <1>1 DEF Joined

\* The lengths of the members.
Lens(ss) == [i \in DOMAIN ss |-> Len(ss[i])]

\* Lens has one natural per member.
LEMMA LensType ==
    ASSUME NEW S, NEW ss \in Seq(Seq(S))
    PROVE  /\ Lens(ss) \in Seq(Nat) /\ Len(Lens(ss)) = Len(ss)
           /\ \A i \in 1 .. Len(ss) : Lens(ss)[i] = Len(ss[i]) /\ ss[i] \in Seq(S) /\ Len(ss[i]) \in Nat
  <1>1. \A i \in 1 .. Len(ss) : ss[i] \in Seq(S) /\ Len(ss[i]) \in Nat
    OBVIOUS
  <1>2. DOMAIN ss = 1 .. Len(ss)
    OBVIOUS
  <1> QED BY <1>1, <1>2 DEF Lens

\* cat is the first i members of ss in a row: member j lies behind the members
\* before it.
Laid(S, ss, i, cat) ==
    LET sum == RunningSum(Lens(ss)) IN
    /\ cat \in Seq(S) /\ Len(cat) = sum[i]
    /\ \A j \in 1 .. i : \A k \in 1 .. Len(ss[j]) :
          /\ sum[j - 1] + k \in 1 .. sum[i]
          /\ cat[sum[j - 1] + k] = ss[j][k]

\* Member j of a concatenation begins at the sum of the lengths before it.
LEMMA CatFacts ==
    ASSUME NEW S, NEW ss \in Seq(Seq(S))
    PROVE  \A i \in 1 .. Len(ss) : Laid(S, ss, i, Cat(ss)[i])
  <1> DEFINE sum == RunningSum(Lens(ss))
             c == Cat(ss)
             n == Len(ss)
             At(i, j) == \A k \in 1 .. Len(ss[j]) :
                            /\ sum[j - 1] + k \in 1 .. sum[i]
                            /\ c[i][sum[j - 1] + k] = ss[j][k]
             P(i) == /\ c[i] \in Seq(S) /\ Len(c[i]) = sum[i]
                     /\ \A j \in 1 .. i : At(i, j)
             T == {i \in Nat : i \in 1 .. n => P(i)}
  <1>1. CASE n = 0
    BY <1>1
  <1>2. CASE n # 0
    <2>1. n \in Nat \ {0}
      BY <1>2
    <2>2. /\ c[1] = ss[1]
          /\ \A i \in 2 .. n : c[i] = c[i - 1] \o ss[i]
      BY <2>1, CatDef
    <2>3. /\ sum[0] = 0
          /\ \A i \in 1 .. n : sum[i - 1] \in Nat /\ sum[i] \in Nat /\ sum[i] = sum[i - 1] + Len(ss[i])
      <3>1. \A i \in 0 .. n : sum[i] \in Nat
        BY LensType, RunningSumType
      <3>2. sum[0] = 0 /\ \A i \in Nat \ {0} : sum[i] = sum[i - 1] + Lens(ss)[i]
        BY RunningSumDef
      <3>3. \A i \in 1 .. n : i \in Nat \ {0} /\ i \in 0 .. n /\ i - 1 \in 0 .. n
        BY <2>1
      <3> HIDE DEF sum
      <3> QED BY <3>1, <3>2, <3>3, LensType
    <2>4. \A i \in 1 .. n : ss[i] \in Seq(S) /\ Len(ss[i]) \in Nat
      BY LensType
    <2> HIDE DEF sum, c
    <2>5. P(1)
      <3>1. 1 \in 1 .. n
        BY <2>1
      <3>2. c[1] = ss[1] /\ sum[1] = Len(ss[1]) /\ sum[0] = 0
        BY <2>2, <2>3, <2>4, <3>1
      <3>3. At(1, 1)
        BY <3>1, <3>2, <2>4
      <3>4. \A j \in 1 .. 1 : j = 1
        OBVIOUS
      <3> HIDE DEF At
      <3> QED BY <3>1, <3>2, <3>3, <3>4, <2>4
    <2>6. ASSUME NEW i \in Nat, i \in T, i + 1 \in 1 .. n
          PROVE  P(i + 1)
      <3>1. CASE i = 0
        BY <2>5, <3>1
      <3>2. CASE i # 0
        <4>1. i \in 1 .. n /\ i + 1 \in 2 .. n /\ (i + 1) - 1 = i
          BY <2>6, <3>2
        <4>2. P(i)
          BY <4>1, <2>6
        <4>3. c[i + 1] = c[i] \o ss[i + 1] /\ ss[i + 1] \in Seq(S) /\ Len(ss[i + 1]) \in Nat
          BY <4>1, <2>2, <2>4, <2>6
        <4>4. sum[i] \in Nat /\ sum[i + 1] \in Nat /\ sum[i + 1] = sum[i] + Len(ss[i + 1])
          BY <4>1, <2>3, <2>6
        <4> HIDE DEF T
        <4>5. c[i] \in Seq(S) /\ Len(c[i]) = sum[i]
          BY <4>2
        <4>a. Joined(S, c[i], ss[i + 1], c[i + 1])
          BY <4>3, <4>5, ConcatFacts
        <4>b. /\ c[i + 1] \in Seq(S) /\ Len(c[i + 1]) = sum[i] + Len(ss[i + 1])
              /\ \A k \in 1 .. sum[i] : c[i + 1][k] = c[i][k]
              /\ \A k \in 1 .. Len(ss[i + 1]) : c[i + 1][sum[i] + k] = ss[i + 1][k]
          BY <4>a, <4>5, Zenon DEF Joined
        <4>6. c[i + 1] \in Seq(S) /\ Len(c[i + 1]) = sum[i + 1]
          BY <4>b, <4>4, Zenon
        <4>7. ASSUME NEW j \in 1 .. i
              PROVE  At(i + 1, j)
          <5>1. At(i, j) /\ j \in 1 .. n
            BY <4>1, <4>2
          <5>2. \A k \in 1 .. sum[i] : c[i + 1][k] = c[i][k]
            BY <4>b, Zenon
          <5>3. \A k : k \in 1 .. sum[i] => k \in 1 .. sum[i + 1]
            BY <4>3, <4>4
          <5> QED BY <5>1, <5>2, <5>3, Zenon
        <4>8. At(i + 1, i + 1)
          <5> SUFFICES ASSUME NEW k \in 1 .. Len(ss[i + 1])
                       PROVE  /\ sum[i] + k \in 1 .. sum[i + 1]
                              /\ c[i + 1][sum[i] + k] = ss[i + 1][k]
            BY <4>1
          <5>1. c[i + 1][sum[i] + k] = ss[i + 1][k]
            BY <4>b, Zenon
          <5>2. sum[i] + k \in 1 .. sum[i + 1]
            BY <4>3, <4>4
          <5> QED BY <5>1, <5>2
        <4>9. \A j \in 1 .. i + 1 : j \in 1 .. i \/ j = i + 1
          OBVIOUS
        <4> HIDE DEF At
        <4> QED BY <4>6, <4>7, <4>8, <4>9
      <3> QED BY <3>1, <3>2
    <2> HIDE DEF P
    <2>7. 0 \in T /\ \A i \in Nat : i \in T => i + 1 \in T
      BY <2>6
    <2>8. Nat \subseteq T
      <3> HIDE DEF T
      <3> QED BY <2>7, NatInSet
    <2>9. \A i \in 1 .. n : P(i)
      BY <2>8, <2>1
    <2> QED BY <2>9 DEF P, sum, c, Laid
  <1> QED BY <1>1, <1>2

\* The members of a concatenation cover it.
LEMMA SumCovers ==
    ASSUME NEW S, NEW ss \in Seq(Seq(S))
    PROVE  LET sum == RunningSum(Lens(ss)) IN
           \A i \in 0 .. Len(ss) : \A p \in 1 .. sum[i] :
              \E j \in 1 .. i : \E k \in 1 .. Len(ss[j]) : p = sum[j - 1] + k
  <1> DEFINE sum == RunningSum(Lens(ss))
             n == Len(ss)
             P(i) == \A p \in 1 .. sum[i] :
                        \E j \in 1 .. i : \E k \in 1 .. Len(ss[j]) : p = sum[j - 1] + k
             T == {i \in Nat : i <= n => P(i)}
  <1>1. \A i \in 0 .. n : sum[i] \in Nat
    BY LensType, RunningSumType
  <1>2. sum[0] = 0 /\ \A i \in Nat \ {0} : sum[i] = sum[i - 1] + Lens(ss)[i]
    BY RunningSumDef
  <1> HIDE DEF sum
  <1>3. P(0)
    BY <1>2
  <1>4. ASSUME NEW i \in Nat, i \in T, i + 1 <= n
        PROVE  P(i + 1)
    <2>1. i + 1 \in 1 .. n /\ i \in 0 .. n /\ i + 1 \in Nat \ {0} /\ (i + 1) - 1 = i /\ n \in Nat
      BY <1>4
    <2>2. sum[i + 1] = sum[i] + Len(ss[i + 1]) /\ sum[i] \in Nat /\ Len(ss[i + 1]) \in Nat
      BY <2>1, <1>1, <1>2, LensType
    <2>3. P(i)
      <3> HIDE DEF P
      <3> QED BY <1>4, <2>1
    <2> SUFFICES ASSUME NEW p \in 1 .. sum[i + 1]
                 PROVE  \E j \in 1 .. i + 1 : \E k \in 1 .. Len(ss[j]) : p = sum[j - 1] + k
      OBVIOUS
    <2>4. CASE p <= sum[i]
      <3>1. PICK j \in 1 .. i : \E k \in 1 .. Len(ss[j]) : p = sum[j - 1] + k
        <4>1. p \in 1 .. sum[i]
          BY <2>2, <2>4
        <4> QED BY <2>3, <4>1, Zenon
      <3>2. j \in 1 .. i + 1
        BY <2>1
      <3> QED BY <3>1, <3>2, Zenon
    <2>5. CASE ~(p <= sum[i])
      <3>1. p - sum[i] \in 1 .. Len(ss[i + 1]) /\ p = sum[(i + 1) - 1] + (p - sum[i])
        BY <2>1, <2>2, <2>5
      <3>2. i + 1 \in 1 .. i + 1
        BY <2>1
      <3> QED BY <3>1, <3>2, Zenon
    <2> QED BY <2>4, <2>5
  <1> HIDE DEF P
  <1>5. 0 \in T /\ \A i \in Nat : i \in T => i + 1 \in T
    BY <1>3, <1>4
  <1>6. Nat \subseteq T
    <2> HIDE DEF T
    <2> QED BY <1>5, NatInSet
  <1>7. \A i \in 0 .. n : P(i)
    BY <1>6
  <1> QED BY <1>7 DEF P, sum

\* A concatenation as a whole.
LEMMA FlattenFacts ==
    ASSUME NEW S, NEW ss \in Seq(Seq(S))
    PROVE  Laid(S, ss, Len(ss), FlattenSeq(ss))
  <1>0. Len(ss) \in Nat
    OBVIOUS
  <1>1. CASE Len(ss) = 0
    <2>1. FlattenSeq(ss) = <<>> /\ RunningSum(Lens(ss))[0] = 0
      BY <1>1, RunningSumDef DEF FlattenSeq
    <2>2. <<>> \in Seq(S) /\ Len(<<>>) = 0 /\ \A j \in 1 .. 0 : FALSE
      OBVIOUS
    <2> QED BY <1>1, <2>1, <2>2, Zenon DEF Laid
  <1>2. CASE Len(ss) # 0
    <2>1. Len(ss) \in 1 .. Len(ss) /\ Len(ss) \in Nat \ {0}
      BY <1>0, <1>2
    <2>2. FlattenSeq(ss) = Cat(ss)[Len(ss)]
      BY <2>1, CatDef, Zenon
    <2>3. Laid(S, ss, Len(ss), Cat(ss)[Len(ss)])
      BY <2>1, CatFacts, Zenon
    <2> QED BY <2>2, <2>3, Zenon
  <1> QED BY <1>1, <1>2

\* The offsets of a stream: each chunk begins where the one before it ends.
OffsetsOf(s) == RunningSum(Lens(s))

\* The offsets of a stream by the recursion of Chunker.offset.
LEMMA OffsetFacts ==
    ASSUME NEW s \in Seq(Seq(Nat) \ {<<>>})
    PROVE  /\ s \in Seq(Seq(Nat))
           /\ OffsetsOf(s)[0] = 0
           /\ \A i \in 0 .. Len(s) : OffsetsOf(s)[i] \in Nat
           /\ \A i \in 1 .. Len(s) : /\ s[i] \in Seq(Nat) /\ Len(s[i]) \in Nat \ {0}
                                     /\ OffsetsOf(s)[i - 1] \in Nat
                                     /\ OffsetsOf(s)[i] = OffsetsOf(s)[i - 1] + Len(s[i])
  <1> DEFINE o == OffsetsOf(s)
  <1>1. s \in Seq(Seq(Nat))
    OBVIOUS
  <1>2. \A i \in 1 .. Len(s) : s[i] \in Seq(Nat) /\ Len(s[i]) \in Nat \ {0}
    <2> TAKE i \in 1 .. Len(s)
    <2>1. s[i] \in Seq(Nat) /\ s[i] # <<>>
      OBVIOUS
    <2> QED BY <2>1
  <1>3. \A i \in 0 .. Len(s) : o[i] \in Nat
    BY <1>1, LensType, RunningSumType DEF OffsetsOf
  <1>4. o[0] = 0 /\ \A i \in Nat \ {0} : o[i] = o[i - 1] + Lens(s)[i]
    BY RunningSumDef DEF OffsetsOf
  <1>5. \A i \in 1 .. Len(s) : i \in Nat \ {0} /\ i - 1 \in 0 .. Len(s) /\ Lens(s)[i] = Len(s[i])
    BY <1>1, LensType
  <1> HIDE DEF o
  <1>6. \A i \in 1 .. Len(s) : o[i - 1] \in Nat /\ o[i] = o[i - 1] + Len(s[i])
    BY <1>3, <1>4, <1>5
  <1> QED BY <1>1, <1>2, <1>3, <1>4, <1>6 DEF o

\* No chunk is empty, so the offsets increase.
LEMMA OffsetsIncrease ==
    ASSUME NEW s \in Seq(Seq(Nat) \ {<<>>}), NEW i \in 0 .. Len(s)
    PROVE  \A j \in 0 .. Len(s) : i < j => OffsetsOf(s)[i] < OffsetsOf(s)[j]
  <1> DEFINE o == OffsetsOf(s)
             T == {j \in Nat : (j <= Len(s) /\ i < j) => o[i] < o[j]}
  <1>1. /\ \A j \in 0 .. Len(s) : o[j] \in Nat
        /\ \A j \in 1 .. Len(s) : Len(s[j]) \in Nat \ {0} /\ o[j] = o[j - 1] + Len(s[j])
    BY OffsetFacts
  <1> HIDE DEF o
  <1>2. ASSUME NEW j \in Nat, j \in T, j + 1 <= Len(s), i < j + 1
        PROVE  o[i] < o[j + 1]
    <2>1. j + 1 \in 1 .. Len(s) /\ j \in 0 .. Len(s) /\ (j + 1) - 1 = j
      BY <1>2
    <2>2. o[i] \in Nat /\ o[j] \in Nat
      BY <1>1, <2>1
    <2>3. Len(s[j + 1]) \in Nat \ {0} /\ o[j + 1] = o[j] + Len(s[j + 1])
      BY <1>1, <2>1
    <2>4. o[j] < o[j + 1]
      BY <2>2, <2>3
    <2>5. i = j \/ o[i] < o[j]
      BY <1>2, <2>1
    <2>6. o[j + 1] \in Nat
      BY <2>2, <2>3
    <2>7. CASE i = j
      BY <2>7, <2>4
    <2>8. CASE o[i] < o[j]
      BY <2>8, <2>4, <2>2, <2>6
    <2> QED BY <2>5, <2>7, <2>8
  <1>3. 0 \in T /\ \A j \in Nat : j \in T => j + 1 \in T
    BY <1>2
  <1>4. Nat \subseteq T
    <2> HIDE DEF T
    <2> QED BY <1>3, NatInSet
  <1>5. \A j \in 0 .. Len(s) : i < j => o[i] < o[j]
    BY <1>4
  <1> QED BY <1>5 DEF o
-----------------------------------------------------------------------------
(* Reading a range.                                                        *)

\* How many bytes of the window from start to end lie before position x.
Cover(x, start, end) ==
    IF x <= start THEN 0 ELSE (IF x < end THEN x ELSE end) - start

\* What GetCDC writes for a chunk.
Written(d, start, end) == IF Overlaps(d, start, end) THEN Piece(d, start, end) ELSE <<>>

\* The part of a chunk of length l at offset o that lies inside.
From(o, start)  == IF start > o THEN start - o ELSE 0
To(o, l, end)   == IF end < o + l THEN end - o ELSE l

\* Both are naturals.
LEMMA CoverType ==
    ASSUME NEW o \in Nat, NEW start \in Nat, NEW end \in Nat, start < end
    PROVE  From(o, start) \in Nat /\ Cover(o, start, end) \in Nat
  BY DEF From, Cover

\* A chunk that overlaps the window adds its own part to what is covered.
LEMMA CoverStep ==
    ASSUME NEW o \in Nat, NEW l \in Nat, NEW start \in Nat, NEW end \in Nat, start < end,
           ~(o + l <= start), ~(o >= end), NEW m, m = To(o, l, end) - From(o, start)
    PROVE  Cover(o, start, end) + m = Cover(o + l, start, end)
  <1>1. CASE start > o /\ end < o + l
    BY <1>1 DEF Cover, From, To
  <1>2. CASE start > o /\ ~(end < o + l)
    BY <1>2 DEF Cover, From, To
  <1>3. CASE ~(start > o) /\ end < o + l
    BY <1>3 DEF Cover, From, To
  <1>4. CASE ~(start > o) /\ ~(end < o + l)
    BY <1>4 DEF Cover, From, To
  <1> QED BY <1>1, <1>2, <1>3, <1>4

\* What GetCDC writes for a chunk is the part of it inside the window.
InWindow(f, o, start, end, w) ==
    /\ w \in Seq(Nat)
    /\ Cover(o, start, end) + Len(w) = Cover(o + Len(f), start, end)
    /\ \A k \in 1 .. Len(w) : /\ From(o, start) + k \in 1 .. Len(f)
                              /\ w[k] = f[From(o, start) + k]
                              /\ start + Cover(o, start, end) = o + From(o, start)

\* What GetCDC writes for one chunk lies in the window, and in its place.
LEMMA WrittenFacts ==
    ASSUME NEW f \in Seq(Nat), NEW o \in Nat, NEW start \in Nat, NEW end \in Nat, start < end,
           Len(f) \in Nat \ {0}
    PROVE  InWindow(f, o, start, end,
                    Written([fid |-> f, offset |-> o, size |-> Len(f)], start, end))
  <1> DEFINE d == [fid |-> f, offset |-> o, size |-> Len(f)]
             w == Written(d, start, end)
             from == From(o, start)
             to == To(o, Len(f), end)
  <1>0. d.fid = f /\ d.offset = o /\ d.size = Len(f)
    OBVIOUS
  <1>1. CASE o + Len(f) <= start \/ o >= end
    <2>1. w = <<>>
      BY <1>0, <1>1 DEF Written, Overlaps
    <2>2. Cover(o, start, end) = Cover(o + Len(f), start, end) /\ Cover(o, start, end) \in Nat
      BY <1>1 DEF Cover
    <2>3. <<>> \in Seq(Nat) /\ Len(<<>>) = 0 /\ \A k \in 1 .. 0 : FALSE
      OBVIOUS
    <2>4. w \in Seq(Nat) /\ Len(w) = 0
      BY <2>1, <2>3, Zenon
    <2> HIDE DEF w
    <2>5. \A k \in 1 .. Len(w) : FALSE
      BY <2>3, <2>4, Zenon
    <2>6. Cover(o, start, end) + Len(w) = Cover(o + Len(f), start, end)
      BY <2>2, <2>4
    <2> QED BY <2>4, <2>5, <2>6, Zenon DEF w, InWindow
  <1>2. CASE ~(o + Len(f) <= start \/ o >= end)
    <2>1. from \in Nat /\ to \in Nat /\ from < to /\ to <= Len(f)
      BY <1>2 DEF From, To
    <2>2. w = SubSeq(f, from + 1, to)
      <3>1. Overlaps(d, start, end)
        BY <1>0, <1>2 DEF Overlaps
      <3>2. Piece(d, start, end) = SubSeq(f, from + 1, to)
        BY <1>0, <2>1 DEF Piece, Window, From, To
      <3> QED BY <3>1, <3>2 DEF Written
    <2> HIDE DEF w, from, to
    <2>3. w \in Seq(Nat) /\ Len(w) = to - from
      BY <2>1, <2>2
    <2>4. \A k \in 1 .. Len(w) : from + k \in 1 .. Len(f) /\ w[k] = f[from + k]
      BY <2>1, <2>2
    <2>5. start + Cover(o, start, end) = o + from
      BY <1>2 DEF Cover, from, From
    <2>6. ~(o + Len(f) <= start) /\ ~(o >= end) /\ Len(f) \in Nat
      BY <1>2
    <2>7. Cover(o, start, end) + Len(w) = Cover(o + Len(f), start, end)
      BY <2>3, <2>6, CoverStep DEF from, to
    <2> QED BY <2>3, <2>4, <2>5, <2>7, Zenon DEF w, from, InWindow
  <1> QED BY <1>1, <1>2

\* The descriptors of a stream, in order.
ChunksOf(s) ==
    [i \in 1 .. Len(s) |-> [fid |-> s[i], offset |-> OffsetsOf(s)[i - 1], size |-> Len(s[i])]]

\* What GetCDC writes for all the chunks of a stream is the window.
LEMMA RangeIsWindow ==
    ASSUME NEW s \in Seq(Seq(Nat) \ {<<>>}), NEW start \in Nat, NEW end \in Nat,
           start < end, end <= Len(FlattenSeq(s))
    PROVE  FlattenSeq([i \in 1 .. Len(s) |-> Written(ChunksOf(s)[i], start, end)])
             = [k \in 1 .. end - start |-> FlattenSeq(s)[start + k]]
  <1> DEFINE o == OffsetsOf(s)
             n == Len(s)
             F == FlattenSeq(s)
             W(i) == Written(ChunksOf(s)[i], start, end)
             ps == [i \in 1 .. n |-> W(i)]
             q == RunningSum(Lens(ps))
             D == FlattenSeq(ps)
             from(i) == From(o[i - 1], start)
             C(x) == Cover(x, start, end)
             Fits(i) == \A k \in 1 .. Len(ps[i]) :
                           /\ from(i) + k \in 1 .. Len(s[i]) /\ ps[i][k] = s[i][from(i) + k]
                           /\ start + C(o[i - 1]) = o[i - 1] + from(i)
  <1>1. n \in Nat /\ s \in Seq(Seq(Nat))
    BY OffsetFacts
  <1>2. o[0] = 0 /\ \A i \in 0 .. n : o[i] \in Nat
    BY OffsetFacts
  <1>3. \A i \in 1 .. n : /\ s[i] \in Seq(Nat) /\ Len(s[i]) \in Nat \ {0} /\ o[i - 1] \in Nat
                          /\ o[i] = o[i - 1] + Len(s[i])
    BY OffsetFacts
  <1>4. F \in Seq(Nat) /\ Len(F) = o[n]
    BY <1>1, FlattenFacts DEF Laid, OffsetsOf
  <1>5. \A j \in 1 .. n : \A k \in 1 .. Len(s[j]) : F[o[j - 1] + k] = s[j][k]
    <2>1. Laid(Nat, s, n, F)
      BY <1>1, FlattenFacts
    <2> QED BY <2>1, Zenon DEF Laid, OffsetsOf
  <1>6. \A i \in 1 .. n : ChunksOf(s)[i] = [fid |-> s[i], offset |-> o[i - 1], size |-> Len(s[i])]
    BY DEF ChunksOf
  <1> HIDE DEF o
  <1>7. \A i \in 1 .. n : W(i) \in Seq(Nat) /\ C(o[i - 1]) + Len(W(i)) = C(o[i])
    <2> TAKE i \in 1 .. n
    <2>1. s[i] \in Seq(Nat) /\ Len(s[i]) \in Nat \ {0} /\ o[i - 1] \in Nat /\ o[i] = o[i - 1] + Len(s[i])
      BY <1>3
    <2>2. InWindow(s[i], o[i - 1], start, end, W(i))
      BY <2>1, <1>6, WrittenFacts
    <2> QED BY <2>1, <2>2, Zenon DEF InWindow
  <1>8. ps \in Seq(Seq(Nat)) /\ Len(ps) = n
    <2> HIDE DEF W
    <2> QED BY <1>7, <1>1
  <1>9. \A i \in 1 .. n : Fits(i)
    <2> TAKE i \in 1 .. n
    <2>1. s[i] \in Seq(Nat) /\ Len(s[i]) \in Nat \ {0} /\ o[i - 1] \in Nat
      BY <1>3
    <2>2. ps[i] = W(i)
      BY Zenon
    <2>3. W(i) = Written([fid |-> s[i], offset |-> o[i - 1], size |-> Len(s[i])], start, end)
      BY <1>6, Zenon
    <2> HIDE DEF W, ps
    <2>4. InWindow(s[i], o[i - 1], start, end, ps[i])
      BY <2>1, <2>2, <2>3, WrittenFacts
    <2> QED BY <2>4, Zenon DEF InWindow
  <1>10. /\ q[0] = 0 /\ \A i \in 1 .. n : q[i] = q[i - 1] + Len(W(i))
         /\ \A i \in 0 .. n : q[i] \in Nat
    <2>1. q[0] = 0 /\ \A i \in Nat \ {0} : q[i] = q[i - 1] + Lens(ps)[i]
      BY RunningSumDef
    <2>2. /\ Lens(ps) \in Seq(Nat) /\ Len(Lens(ps)) = n
          /\ \A i \in 1 .. n : Lens(ps)[i] = Len(ps[i])
      <3> HIDE DEF ps
      <3> QED BY <1>8, LensType
    <2>3. \A i \in 0 .. n : q[i] \in Nat
      BY <2>2, RunningSumType
    <2>4. \A i \in 1 .. n : Lens(ps)[i] = Len(W(i))
      BY <2>2
    <2>5. \A i \in 1 .. n : i \in Nat \ {0}
      OBVIOUS
    <2> HIDE DEF q, W
    <2> QED BY <2>1, <2>3, <2>4, <2>5
  <1> HIDE DEF W, ps, q, F, D
  <1>11. \A i \in 0 .. n : q[i] = C(o[i])
    <2> DEFINE T == {i \in Nat : i <= n => q[i] = C(o[i])}
    <2>1. 0 \in T
      BY <1>2, <1>10 DEF Cover
    <2>2. ASSUME NEW i \in Nat, i \in T, i + 1 <= n
          PROVE  q[i + 1] = C(o[i + 1])
      <3>1. i + 1 \in 1 .. n /\ i \in 0 .. n /\ (i + 1) - 1 = i /\ q[i] = C(o[i])
        BY <2>2, <1>1
      <3>2. q[i + 1] = q[i] + Len(W(i + 1))
        BY <3>1, <1>10
      <3>3. C(o[i]) + Len(W(i + 1)) = C(o[i + 1])
        BY <3>1, <1>7
      <3> QED BY <3>1, <3>2, <3>3, Zenon
    <2>3. \A i \in Nat : i \in T => i + 1 \in T
      BY <2>2
    <2>4. Nat \subseteq T
      <3> HIDE DEF T
      <3> QED BY <2>1, <2>3, NatInSet
    <2> QED BY <2>4
  <1>12. q[n] = end - start
    <2>1. end <= o[n] /\ o[n] \in Nat /\ n \in 0 .. n
      BY <1>1, <1>2, <1>4 DEF F
    <2>2. C(o[n]) = end - start
      BY <2>1 DEF Cover
    <2> QED BY <1>11, <2>1, <2>2
  <1>13. D \in Seq(Nat) /\ Len(D) = q[n]
    <2>1. Laid(Nat, ps, n, D)
      BY <1>8, FlattenFacts DEF D
    <2> QED BY <2>1, Zenon DEF Laid, q
  <1>14. \A j \in 1 .. n : \A k \in 1 .. Len(ps[j]) : D[q[j - 1] + k] = ps[j][k]
    <2>1. Laid(Nat, ps, n, D)
      BY <1>8, FlattenFacts DEF D
    <2> QED BY <2>1, Zenon DEF Laid, q
  <1>15. ASSUME NEW p \in 1 .. q[n]
         PROVE  D[p] = F[start + p]
    <2>1. PICK j \in 1 .. n : \E k \in 1 .. Len(ps[j]) : p = q[j - 1] + k
      <3>1. \A i \in 0 .. Len(ps) : \A x \in 1 .. q[i] :
              \E j \in 1 .. i : \E k \in 1 .. Len(ps[j]) : x = q[j - 1] + k
        BY <1>8, SumCovers, Zenon DEF q
      <3>2. n \in 0 .. Len(ps)
        BY <1>1, <1>8
      <3> QED BY <3>1, <3>2, Zenon
    <2>2. PICK k \in 1 .. Len(ps[j]) : p = q[j - 1] + k
      BY <2>1
    <2>3. D[p] = ps[j][k]
      BY <1>14, <2>2
    <2>4. /\ from(j) + k \in 1 .. Len(s[j]) /\ ps[j][k] = s[j][from(j) + k]
          /\ start + C(o[j - 1]) = o[j - 1] + from(j)
      BY <1>9
    <2>5. F[o[j - 1] + (from(j) + k)] = s[j][from(j) + k]
      BY <1>5, <2>4, Zenon
    <2>6. j - 1 \in 0 .. n /\ o[j - 1] \in Nat /\ from(j) \in Nat /\ k \in Nat /\ C(o[j - 1]) \in Nat
      <3>1. j - 1 \in 0 .. n /\ o[j - 1] \in Nat
        BY <1>2, <1>1
      <3>2. ps[j] \in Seq(Nat)
        BY <1>8
      <3>3. k \in Nat
        BY <3>2
      <3>4. from(j) \in Nat /\ C(o[j - 1]) \in Nat
        BY <3>1, CoverType
      <3> QED BY <3>1, <3>3, <3>4
    <2>7. q[j - 1] = C(o[j - 1]) /\ q[j - 1] \in Nat
      BY <1>10, <1>11, <2>6
    <2>8. start + p = o[j - 1] + (from(j) + k)
      <3>1. p = C(o[j - 1]) + k
        BY <2>2, <2>7
      <3>2. start + C(o[j - 1]) = o[j - 1] + from(j)
        BY <2>4
      <3>3. ASSUME NEW a \in Nat, NEW b \in Nat, NEW c \in Nat, start + a = b + c, p = a + k
            PROVE  start + p = b + (c + k)
        BY <2>6, <3>3
      <3> HIDE DEF from, C
      <3> QED BY <2>6, <3>1, <3>2, <3>3
    <2> QED BY <2>3, <2>4, <2>5, <2>8, Zenon
  <1>16. D = [k \in 1 .. end - start |-> F[start + k]]
    <2>1. D = [k \in 1 .. Len(D) |-> D[k]]
      BY <1>13
    <2>2. [k \in 1 .. q[n] |-> D[k]] = [k \in 1 .. q[n] |-> F[start + k]]
      BY <1>15, Zenon
    <2> QED BY <2>1, <2>2, <1>12, <1>13, Zenon
  <1> QED BY <1>16 DEF D, F, ps, W
-----------------------------------------------------------------------------
(* Sorting the descriptors.                                                *)

\* An increasing function of 1 .. n onto itself moves nothing.
LEMMA IncreasingIsIdentity ==
    ASSUME NEW n \in Nat, NEW g \in [1 .. n -> 1 .. n],
           \A i, j \in 1 .. n : i < j => g[i] < g[j],
           \A v \in 1 .. n : \E i \in 1 .. n : g[i] = v
    PROVE  \A i \in 1 .. n : g[i] = i
  <1> DEFINE Low == {i \in 1 .. n : g[i] < i}
             High == {i \in 1 .. n : g[i] > i}
  <1>1. Low = {}
    <2> SUFFICES ASSUME Low # {} PROVE FALSE
      OBVIOUS
    <2>1. PICK i \in Low : \A j \in Low : i <= j
      <3>1. Low \in SUBSET Nat
        OBVIOUS
      <3> QED BY <3>1, NatMin
    <2>2. i \in 1 .. n /\ g[i] < i /\ g[i] \in 1 .. n
      OBVIOUS
    <2>3. i - 1 \in 1 .. n /\ i - 1 < i
      BY <2>2
    <2>4. g[i - 1] < g[i] /\ g[i - 1] \in 1 .. n
      BY <2>2, <2>3
    <2>5. i - 1 \in Low
      BY <2>2, <2>3, <2>4
    <2> QED BY <2>1, <2>2, <2>5
  <1>2. High = {}
    <2> SUFFICES ASSUME High # {} PROVE FALSE
      OBVIOUS
    <2>1. PICK i \in High : \A j \in High : i <= j
      <3>1. High \in SUBSET Nat
        OBVIOUS
      <3> QED BY <3>1, NatMin
    <2>2. i \in 1 .. n /\ g[i] > i /\ g[i] \in 1 .. n
      OBVIOUS
    <2>3. PICK j \in 1 .. n : g[j] = i
      BY <2>2
    <2>4. ~(j > i)
      BY <2>2, <2>3
    <2>5. j # i
      BY <2>2, <2>3
    <2>6. j < i
      BY <2>2, <2>4, <2>5
    <2>7. j \in High
      BY <2>3, <2>6
    <2> QED BY <2>1, <2>2, <2>6, <2>7
  <1>3. ASSUME NEW i \in 1 .. n PROVE g[i] = i
    <2>1. ~(g[i] < i) /\ ~(g[i] > i) /\ g[i] \in 1 .. n
      BY <1>1, <1>2
    <2> QED BY <2>1
  <1> QED BY <1>3

\* rs holds each descriptor of s once.
Collected(s, rs) ==
    /\ rs \in Seq({ChunksOf(s)[i] : i \in 1 .. Len(s)})
    /\ \A a, b \in 1 .. Len(rs) : rs[a] = rs[b] => a = b
    /\ \A i \in 1 .. Len(s) : \E a \in 1 .. Len(rs) : rs[a] = ChunksOf(s)[i]

\* Numbers that are in the same order as their positions.
LEMMA SameOrder ==
    ASSUME NEW i \in Nat, NEW j \in Nat, NEW a \in Nat, NEW b \in Nat,
           i - 1 < j - 1 => a < b, j - 1 < i - 1 => b < a, i = j => a = b
    PROVE  (a <= b <=> i <= j) /\ (a = b => i = j)
  OBVIOUS

\* Descriptors at different places have different offsets.
LEMMA ChunksDistinct ==
    ASSUME NEW s \in Seq(Seq(Nat) \ {<<>>}), NEW i \in 1 .. Len(s), NEW j \in 1 .. Len(s)
    PROVE  /\ ChunksOf(s)[i].offset <= ChunksOf(s)[j].offset <=> i <= j
           /\ ChunksOf(s)[i] = ChunksOf(s)[j] => i = j
  <1> DEFINE o == OffsetsOf(s)
  <1>1. ChunksOf(s)[i].offset = o[i - 1] /\ ChunksOf(s)[j].offset = o[j - 1]
    BY DEF ChunksOf
  <1>2. i - 1 \in 0 .. Len(s) /\ j - 1 \in 0 .. Len(s)
    OBVIOUS
  <1>3. o[i - 1] \in Nat /\ o[j - 1] \in Nat
    BY <1>2, OffsetFacts
  <1>4. (i - 1 < j - 1 => o[i - 1] < o[j - 1]) /\ (j - 1 < i - 1 => o[j - 1] < o[i - 1])
    BY <1>2, OffsetsIncrease
  <1>5. (o[i - 1] <= o[j - 1] <=> i <= j) /\ (o[i - 1] = o[j - 1] => i = j)
    <2>1. i \in Nat /\ j \in Nat
      OBVIOUS
    <2> DEFINE a == o[i - 1]
               b == o[j - 1]
    <2>2. i = j => a = b
      BY Zenon
    <2>3. a \in Nat /\ b \in Nat /\ (i - 1 < j - 1 => a < b) /\ (j - 1 < i - 1 => b < a)
      BY <1>3, <1>4, Zenon
    <2> HIDE DEF a, b
    <2>4. (a <= b <=> i <= j) /\ (a = b => i = j)
      BY <2>1, <2>2, <2>3, SameOrder
    <2> QED BY <2>4 DEF a, b
  <1> QED BY <1>1, <1>5, Zenon

\* Sorted by offset, a complete collection is the list of the stream's chunks.
LEMMA SortedIsInOrder ==
    ASSUME NEW s \in Seq(Seq(Nat) \ {<<>>}), NEW rs, Collected(s, rs)
    PROVE  SortedByOffset(rs) = ChunksOf(s)
  <1> DEFINE n == Len(s)
             m == Len(rs)
             c == ChunksOf(s)
             C == {c[i] : i \in 1 .. n}
  <1>1. n \in Nat /\ m \in Nat /\ rs \in Seq(C) /\ DOMAIN rs = 1 .. m
    BY DEF Collected
  <1>2. /\ \A a, b \in 1 .. m : rs[a] = rs[b] => a = b
        /\ \A a \in 1 .. m : \E i \in 1 .. n : rs[a] = c[i]
        /\ \A i \in 1 .. n : \E a \in 1 .. m : rs[a] = c[i]
    <2>1. \A a \in 1 .. m : rs[a] \in C
      <3> HIDE DEF C
      <3> QED BY <1>1
    <2> QED BY <2>1 DEF Collected
  <1>3. \A i, j \in 1 .. n : /\ c[i].offset <= c[j].offset <=> i <= j
                             /\ c[i] = c[j] => i = j
    BY ChunksDistinct
  <1>4. c = [i \in 1 .. n |-> c[i]]
    BY DEF ChunksOf
  <1> HIDE DEF c, n, m
  <1> DEFINE r == [a \in 1 .. m |-> CHOOSE i \in 1 .. n : rs[a] = c[i]]
             q == [i \in 1 .. n |-> CHOOSE a \in 1 .. m : rs[a] = c[i]]
  <1>5. \A a \in 1 .. m : r[a] \in 1 .. n /\ rs[a] = c[r[a]]
    BY <1>2
  <1>6. \A i \in 1 .. n : q[i] \in 1 .. m /\ rs[q[i]] = c[i]
    BY <1>2
  <1>7. r \in [1 .. m -> 1 .. n] /\ q \in [1 .. n -> 1 .. m]
    BY <1>5, <1>6
  <1> HIDE DEF r, q
  <1>8. m = n
    <2>1. r \in Injection(1 .. m, 1 .. n)
      <3>1. \A a, b \in 1 .. m : r[a] = r[b] => a = b
        <4> TAKE a, b \in 1 .. m
        <4>1. rs[a] = c[r[a]] /\ rs[b] = c[r[b]]
          BY <1>5
        <4>2. rs[a] = rs[b] => a = b
          BY <1>2
        <4> QED BY <4>1, <4>2, Zenon
      <3> QED BY <1>7, <3>1 DEF Injection, IsInjective
    <2>2. q \in Injection(1 .. n, 1 .. m)
      <3>1. \A i, j \in 1 .. n : q[i] = q[j] => i = j
        BY <1>3, <1>6
      <3> QED BY <1>7, <3>1 DEF Injection, IsInjective
    <2>3. /\ IsFiniteSet(1 .. m) /\ IsFiniteSet(1 .. n)
          /\ Cardinality(1 .. m) = m /\ Cardinality(1 .. n) = n
      BY <1>1, FS_Interval
    <2>4. Cardinality(1 .. m) <= Cardinality(1 .. n) /\ Cardinality(1 .. n) <= Cardinality(1 .. m)
      BY <2>1, <2>2, <2>3, FS_Injection
    <2> QED BY <1>1, <2>3, <2>4
  <1> DEFINE Sorts(p) == \A i, j \in 1 .. n : i < j => rs[p[i]].offset <= rs[p[j]].offset
  <1>9. q \in Bijection(1 .. n, 1 .. n) /\ Sorts(q)
    <2>1. \A i, j \in 1 .. n : q[i] = q[j] => i = j
      BY <1>3, <1>6
    <2>2. \A a \in 1 .. n : \E i \in 1 .. n : q[i] = a
      <3> TAKE a \in 1 .. n
      <3>1. r[a] \in 1 .. n /\ rs[a] = c[r[a]]
        BY <1>5, <1>8
      <3>2. q[r[a]] \in 1 .. m /\ rs[q[r[a]]] = rs[a]
        BY <3>1, <1>6
      <3>3. q[r[a]] = a
        BY <3>2, <1>2, <1>8
      <3> QED BY <3>1, <3>3
    <2>3. Sorts(q)
      <3> SUFFICES ASSUME NEW i \in 1 .. n, NEW j \in 1 .. n, i < j
                   PROVE  rs[q[i]].offset <= rs[q[j]].offset
        OBVIOUS
      <3>1. c[i].offset <= c[j].offset
        BY <1>3
      <3> QED BY <3>1, <1>6, Zenon
    <2> QED BY <1>7, <1>8, <2>1, <2>2, <2>3 DEF Bijection, Injection, Surjection, IsInjective
  <1> DEFINE p == CHOOSE x \in Bijection(1 .. n, 1 .. n) : Sorts(x)
  <1>10. p \in Bijection(1 .. n, 1 .. n) /\ Sorts(p)
    <2> HIDE DEF Sorts
    <2> QED BY <1>9
  <1>11. SortedByOffset(rs) = [i \in 1 .. n |-> rs[p[i]]]
    BY <1>1, <1>8 DEF SortedByOffset
  <1> HIDE DEF p
  <1>12. /\ p \in [1 .. n -> 1 .. n]
         /\ \A i, j \in 1 .. n : p[i] = p[j] => i = j
         /\ \A a \in 1 .. n : \E i \in 1 .. n : p[i] = a
    BY <1>10 DEF Bijection, Injection, Surjection, IsInjective
  <1> DEFINE g == [i \in 1 .. n |-> r[p[i]]]
  <1>13. \A i \in 1 .. n : g[i] \in 1 .. n /\ rs[p[i]] = c[g[i]]
    BY <1>5, <1>8, <1>12
  <1>14. g \in [1 .. n -> 1 .. n]
    BY <1>13
  <1> HIDE DEF g
  <1>15. \A i, j \in 1 .. n : g[i] = g[j] => i = j
    <2>1. \A i, j \in 1 .. n : g[i] = g[j] => rs[p[i]] = rs[p[j]]
      BY <1>13
    <2> TAKE i, j \in 1 .. n
    <2>2. p[i] \in 1 .. m /\ p[j] \in 1 .. m
      BY <1>8, <1>12
    <2>3. rs[p[i]] = rs[p[j]] => p[i] = p[j]
      BY <2>2, <1>2
    <2> QED BY <2>1, <2>3, <1>12
  <1>16. \A i, j \in 1 .. n : i < j => g[i] < g[j]
    <2> SUFFICES ASSUME NEW i \in 1 .. n, NEW j \in 1 .. n, i < j
                 PROVE  g[i] < g[j]
      OBVIOUS
    <2>1. rs[p[i]].offset <= rs[p[j]].offset
      BY <1>10
    <2>2. g[i] \in 1 .. n /\ g[j] \in 1 .. n /\ g[i] <= g[j]
      BY <2>1, <1>13, <1>3
    <2>3. g[i] # g[j]
      BY <1>15
    <2> QED BY <2>2, <2>3
  <1>17. \A v \in 1 .. n : \E i \in 1 .. n : g[i] = v
    <2> TAKE v \in 1 .. n
    <2>1. q[v] \in 1 .. n /\ rs[q[v]] = c[v]
      BY <1>6, <1>8
    <2>2. PICK i \in 1 .. n : p[i] = q[v]
      BY <2>1, <1>12
    <2>3. c[g[i]] = c[v] /\ g[i] \in 1 .. n
      BY <2>1, <2>2, <1>13
    <2>4. g[i] = v
      BY <2>3, <1>3
    <2> QED BY <2>4
  <1>18. \A i \in 1 .. n : g[i] = i
    BY <1>1, <1>14, <1>16, <1>17, IncreasingIsIdentity
  <1>19. \A i \in 1 .. n : rs[p[i]] = c[i]
    BY <1>13, <1>18
  <1> QED BY <1>4, <1>11, <1>19, Zenon DEF c
-----------------------------------------------------------------------------
(* The inductive invariant.                                                *)

Pcs       == {"take", "put", "wait", "report", "fail", "done"}
Holding   == {"put", "wait", "report", "fail"}
WorkStates == [pc : Pcs, task : Nat]
ResultRecs == [index : Nat, err : BOOLEAN]
Descs     == {ChunkAt(i) : i \in 1 .. Len(stream)}

WorkTyped ==
    /\ work \in [Workers -> WorkStates]
    /\ \A w \in Workers : /\ work[w].task \in 0 .. sliced
                          /\ work[w].pc \in Holding => work[w].task # 0

TypeInv ==
    /\ stream \in Streams
    /\ sliced \in 0 .. Len(stream)
    /\ slicer \in {"next", "send", "done"}
    /\ taskCh \in Seq(Nat) /\ Len(taskCh) <= ChanCap
    /\ \A k \in 1 .. Len(taskCh) : taskCh[k] \in 1 .. sliced
    /\ WorkTyped
    /\ resCh \in Seq(ResultRecs) /\ Len(resCh) <= ChanCap
    /\ \A k \in 1 .. Len(resCh) : resCh[k].index \in 1 .. sliced
    /\ results \in Seq(Descs)
    /\ main \in {"collect", "assemble", "commit", "done"}
    /\ outcome \in {"none", "ok", "error"}
    /\ parentDone \in BOOLEAN /\ cancelled \in BOOLEAN
    /\ (slicer = "send" => sliced # 0)

\* The chunks that the slicer has handed over, and those of them that a worker
\* has taken from the channel.
Issued == IF slicer = "send" THEN sliced - 1 ELSE sliced
Taken  == Issued - Len(taskCh)

\* A worker has task i; its result waits in the channel; its descriptor has
\* been collected.
HeldBy(w, i)  == work[w].pc \in Holding /\ work[w].task = i
Held(i)       == \E w \in Workers : HeldBy(w, i)
Reported(i)   == \E k \in 1 .. Len(resCh) : resCh[k].index = i
Gathered(i)   == \E k \in 1 .. Len(results) : results[k] = ChunkAt(i)

\* The channel holds the last chunks that were issued, in order.
QueueInOrder ==
    /\ Taken \in Nat
    /\ \A k \in 1 .. Len(taskCh) : taskCh[k] = Taken + k

\* Each chunk taken is in one place.
OncePlaced ==
    /\ \A w \in Workers : work[w].pc \in Holding => work[w].task <= Taken
    /\ \A v, w \in Workers : \A i \in 1 .. Len(stream) : HeldBy(v, i) /\ HeldBy(w, i) => v = w
    /\ \A k \in 1 .. Len(resCh) : resCh[k].index <= Taken /\ ~Held(resCh[k].index)
    /\ \A k, l \in 1 .. Len(resCh) : resCh[k].index = resCh[l].index => k = l
    /\ \A i \in 1 .. Len(stream) : Gathered(i) => i <= Taken /\ ~Held(i) /\ ~Reported(i)
    /\ \A k, l \in 1 .. Len(results) : results[k] = results[l] => k = l

\* No chunk taken is lost.
NoneLost == \A i \in 1 .. Taken : Held(i) \/ Reported(i) \/ Gathered(i)

\* Nobody stops before the end of the stream, except for an error on its way.
StopsAtEnd ==
    /\ slicer = "done" => sliced = Len(stream)
    /\ \A w \in Workers : work[w].pc = "done" =>
          \/ slicer = "done" /\ taskCh = <<>>
          \/ \E k \in 1 .. Len(resCh) : resCh[k].err

\* An upload has failed and the collector does not know yet.
Trouble ==
    \/ \E w \in Workers : work[w].pc = "fail"
    \/ \E k \in 1 .. Len(resCh) : resCh[k].err

Sure(x) == x \in stored \cup inFlight \cup Foreign

\* A content that counts as uploaded is stored, or its upload has a worker
\* waiting for it.
UploadsAwaited ==
    /\ \A w \in Workers : work[w].pc = "wait" => Content(w) \in inFlight
    /\ ~Trouble =>
         /\ \A x \in inFlight : x \in Foreign \/ Waiting(x) # {}
         /\ \A w \in Workers : work[w].pc = "report" => Sure(Content(w))
         /\ \A k \in 1 .. Len(resCh) : Sure(stream[resCh[k].index])
         /\ \A k \in 1 .. Len(results) : Sure(results[k].fid)

\* What holds as long as nobody has cancelled.
LiveInv ==
    ~WorkersDone => QueueInOrder /\ OncePlaced /\ NoneLost /\ StopsAtEnd /\ UploadsAwaited

\* The manifest main has built is that of the stream, and its chunks are there.
WholeManifest == [total |-> Len(File), hash |-> stream, chunks |-> ChunksOf(stream)]
RootGood ==
    /\ root = WholeManifest
    /\ \A i \in 1 .. Len(stream) : stream[i] \in stored \cup Foreign

MainInv ==
    /\ main = "collect" /\ cancelled => sliceErr \/ firstErr
    /\ main = "assemble" /\ ~parentDone => RootGood
    /\ main = "commit" => RootGood
    /\ manifests # {} => manifests = {root} /\ RootGood /\ main = "done"
    /\ outcome = "ok" => main = "done" /\ (manifests # {} \/ rival # "none")
    /\ main = "done" => cancelled

CdcInv == TypeInv /\ LiveInv /\ MainInv

\* Taking from the front of a channel and sending to its end.
Taking(S, s, t) ==
    /\ s[1] \in S /\ Head(s) = s[1]
    /\ t \in Seq(S) /\ Len(t) = Len(s) - 1
    /\ \A k \in 1 .. Len(t) : k + 1 \in 1 .. Len(s) /\ t[k] = s[k + 1]

Sending(S, s, e, t) ==
    /\ t \in Seq(S) /\ Len(t) = Len(s) + 1 /\ t[Len(t)] = e
    /\ \A k \in 1 .. Len(s) : k \in 1 .. Len(t) /\ t[k] = s[k]

\* A receive.
LEMMA TailFacts ==
    ASSUME NEW S, NEW s \in Seq(S), s # <<>>
    PROVE  Taking(S, s, Tail(s)) /\ Len(s) \in Nat \ {0} /\ Len(Tail(s)) \in Nat
  <1>1. Len(s) \in Nat \ {0} /\ s[1] \in S /\ Head(s) = s[1]
    OBVIOUS
  <1>2. Tail(s) \in Seq(S) /\ Len(Tail(s)) = Len(s) - 1
    OBVIOUS
  <1>3. \A k \in 1 .. Len(s) - 1 : Tail(s)[k] = s[k + 1]
    OBVIOUS
  <1>4. \A k \in 1 .. Len(s) - 1 : k + 1 \in 1 .. Len(s)
    BY <1>1
  <1> QED BY <1>1, <1>2, <1>3, <1>4 DEF Taking

\* A send.
LEMMA AppendFacts ==
    ASSUME NEW S, NEW s \in Seq(S), NEW e \in S
    PROVE  Sending(S, s, e, Append(s, e)) /\ Len(s) \in Nat
  <1>1. Append(s, e) \in Seq(S) /\ Len(Append(s, e)) = Len(s) + 1 /\ Len(s) \in Nat
    OBVIOUS
  <1>2. \A k \in 1 .. Len(s) : k \in 1 .. Len(s) + 1 /\ Append(s, e)[k] = s[k]
    OBVIOUS
  <1>3. Append(s, e)[Len(s) + 1] = e
    OBVIOUS
  <1> QED BY <1>1, <1>2, <1>3 DEF Sending

\* A worker moves to another program counter and keeps its task.
Moved(w, pc) ==
    /\ work' \in [Workers -> WorkStates]
    /\ work'[w].pc = pc /\ work'[w].task = work[w].task
    /\ \A v \in Workers : v # w => work'[v] = work[v]

\* Goto moves one worker.
LEMMA GotoFacts ==
    ASSUME work \in [Workers -> WorkStates], NEW w \in Workers, NEW pc \in Pcs, Goto(w, pc)
    PROVE  Moved(w, pc)
  <1> DEFINE new == [work[w] EXCEPT !.pc = pc]
  <1>1. work[w] \in WorkStates
    OBVIOUS
  <1>2. new \in WorkStates /\ new.pc = pc /\ new.task = work[w].task
    BY <1>1 DEF WorkStates
  <1>3. work' = [work EXCEPT ![w] = new]
    BY DEF Goto
  <1> HIDE DEF new
  <1>4. work' \in [Workers -> WorkStates] /\ work'[w] = new
    BY <1>2, <1>3
  <1>5. \A v \in Workers : v # w => work'[v] = work[v]
    BY <1>3
  <1> QED BY <1>2, <1>4, <1>5 DEF Moved

\* The stream is fixed.
LEMMA StreamFixed ==
    ASSUME [Next]_vars
    PROVE  stream' = stream
  BY DEF Next, vars, CallerCancels, Slicer, SlicerNext, SlicerError, SlicerSend, SlicerStop, Main,
         Collect, CollectDone, CommitStarts, CommitEnds, Worker, WorkerTake, WorkerEnds, PutStarts,
         PutCancelled, WorkerReports, WorkerFails, HandlerEnds, RivalCommits, RivalEnds

\* The other call's Put of the manifest touches nothing of this one.
OnlyRival ==
    UNCHANGED <<stream, slicerVars, taskCh, work, resCh, parentDone, cancelled, mainVars,
                stored, inFlight>>

LEMMA RivalApart ==
    ASSUME RivalCommits \/ RivalEnds \/ UNCHANGED vars
    PROVE  OnlyRival /\ (rival # "none" => rival' # "none")
  BY DEF RivalCommits, RivalEnds, OnlyRival, vars, storeVars

\* So is everything that is computed from it.
LEMMA DescsFixed ==
    ASSUME stream' = stream
    PROVE  /\ Descs' = Descs /\ \A i : (ChunkAt(i))' = ChunkAt(i)
           /\ File' = File /\ ChunksOf(stream)' = ChunksOf(stream)
  <1>1. \A i : (ChunkAt(i))' = ChunkAt(i)
    BY DEF ChunkAt, Offsets
  <1>2. Descs' = Descs
    BY <1>1 DEF Descs
  <1>3. File' = File /\ ChunksOf(stream)' = ChunksOf(stream)
    BY DEF File
  <1> QED BY <1>1, <1>2, <1>3

\* A step of a worker that has a task, or that takes up none, keeps the types.
LEMMA MovedTyped ==
    ASSUME WorkTyped, NEW w \in Workers, NEW pc \in Pcs, Moved(w, pc), sliced' = sliced,
           work[w].pc \in Holding \/ pc \notin Holding
    PROVE  WorkTyped'
  <1>1. \A v \in Workers : v # w => work'[v] = work[v]
    BY DEF Moved
  <1>2. /\ work'[w].task \in 0 .. sliced
        /\ work'[w].pc \in Holding => work'[w].task # 0
    BY DEF Moved, WorkTyped
  <1>3. ASSUME NEW v \in Workers
        PROVE  /\ work'[v].task \in 0 .. sliced
               /\ work'[v].pc \in Holding => work'[v].task # 0
    <2>1. CASE v = w
      BY <2>1, <1>2
    <2>2. CASE v # w
      BY <2>2, <1>1 DEF WorkTyped
    <2> QED BY <2>1, <2>2
  <1>4. work' \in [Workers -> WorkStates]
    BY DEF Moved
  <1> QED BY <1>3, <1>4 DEF WorkTyped

\* The lengths that arithmetic is done with are naturals.
LEMMA QueueTypes ==
    ASSUME TypeInv
    PROVE  /\ stream \in Seq(Seq(Nat) \ {<<>>}) /\ Len(stream) \in Nat /\ sliced \in Nat
           /\ Len(taskCh) \in Nat /\ Len(resCh) \in Nat /\ Len(results) \in Nat /\ ChanCap \in Nat
  BY CdcAssumption DEF TypeInv

\* Every step keeps the types, one case per action.
LEMMA TypeStep ==
    ASSUME TypeInv, [Next]_vars
    PROVE  TypeInv'
  <1>0. stream' = stream
    BY StreamFixed
  <1>q. /\ stream \in Seq(Seq(Nat) \ {<<>>}) /\ Len(stream) \in Nat /\ sliced \in Nat
        /\ Len(taskCh) \in Nat /\ Len(resCh) \in Nat /\ Len(results) \in Nat /\ ChanCap \in Nat
    BY QueueTypes
  <1>d. Descs' = Descs
    BY <1>0, DescsFixed
  <1>t. WorkTyped /\ work \in [Workers -> WorkStates]
    BY DEF TypeInv, WorkTyped
  <1>s. slicer = "send" => sliced \in 1 .. sliced
    BY <1>q DEF TypeInv
  <1>u. ASSUME UNCHANGED <<work, sliced>>
        PROVE  WorkTyped'
    BY <1>t, <1>u DEF WorkTyped
  <1>1. CASE CallerCancels
    BY <1>1, <1>d, <1>u DEF TypeInv, CallerCancels, slicerVars, mainVars
  <1>2. CASE SlicerNext
    <2>1. CASE sliced < Len(stream)
      <3>1. sliced' = sliced + 1 /\ slicer' = "send"
        BY <1>2, <2>1 DEF SlicerNext
      <3>2. sliced' \in 0 .. Len(stream) /\ sliced' # 0 /\ \A i \in 0 .. sliced : i \in 0 .. sliced'
        BY <1>q, <2>1, <3>1
      <3>3. \A i \in 1 .. sliced : i \in 1 .. sliced'
        BY <1>q, <3>1
      <3>4. WorkTyped'
        BY <1>2, <1>t, <3>2 DEF SlicerNext, WorkTyped
      <3>5. UNCHANGED <<taskCh, resCh, results, main, outcome, parentDone, cancelled>>
        BY <1>2 DEF SlicerNext, mainVars
      <3> QED BY <1>0, <1>d, <3>1, <3>2, <3>3, <3>4, <3>5 DEF TypeInv
    <2>2. CASE ~(sliced < Len(stream))
      BY <1>0, <1>2, <2>2, <1>d, <1>u DEF TypeInv, SlicerNext, mainVars
    <2> QED BY <2>1, <2>2
  <1>3. CASE SlicerError
    BY <1>0, <1>3, <1>d, <1>u DEF TypeInv, SlicerError, mainVars
  <1>4. CASE SlicerSend
    <2>1. taskCh' = Append(taskCh, sliced) /\ slicer = "send" /\ slicer' = "next" /\ Len(taskCh) < ChanCap
      BY <1>4 DEF SlicerSend
    <2>2. taskCh \in Seq(Nat)
      BY DEF TypeInv
    <2>3. Sending(Nat, taskCh, sliced, taskCh')
      BY <1>q, <2>1, <2>2, AppendFacts
    <2>4. taskCh' \in Seq(Nat) /\ Len(taskCh') <= ChanCap
      BY <1>q, <2>1, <2>3 DEF Sending
    <2>5. \A k \in 1 .. Len(taskCh') : taskCh'[k] \in 1 .. sliced
      <3> TAKE k \in 1 .. Len(taskCh')
      <3>1. CASE k = Len(taskCh')
        BY <2>1, <2>3, <3>1, <1>s DEF Sending
      <3>2. CASE k # Len(taskCh')
        <4>1. k \in 1 .. Len(taskCh)
          BY <2>3, <3>2, <1>q DEF Sending
        <4> QED BY <4>1, <2>3 DEF Sending, TypeInv
      <3> QED BY <3>1, <3>2
    <2>6. UNCHANGED <<sliced, work, resCh, results, main, outcome, parentDone, cancelled>>
      BY <1>4 DEF SlicerSend, mainVars
    <2>7. WorkTyped'
      BY <2>6, <1>u
    <2> QED BY <1>0, <1>d, <2>1, <2>4, <2>5, <2>6, <2>7 DEF TypeInv
  <1>5. CASE SlicerStop
    BY <1>0, <1>5, <1>d, <1>u DEF TypeInv, SlicerStop, mainVars
  <1>6. CASE Collect
    <2>1. resCh \in Seq(ResultRecs) /\ resCh # <<>> /\ resCh' = Tail(resCh)
      BY <1>6 DEF Collect, TypeInv
    <2>2. Taking(ResultRecs, resCh, resCh') /\ Len(resCh) \in Nat \ {0}
      BY <2>1, TailFacts
    <2>3. resCh' \in Seq(ResultRecs) /\ Len(resCh') <= ChanCap
      BY <1>q, <2>2 DEF Taking, TypeInv
    <2>4. \A k \in 1 .. Len(resCh') : resCh'[k].index \in 1 .. sliced
      BY <2>2 DEF Taking, TypeInv
    <2>5. Head(resCh).index \in 1 .. sliced
      <3>1. 1 \in 1 .. Len(resCh)
        BY <2>2
      <3> QED BY <2>2, <3>1 DEF Taking, TypeInv
    <2>6. results' \in Seq(Descs)
      <3>1. ChunkAt(Head(resCh).index) \in Descs
        <4>1. Head(resCh).index \in 1 .. Len(stream)
          BY <2>5, <1>q DEF TypeInv
        <4> QED BY <4>1 DEF Descs
      <3>2. results \in Seq(Descs)
        BY DEF TypeInv
      <3>3. results' = results \/ results' = Append(results, ChunkAt(Head(resCh).index))
        BY <1>6 DEF Collect
      <3> HIDE DEF Descs
      <3> QED BY <3>1, <3>2, <3>3
    <2>7. UNCHANGED <<sliced, slicer, taskCh, work, main, outcome, parentDone>>
      BY <1>6 DEF Collect, slicerVars
    <2>8. cancelled' \in BOOLEAN
      BY <1>6 DEF Collect, TypeInv
    <2>9. WorkTyped'
      BY <2>7, <1>u
    <2> QED BY <1>0, <1>d, <2>3, <2>4, <2>6, <2>7, <2>8, <2>9 DEF TypeInv
  <1>7. CASE CollectDone
    <2>1. UNCHANGED <<sliced, slicer, taskCh, work, resCh, results, parentDone>>
      BY <1>7 DEF CollectDone, slicerVars
    <2>2. main' \in {"collect", "assemble", "commit", "done"} /\ outcome' \in {"none", "ok", "error"}
          /\ cancelled' \in BOOLEAN
      BY <1>7 DEF CollectDone, Return, TypeInv
    <2> QED BY <1>0, <1>d, <1>u, <2>1, <2>2 DEF TypeInv
  <1>8. CASE CommitStarts
    <2>1. UNCHANGED <<sliced, slicer, taskCh, work, resCh, results, parentDone>>
      BY <1>8 DEF CommitStarts, slicerVars
    <2>2. main' \in {"collect", "assemble", "commit", "done"} /\ outcome' \in {"none", "ok", "error"}
          /\ cancelled' \in BOOLEAN
      BY <1>8 DEF CommitStarts, Return, TypeInv
    <2> QED BY <1>0, <1>d, <1>u, <2>1, <2>2 DEF TypeInv
  <1>9. CASE CommitEnds
    <2>1. UNCHANGED <<sliced, slicer, taskCh, work, resCh, results, parentDone>>
      BY <1>9 DEF CommitEnds, slicerVars
    <2>2. main' \in {"collect", "assemble", "commit", "done"} /\ outcome' \in {"none", "ok", "error"}
          /\ cancelled' \in BOOLEAN
      BY <1>9 DEF CommitEnds, Return, TypeInv
    <2> QED BY <1>0, <1>d, <1>u, <2>1, <2>2 DEF TypeInv
  <1>10. ASSUME NEW w \in Workers, WorkerTake(w)
         PROVE  TypeInv'
    <2>1. taskCh \in Seq(Nat) /\ taskCh # <<>> /\ taskCh' = Tail(taskCh)
      BY <1>10 DEF WorkerTake, TypeInv
    <2>2. Taking(Nat, taskCh, taskCh') /\ Len(taskCh) \in Nat \ {0}
      BY <2>1, TailFacts
    <2>3. taskCh' \in Seq(Nat) /\ Len(taskCh') <= ChanCap
      BY <1>q, <2>2 DEF Taking, TypeInv
    <2>4. \A k \in 1 .. Len(taskCh') : taskCh'[k] \in 1 .. sliced
      BY <2>2 DEF Taking, TypeInv
    <2>5. Head(taskCh) \in 1 .. sliced
      <3>1. 1 \in 1 .. Len(taskCh)
        BY <2>2
      <3> QED BY <2>2, <3>1 DEF Taking, TypeInv
    <2>6. UNCHANGED <<sliced, slicer, resCh, results, main, outcome, parentDone, cancelled>>
      BY <1>10 DEF WorkerTake, slicerVars, mainVars
    <2>7. WorkTyped'
      <3> DEFINE new == [pc |-> IF WorkersDone THEN "done" ELSE "put", task |-> Head(taskCh)]
      <3>1. new \in WorkStates /\ new.task \in 0 .. sliced /\ new.task # 0
        BY <1>q, <2>5 DEF WorkStates, Pcs
      <3>2. work' = [work EXCEPT ![w] = new]
        BY <1>10 DEF WorkerTake
      <3> HIDE DEF new
      <3> QED BY <1>t, <2>6, <3>1, <3>2 DEF WorkTyped
    <2> QED BY <1>0, <1>d, <2>3, <2>4, <2>6, <2>7 DEF TypeInv
  <1>g. ASSUME NEW w \in Workers, NEW pc \in Pcs, Goto(w, pc), sliced' = sliced,
               work[w].pc \in Holding \/ pc \notin Holding
        PROVE  WorkTyped'
    BY <1>t, <1>g, GotoFacts, MovedTyped
  <1>11. ASSUME NEW w \in Workers, WorkerEnds(w)
         PROVE  TypeInv'
    <2>1. UNCHANGED <<sliced, slicer, taskCh, resCh, results, main, outcome, parentDone, cancelled>>
      BY <1>11 DEF WorkerEnds, slicerVars, mainVars
    <2>2. WorkTyped'
      BY <1>11, <1>g, <2>1 DEF WorkerEnds, Pcs, Holding
    <2> QED BY <1>0, <1>d, <2>1, <2>2 DEF TypeInv
  <1>12. ASSUME NEW w \in Workers, PutStarts(w)
         PROVE  TypeInv'
    <2>1. UNCHANGED <<sliced, slicer, taskCh, resCh, results, main, outcome, parentDone, cancelled>>
      BY <1>12 DEF PutStarts, slicerVars, mainVars
    <2>2. work[w].pc \in Holding /\ (Goto(w, "fail") \/ Goto(w, "report") \/ Goto(w, "wait"))
      BY <1>12 DEF PutStarts, Holding
    <2>3. WorkTyped'
      BY <1>g, <2>1, <2>2 DEF Pcs
    <2> QED BY <1>0, <1>d, <2>1, <2>3 DEF TypeInv
  <1>13. ASSUME NEW w \in Workers, PutCancelled(w)
         PROVE  TypeInv'
    <2>1. UNCHANGED <<sliced, slicer, taskCh, resCh, results, main, outcome, parentDone, cancelled>>
      BY <1>13 DEF PutCancelled, slicerVars, mainVars
    <2>2. WorkTyped'
      BY <1>13, <1>g, <2>1 DEF PutCancelled, Pcs, Holding
    <2> QED BY <1>0, <1>d, <2>1, <2>2 DEF TypeInv
  <1>r. ASSUME NEW w \in Workers, NEW e \in BOOLEAN, work[w].pc \in Holding, Len(resCh) < ChanCap,
               resCh' = Append(resCh, Result(w, e))
        PROVE  /\ resCh' \in Seq(ResultRecs) /\ Len(resCh') <= ChanCap
               /\ \A k \in 1 .. Len(resCh') : resCh'[k].index \in 1 .. sliced
    <2>1. Result(w, e) \in ResultRecs /\ Result(w, e).index \in 1 .. sliced
      BY <1>q, <1>t, <1>r DEF Result, ResultRecs, WorkTyped
    <2>2. resCh \in Seq(ResultRecs) /\ \A k \in 1 .. Len(resCh) : resCh[k].index \in 1 .. sliced
      BY DEF TypeInv
    <2>3. Sending(ResultRecs, resCh, Result(w, e), resCh')
      BY <1>r, <2>1, <2>2, AppendFacts
    <2>4. resCh' \in Seq(ResultRecs) /\ Len(resCh') <= ChanCap
      BY <1>q, <1>r, <2>3 DEF Sending
    <2>5. ASSUME NEW k \in 1 .. Len(resCh')
          PROVE  resCh'[k].index \in 1 .. sliced
      <3>1. CASE k = Len(resCh')
        BY <2>1, <2>3, <3>1 DEF Sending
      <3>2. CASE k # Len(resCh')
        <4>1. k \in 1 .. Len(resCh)
          BY <2>3, <3>2, <1>q DEF Sending
        <4> QED BY <4>1, <2>2, <2>3 DEF Sending
      <3> QED BY <3>1, <3>2
    <2> QED BY <2>4, <2>5
  <1>14. ASSUME NEW w \in Workers, WorkerReports(w)
         PROVE  TypeInv'
    <2>1. UNCHANGED <<sliced, slicer, taskCh, results, main, outcome, parentDone, cancelled>>
      BY <1>14 DEF WorkerReports, slicerVars, mainVars
    <2>2. work[w].pc \in Holding /\ (Goto(w, "take") \/ Goto(w, "done"))
      BY <1>14 DEF WorkerReports, Holding
    <2>3. WorkTyped'
      BY <1>g, <2>1, <2>2 DEF Pcs
    <2>4. UNCHANGED resCh \/ (Len(resCh) < ChanCap /\ resCh' = Append(resCh, Result(w, FALSE)))
      BY <1>14 DEF WorkerReports
    <2>5. /\ resCh' \in Seq(ResultRecs) /\ Len(resCh') <= ChanCap
          /\ \A k \in 1 .. Len(resCh') : resCh'[k].index \in 1 .. sliced
      <3>1. CASE UNCHANGED resCh
        BY <3>1 DEF TypeInv
      <3>2. CASE Len(resCh) < ChanCap /\ resCh' = Append(resCh, Result(w, FALSE))
        BY <3>2, <2>2, <1>r
      <3> QED BY <2>4, <3>1, <3>2
    <2> QED BY <1>0, <1>d, <2>1, <2>3, <2>5 DEF TypeInv
  <1>15. ASSUME NEW w \in Workers, WorkerFails(w)
         PROVE  TypeInv'
    <2>1. UNCHANGED <<sliced, slicer, taskCh, results, main, outcome, parentDone, cancelled>>
      BY <1>15 DEF WorkerFails, slicerVars, mainVars
    <2>2. work[w].pc \in Holding /\ Goto(w, "done")
      BY <1>15 DEF WorkerFails, Holding
    <2>3. WorkTyped'
      BY <1>g, <2>1, <2>2 DEF Pcs
    <2>4. UNCHANGED resCh \/ (Len(resCh) < ChanCap /\ resCh' = Append(resCh, Result(w, TRUE)))
      BY <1>15 DEF WorkerFails
    <2>5. /\ resCh' \in Seq(ResultRecs) /\ Len(resCh') <= ChanCap
          /\ \A k \in 1 .. Len(resCh') : resCh'[k].index \in 1 .. sliced
      <3>1. CASE UNCHANGED resCh
        BY <3>1 DEF TypeInv
      <3>2. CASE Len(resCh) < ChanCap /\ resCh' = Append(resCh, Result(w, TRUE))
        BY <3>2, <2>2, <1>r
      <3> QED BY <2>4, <3>1, <3>2
    <2> QED BY <1>0, <1>d, <2>1, <2>3, <2>5 DEF TypeInv
  <1>16. ASSUME NEW x \in inFlight, HandlerEnds(x)
         PROVE  TypeInv'
    <2>1. UNCHANGED <<sliced, slicer, taskCh, resCh, results, main, outcome, parentDone, cancelled>>
      BY <1>16 DEF HandlerEnds, slicerVars, mainVars
    <2>2. Answer(x, "report") \/ Answer(x, "fail")
      BY <1>16 DEF HandlerEnds
    <2>3. PICK pc \in {"report", "fail"} : Answer(x, pc)
      BY <2>2
    <2>4. \A w \in Workers : work'[w] = IF w \in Waiting(x) THEN [work[w] EXCEPT !.pc = pc] ELSE work[w]
      BY <2>3 DEF Answer
    <2>5. \A w \in Workers : /\ work'[w] \in WorkStates /\ work'[w].task = work[w].task
                             /\ work'[w].pc \in Holding => work[w].pc \in Holding
      <3> TAKE w \in Workers
      <3>1. CASE w \in Waiting(x)
        <4>1. work[w] \in WorkStates /\ work[w].pc \in Holding
          BY <1>t, <3>1 DEF Waiting, Holding
        <4>2. [work[w] EXCEPT !.pc = pc] \in WorkStates /\ [work[w] EXCEPT !.pc = pc].task = work[w].task
          BY <4>1 DEF WorkStates, Pcs
        <4> QED BY <4>1, <4>2, <2>4, <3>1
      <3>2. CASE w \notin Waiting(x)
        BY <2>4, <3>2, <1>t
      <3> QED BY <3>1, <3>2
    <2>6. work' \in [Workers -> WorkStates]
      <3>1. work' = [w \in Workers |-> work'[w]]
        BY <2>3 DEF Answer
      <3> QED BY <2>5, <3>1
    <2>7. WorkTyped'
      BY <2>1, <2>5, <2>6, <1>t DEF WorkTyped
    <2> QED BY <1>0, <1>d, <2>1, <2>7 DEF TypeInv
  <1>17. CASE RivalCommits \/ RivalEnds \/ UNCHANGED vars
    BY <1>17, <1>0, <1>d, <1>u, RivalApart DEF TypeInv, OnlyRival, slicerVars, mainVars
  <1> QED
    BY <1>1, <1>2, <1>3, <1>4, <1>5, <1>6, <1>7, <1>8, <1>9, <1>10, <1>11, <1>12, <1>13, <1>14,
       <1>15, <1>16, <1>17 DEF Next, Slicer, Main, Worker

\* A cancellation is for good.
LEMMA DoneStays ==
    ASSUME [Next]_vars, TypeInv, ~WorkersDone'
    PROVE  ~WorkersDone /\ ~parentDone /\ ~cancelled
  BY DEF Next, vars, CallerCancels, Slicer, SlicerNext, SlicerError, SlicerSend, SlicerStop, Main,
         Collect, CollectDone, CommitStarts, CommitEnds, Return, Worker, WorkerTake, WorkerEnds,
         PutStarts, PutCancelled, WorkerReports, WorkerFails, HandlerEnds, RivalCommits, RivalEnds, WorkersDone, TypeInv

\* Steps that neither give nor take a task.
TasksKept ==
    \A w \in Workers : /\ work'[w].task = work[w].task
                       /\ work'[w].pc \in Holding <=> work[w].pc \in Holding

\* Then the same workers hold the same chunks.
LEMMA HeldKept ==
    ASSUME TasksKept
    PROVE  \A i : /\ \A w \in Workers : HeldBy(w, i)' <=> HeldBy(w, i)
                  /\ Held(i)' <=> Held(i)
  <1>1. \A i : \A w \in Workers : HeldBy(w, i)' <=> HeldBy(w, i)
    BY DEF TasksKept, HeldBy
  <1> QED BY <1>1 DEF Held

\* And, if the channel and the results stay too, every chunk is where it was.
LEMMA PlacedKept ==
    ASSUME TasksKept, stream' = stream, Taken' = Taken, resCh' = resCh, results' = results,
           OncePlaced, NoneLost
    PROVE  OncePlaced' /\ NoneLost'
  <1>1. \A i : /\ \A w \in Workers : HeldBy(w, i)' <=> HeldBy(w, i)
               /\ Held(i)' <=> Held(i)
    BY HeldKept
  <1>2. \A i : (ChunkAt(i))' = ChunkAt(i)
    BY DescsFixed
  <1>3. \A i : (Reported(i)' <=> Reported(i)) /\ (Gathered(i)' <=> Gathered(i))
    BY <1>2 DEF Reported, Gathered
  <1>4. NoneLost'
    BY <1>1, <1>3 DEF NoneLost
  <1>5. \A w \in Workers : work'[w].pc \in Holding => work'[w].task <= Taken
    BY DEF TasksKept, OncePlaced
  <1>6. \A v, w \in Workers : \A i \in 1 .. Len(stream) : HeldBy(v, i)' /\ HeldBy(w, i)' => v = w
    BY <1>1 DEF OncePlaced
  <1>7. \A k \in 1 .. Len(resCh) : resCh[k].index <= Taken /\ ~(Held(resCh[k].index)')
    BY <1>1 DEF OncePlaced
  <1>7a. \A k \in 1 .. Len(resCh') : resCh'[k].index <= Taken' /\ ~(Held(resCh[k].index)')
    BY <1>7
  <1>8. \A i \in 1 .. Len(stream) : Gathered(i)' => i <= Taken /\ ~(Held(i)') /\ ~(Reported(i)')
    BY <1>1, <1>3 DEF OncePlaced
  <1>9. \A k, l \in 1 .. Len(resCh) : resCh[k].index = resCh[l].index => k = l
    BY DEF OncePlaced
  <1>10. \A k, l \in 1 .. Len(results) : results[k] = results[l] => k = l
    BY DEF OncePlaced
  <1> QED BY <1>4, <1>5, <1>6, <1>7a, <1>8, <1>9, <1>10 DEF OncePlaced

\* The slicer moves no chunk that was taken.
LEMMA TakenFacts ==
    ASSUME TypeInv, QueueInOrder
    PROVE  Taken \in Nat /\ Issued \in Nat /\ Taken + Len(taskCh) = Issued /\ Issued <= sliced
  BY QueueTypes DEF TypeInv, QueueInOrder, Taken, Issued

\* What the slicer sends is the next chunk in order.
LEMMA SlicerPlaces ==
    ASSUME TypeInv, SlicerNext \/ SlicerSend, QueueInOrder
    PROVE  QueueInOrder' /\ Taken' = Taken
  <1>q. Len(stream) \in Nat /\ sliced \in Nat /\ Len(taskCh) \in Nat
    BY QueueTypes
  <1>1. CASE SlicerNext
    <2>1. Issued' = Issued /\ taskCh' = taskCh
      BY <1>1, <1>q DEF SlicerNext, Issued
    <2>2. Taken' = Taken
      BY <2>1 DEF Taken
    <2> QED BY <2>1, <2>2 DEF QueueInOrder
  <1>2. CASE SlicerSend
    <2>1. Issued' = sliced /\ Issued = sliced - 1 /\ taskCh' = Append(taskCh, sliced)
      BY <1>2 DEF SlicerSend, Issued, slicerVars
    <2>2. Sending(Nat, taskCh, sliced, taskCh')
      BY <1>q, <2>1, AppendFacts DEF TypeInv
    <2>3. Len(taskCh') = Len(taskCh) + 1
      BY <2>2 DEF Sending
    <2>4. Taken' = Taken
      BY <1>q, <2>1, <2>3 DEF Taken
    <2>5. \A k \in 1 .. Len(taskCh') : taskCh'[k] = Taken + k
      <3> TAKE k \in 1 .. Len(taskCh')
      <3>1. CASE k = Len(taskCh) + 1
        <4>1. taskCh'[k] = sliced
          BY <2>2, <3>1 DEF Sending
        <4>2. Taken + k = sliced
          BY <1>q, <2>1, <3>1 DEF Taken
        <4> QED BY <4>1, <4>2
      <3>2. CASE k # Len(taskCh) + 1
        <4>1. k \in 1 .. Len(taskCh)
          BY <2>3, <3>2, <1>q
        <4> QED BY <4>1, <2>2 DEF Sending, QueueInOrder
      <3> QED BY <3>1, <3>2
    <2> QED BY <2>4, <2>5 DEF QueueInOrder
  <1> QED BY <1>1, <1>2

\* A worker takes the next chunk.
LEMMA TakePlaces ==
    ASSUME TypeInv, ~WorkersDone, NEW w \in Workers, WorkerTake(w), stream' = stream,
           QueueInOrder, OncePlaced, NoneLost
    PROVE  QueueInOrder' /\ OncePlaced' /\ NoneLost'
  <1> DEFINE t == Taken + 1
  <1>1. taskCh \in Seq(Nat) /\ taskCh # <<>> /\ taskCh' = Tail(taskCh) /\ work \in [Workers -> WorkStates]
    BY DEF WorkerTake, TypeInv, WorkTyped
  <1>2. Taking(Nat, taskCh, taskCh') /\ Len(taskCh) \in Nat \ {0} /\ Len(taskCh') \in Nat
    BY <1>1, TailFacts
  <1>3. Taken \in Nat /\ Issued \in Nat /\ Taken + Len(taskCh) = Issued /\ Issued <= sliced
    BY TakenFacts
  <1>4. Head(taskCh) = t
    <2>1. 1 \in 1 .. Len(taskCh)
      BY <1>2
    <2> QED BY <2>1, <1>2 DEF Taking, QueueInOrder
  <1>5. t \in 1 .. Len(stream) /\ t \in Nat
    <2>1. sliced \in 0 .. Len(stream) /\ Len(stream) \in Nat
      BY QueueTypes DEF TypeInv
    <2> QED BY <2>1, <1>2, <1>3
  <1>6. Issued' = Issued /\ resCh' = resCh /\ results' = results
    BY DEF WorkerTake, Issued, slicerVars, mainVars
  <1>7. Taken' = t
    BY <1>2, <1>3, <1>6 DEF Taken, Taking
  <1>8. QueueInOrder'
    <2>1. \A k \in 1 .. Len(taskCh') : taskCh'[k] = t + k
      <3> TAKE k \in 1 .. Len(taskCh')
      <3>1. taskCh'[k] = taskCh[k + 1] /\ k + 1 \in 1 .. Len(taskCh)
        BY <1>2 DEF Taking
      <3>2. taskCh[k + 1] = Taken + (k + 1)
        BY <3>1 DEF QueueInOrder
      <3> QED BY <1>3, <3>1, <3>2
    <2> QED BY <2>1, <1>5, <1>7 DEF QueueInOrder
  <1>9. work' = [work EXCEPT ![w] = [pc |-> "put", task |-> t]] /\ work[w].pc = "take"
    BY <1>4 DEF WorkerTake
  <1>10. /\ work'[w].pc = "put" /\ work'[w].task = t
         /\ \A v \in Workers : v # w => work'[v] = work[v]
    BY <1>1, <1>9
  <1> HIDE DEF t
  <1>11. /\ \A i : (HeldBy(w, i)' <=> i = t) /\ ~HeldBy(w, i)
         /\ \A v \in Workers : v # w => \A i : HeldBy(v, i)' <=> HeldBy(v, i)
    BY <1>9, <1>10 DEF HeldBy, Holding
  <1>12. \A i : Held(i)' <=> (Held(i) \/ i = t)
    <2> TAKE i
    <2>1. CASE i = t
      BY <2>1, <1>11 DEF Held
    <2>2. CASE i # t
      BY <2>2, <1>11 DEF Held
    <2> QED BY <2>1, <2>2
  <1>13. \A i : (ChunkAt(i))' = ChunkAt(i)
    BY DescsFixed
  <1>14. \A i : (Reported(i)' <=> Reported(i)) /\ (Gathered(i)' <=> Gathered(i))
    BY <1>6, <1>13 DEF Reported, Gathered
  <1>15. \A i \in 1 .. t : i \in 1 .. Taken \/ i = t
    BY <1>3 DEF t
  <1>16. \A i \in Nat : i <= Taken => i <= t /\ i # t
    BY <1>3 DEF t
  <1>17. NoneLost'
    BY <1>7, <1>12, <1>14, <1>15 DEF NoneLost
  <1>18. \A v \in Workers : work'[v].pc \in Holding => work'[v].task <= t
    <2> TAKE v \in Workers
    <2>1. CASE v = w
      BY <2>1, <1>5, <1>10
    <2>2. CASE v # w
      BY <2>2, <1>1, <1>10, <1>16 DEF OncePlaced, WorkStates
    <2> QED BY <2>1, <2>2
  <1>19. \A v \in Workers : \A i \in 1 .. Len(stream) : HeldBy(v, i) => i <= Taken
    BY DEF HeldBy, OncePlaced
  <1>20. \A u, v \in Workers : \A i \in 1 .. Len(stream) : HeldBy(u, i)' /\ HeldBy(v, i)' => u = v
    <2> SUFFICES ASSUME NEW u \in Workers, NEW v \in Workers, NEW i \in 1 .. Len(stream),
                        HeldBy(u, i)', HeldBy(v, i)', u # v
                 PROVE  FALSE
      OBVIOUS
    <2>1. CASE u = w
      <3>1. i = t /\ HeldBy(v, i)
        BY <2>1, <1>11
      <3> QED BY <3>1, <1>5, <1>16, <1>19
    <2>2. CASE v = w
      <3>1. i = t /\ HeldBy(u, i)
        BY <2>2, <1>11
      <3> QED BY <3>1, <1>5, <1>16, <1>19
    <2>3. CASE u # w /\ v # w
      BY <2>3, <1>11 DEF OncePlaced
    <2> QED BY <2>1, <2>2, <2>3
  <1>21. \A k \in 1 .. Len(resCh) : resCh[k].index <= t /\ ~(Held(resCh[k].index)')
    <2> TAKE k \in 1 .. Len(resCh)
    <2>1. resCh[k].index \in Nat
      BY QueueTypes DEF TypeInv
    <2>2. resCh[k].index <= Taken /\ ~Held(resCh[k].index)
      BY DEF OncePlaced
    <2>3. resCh' = resCh
      BY <1>6
    <2>4. ~(Held(resCh[k].index)')
      <3>1. \A i : i = resCh[k].index => ~(Held(i)')
        BY <2>1, <2>2, <1>12, <1>16
      <3> QED BY <2>3, <3>1 DEF Held, HeldBy
    <2>5. resCh[k].index <= t
      BY <2>1, <2>2, <1>16
    <2> QED BY <2>4, <2>5
  <1>21a. \A k \in 1 .. Len(resCh') : resCh'[k].index <= Taken' /\ ~(Held(resCh[k].index)')
    BY <1>6, <1>7, <1>21
  <1>22. \A i \in 1 .. Len(stream) : Gathered(i)' => i <= t /\ ~(Held(i)') /\ ~(Reported(i)')
    <2> TAKE i \in 1 .. Len(stream)
    <2>1. Gathered(i) => i <= Taken /\ ~Held(i) /\ ~Reported(i)
      BY DEF OncePlaced
    <2>2. i \in Nat
      BY QueueTypes
    <2> QED BY <2>1, <2>2, <1>12, <1>14, <1>16
  <1>23. /\ \A k, l \in 1 .. Len(resCh) : resCh[k].index = resCh[l].index => k = l
         /\ \A k, l \in 1 .. Len(results) : results[k] = results[l] => k = l
    BY DEF OncePlaced
  <1>24. OncePlaced'
    BY <1>6, <1>7, <1>18, <1>20, <1>21a, <1>22, <1>23 DEF OncePlaced
  <1> QED BY <1>8, <1>17, <1>24

\* A worker hands its result over.
LEMMA ReportPlaces ==
    ASSUME TypeInv, NEW w \in Workers, NEW pc \in Pcs, Moved(w, pc), work[w].pc \in Holding,
           pc \notin Holding, NEW e \in BOOLEAN, resCh' = Append(resCh, Result(w, e)),
           stream' = stream, Taken' = Taken, results' = results, OncePlaced, NoneLost
    PROVE  OncePlaced' /\ NoneLost'
  <1> DEFINE t == work[w].task
             r == Result(w, e)
  <1>1. /\ t \in 1 .. Len(stream) /\ r \in ResultRecs /\ r.index = t /\ t <= Taken
        /\ resCh \in Seq(ResultRecs) /\ Len(resCh) \in Nat
    <2>1. t \in 1 .. sliced
      BY QueueTypes DEF TypeInv, WorkTyped
    <2>2. t \in 1 .. Len(stream)
      BY <2>1, QueueTypes DEF TypeInv
    <2>3. r \in ResultRecs /\ r.index = t
      BY <2>2, QueueTypes DEF Result, ResultRecs
    <2>4. t <= Taken
      BY DEF OncePlaced
    <2> QED BY <2>2, <2>3, <2>4, QueueTypes DEF TypeInv
  <1>2. Sending(ResultRecs, resCh, r, resCh')
    BY <1>1, AppendFacts
  <1>3. HeldBy(w, t)
    BY DEF HeldBy
  <1>4. /\ \A i : ~(HeldBy(w, i)')
        /\ \A v \in Workers : v # w => \A i : HeldBy(v, i)' <=> HeldBy(v, i)
    BY DEF Moved, HeldBy
  <1> HIDE DEF t, r
  <1>5. \A i \in 1 .. Len(stream) : Held(i)' <=> (Held(i) /\ i # t)
    <2> TAKE i \in 1 .. Len(stream)
    <2>1. CASE i = t
      <3>1. \A v \in Workers : ~(HeldBy(v, i)')
        BY <2>1, <1>1, <1>3, <1>4 DEF OncePlaced
      <3> QED BY <2>1, <3>1 DEF Held
    <2>2. CASE i # t
      <3>1. ~HeldBy(w, i)
        BY <2>2 DEF HeldBy, t
      <3> QED BY <2>2, <3>1, <1>4 DEF Held
    <2> QED BY <2>1, <2>2
  <1>6. Len(resCh') = Len(resCh) + 1 /\ resCh'[Len(resCh) + 1] = r
        /\ \A k \in 1 .. Len(resCh) : k \in 1 .. Len(resCh') /\ resCh'[k] = resCh[k]
    BY <1>2 DEF Sending
  <1>7. \A k \in 1 .. Len(resCh') : k \in 1 .. Len(resCh) \/ k = Len(resCh) + 1
    BY <1>1, <1>6
  <1>8. \A i : Reported(i)' <=> (Reported(i) \/ i = t)
    <2> TAKE i
    <2>1. ASSUME Reported(i)'
          PROVE  Reported(i) \/ i = t
      <3>1. PICK k \in 1 .. Len(resCh') : resCh'[k].index = i
        BY <2>1 DEF Reported
      <3> QED BY <3>1, <1>1, <1>6, <1>7 DEF Reported
    <2>2. ASSUME Reported(i) PROVE Reported(i)'
      <3>1. PICK k \in 1 .. Len(resCh) : resCh[k].index = i
        BY <2>2 DEF Reported
      <3>2. k \in 1 .. Len(resCh') /\ resCh'[k].index = i
        BY <3>1, <1>6
      <3> QED BY <3>2 DEF Reported
    <2>3. ASSUME i = t PROVE Reported(i)'
      <3>1. Len(resCh) + 1 \in 1 .. Len(resCh')
        BY <1>1, <1>6
      <3> QED BY <2>3, <3>1, <1>1, <1>6 DEF Reported
    <2> QED BY <2>1, <2>2, <2>3
  <1>9. \A i : (ChunkAt(i))' = ChunkAt(i)
    BY DescsFixed
  <1>10. \A i : Gathered(i)' <=> Gathered(i)
    BY <1>9 DEF Gathered
  <1>11. NoneLost'
    <2> SUFFICES ASSUME NEW i \in 1 .. Taken
                 PROVE  Held(i)' \/ Reported(i)' \/ Gathered(i)'
      BY DEF NoneLost
    <2>1. Held(i) \/ Reported(i) \/ Gathered(i)
      BY DEF NoneLost
    <2>2. CASE Held(i)
      <3>1. i \in 1 .. Len(stream)
        <4>1. \A v \in Workers : work[v].task \in 0 .. sliced /\ sliced \in 0 .. Len(stream)
          BY DEF TypeInv, WorkTyped
        <4>2. \E v \in Workers : work[v].task = i
          BY <2>2 DEF Held, HeldBy
        <4>3. Len(stream) \in Nat /\ sliced \in Nat
          BY QueueTypes
        <4> QED BY <4>1, <4>2, <4>3
      <3> QED BY <2>2, <3>1, <1>5, <1>8
    <2> QED BY <2>1, <2>2, <1>8, <1>10
  <1>12. \A v \in Workers : work'[v].pc \in Holding => work'[v].task <= Taken
    <2> TAKE v \in Workers
    <2>1. CASE v = w
      BY <2>1 DEF Moved
    <2>2. CASE v # w
      BY <2>2 DEF Moved, OncePlaced
    <2> QED BY <2>1, <2>2
  <1>13. \A u, v \in Workers : \A i \in 1 .. Len(stream) : HeldBy(u, i)' /\ HeldBy(v, i)' => u = v
    BY <1>4 DEF OncePlaced
  <1>14. ASSUME NEW k \in 1 .. Len(resCh')
         PROVE  resCh'[k].index <= Taken /\ \A i : i = resCh'[k].index => ~(Held(i)')
    <2>1. CASE k \in 1 .. Len(resCh)
      <3>1. resCh[k].index \in 1 .. Len(stream)
        BY <2>1, QueueTypes DEF TypeInv
      <3>2. resCh[k].index <= Taken /\ ~Held(resCh[k].index)
        BY <2>1 DEF OncePlaced
      <3>3. resCh'[k] = resCh[k]
        BY <2>1, <1>6
      <3> QED BY <3>1, <3>2, <3>3, <1>5
    <2>2. CASE k = Len(resCh) + 1
      BY <2>2, <1>1, <1>5, <1>6
    <2> QED BY <2>1, <2>2, <1>7
  <1>15. ASSUME NEW k \in 1 .. Len(resCh'), NEW l \in 1 .. Len(resCh'), resCh'[k].index = resCh'[l].index
         PROVE  k = l
    <2>1. ASSUME NEW m \in 1 .. Len(resCh) PROVE resCh'[m].index # t
      <3>1. resCh'[m] = resCh[m] /\ ~Held(resCh[m].index)
        BY <1>6 DEF OncePlaced
      <3>2. Held(t)
        BY <1>3 DEF Held
      <3> QED BY <3>1, <3>2
    <2>2. CASE k \in 1 .. Len(resCh) /\ l \in 1 .. Len(resCh)
      BY <2>2, <1>15, <1>6 DEF OncePlaced
    <2>3. CASE k = Len(resCh) + 1
      BY <2>3, <2>1, <1>1, <1>6, <1>7, <1>15
    <2>4. CASE l = Len(resCh) + 1
      BY <2>4, <2>1, <1>1, <1>6, <1>7, <1>15
    <2> QED BY <2>2, <2>3, <2>4, <1>7
  <1>16. \A i \in 1 .. Len(stream) : Gathered(i)' => i <= Taken /\ ~(Held(i)') /\ ~(Reported(i)')
    <2> TAKE i \in 1 .. Len(stream)
    <2>1. Gathered(i) => i <= Taken /\ ~Held(i) /\ ~Reported(i)
      BY DEF OncePlaced
    <2>2. Held(t)
      BY <1>3 DEF Held
    <2> QED BY <2>1, <2>2, <1>5, <1>8, <1>10
  <1>17. \A k, l \in 1 .. Len(results) : results[k] = results[l] => k = l
    BY DEF OncePlaced
  <1>18. \A k \in 1 .. Len(resCh') : resCh'[k].index <= Taken' /\ ~(Held(resCh[k].index))'
    BY <1>14 DEF Held, HeldBy
  <1>19. OncePlaced'
    BY <1>12, <1>13, <1>15, <1>16, <1>17, <1>18 DEF OncePlaced
  <1> QED BY <1>11, <1>19

\* ChunkAt lists the chunks of the stream.
LEMMA ChunkAtFacts ==
    ASSUME TypeInv
    PROVE  /\ \A i \in 1 .. Len(stream) : ChunkAt(i) = ChunksOf(stream)[i]
           /\ \A i, j \in 1 .. Len(stream) : ChunkAt(i) = ChunkAt(j) => i = j
           /\ Descs = {ChunksOf(stream)[i] : i \in 1 .. Len(stream)}
  <1>1. stream \in Seq(Seq(Nat) \ {<<>>})
    BY QueueTypes
  <1>2. \A i \in 1 .. Len(stream) : ChunkAt(i) = ChunksOf(stream)[i]
    BY DEF ChunkAt, ChunksOf, Offsets, OffsetsOf, Lens
  <1>3. \A i, j \in 1 .. Len(stream) : ChunkAt(i) = ChunkAt(j) => i = j
    BY <1>1, <1>2, ChunksDistinct
  <1> QED BY <1>2, <1>3 DEF Descs

\* The collector takes a result.
LEMMA CollectPlaces ==
    ASSUME TypeInv, stream' = stream, Taken' = Taken, work' = work, resCh # <<>>,
           resCh' = Tail(resCh), results' = Append(results, ChunkAt(Head(resCh).index)),
           OncePlaced, NoneLost
    PROVE  OncePlaced' /\ NoneLost'
  <1> DEFINE t == Head(resCh).index
  <1>1. Taking(ResultRecs, resCh, resCh') /\ Len(resCh) \in Nat \ {0} /\ Len(resCh') \in Nat
    BY TailFacts DEF TypeInv
  <1>2. Head(resCh) = resCh[1] /\ 1 \in 1 .. Len(resCh)
    BY <1>1 DEF Taking
  <1>3. t \in 1 .. Len(stream) /\ t <= Taken /\ ~Held(t) /\ Reported(t) /\ ChunkAt(t) \in Descs
    <2>1. t \in 1 .. sliced /\ sliced \in 0 .. Len(stream) /\ Len(stream) \in Nat
      BY <1>2, QueueTypes DEF TypeInv
    <2>2. t \in 1 .. Len(stream)
      BY <2>1
    <2>3. t <= Taken /\ ~Held(t)
      BY <1>2 DEF OncePlaced
    <2>4. Reported(t)
      BY <1>2 DEF Reported
    <2> QED BY <2>2, <2>3, <2>4 DEF Descs
  <1>4. Sending(Descs, results, ChunkAt(t), results') /\ Len(results) \in Nat
    <2>1. results \in Seq(Descs)
      BY DEF TypeInv
    <2> HIDE DEF Descs
    <2> QED BY <1>3, <2>1, AppendFacts
  <1> HIDE DEF t
  <1>5. TasksKept
    BY DEF TasksKept
  <1>6. \A i : /\ \A w \in Workers : HeldBy(w, i)' <=> HeldBy(w, i)
               /\ Held(i)' <=> Held(i)
    BY <1>5, HeldKept
  <1>7. \A k \in 1 .. Len(resCh') : k + 1 \in 1 .. Len(resCh) /\ resCh'[k] = resCh[k + 1]
    BY <1>1 DEF Taking
  <1>8. \A i : Reported(i)' <=> (Reported(i) /\ i # t)
    <2> TAKE i
    <2>1. ASSUME Reported(i)'
          PROVE  Reported(i) /\ i # t
      <3>1. PICK k \in 1 .. Len(resCh') : resCh'[k].index = i
        BY <2>1 DEF Reported
      <3>2. k + 1 \in 1 .. Len(resCh) /\ resCh[k + 1].index = i
        BY <3>1, <1>7
      <3>3. k + 1 # 1
        BY <1>1
      <3>4. i # t
        BY <3>2, <3>3, <1>2 DEF OncePlaced, t
      <3> QED BY <3>2, <3>4 DEF Reported
    <2>2. ASSUME Reported(i), i # t
          PROVE  Reported(i)'
      <3>1. PICK k \in 1 .. Len(resCh) : resCh[k].index = i
        BY <2>2 DEF Reported
      <3>2. k # 1
        BY <3>1, <2>2, <1>2 DEF t
      <3>3. k - 1 \in 1 .. Len(resCh') /\ (k - 1) + 1 = k
        BY <3>2, <1>1 DEF Taking
      <3>4. resCh'[k - 1].index = i
        BY <3>1, <3>3, <1>7
      <3> QED BY <3>3, <3>4 DEF Reported
    <2> QED BY <2>1, <2>2
  <1>9. \A i : (ChunkAt(i))' = ChunkAt(i)
    BY DescsFixed
  <1>10. /\ Len(results') = Len(results) + 1 /\ results'[Len(results) + 1] = ChunkAt(t)
         /\ \A k \in 1 .. Len(results) : k \in 1 .. Len(results') /\ results'[k] = results[k]
    BY <1>4 DEF Sending
  <1>11. \A k \in 1 .. Len(results') : k \in 1 .. Len(results) \/ k = Len(results) + 1
    BY <1>4, <1>10
  <1>12. \A i \in 1 .. Len(stream) : Gathered(i)' <=> (Gathered(i) \/ i = t)
    <2> TAKE i \in 1 .. Len(stream)
    <2>1. ASSUME Gathered(i)'
          PROVE  Gathered(i) \/ i = t
      <3>1. PICK k \in 1 .. Len(results') : results'[k] = ChunkAt(i)
        BY <2>1, <1>9 DEF Gathered
      <3>2. CASE k \in 1 .. Len(results)
        BY <3>1, <3>2, <1>10 DEF Gathered
      <3>3. CASE k = Len(results) + 1
        BY <3>1, <3>3, <1>3, <1>10, ChunkAtFacts
      <3> QED BY <3>2, <3>3, <1>11
    <2>2. ASSUME Gathered(i) PROVE Gathered(i)'
      <3>1. PICK k \in 1 .. Len(results) : results[k] = ChunkAt(i)
        BY <2>2 DEF Gathered
      <3>2. k \in 1 .. Len(results') /\ results'[k] = ChunkAt(i)
        BY <3>1, <1>10
      <3> QED BY <3>2, <1>9 DEF Gathered
    <2>3. ASSUME i = t PROVE Gathered(i)'
      <3>1. Len(results) + 1 \in 1 .. Len(results')
        BY <1>4, <1>10
      <3> QED BY <2>3, <3>1, <1>9, <1>10 DEF Gathered
    <2> QED BY <2>1, <2>2, <2>3
  <1>13. NoneLost'
    <2> SUFFICES ASSUME NEW i \in 1 .. Taken
                 PROVE  Held(i)' \/ Reported(i)' \/ Gathered(i)'
      BY DEF NoneLost
    <2>1. Held(i) \/ Reported(i) \/ Gathered(i)
      BY DEF NoneLost
    <2>2. CASE i = t
      BY <2>2, <1>3, <1>12
    <2>3. CASE i # t /\ Gathered(i)
      <3>1. PICK k \in 1 .. Len(results) : results[k] = ChunkAt(i)
        BY <2>3 DEF Gathered
      <3>2. k \in 1 .. Len(results') /\ results'[k] = ChunkAt(i)
        BY <3>1, <1>10
      <3> QED BY <3>2, <1>9 DEF Gathered
    <2>4. CASE i # t /\ ~Gathered(i)
      BY <2>1, <2>4, <1>6, <1>8
    <2> QED BY <2>2, <2>3, <2>4
  <1>14. \A w \in Workers : work'[w].pc \in Holding => work'[w].task <= Taken
    BY DEF OncePlaced
  <1>15. \A v, w \in Workers : \A i \in 1 .. Len(stream) : HeldBy(v, i)' /\ HeldBy(w, i)' => v = w
    BY <1>6 DEF OncePlaced
  <1>16. ASSUME NEW k \in 1 .. Len(resCh')
         PROVE  resCh'[k].index <= Taken' /\ ~(Held(resCh[k].index))'
    <2>1. k + 1 \in 1 .. Len(resCh) /\ resCh'[k] = resCh[k + 1]
      BY <1>7
    <2>2. resCh[k + 1].index <= Taken /\ ~Held(resCh[k + 1].index)
      BY <2>1 DEF OncePlaced
    <2> QED BY <2>1, <2>2 DEF Held, HeldBy
  <1>17. \A k, l \in 1 .. Len(resCh') : resCh'[k].index = resCh'[l].index => k = l
    <2> TAKE k, l \in 1 .. Len(resCh')
    <2>1. k + 1 \in 1 .. Len(resCh) /\ resCh'[k] = resCh[k + 1]
          /\ l + 1 \in 1 .. Len(resCh) /\ resCh'[l] = resCh[l + 1]
      BY <1>7
    <2>2. resCh[k + 1].index = resCh[l + 1].index => k + 1 = l + 1
      BY <2>1 DEF OncePlaced
    <2>3. k + 1 = l + 1 => k = l
      BY <1>1
    <2> QED BY <2>1, <2>2, <2>3
  <1>18. \A i \in 1 .. Len(stream) : Gathered(i)' => i <= Taken /\ ~(Held(i)') /\ ~(Reported(i)')
    <2> TAKE i \in 1 .. Len(stream)
    <2>1. Gathered(i) => i <= Taken /\ ~Held(i) /\ ~Reported(i)
      BY DEF OncePlaced
    <2> QED BY <2>1, <1>3, <1>6, <1>8, <1>12
  <1>19. \A k, l \in 1 .. Len(results') : results'[k] = results'[l] => k = l
    <2> TAKE k, l \in 1 .. Len(results')
    <2>0. \A j \in 1 .. Len(results) : results'[j] # ChunkAt(t)
      <3>1. ~Gathered(t)
        BY <1>3 DEF OncePlaced
      <3> QED BY <3>1, <1>10 DEF Gathered
    <2>1. CASE k \in 1 .. Len(results) /\ l \in 1 .. Len(results)
      BY <2>1, <1>10 DEF OncePlaced
    <2>2. CASE k = Len(results) + 1
      BY <2>2, <2>0, <1>10, <1>11
    <2>3. CASE l = Len(results) + 1
      BY <2>3, <2>0, <1>10, <1>11
    <2> QED BY <2>1, <2>2, <2>3, <1>11
  <1>20. OncePlaced'
    BY <1>14, <1>15, <1>16, <1>17, <1>18, <1>19 DEF OncePlaced
  <1> QED BY <1>13, <1>20

\* Who is where changes with the slicer's, the workers' and the collector's
\* steps only.
LEMMA QueueKept ==
    ASSUME UNCHANGED <<sliced, slicer, taskCh>>, QueueInOrder
    PROVE  QueueInOrder' /\ Taken' = Taken
  <1>1. Taken' = Taken
    BY DEF Taken, Issued
  <1> QED BY <1>1 DEF QueueInOrder

\* An answer moves the waiting workers and nobody else.
LEMMA AnswerFacts ==
    ASSUME TypeInv, NEW x, NEW pc \in {"report", "fail"}, Answer(x, pc)
    PROVE  /\ TasksKept
           /\ \A w \in Workers : w \in Waiting(x) => work'[w].pc = pc
           /\ \A w \in Workers : w \notin Waiting(x) => work'[w] = work[w]
  <1>1. \A w \in Workers : work'[w] = IF w \in Waiting(x) THEN [work[w] EXCEPT !.pc = pc] ELSE work[w]
    BY DEF Answer
  <1>2. \A w \in Workers : w \in Waiting(x) =>
           work'[w].pc = pc /\ work'[w].task = work[w].task /\ work[w].pc \in Holding
    <2> SUFFICES ASSUME NEW w \in Workers, w \in Waiting(x)
                 PROVE  work'[w].pc = pc /\ work'[w].task = work[w].task /\ work[w].pc \in Holding
      OBVIOUS
    <2>1. work[w] \in WorkStates
      BY DEF TypeInv, WorkTyped
    <2>2. work'[w] = [work[w] EXCEPT !.pc = pc]
      BY <1>1
    <2>3. work'[w].pc = pc /\ work'[w].task = work[w].task
      BY <2>1, <2>2 DEF WorkStates
    <2> QED BY <2>3 DEF Waiting, Holding
  <1>3. \A w \in Workers : w \notin Waiting(x) => work'[w] = work[w]
    BY <1>1
  <1> QED BY <1>2, <1>3 DEF TasksKept, Holding

\* As long as nobody has cancelled, every step keeps each chunk in one place.
LEMMA PlacesStep ==
    ASSUME TypeInv, [Next]_vars, ~WorkersDone', QueueInOrder, OncePlaced, NoneLost
    PROVE  QueueInOrder' /\ OncePlaced' /\ NoneLost'
  <1>0. stream' = stream /\ ~WorkersDone /\ work \in [Workers -> WorkStates]
    BY StreamFixed, DoneStays DEF TypeInv, WorkTyped
  <1>k. ASSUME UNCHANGED work PROVE TasksKept
    BY <1>k DEF TasksKept
  <1>m. ASSUME NEW w \in Workers, NEW pc \in Pcs, Goto(w, pc), work[w].pc \in Holding <=> pc \in Holding
        PROVE  TasksKept
    <2>1. Moved(w, pc)
      BY <1>0, <1>m, GotoFacts
    <2> QED BY <1>m, <2>1 DEF Moved, TasksKept
  <1>f. ASSUME TasksKept, UNCHANGED <<sliced, slicer, taskCh, resCh, results>>
        PROVE  QueueInOrder' /\ OncePlaced' /\ NoneLost'
    <2>1. QueueInOrder' /\ Taken' = Taken
      BY <1>f, QueueKept
    <2> QED BY <1>0, <1>f, <2>1, PlacedKept
  <1>1. CASE CallerCancels
    BY <1>1 DEF CallerCancels, WorkersDone
  <1>2. CASE SlicerNext \/ SlicerSend
    <2>1. QueueInOrder' /\ Taken' = Taken
      BY <1>2, SlicerPlaces
    <2>2. UNCHANGED <<work, resCh, results>>
      BY <1>2 DEF SlicerNext, SlicerSend, mainVars
    <2> QED BY <1>0, <1>k, <2>1, <2>2, PlacedKept
  <1>3. CASE SlicerError
    BY <1>3 DEF SlicerError, WorkersDone
  <1>4. CASE SlicerStop
    BY <1>0, <1>4 DEF SlicerStop
  <1>5. CASE Collect
    <2>1. ~Head(resCh).err
      BY <1>5 DEF Collect, WorkersDone
    <2>2. resCh # <<>> /\ resCh' = Tail(resCh) /\ results' = Append(results, ChunkAt(Head(resCh).index))
      BY <1>5, <2>1 DEF Collect
    <2>3. UNCHANGED <<sliced, slicer, taskCh, work>>
      BY <1>5 DEF Collect, slicerVars
    <2>4. QueueInOrder' /\ Taken' = Taken
      BY <2>3, QueueKept
    <2> QED BY <1>0, <2>2, <2>3, <2>4, CollectPlaces
  <1>6. CASE CollectDone
    BY <1>6, <1>f, <1>k DEF CollectDone, slicerVars
  <1>7. CASE CommitStarts
    BY <1>7, <1>f, <1>k DEF CommitStarts, slicerVars
  <1>8. CASE CommitEnds
    BY <1>8 DEF CommitEnds, Return, WorkersDone
  <1>9. ASSUME NEW w \in Workers, WorkerTake(w)
        PROVE  QueueInOrder' /\ OncePlaced' /\ NoneLost'
    BY <1>0, <1>9, TakePlaces
  <1>10. ASSUME NEW w \in Workers, WorkerEnds(w)
         PROVE  QueueInOrder' /\ OncePlaced' /\ NoneLost'
    <2>1. TasksKept
      BY <1>10, <1>m DEF WorkerEnds, Pcs, Holding
    <2> QED BY <1>10, <1>f, <2>1 DEF WorkerEnds, slicerVars, mainVars
  <1>11. ASSUME NEW w \in Workers, PutStarts(w)
         PROVE  QueueInOrder' /\ OncePlaced' /\ NoneLost'
    <2>1. work[w].pc \in Holding /\ (Goto(w, "fail") \/ Goto(w, "report") \/ Goto(w, "wait"))
      BY <1>11 DEF PutStarts, Holding
    <2>2. TasksKept
      BY <2>1, <1>m DEF Pcs, Holding
    <2> QED BY <1>11, <1>f, <2>2 DEF PutStarts, slicerVars, mainVars
  <1>12. ASSUME NEW w \in Workers, PutCancelled(w)
         PROVE  QueueInOrder' /\ OncePlaced' /\ NoneLost'
    BY <1>0, <1>12 DEF PutCancelled
  <1>13. ASSUME NEW w \in Workers, NEW e \in BOOLEAN, NEW pc \in {"take", "done"}, Goto(w, pc),
                work[w].pc \in Holding, resCh' = Append(resCh, Result(w, e)),
                UNCHANGED <<sliced, slicer, taskCh, results>>
         PROVE  QueueInOrder' /\ OncePlaced' /\ NoneLost'
    <2>1. pc \in Pcs /\ pc \notin Holding
      BY DEF Pcs, Holding
    <2>2. Moved(w, pc)
      BY <1>0, <1>13, <2>1, GotoFacts
    <2>3. QueueInOrder' /\ Taken' = Taken
      BY <1>13, QueueKept
    <2> QED BY <1>0, <1>13, <2>1, <2>2, <2>3, ReportPlaces
  <1>14. ASSUME NEW w \in Workers, WorkerReports(w)
         PROVE  QueueInOrder' /\ OncePlaced' /\ NoneLost'
    <2>1. resCh' = Append(resCh, Result(w, FALSE)) /\ Goto(w, "take") /\ work[w].pc \in Holding
      BY <1>0, <1>14 DEF WorkerReports, Holding
    <2>2. UNCHANGED <<sliced, slicer, taskCh, results>>
      BY <1>14 DEF WorkerReports, slicerVars, mainVars
    <2> QED BY <1>13, <2>1, <2>2
  <1>15. ASSUME NEW w \in Workers, WorkerFails(w)
         PROVE  QueueInOrder' /\ OncePlaced' /\ NoneLost'
    <2>1. resCh' = Append(resCh, Result(w, TRUE)) /\ Goto(w, "done") /\ work[w].pc \in Holding
      BY <1>0, <1>15 DEF WorkerFails, Holding
    <2>2. UNCHANGED <<sliced, slicer, taskCh, results>>
      BY <1>15 DEF WorkerFails, slicerVars, mainVars
    <2> QED BY <1>13, <2>1, <2>2
  <1>16. ASSUME NEW x \in inFlight, HandlerEnds(x)
         PROVE  QueueInOrder' /\ OncePlaced' /\ NoneLost'
    <2>1. Answer(x, "report") \/ Answer(x, "fail")
      BY <1>16 DEF HandlerEnds
    <2>2. TasksKept
      BY <2>1, AnswerFacts
    <2> QED BY <1>16, <1>f, <2>2 DEF HandlerEnds, slicerVars, mainVars
  <1>17. CASE RivalCommits \/ RivalEnds \/ UNCHANGED vars
    BY <1>17, <1>f, <1>k, RivalApart DEF OnlyRival, slicerVars, mainVars
  <1> QED
    BY <1>1, <1>2, <1>3, <1>4, <1>5, <1>6, <1>7, <1>8, <1>9, <1>10, <1>11, <1>12, <1>14,
       <1>15, <1>16, <1>17 DEF Next, Slicer, Main, Worker

\* The same for the end of the work.
LEMMA StopsStep ==
    ASSUME TypeInv, [Next]_vars, ~WorkersDone', StopsAtEnd
    PROVE  StopsAtEnd'
  <1> DEFINE Err == \E k \in 1 .. Len(resCh) : resCh[k].err
             Stops(w) == work[w].pc = "done" => (slicer = "done" /\ taskCh = <<>>) \/ Err
  <1>0. stream' = stream /\ ~WorkersDone /\ work \in [Workers -> WorkStates]
    BY StreamFixed, DoneStays DEF TypeInv, WorkTyped
  <1>e. \A w \in Workers : Stops(w)
    BY DEF StopsAtEnd
  <1>f. ASSUME UNCHANGED <<sliced, slicer, taskCh, resCh>>,
               \A w \in Workers : work'[w].pc = "done" => work[w].pc = "done" \/ (slicer = "done" /\ taskCh = <<>>)
        PROVE  StopsAtEnd'
    <2>1. \A w \in Workers : Stops(w)'
      BY <1>e, <1>f
    <2> QED BY <1>0, <1>f, <2>1 DEF StopsAtEnd
  <1>m. ASSUME NEW w \in Workers, NEW pc \in Pcs, Goto(w, pc), pc # "done",
               UNCHANGED <<sliced, slicer, taskCh, resCh>>
        PROVE  StopsAtEnd'
    <2>1. Moved(w, pc)
      BY <1>0, <1>m, GotoFacts
    <2> QED BY <1>m, <1>f, <2>1 DEF Moved
  <1>s. ASSUME NEW w \in Workers, NEW e \in BOOLEAN, NEW pc \in {"take", "done"}, Goto(w, pc),
               pc = "done" => e, resCh' = Append(resCh, Result(w, e)), work[w].pc \in Holding,
               UNCHANGED <<sliced, slicer, taskCh>>
        PROVE  StopsAtEnd'
    <2>1. Moved(w, pc)
      BY <1>0, <1>s, GotoFacts DEF Pcs
    <2>2. Result(w, e) \in ResultRecs /\ Result(w, e).err = e /\ resCh \in Seq(ResultRecs)
      BY <1>0, <1>s DEF Result, ResultRecs, TypeInv, WorkStates
    <2>3. Sending(ResultRecs, resCh, Result(w, e), resCh') /\ Len(resCh) \in Nat
      BY <2>2, <1>s, AppendFacts
    <2>4. Err => Err'
      BY <2>3 DEF Sending
    <2>5. e => Err'
      <3>1. Len(resCh') \in 1 .. Len(resCh') /\ resCh'[Len(resCh')] = Result(w, e)
        BY <2>3 DEF Sending
      <3> QED BY <2>2, <3>1
    <2>6. ASSUME NEW v \in Workers PROVE Stops(v)'
      <3>1. CASE v = w
        BY <3>1, <2>1, <2>5, <1>s DEF Moved
      <3>2. CASE v # w
        BY <3>2, <2>1, <2>4, <1>e, <1>s DEF Moved
      <3> QED BY <3>1, <3>2
    <2> QED BY <1>0, <1>s, <2>6 DEF StopsAtEnd
  <1>1. CASE CallerCancels
    BY <1>1 DEF CallerCancels, WorkersDone
  <1>2. CASE SlicerNext \/ SlicerSend
    <2>1. UNCHANGED <<work, resCh>> /\ slicer # "done"
      BY <1>2 DEF SlicerNext, SlicerSend
    <2>2. \A w \in Workers : Stops(w)'
      BY <1>e, <2>1
    <2>3. slicer' = "done" => sliced' = Len(stream)
      <3>1. sliced \in 0 .. Len(stream) /\ Len(stream) \in Nat
        BY QueueTypes DEF TypeInv
      <3> QED BY <3>1, <1>2 DEF SlicerNext, SlicerSend
    <2> QED BY <1>0, <2>2, <2>3 DEF StopsAtEnd
  <1>3. CASE SlicerError
    BY <1>3 DEF SlicerError, WorkersDone
  <1>4. CASE SlicerStop
    BY <1>0, <1>4 DEF SlicerStop
  <1>5. CASE Collect
    <2>1. ~Head(resCh).err /\ resCh # <<>> /\ resCh' = Tail(resCh)
      BY <1>5 DEF Collect, WorkersDone
    <2>2. Taking(ResultRecs, resCh, resCh') /\ Len(resCh) \in Nat \ {0}
      BY <2>1, TailFacts DEF TypeInv
    <2>3. UNCHANGED <<sliced, slicer, taskCh, work>>
      BY <1>5 DEF Collect, slicerVars
    <2>4. ASSUME Err PROVE Err'
      <3>1. PICK k \in 1 .. Len(resCh) : resCh[k].err
        BY <2>4
      <3>2. k # 1
        BY <3>1, <2>1, <2>2 DEF Taking
      <3>3. k - 1 \in 1 .. Len(resCh') /\ (k - 1) + 1 = k
        BY <3>2, <2>2 DEF Taking
      <3>4. resCh'[k - 1] = resCh[k]
        BY <3>3, <2>2 DEF Taking
      <3> QED BY <3>1, <3>3, <3>4
    <2>5. \A w \in Workers : Stops(w)'
      BY <1>e, <2>3, <2>4
    <2> QED BY <1>0, <2>3, <2>5 DEF StopsAtEnd
  <1>6. CASE CollectDone
    BY <1>6, <1>f DEF CollectDone, slicerVars
  <1>7. CASE CommitStarts
    BY <1>7, <1>f DEF CommitStarts, slicerVars
  <1>8. CASE CommitEnds
    BY <1>8 DEF CommitEnds, Return, WorkersDone
  <1>9. ASSUME NEW w \in Workers, WorkerTake(w)
        PROVE  StopsAtEnd'
    <2>1. taskCh # <<>> /\ work'[w].pc = "put" /\ \A v \in Workers : v # w => work'[v] = work[v]
      BY <1>0, <1>9 DEF WorkerTake
    <2>2. UNCHANGED <<sliced, slicer, resCh>>
      BY <1>9 DEF WorkerTake, slicerVars
    <2>3. \A v \in Workers : Stops(v)'
      BY <1>e, <2>1, <2>2
    <2> QED BY <1>0, <2>2, <2>3 DEF StopsAtEnd
  <1>10. ASSUME NEW w \in Workers, WorkerEnds(w)
         PROVE  StopsAtEnd'
    <2>1. Moved(w, "done") /\ slicer = "done" /\ taskCh = <<>>
      BY <1>0, <1>10, GotoFacts DEF WorkerEnds, Pcs
    <2> QED BY <1>10, <1>f, <2>1 DEF WorkerEnds, slicerVars, Moved
  <1>11. ASSUME NEW w \in Workers, PutStarts(w)
         PROVE  StopsAtEnd'
    <2>1. Goto(w, "fail") \/ Goto(w, "report") \/ Goto(w, "wait")
      BY <1>11 DEF PutStarts
    <2>2. UNCHANGED <<sliced, slicer, taskCh, resCh>>
      BY <1>11 DEF PutStarts, slicerVars
    <2> QED BY <1>m, <2>1, <2>2 DEF Pcs
  <1>12. ASSUME NEW w \in Workers, PutCancelled(w)
         PROVE  StopsAtEnd'
    BY <1>0, <1>12 DEF PutCancelled
  <1>14. ASSUME NEW w \in Workers, WorkerReports(w)
         PROVE  StopsAtEnd'
    <2>1. resCh' = Append(resCh, Result(w, FALSE)) /\ Goto(w, "take") /\ work[w].pc \in Holding
      BY <1>0, <1>14 DEF WorkerReports, Holding
    <2>2. UNCHANGED <<sliced, slicer, taskCh>>
      BY <1>14 DEF WorkerReports, slicerVars
    <2> QED BY <1>s, <2>1, <2>2
  <1>15. ASSUME NEW w \in Workers, WorkerFails(w)
         PROVE  StopsAtEnd'
    <2>1. resCh' = Append(resCh, Result(w, TRUE)) /\ Goto(w, "done") /\ work[w].pc \in Holding
      BY <1>0, <1>15 DEF WorkerFails, Holding
    <2>2. UNCHANGED <<sliced, slicer, taskCh>>
      BY <1>15 DEF WorkerFails, slicerVars
    <2> QED BY <1>s, <2>1, <2>2
  <1>16. ASSUME NEW x \in inFlight, HandlerEnds(x)
         PROVE  StopsAtEnd'
    <2>1. PICK pc \in {"report", "fail"} : Answer(x, pc)
      BY <1>16 DEF HandlerEnds
    <2>2. /\ \A w \in Workers : w \in Waiting(x) => work'[w].pc = pc
          /\ \A w \in Workers : w \notin Waiting(x) => work'[w] = work[w]
      BY <2>1, AnswerFacts
    <2> QED BY <1>16, <1>f, <2>2 DEF HandlerEnds, slicerVars
  <1>17. CASE RivalCommits \/ RivalEnds \/ UNCHANGED vars
    BY <1>17, <1>f, RivalApart DEF OnlyRival, slicerVars
  <1> QED
    BY <1>1, <1>2, <1>3, <1>4, <1>5, <1>6, <1>7, <1>8, <1>9, <1>10, <1>11, <1>12, <1>14,
       <1>15, <1>16, <1>17 DEF Next, Slicer, Main, Worker

\* The same for the uploads.  Sure grows, except for a content of ours whose
\* upload fails: then a worker that waited for it has failed.
LEMMA UploadsStep ==
    ASSUME TypeInv, [Next]_vars, ~WorkersDone', UploadsAwaited
    PROVE  UploadsAwaited'
  <1> DEFINE Err == \E k \in 1 .. Len(resCh) : resCh[k].err
             Failed == \E w \in Workers : work[w].pc = "fail"
             U1 == \A w \in Workers : work[w].pc = "wait" => Content(w) \in inFlight
             U2 == \A x \in inFlight : x \in Foreign \/ Waiting(x) # {}
             U3 == \A w \in Workers : work[w].pc = "report" => Sure(Content(w))
             U4 == \A k \in 1 .. Len(resCh) : Sure(stream[resCh[k].index])
             U5 == \A k \in 1 .. Len(results) : Sure(results[k].fid)
  <1>0. stream' = stream /\ ~WorkersDone /\ work \in [Workers -> WorkStates]
    BY StreamFixed, DoneStays DEF TypeInv, WorkTyped
  <1>u. U1 /\ (~Trouble => U2 /\ U3 /\ U4 /\ U5)
    BY DEF UploadsAwaited
  <1>v. ASSUME U1', ~Trouble' => U2' /\ U3' /\ U4' /\ U5'
        PROVE  UploadsAwaited'
    BY <1>v DEF UploadsAwaited
  <1>t. Trouble <=> Failed \/ Err
    BY DEF Trouble
  <1>t2. Trouble' <=> Failed' \/ Err'
    BY DEF Trouble
  <1> HIDE DEF Err, Failed, U1, U2, U3, U4, U5
  \* A worker moves between program counters that no clause mentions.
  <1>f. ASSUME UNCHANGED <<resCh, results, stored, inFlight>>,
               \A w \in Workers : \/ work'[w] = work[w]
                                  \/ /\ work[w].pc \in {"take", "put"}
                                     /\ work'[w].pc \in {"put", "done"}
        PROVE  UploadsAwaited'
    <2>1. ASSUME NEW w \in Workers
          PROVE  /\ work'[w].pc = "wait" <=> work[w].pc = "wait"
                 /\ work'[w].pc = "report" <=> work[w].pc = "report"
                 /\ work'[w].pc = "fail" <=> work[w].pc = "fail"
                 /\ work[w].pc \in {"wait", "report"} => Content(w)' = Content(w)
      BY <1>0, <1>f DEF Content
    <2>2. U1'
      BY <1>f, <1>u, <2>1 DEF U1
    <2>3. Trouble' <=> Trouble
      <3>1. (Failed' <=> Failed) /\ (Err' <=> Err)
        BY <1>f, <2>1 DEF Failed, Err
      <3> QED BY <3>1, <1>t, <1>t2
    <2>4. \A x : Waiting(x)' = Waiting(x)
      BY <2>1 DEF Waiting
    <2>5. \A x : Sure(x)' <=> Sure(x)
      BY <1>f DEF Sure
    <2>6. U2 => U2'
      BY <1>f, <2>4 DEF U2
    <2>7. U3 => U3'
      BY <2>1, <2>5 DEF U3
    <2>8. (U4 => U4') /\ (U5 => U5')
      BY <1>0, <1>f DEF U4, U5, Sure
    <2> QED BY <1>u, <1>v, <2>2, <2>3, <2>6, <2>7, <2>8
  <1>1. CASE CallerCancels
    BY <1>1 DEF CallerCancels, WorkersDone
  <1>2. CASE SlicerNext \/ SlicerSend
    BY <1>2, <1>f DEF SlicerNext, SlicerSend, mainVars, storeVars
  <1>3. CASE SlicerError
    BY <1>3 DEF SlicerError, WorkersDone
  <1>4. CASE SlicerStop
    BY <1>0, <1>4 DEF SlicerStop
  <1>5. CASE Collect
    <2>1. /\ ~Head(resCh).err /\ resCh # <<>> /\ resCh' = Tail(resCh)
          /\ results' = Append(results, ChunkAt(Head(resCh).index))
      BY <1>5 DEF Collect, WorkersDone
    <2>2. Taking(ResultRecs, resCh, resCh') /\ Len(resCh) \in Nat \ {0}
      BY <2>1, TailFacts DEF TypeInv
    <2>3. UNCHANGED <<work, stored, inFlight>>
      BY <1>5 DEF Collect, storeVars
    <2>4. Head(resCh) = resCh[1] /\ 1 \in 1 .. Len(resCh)
      BY <2>2 DEF Taking
    <2>5. \A k \in 1 .. Len(resCh') : k + 1 \in 1 .. Len(resCh) /\ resCh'[k] = resCh[k + 1]
      BY <2>2 DEF Taking
    <2>6. ASSUME Err PROVE Err'
      <3>1. PICK k \in 1 .. Len(resCh) : resCh[k].err
        BY <2>6 DEF Err
      <3>2. k # 1
        BY <3>1, <2>1, <2>4
      <3>3. k - 1 \in 1 .. Len(resCh') /\ (k - 1) + 1 = k
        BY <3>2, <2>2 DEF Taking
      <3>4. resCh'[k - 1] = resCh[k]
        BY <3>3, <2>5
      <3> QED BY <3>1, <3>3, <3>4 DEF Err
    <2>7. ~Trouble' => ~Trouble
      <3>1. Failed' <=> Failed
        BY <2>3 DEF Failed
      <3> QED BY <3>1, <2>6, <1>t, <1>t2
    <2>8. U1' /\ (U2 => U2') /\ (U3 => U3')
      BY <1>0, <1>u, <2>3 DEF U1, U2, U3, Content, Waiting, Sure
    <2>9. ASSUME U4 PROVE U4'
      <3>1. ASSUME NEW k \in 1 .. Len(resCh')
            PROVE  Sure(stream[resCh[k].index])'
        <4>1. Sure(stream[resCh[k + 1].index])
          BY <2>9, <2>5 DEF U4
        <4> QED BY <4>1, <2>3, <2>5, <1>0 DEF Sure
      <3> QED BY <3>1 DEF U4
    <2>10. ASSUME U4, U5 PROVE U5'
      <3>1. Sure(stream[Head(resCh).index])
        BY <2>10, <2>4 DEF U4
      <3>2. ChunkAt(Head(resCh).index).fid = stream[Head(resCh).index]
        BY DEF ChunkAt
      <3>3. ChunkAt(Head(resCh).index) \in Descs /\ results \in Seq(Descs)
        <4>1. Head(resCh).index \in 1 .. sliced /\ sliced \in 0 .. Len(stream) /\ Len(stream) \in Nat
          BY <2>4, QueueTypes DEF TypeInv
        <4>2. Head(resCh).index \in 1 .. Len(stream)
          BY <4>1
        <4> QED BY <4>2 DEF Descs, TypeInv
      <3>4. Sending(Descs, results, ChunkAt(Head(resCh).index), results') /\ Len(results) \in Nat
        <4> HIDE DEF Descs
        <4> QED BY <2>1, <3>3, AppendFacts
      <3>5. ASSUME NEW k \in 1 .. Len(results')
            PROVE  Sure(results'[k].fid)
        <4>1. CASE k = Len(results')
          BY <3>1, <3>2, <3>4, <4>1 DEF Sending
        <4>2. CASE k # Len(results')
          <5>1. k \in 1 .. Len(results)
            BY <3>4, <4>2 DEF Sending
          <5>2. results'[k] = results[k]
            BY <3>4, <5>1 DEF Sending
          <5> QED BY <2>10, <5>1, <5>2 DEF U5
        <4> QED BY <4>1, <4>2
      <3>6. \A k \in 1 .. Len(results') : Sure(results[k].fid)'
        BY <2>3, <3>5 DEF Sure
      <3> QED BY <3>6 DEF U5
    <2> QED BY <1>u, <1>v, <2>7, <2>8, <2>9, <2>10
  <1>6. CASE CollectDone
    BY <1>6, <1>f DEF CollectDone, storeVars
  <1>7. CASE CommitStarts
    BY <1>7, <1>f DEF CommitStarts, storeVars
  <1>8. CASE CommitEnds
    BY <1>8 DEF CommitEnds, Return, WorkersDone
  <1>9. ASSUME NEW w \in Workers, WorkerTake(w)
        PROVE  UploadsAwaited'
    <2>1. work[w].pc = "take" /\ work'[w].pc = "put" /\ \A v \in Workers : v # w => work'[v] = work[v]
      BY <1>0, <1>9 DEF WorkerTake
    <2> QED BY <1>f, <1>9, <2>1 DEF WorkerTake, mainVars, storeVars
  <1>10. ASSUME NEW w \in Workers, WorkerEnds(w)
         PROVE  UploadsAwaited'
    <2>1. Moved(w, "done") /\ work[w].pc = "take"
      BY <1>0, <1>10, GotoFacts DEF WorkerEnds, Pcs
    <2> QED BY <1>10, <1>f, <2>1 DEF WorkerEnds, mainVars, storeVars, Moved
  <1>11. ASSUME NEW w \in Workers, PutStarts(w)
         PROVE  UploadsAwaited'
    <2>0. UNCHANGED <<resCh, results, stored>> /\ work[w].pc = "put"
      BY <1>11 DEF PutStarts, mainVars
    <2>1. \/ Goto(w, "fail") /\ UNCHANGED inFlight
          \/ Content(w) \in stored \cup inFlight /\ Goto(w, "report") /\ UNCHANGED inFlight
          \/ inFlight' = inFlight \cup {Content(w)} /\ Goto(w, "wait")
      BY <1>0, <1>11 DEF PutStarts
    <2>a. CASE Goto(w, "fail") /\ UNCHANGED inFlight
      <3>1. Moved(w, "fail")
        BY <1>0, <2>a, GotoFacts DEF Pcs
      <3>2. Content(w)' = Content(w) /\ \A v \in Workers : v # w => work'[v] = work[v]
        BY <1>0, <3>1 DEF Content, Moved
      <3>3. \A v \in Workers : Content(v)' = Content(v)
        BY <1>0, <3>1 DEF Content, Moved
      <3>4. U1'
        BY <1>u, <2>a, <3>1, <3>2, <3>3 DEF U1, Moved
      <3>5. Trouble'
        BY <1>t2, <3>1 DEF Failed, Moved
      <3> QED BY <1>v, <3>4, <3>5
    <2> SUFFICES ASSUME ~(Goto(w, "fail") /\ UNCHANGED inFlight) PROVE UploadsAwaited'
      BY <2>a
    <2>2. PICK pc \in {"report", "wait"} : Moved(w, pc)
      BY <1>0, <2>1, GotoFacts DEF Pcs
    <2>3. \A v \in Workers : Content(v)' = Content(v)
      BY <1>0, <2>2 DEF Content, Moved
    <2>4. \A v \in Workers : v # w => work'[v] = work[v]
      BY <2>2 DEF Moved
    <2>5. Trouble' <=> Trouble
      <3>1. Failed' <=> Failed
        BY <2>0, <2>2, <2>4 DEF Failed, Moved
      <3>2. Err' <=> Err
        BY <2>0 DEF Err
      <3> QED BY <3>1, <3>2, <1>t, <1>t2
    <2>6. inFlight \subseteq inFlight' /\ (\A x : Sure(x) => Sure(x)')
      BY <2>0, <2>1 DEF Sure
    <2>7. (U4 => U4') /\ (U5 => U5')
      BY <1>0, <2>0, <2>6 DEF U4, U5
    <2>8. CASE Content(w) \in stored \cup inFlight /\ Goto(w, "report") /\ UNCHANGED inFlight
      <3>1. Moved(w, "report")
        BY <1>0, <2>8, GotoFacts DEF Pcs
      <3>2. U1'
        BY <1>u, <2>3, <2>4, <2>8, <3>1 DEF U1, Moved
      <3>3. \A x : Waiting(x)' = Waiting(x)
        BY <2>0, <2>3, <2>4, <3>1 DEF Waiting, Moved
      <3>4. U2 => U2'
        BY <2>8, <3>3 DEF U2
      <3>5. Sure(Content(w))'
        BY <2>0, <2>3, <2>8 DEF Sure
      <3>6. U3 => U3'
        <4> SUFFICES ASSUME U3, NEW v \in Workers, work'[v].pc = "report"
                     PROVE  Sure(Content(v))'
          BY DEF U3
        <4>1. CASE v = w
          BY <4>1, <3>5
        <4>2. CASE v # w
          <5>1. Sure(Content(v))
            BY <4>2, <2>4 DEF U3
          <5> QED BY <5>1, <2>0, <2>3, <2>8 DEF Sure
        <4> QED BY <4>1, <4>2
      <3> QED BY <1>u, <1>v, <2>5, <2>7, <3>2, <3>4, <3>6
    <2>9. CASE inFlight' = inFlight \cup {Content(w)} /\ Goto(w, "wait")
      <3>1. Moved(w, "wait")
        BY <1>0, <2>9, GotoFacts DEF Pcs
      <3>2. U1'
        BY <1>u, <2>3, <2>4, <2>9, <3>1 DEF U1, Moved
      <3>3. \A x : Waiting(x) \subseteq Waiting(x)'
        BY <2>0, <2>3, <2>4 DEF Waiting
      <3>4. w \in Waiting(Content(w))'
        BY <2>3, <3>1 DEF Waiting, Moved
      <3>5. U2 => U2'
        <4> SUFFICES ASSUME U2, NEW x \in inFlight' PROVE x \in Foreign \/ Waiting(x)' # {}
          BY DEF U2
        <4>1. CASE x = Content(w)
          BY <4>1, <2>3, <3>1 DEF Waiting, Moved
        <4>2. CASE x \in inFlight
          BY <4>2, <3>3 DEF U2
        <4> QED BY <4>1, <4>2, <2>9
      <3>6. U3 => U3'
        <4> SUFFICES ASSUME U3, NEW v \in Workers, work'[v].pc = "report"
                     PROVE  Sure(Content(v))'
          BY DEF U3
        <4>1. v # w
          BY <3>1 DEF Moved
        <4>2. Sure(Content(v))
          BY <4>1, <2>4 DEF U3
        <4> QED BY <4>2, <2>0, <2>3, <2>9 DEF Sure
      <3> QED BY <1>u, <1>v, <2>5, <2>7, <3>2, <3>5, <3>6
    <2> QED BY <2>1, <2>8, <2>9
  <1>12. ASSUME NEW w \in Workers, PutCancelled(w)
         PROVE  UploadsAwaited'
    BY <1>0, <1>12 DEF PutCancelled
  <1>s. ASSUME NEW w \in Workers, NEW e \in BOOLEAN, NEW pc \in {"take", "done"}, Goto(w, pc),
               resCh' = Append(resCh, Result(w, e)), work[w].pc \in Holding,
               UNCHANGED <<results, stored, inFlight>>, work[w].pc = "report" \/ e,
               work[w].pc # "wait"
        PROVE  UploadsAwaited'
    <2>1. Moved(w, pc)
      BY <1>0, <1>s, GotoFacts DEF Pcs
    <2>2. /\ Result(w, e) \in ResultRecs /\ Result(w, e).err = e /\ resCh \in Seq(ResultRecs)
          /\ Result(w, e).index = work[w].task
      BY <1>0, <1>s DEF Result, ResultRecs, TypeInv, WorkStates
    <2>3. Sending(ResultRecs, resCh, Result(w, e), resCh') /\ Len(resCh) \in Nat
      BY <2>2, <1>s, AppendFacts
    <2>4. \A v \in Workers : v # w => work'[v] = work[v]
      BY <2>1 DEF Moved
    <2>5. \A v \in Workers : Content(v)' = Content(v)
      BY <1>0, <2>1 DEF Content, Moved
    <2>6. U1'
      BY <1>s, <1>u, <2>1, <2>4, <2>5 DEF U1, Moved
    <2>7. (e => Err') /\ (Err => Err')
      <3>1. Len(resCh') \in 1 .. Len(resCh') /\ resCh'[Len(resCh')] = Result(w, e)
        BY <2>3 DEF Sending
      <3>2. e => Err'
        BY <2>2, <3>1 DEF Err
      <3>3. Err => Err'
        BY <2>3 DEF Err, Sending
      <3> QED BY <3>2, <3>3
    <2>8. CASE e
      BY <2>8, <2>7, <2>6, <1>v, <1>t2
    <2>9. CASE ~e
      <3>1. work[w].pc = "report"
        BY <1>s, <2>9
      <3>2. ~Trouble' => ~Trouble
        <4>1. Failed => Failed'
          BY <3>1, <2>4 DEF Failed
        <4> QED BY <4>1, <2>7, <1>t, <1>t2
      <3>3. \A x : Waiting(x)' = Waiting(x)
        BY <1>s, <2>1, <2>4, <2>5 DEF Waiting, Moved
      <3>4. U2 => U2'
        BY <1>s, <3>3 DEF U2
      <3>5. U3 => U3'
        BY <1>s, <2>1, <2>4, <2>5 DEF U3, Moved, Sure
      <3>6. U5 => U5'
        BY <1>s DEF U5, Sure
      <3>7. ASSUME U3, U4 PROVE U4'
        <4>1. Sure(stream[work[w].task])
          BY <3>1, <3>7 DEF U3, Content
        <4>2. ASSUME NEW k \in 1 .. Len(resCh')
              PROVE  Sure(stream[resCh'[k].index])
          <5>1. CASE k = Len(resCh')
            BY <4>1, <5>1, <2>2, <2>3 DEF Sending
          <5>2. CASE k # Len(resCh')
            <6>1. k \in 1 .. Len(resCh)
              BY <2>3, <5>2 DEF Sending
            <6>2. resCh'[k] = resCh[k]
              BY <2>3, <6>1 DEF Sending
            <6> QED BY <3>7, <6>1, <6>2 DEF U4
          <5> QED BY <5>1, <5>2
        <4>3. \A k \in 1 .. Len(resCh') : Sure(stream[resCh[k].index])'
          BY <1>0, <1>s, <4>2 DEF Sure
        <4> QED BY <4>3 DEF U4
      <3> QED BY <1>u, <1>v, <2>6, <3>2, <3>4, <3>5, <3>6, <3>7
    <2> QED BY <2>8, <2>9
  <1>14. ASSUME NEW w \in Workers, WorkerReports(w)
         PROVE  UploadsAwaited'
    <2>1. resCh' = Append(resCh, Result(w, FALSE)) /\ Goto(w, "take") /\ work[w].pc = "report"
      BY <1>0, <1>14 DEF WorkerReports
    <2>2. UNCHANGED <<results, stored, inFlight>>
      BY <1>14 DEF WorkerReports, mainVars, storeVars
    <2> QED BY <1>s, <2>1, <2>2 DEF Holding
  <1>15. ASSUME NEW w \in Workers, WorkerFails(w)
         PROVE  UploadsAwaited'
    <2>1. resCh' = Append(resCh, Result(w, TRUE)) /\ Goto(w, "done") /\ work[w].pc = "fail"
      BY <1>0, <1>15 DEF WorkerFails
    <2>2. UNCHANGED <<results, stored, inFlight>>
      BY <1>15 DEF WorkerFails, mainVars, storeVars
    <2> QED BY <1>s, <2>1, <2>2 DEF Holding
  <1>16. ASSUME NEW x \in inFlight, HandlerEnds(x)
         PROVE  UploadsAwaited'
    <2>1. PICK pc \in {"report", "fail"} : Answer(x, pc) /\ (pc = "report" => stored' = stored \cup {x})
      BY <1>16 DEF HandlerEnds
    <2>2. /\ TasksKept
          /\ \A w \in Workers : w \in Waiting(x) => work'[w].pc = pc
          /\ \A w \in Workers : w \notin Waiting(x) => work'[w] = work[w]
      BY <2>1, AnswerFacts
    <2>3. /\ UNCHANGED <<resCh, results>> /\ inFlight' = inFlight \ {x}
          /\ (stored' = stored \cup {x} \/ stored' = stored)
      BY <1>16 DEF HandlerEnds, mainVars
    <2>4. \A w \in Workers : Content(w)' = Content(w)
      BY <1>0, <2>2 DEF Content, TasksKept
    <2>5. \A w \in Workers : w \in Waiting(x) <=> work[w].pc = "wait" /\ Content(w) = x
      BY DEF Waiting
    <2>6. U1'
      BY <1>u, <2>2, <2>3, <2>4, <2>5 DEF U1
    <2>7. ~Trouble' => ~Trouble
      <3>1. Failed => Failed'
        BY <2>2, <2>5 DEF Failed
      <3>2. Err' <=> Err
        BY <2>3 DEF Err
      <3> QED BY <3>1, <3>2, <1>t, <1>t2
    <2>8. ASSUME ~Trouble', U2, U3, U4, U5
          PROVE  U2' /\ U3' /\ U4' /\ U5'
      <3>1. Waiting(x) = {} \/ pc = "report"
        <4>1. ~Failed'
          BY <2>8, <1>t2
        <4>2. Waiting(x) \subseteq Workers
          BY DEF Waiting
        <4> QED BY <4>1, <4>2, <2>2 DEF Failed
      <3>2. x \in stored' \cup Foreign
        BY <3>1, <2>1, <2>8 DEF U2
      <3>3. \A y : Sure(y) => Sure(y)'
        BY <3>2, <2>3 DEF Sure
      <3>4. U4' /\ U5'
        BY <1>0, <2>3, <2>8, <3>3 DEF U4, U5
      <3>5. \A y : y # x => Waiting(y) \subseteq Waiting(y)'
        BY <2>2, <2>4, <2>5 DEF Waiting
      <3>6. U2'
        BY <2>3, <2>8, <3>5 DEF U2
      <3>7. U3'
        <4> SUFFICES ASSUME NEW w \in Workers, work'[w].pc = "report"
                     PROVE  Sure(Content(w))'
          BY DEF U3
        <4>1. CASE w \in Waiting(x)
          <5>1. Content(w)' = x
            BY <4>1, <2>4, <2>5
          <5> QED BY <5>1, <3>2 DEF Sure
        <4>2. CASE w \notin Waiting(x)
          <5>1. Sure(Content(w))
            BY <4>2, <2>2, <2>8 DEF U3
          <5>2. Content(w)' = Content(w)
            BY <2>4
          <5> QED BY <5>1, <5>2, <2>3, <3>2 DEF Sure
        <4> QED BY <4>1, <4>2
      <3> QED BY <3>4, <3>6, <3>7
    <2> QED BY <1>u, <1>v, <2>6, <2>7, <2>8
  <1>17. CASE RivalCommits \/ RivalEnds \/ UNCHANGED vars
    BY <1>17, <1>f, RivalApart DEF OnlyRival, mainVars
  <1> QED
    BY <1>1, <1>2, <1>3, <1>4, <1>5, <1>6, <1>7, <1>8, <1>9, <1>10, <1>11, <1>12, <1>14,
       <1>15, <1>16, <1>17 DEF Next, Slicer, Main, Worker

\* The sum of the sizes is the size of the file.
LEMMA TotalIsFileSize ==
    ASSUME NEW s \in Seq(Seq(Nat) \ {<<>>})
    PROVE  TotalSize(ChunksOf(s)) = Len(FlattenSeq(s))
  <1> DEFINE c == ChunksOf(s)
  <1>0. Len(s) \in Nat /\ DOMAIN s = 1 .. Len(s)
    OBVIOUS
  <1>1. Len(c) = Len(s) /\ DOMAIN c = 1 .. Len(s)
    BY <1>0 DEF ChunksOf
  <1>2. \A i \in 1 .. Len(s) : c[i].size = Len(s[i])
    BY DEF ChunksOf
  <1> HIDE DEF c
  <1>3. [i \in DOMAIN c |-> c[i].size] = Lens(s)
    BY <1>0, <1>1, <1>2 DEF Lens
  <1>4. TotalSize(c) = RunningSum(Lens(s))[Len(s)]
    BY <1>1, <1>3 DEF TotalSize
  <1>5. Laid(Nat, s, Len(s), FlattenSeq(s))
    BY OffsetFacts, FlattenFacts
  <1> QED BY <1>4, <1>5, Zenon DEF Laid, c

\* When everybody has stopped and nobody has cancelled, every chunk has been
\* collected and stored.
LEMMA CollectedAll ==
    ASSUME TypeInv, LiveInv, ~WorkersDone, resCh = <<>>, ResClosed
    PROVE  /\ slicer = "done" /\ sliced = Len(stream)
           /\ Collected(stream, results)
           /\ \A i \in 1 .. Len(stream) : stream[i] \in stored \cup Foreign
  <1>1. Len(resCh) = 0 /\ (\A k \in 1 .. Len(resCh) : FALSE) /\ Len(stream) \in Nat
    BY QueueTypes
  <1>2. \A w \in Workers : work[w].pc = "done"
    BY DEF ResClosed
  <1>3. PICK w \in Workers : TRUE
    BY CdcAssumption
  <1>4. slicer = "done" /\ taskCh = <<>> /\ sliced = Len(stream)
    BY <1>1, <1>2, <1>3 DEF LiveInv, StopsAtEnd
  <1>5. Taken = Len(stream)
    BY <1>1, <1>4 DEF Taken, Issued
  <1>6. \A i : ~Held(i) /\ ~Reported(i)
    BY <1>1, <1>2 DEF Held, HeldBy, Holding, Reported
  <1>7. \A i \in 1 .. Len(stream) : Gathered(i)
    BY <1>5, <1>6 DEF LiveInv, NoneLost
  <1>8. \A i \in 1 .. Len(stream) : ChunkAt(i) = ChunksOf(stream)[i]
    BY ChunkAtFacts
  <1>9. Collected(stream, results)
    <2>1. results \in Seq({ChunksOf(stream)[i] : i \in 1 .. Len(stream)})
      <3>1. results \in Seq(Descs)
        BY DEF TypeInv
      <3>2. Descs = {ChunksOf(stream)[i] : i \in 1 .. Len(stream)}
        BY ChunkAtFacts
      <3> QED BY <3>1, <3>2, Zenon
    <2>2. \A k, l \in 1 .. Len(results) : results[k] = results[l] => k = l
      BY DEF LiveInv, OncePlaced
    <2>3. \A i \in 1 .. Len(stream) : \E k \in 1 .. Len(results) : results[k] = ChunksOf(stream)[i]
      BY <1>7, <1>8, Zenon DEF Gathered
    <2> QED BY <2>1, <2>2, <2>3, Zenon DEF Collected
  <1>10. ~Trouble /\ \A x : Waiting(x) = {}
    BY <1>1, <1>2 DEF Trouble, Waiting
  <1>11. inFlight \subseteq Foreign /\ \A k \in 1 .. Len(results) : Sure(results[k].fid)
    BY <1>10 DEF LiveInv, UploadsAwaited
  <1>12. ASSUME NEW i \in 1 .. Len(stream)
         PROVE  stream[i] \in stored \cup Foreign
    <2>1. PICK k \in 1 .. Len(results) : results[k] = ChunkAt(i)
      BY <1>7 DEF Gathered
    <2>2. results[k].fid = stream[i]
      BY <2>1 DEF ChunkAt
    <2> QED BY <1>11, <2>2 DEF Sure
  <1> QED BY <1>4, <1>9, <1>12

\* The manifest that is built then is the whole one.
LEMMA AssembledWhole ==
    ASSUME TypeInv, LiveInv, ~WorkersDone, resCh = <<>>, ResClosed, NEW hash \in HashSeen
    PROVE  /\ Assembled(hash) = WholeManifest
           /\ \A i \in 1 .. Len(stream) : stream[i] \in stored \cup Foreign
  <1>1. /\ slicer = "done" /\ sliced = Len(stream) /\ Collected(stream, results)
        /\ \A i \in 1 .. Len(stream) : stream[i] \in stored \cup Foreign
    BY CollectedAll
  <1>2. stream \in Seq(Seq(Nat) \ {<<>>})
    BY QueueTypes
  <1>3. hash = stream
    <2>1. hash = SubSeq(stream, 1, Len(stream))
      BY <1>1 DEF HashSeen
    <2>2. SubSeq(stream, 1, Len(stream)) = stream
      BY <1>2
    <2> QED BY <2>1, <2>2
  <1>4. SortedByOffset(results) = ChunksOf(stream)
    BY <1>1, <1>2, SortedIsInOrder
  <1>5. TotalSize(ChunksOf(stream)) = Len(File)
    BY <1>2, TotalIsFileSize DEF File
  <1> QED BY <1>1, <1>3, <1>4, <1>5 DEF Assembled, WholeManifest

\* Every step keeps the manifest as it should be.
LEMMA MainStep ==
    ASSUME TypeInv, LiveInv, MainInv, [Next]_vars
    PROVE  MainInv'
  <1>0. stream' = stream
    BY StreamFixed
  <1>w. WholeManifest' = WholeManifest
    BY <1>0, DescsFixed DEF WholeManifest
  <1>g. ASSUME root' = root, stored \subseteq stored', RootGood
        PROVE  RootGood'
    BY <1>0, <1>w, <1>g DEF RootGood
  <1>f. ASSUME UNCHANGED <<main, root, outcome, manifests>>, stored \subseteq stored',
               parentDone => parentDone',
               main = "collect" /\ cancelled' => sliceErr' \/ firstErr',
               cancelled => cancelled', rival # "none" => rival' # "none"
        PROVE  MainInv'
    BY <1>f, <1>g DEF MainInv
  <1>1. CASE CallerCancels
    BY <1>1, <1>f DEF CallerCancels, slicerVars, mainVars, storeVars, MainInv
  <1>2. CASE SlicerNext
    BY <1>2, <1>f DEF SlicerNext, mainVars, storeVars, MainInv
  <1>3. CASE SlicerError
    BY <1>3, <1>f DEF SlicerError, mainVars, storeVars, MainInv
  <1>4. CASE SlicerSend
    BY <1>4, <1>f DEF SlicerSend, mainVars, storeVars, MainInv
  <1>5. CASE SlicerStop
    BY <1>5, <1>f DEF SlicerStop, mainVars, storeVars, MainInv
  <1>6. CASE Collect
    BY <1>6, <1>f DEF Collect, slicerVars, storeVars, MainInv
  <1>7. CASE CollectDone
    <2>0. UNCHANGED <<stored, manifests, parentDone>> /\ main = "collect" /\ manifests = {}
          /\ resCh = <<>> /\ ResClosed
      BY <1>7 DEF CollectDone, storeVars, MainInv
    <2>1. CASE sliceErr \/ firstErr
      <3>1. main' = "done" /\ outcome' = "error" /\ cancelled'
        BY <1>7, <2>1 DEF CollectDone, Return
      <3> QED BY <2>0, <3>1 DEF MainInv
    <2>2. CASE ~(sliceErr \/ firstErr)
      <3>1. main' = "assemble" /\ UNCHANGED <<outcome, cancelled>> /\ \E hash \in HashSeen : root' = Assembled(hash)
        BY <1>7, <2>2 DEF CollectDone
      <3>2. ~cancelled
        BY <2>0, <2>2 DEF MainInv
      <3>3. ~parentDone => RootGood'
        <4> SUFFICES ASSUME ~parentDone PROVE RootGood'
          OBVIOUS
        <4>1. ~WorkersDone
          BY <3>2 DEF WorkersDone
        <4>2. PICK hash \in HashSeen : root' = Assembled(hash)
          BY <3>1
        <4>3. /\ Assembled(hash) = WholeManifest
              /\ \A i \in 1 .. Len(stream) : stream[i] \in stored \cup Foreign
          BY <2>0, <4>1, AssembledWhole
        <4> QED BY <1>0, <1>w, <2>0, <4>2, <4>3 DEF RootGood
      <3>4. outcome' # "ok"
        BY <2>0, <3>1 DEF MainInv
      <3> QED BY <2>0, <3>1, <3>3, <3>4 DEF MainInv
    <2> QED BY <2>1, <2>2
  <1>8. CASE CommitStarts
    <2>0. UNCHANGED <<stored, manifests, parentDone, root>> /\ main = "assemble" /\ manifests = {}
      BY <1>8 DEF CommitStarts, storeVars, MainInv
    <2>1. CASE Len(root.chunks) > MaxManifest \/ parentDone
      <3>1. main' = "done" /\ outcome' = "error" /\ cancelled'
        BY <1>8, <2>1 DEF CommitStarts, Return
      <3> QED BY <2>0, <3>1 DEF MainInv
    <2>2. CASE ~(Len(root.chunks) > MaxManifest \/ parentDone)
      <3>1. main' = "commit" /\ UNCHANGED <<outcome, cancelled>>
        BY <1>8, <2>2 DEF CommitStarts
      <3>2. RootGood /\ outcome # "ok"
        BY <2>0, <2>2 DEF MainInv
      <3>3. RootGood'
        BY <2>0, <3>2, <1>g
      <3> QED BY <2>0, <3>1, <3>2, <3>3 DEF MainInv
    <2> QED BY <2>1, <2>2
  <1>9. CASE CommitEnds
    <2>0. UNCHANGED <<stored, root>> /\ main = "commit" /\ main' = "done" /\ cancelled'
          /\ outcome' \in {"ok", "error"}
      BY <1>9 DEF CommitEnds, Return, storeVars
    <2>1. RootGood' /\ manifests = {}
      BY <2>0, <1>g DEF MainInv
    <2>2. manifests' = {root} \/ (manifests' = manifests /\ (outcome' = "error" \/ rival' # "none"))
      BY <1>9 DEF CommitEnds, Return, storeVars
    <2> QED BY <2>0, <2>1, <2>2 DEF MainInv
  <1>10. ASSUME NEW w \in Workers, Worker(w)
         PROVE  MainInv'
    <2>1. UNCHANGED <<main, root, outcome, manifests, stored, parentDone, cancelled, sliceErr, firstErr, rival>>
      BY <1>10 DEF Worker, WorkerTake, WorkerEnds, PutStarts, PutCancelled, WorkerReports, WorkerFails,
                   slicerVars, mainVars, storeVars
    <2> QED BY <1>f, <2>1 DEF MainInv
  <1>11. ASSUME NEW x \in inFlight, HandlerEnds(x)
         PROVE  MainInv'
    <2>1. UNCHANGED <<main, root, outcome, manifests, parentDone, cancelled, sliceErr, firstErr, rival>>
          /\ stored \subseteq stored'
      BY <1>11 DEF HandlerEnds, slicerVars, mainVars
    <2> QED BY <1>f, <2>1 DEF MainInv
  <1>12. CASE RivalCommits \/ RivalEnds \/ UNCHANGED vars
    BY <1>12, <1>f, RivalApart DEF OnlyRival, slicerVars, mainVars, MainInv
  <1> QED BY <1>1, <1>2, <1>3, <1>4, <1>5, <1>6, <1>7, <1>8, <1>9, <1>10, <1>11, <1>12 DEF Next, Slicer, Main

\* The invariant holds at the start.
LEMMA InvInit ==
    ASSUME Init
    PROVE  CdcInv
  <1>1. stream \in Seq(Seq(Nat) \ {<<>>}) /\ Len(stream) \in Nat /\ ChanCap \in Nat
    BY CdcAssumption DEF Init
  <1>2. WorkTyped
    <2>1. [pc |-> "take", task |-> 0] \in WorkStates
      BY DEF WorkStates, Pcs
    <2>2. \A w \in Workers : work[w] = [pc |-> "take", task |-> 0]
      BY DEF Init
    <2>3. work \in [Workers -> WorkStates]
      BY <2>1 DEF Init
    <2> QED BY <2>2, <2>3 DEF Init, WorkTyped, Holding
  <1>3. \A S : <<>> \in Seq(S)
    OBVIOUS
  <1>4. Len(<<>>) = 0 /\ \A k \in 1 .. 0 : FALSE
    OBVIOUS
  <1>5. TypeInv
    <2>1. /\ taskCh \in Seq(Nat) /\ resCh \in Seq(ResultRecs) /\ results \in Seq(Descs)
          /\ Len(taskCh) = 0 /\ Len(resCh) = 0
      BY <1>3, <1>4, Zenon DEF Init
    <2>2. Len(taskCh) <= ChanCap /\ Len(resCh) <= ChanCap
      BY <1>1, <2>1
    <2>3. /\ \A k \in 1 .. Len(taskCh) : taskCh[k] \in 1 .. sliced
          /\ \A k \in 1 .. Len(resCh) : resCh[k].index \in 1 .. sliced
      BY <1>4, <2>1, Zenon
    <2>4. sliced \in 0 .. Len(stream) /\ slicer = "next" /\ stream \in Streams
      BY <1>1 DEF Init
    <2>5. main = "collect" /\ outcome = "none" /\ parentDone \in BOOLEAN /\ cancelled \in BOOLEAN
      BY DEF Init
    <2> QED BY <1>2, <2>1, <2>2, <2>3, <2>4, <2>5 DEF TypeInv
  <1>6. Taken = 0
    <2>1. Len(taskCh) = 0 /\ sliced = 0 /\ slicer = "next"
      BY <1>4, Zenon DEF Init
    <2> QED BY <2>1 DEF Taken, Issued
  <1>7. \A w \in Workers : work[w].pc = "take"
    BY DEF Init
  <1>8. \A i : ~Held(i) /\ ~Reported(i) /\ ~Gathered(i)
    BY <1>4, <1>7 DEF Init, Held, HeldBy, Holding, Reported, Gathered
  <1>9. QueueInOrder /\ OncePlaced /\ NoneLost
    BY <1>4, <1>6, <1>7, <1>8 DEF Init, QueueInOrder, OncePlaced, NoneLost, Held, HeldBy, Holding
  <1>10. StopsAtEnd /\ UploadsAwaited
    BY <1>4, <1>7 DEF Init, StopsAtEnd, UploadsAwaited, Trouble
  <1>11. MainInv
    BY DEF Init, MainInv
  <1> QED BY <1>5, <1>9, <1>10, <1>11 DEF CdcInv, LiveInv

\* The invariant is inductive.
LEMMA InvStep ==
    ASSUME CdcInv, [Next]_vars
    PROVE  CdcInv'
  <1>1. TypeInv /\ LiveInv /\ MainInv
    BY DEF CdcInv
  <1>2. TypeInv'
    BY <1>1, TypeStep
  <1>3. MainInv'
    BY <1>1, MainStep
  <1>4. ASSUME ~WorkersDone'
        PROVE  (QueueInOrder /\ OncePlaced /\ NoneLost /\ StopsAtEnd /\ UploadsAwaited)'
    <2>1. QueueInOrder /\ OncePlaced /\ NoneLost /\ StopsAtEnd /\ UploadsAwaited
      BY <1>1, <1>4, DoneStays DEF LiveInv
    <2>2. QueueInOrder' /\ OncePlaced' /\ NoneLost'
      BY <1>1, <1>4, <2>1, PlacesStep
    <2>3. StopsAtEnd'
      BY <1>1, <1>4, <2>1, StopsStep
    <2>4. UploadsAwaited'
      BY <1>1, <1>4, <2>1, UploadsStep
    <2> QED BY <2>2, <2>3, <2>4
  <1> QED BY <1>2, <1>3, <1>4 DEF CdcInv, LiveInv

\* The invariant holds in every reachable state.
LEMMA Invariance == Spec => []CdcInv
  <1>1. Init => CdcInv
    BY InvInit
  <1>2. CdcInv /\ [Next]_vars => CdcInv'
    BY InvStep
  <1> QED BY <1>1, <1>2, PTL DEF Spec
-----------------------------------------------------------------------------
(* The theorems.                                                           *)

\* A window of a sequence, byte by byte.
LEMMA WindowFacts ==
    ASSUME NEW f \in Seq(Nat), NEW a \in Nat, NEW l \in Nat \ {0}, a + l <= Len(f)
    PROVE  /\ SubSeq(f, a + 1, a + l) \in Seq(Nat) /\ Len(SubSeq(f, a + 1, a + l)) = l
           /\ \A k \in 1 .. l : SubSeq(f, a + 1, a + l)[k] = f[a + k]
  OBVIOUS

\* In every state of every upload the program counters and indices of PutCDC
\* are what they should be and neither channel holds more than its capacity.
THEOREM CdcTypeCorrect == Spec => []CdcTypeOK
  <1>1. CdcInv => CdcTypeOK
    <2> SUFFICES ASSUME TypeInv PROVE CdcTypeOK
      BY DEF CdcInv
    <2>1. \A w \in Workers : work[w] \in WorkStates /\ work[w].task \in 0 .. sliced
      BY DEF TypeInv, WorkTyped
    <2>2. \A w \in Workers : work[w].pc \in Pcs
      BY <2>1 DEF WorkStates
    <2> QED BY <2>1, <2>2 DEF TypeInv, CdcTypeOK, Pcs
  <1> QED BY <1>1, Invariance, PTL

\* A PutCDC that returns success has stored its manifest unless another call
\* had sent the same one, and a manifest that PutCDC stores lists every chunk of the stream once, in
\* order and at its offset, with the hash and the size of all of it, for every
\* stream, every number of workers, every capacity of the channels and every
\* moment at which an upload fails or the caller gives up.
THEOREM ManifestWhole == Spec => []ManifestIsWhole
  <1>1. CdcInv => ManifestIsWhole
    <2> SUFFICES ASSUME TypeInv, MainInv PROVE ManifestIsWhole
      BY DEF CdcInv
    <2>1. outcome = "ok" => manifests # {} \/ rival # "none"
      BY DEF MainInv
    <2> SUFFICES ASSUME NEW m \in manifests
                 PROVE  /\ m.total = Len(File)
                        /\ m.hash = stream
                        /\ Len(m.chunks) = Len(stream)
                        /\ \A i \in DOMAIN m.chunks :
                              LET d == m.chunks[i] IN
                              /\ d.fid = stream[i]
                              /\ Window(File, d.offset, d.offset + d.size) = stream[i]
                              /\ d.offset = IF i = 1 THEN 0 ELSE m.chunks[i - 1].offset + m.chunks[i - 1].size
      BY <2>1 DEF ManifestIsWhole
    <2> DEFINE o == OffsetsOf(stream)
               n == Len(stream)
               c == ChunksOf(stream)
    <2>2. m = WholeManifest
      BY DEF MainInv, RootGood
    <2>3. m.total = Len(File) /\ m.hash = stream /\ m.chunks = c
      BY <2>2 DEF WholeManifest
    <2>4. stream \in Seq(Seq(Nat) \ {<<>>}) /\ n \in Nat
      BY QueueTypes
    <2>5. /\ Len(c) = n /\ DOMAIN c = 1 .. n
          /\ \A i \in 1 .. n : c[i].fid = stream[i] /\ c[i].offset = o[i - 1] /\ c[i].size = Len(stream[i])
      BY <2>4 DEF ChunksOf
    <2>6. /\ o[0] = 0
          /\ \A i \in 1 .. n : /\ stream[i] \in Seq(Nat) /\ Len(stream[i]) \in Nat \ {0} /\ o[i - 1] \in Nat
                               /\ o[i] = o[i - 1] + Len(stream[i])
      BY <2>4, OffsetFacts
    <2>7. Laid(Nat, stream, n, File)
      BY <2>4, OffsetFacts, FlattenFacts DEF File
    <2>8. /\ File \in Seq(Nat) /\ Len(File) = o[n]
          /\ \A j \in 1 .. n : \A k \in 1 .. Len(stream[j]) :
                o[j - 1] + k \in 1 .. o[n] /\ File[o[j - 1] + k] = stream[j][k]
      BY <2>7, Zenon DEF Laid, OffsetsOf
    <2> HIDE DEF o, c
    <2>9. ASSUME NEW i \in 1 .. n
          PROVE  Window(File, o[i - 1], o[i - 1] + Len(stream[i])) = stream[i]
      <3> DEFINE a == o[i - 1]
                 l == Len(stream[i])
                 s == stream[i]
      <3>1. a \in Nat /\ l \in Nat \ {0} /\ s \in Seq(Nat) /\ Len(s) = l
        BY <2>6
      <3>2. \A k \in 1 .. l : a + k \in 1 .. Len(File) /\ File[a + k] = s[k]
        BY <2>8
      <3> HIDE DEF a, l, s
      <3>3. a + l <= Len(File) /\ Len(File) \in Nat
        <4>1. a + l \in 1 .. Len(File)
          BY <3>1, <3>2
        <4> QED BY <2>8, <4>1
      <3>4. SubSeq(File, a + 1, a + l) \in Seq(Nat) /\ Len(SubSeq(File, a + 1, a + l)) = l
            /\ \A k \in 1 .. l : SubSeq(File, a + 1, a + l)[k] = File[a + k]
        BY <2>8, <3>1, <3>3, WindowFacts
      <3>5. \A k \in 1 .. l : SubSeq(File, a + 1, a + l)[k] = s[k]
        BY <3>2, <3>4
      <3>6. SubSeq(File, a + 1, a + l) = s
        BY <3>1, <3>4, <3>5
      <3> QED BY <3>6 DEF Window, a, l, s
    <2>10. ASSUME NEW i \in 1 .. n
           PROVE  c[i].offset = IF i = 1 THEN 0 ELSE c[i - 1].offset + c[i - 1].size
      <3>1. CASE i = 1
        BY <3>1, <2>5, <2>6
      <3>2. CASE i # 1
        <4>1. i - 1 \in 1 .. n
          BY <2>4, <3>2
        <4> QED BY <3>2, <4>1, <2>5, <2>6
      <3> QED BY <3>1, <3>2
    <2> QED BY <2>3, <2>5, <2>9, <2>10
  <1> QED BY <1>1, Invariance, PTL

\* Whenever a manifest is in the store so is every chunk it lists, unless
\* another client was uploading that chunk: a chunk reported as a duplicate of
\* an upload of ours that then fails never gets into a manifest.
THEOREM ChunksPrecedeManifest == Spec => []ChunksBeforeManifest
  <1>1. CdcInv => ChunksBeforeManifest
    <2> SUFFICES ASSUME TypeInv, MainInv, NEW m \in manifests, NEW i \in DOMAIN m.chunks
                 PROVE  m.chunks[i].fid \in stored \cup Foreign
      BY DEF CdcInv, ChunksBeforeManifest
    <2>1. m = WholeManifest /\ \A j \in 1 .. Len(stream) : stream[j] \in stored \cup Foreign
      BY DEF MainInv, RootGood
    <2>2. m.chunks = ChunksOf(stream)
      BY <2>1 DEF WholeManifest
    <2>3. i \in 1 .. Len(stream) /\ m.chunks[i].fid = stream[i]
      BY <2>2 DEF ChunksOf
    <2> QED BY <2>1, <2>3
  <1> QED BY <1>1, Invariance, PTL

\* GetCDC of a stored manifest delivers exactly the bytes of any range that is
\* asked for, or an error; and an error only if a chunk is missing.
THEOREM EveryRangeReadsRight == Spec => []RangesReadRight
  <1>1. CdcInv => RangesReadRight
    <2> SUFFICES ASSUME TypeInv, MainInv, NEW m \in manifests, NEW start \in 0 .. Len(File) + 1,
                        NEW end \in 0 .. Len(File) + 1
                 PROVE  LET got  == GetCDC(m, [start |-> start, end |-> end])
                            stop == IF end = 0 \/ end > Len(File) THEN Len(File) ELSE end
                        IN  /\ got.ok => got.data = [k \in 1 .. (IF stop > start THEN stop - start ELSE 0)
                                                        |-> File[start + k]]
                            /\ ToSet(stream) \subseteq stored => got.ok
      BY DEF CdcInv, RangesReadRight
    <2> DEFINE got == GetCDC(m, [start |-> start, end |-> end])
               stop == Clamp(end, Len(File))
               c == ChunksOf(stream)
               n == Len(stream)
    <2>1. m = WholeManifest
      BY DEF MainInv, RootGood
    <2>2. m.total = Len(File) /\ m.chunks = c
      BY <2>1 DEF WholeManifest
    <2>3. stream \in Seq(Seq(Nat) \ {<<>>}) /\ n \in Nat
      BY QueueTypes
    <2>4. File \in Seq(Nat) /\ Len(File) \in Nat
      <3>1. Laid(Nat, stream, n, File)
        BY <2>3, OffsetFacts, FlattenFacts DEF File
      <3>2. File \in Seq(Nat)
        BY <3>1, Zenon DEF Laid
      <3> QED BY <3>2
    <2>5. start \in Nat /\ stop \in Nat /\ stop <= Len(File)
      BY <2>4 DEF Clamp
    <2>6. DOMAIN c = 1 .. n /\ \A i \in 1 .. n : c[i].fid = stream[i]
      BY <2>3 DEF ChunksOf
    <2>7. stop = IF end = 0 \/ end > Len(File) THEN Len(File) ELSE end
      BY DEF Clamp
    <2> HIDE DEF stop, c
    <2>8. CASE start >= stop
      <3>1. got = [ok |-> TRUE, data |-> <<>>]
        BY <2>2, <2>8 DEF GetCDC, stop
      <3>2. (IF stop > start THEN stop - start ELSE 0) = 0
        BY <2>5, <2>8
      <3>3. \A F : [k \in 1 .. 0 |-> F[start + k]] = <<>>
        OBVIOUS
      <3> QED BY <2>7, <3>1, <3>2, <3>3
    <2>9. CASE ~(start >= stop)
      <3>1. got = [ok   |-> \A i \in DOMAIN c : Overlaps(c[i], start, stop) => c[i].fid \in stored,
                   data |-> FlattenSeq([i \in DOMAIN c |-> Written(c[i], start, stop)])]
        BY <2>2, <2>9 DEF GetCDC, Written, stop
      <3>2. start < stop /\ (IF stop > start THEN stop - start ELSE 0) = stop - start
        BY <2>5, <2>9
      <3>3. FlattenSeq([i \in 1 .. n |-> Written(c[i], start, stop)])
              = [k \in 1 .. stop - start |-> File[start + k]]
        BY <2>3, <2>5, <3>2, RangeIsWindow DEF File, c
      <3>a. got.data = FlattenSeq([i \in DOMAIN c |-> Written(c[i], start, stop)])
        <4> DEFINE data == FlattenSeq([i \in DOMAIN c |-> Written(c[i], start, stop)])
        <4>1. got = [ok |-> \A i \in DOMAIN c : Overlaps(c[i], start, stop) => c[i].fid \in stored,
                     data |-> data]
          BY <3>1
        <4> HIDE DEF got, data
        <4> QED BY <4>1 DEF data
      <3>4. got.data = [k \in 1 .. stop - start |-> File[start + k]]
        <4> HIDE DEF got
        <4> QED BY <2>6, <3>a, <3>3, Zenon
      <3>5. ToSet(stream) \subseteq stored => got.ok
        <4>1. \A i \in 1 .. n : stream[i] \in ToSet(stream)
          BY <2>3 DEF ToSet
        <4> QED BY <2>6, <3>1, <4>1
      <3> QED BY <2>7, <3>2, <3>4, <3>5
    <2> QED BY <2>8, <2>9
  <1> QED BY <1>1, Invariance, PTL
=============================================================================
