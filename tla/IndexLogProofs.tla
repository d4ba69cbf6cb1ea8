---------------------------- MODULE IndexLogProofs ----------------------------
(***************************************************************************)
(* What a replay makes of an index, and that a compaction keeps it, for    *)
(* index images of any length.                                             *)
(***************************************************************************)
EXTENDS IndexLog, NatLemmas, NaturalsInduction, FiniteSetTheorems

Entries ==
    {ZeroEntry} \cup [kind : {"plain", "jump", "anchor", "tomb"}, fid : Fids, size : Nat]

Indexes == [1 .. IndexCap -> Entries]
-----------------------------------------------------------------------------
(* Sets of positions.                                                      *)

Below(S, n) == S \subseteq 1 .. n

Rank(S, i) == Cardinality({j \in S : j <= i})

\* The rank goes up by one at each member.
LEMMA RankStep ==
    ASSUME NEW n \in Nat, NEW S, Below(S, n)
    PROVE  /\ IsFiniteSet(S) /\ Cardinality(S) \in Nat
           /\ Rank(S, 0) = 0
           /\ \A i \in Nat : Rank(S, i) \in Nat
           /\ \A i \in Nat : Rank(S, i + 1) = IF i + 1 \in S THEN Rank(S, i) + 1 ELSE Rank(S, i)
           /\ \A i \in Nat : i >= n => Rank(S, i) = Cardinality(S)
  <1>0. \A j \in S : j \in Nat /\ 1 <= j /\ j <= n
    BY DEF Below
  <1>1. IsFiniteSet(1 .. n)
    BY FS_Interval
  <1>2. IsFiniteSet(S)
    BY <1>1, FS_Subset DEF Below
  <1>3. \A i \in Nat : {j \in S : j <= i} \in SUBSET S
    OBVIOUS
  <1>4. \A i \in Nat : IsFiniteSet({j \in S : j <= i})
    BY <1>2, <1>3, FS_Subset
  <1>5. Cardinality(S) \in Nat /\ \A i \in Nat : Rank(S, i) \in Nat
    <2>1. \A i \in Nat : Cardinality({j \in S : j <= i}) \in Nat
      BY <1>4, FS_CardinalityType
    <2>2. Cardinality(S) \in Nat
      BY <1>2, FS_CardinalityType
    <2> QED BY <2>1, <2>2, Zenon DEF Rank
  <1>6. {j \in S : j <= 0} = {}
    BY <1>0
  <1>7. Rank(S, 0) = 0
    BY <1>6, FS_EmptySet DEF Rank
  <1>8. ASSUME NEW i \in Nat
        PROVE  Rank(S, i + 1) = IF i + 1 \in S THEN Rank(S, i) + 1 ELSE Rank(S, i)
    <2>1. CASE i + 1 \in S
      <3> DEFINE A == {j \in S : j <= i}
                 B == {j \in S : j <= i + 1}
      <3>1. B = A \cup {i + 1}
        BY <2>1, <1>0
      <3>2. i + 1 \notin A /\ IsFiniteSet(A)
        BY <1>4
      <3>3. Rank(S, i) = Cardinality(A) /\ Rank(S, i + 1) = Cardinality(B)
        BY Zenon DEF Rank
      <3> HIDE DEF A, B
      <3>4. Cardinality(A \cup {i + 1}) = Cardinality(A) + 1
        BY <3>2, FS_AddElement
      <3> QED BY <2>1, <3>1, <3>3, <3>4
    <2>2. CASE i + 1 \notin S
      <3>1. {j \in S : j <= i + 1} = {j \in S : j <= i}
        BY <2>2, <1>0
      <3>2. Rank(S, i + 1) = Rank(S, i)
        BY <3>1, Zenon DEF Rank
      <3> QED BY <2>2, <3>2
    <2> QED BY <2>1, <2>2
  <1>9. ASSUME NEW i \in Nat, i >= n
        PROVE  Rank(S, i) = Cardinality(S)
    <2>1. {j \in S : j <= i} = S
      BY <1>9, <1>0
    <2> QED BY <2>1, Zenon DEF Rank
  <1> QED BY <1>2, <1>5, <1>7, <1>8, <1>9

\* And so it is strictly increasing on the members.
LEMMA RankMonotone ==
    ASSUME NEW n \in Nat, NEW S, Below(S, n), NEW i \in Nat, NEW k \in Nat, i <= k
    PROVE  /\ Rank(S, i) <= Rank(S, k)
           /\ i < k /\ k \in S => Rank(S, i) < Rank(S, k)
  <1> DEFINE T == {m \in Nat : Rank(S, i) <= Rank(S, i + m)}
  <1>r. \A x \in Nat : Rank(S, x) \in Nat
    BY RankStep
  <1>s. \A x \in Nat : Rank(S, x + 1) = IF x + 1 \in S THEN Rank(S, x) + 1 ELSE Rank(S, x)
    BY RankStep
  <1>1. 0 \in T
    <2>1. i + 0 = i
      OBVIOUS
    <2> QED BY <1>r, <2>1
  <1>2. \A m \in Nat : m \in T => m + 1 \in T
    <2> SUFFICES ASSUME NEW m \in Nat, Rank(S, i) <= Rank(S, i + m)
                 PROVE  Rank(S, i) <= Rank(S, i + (m + 1))
      OBVIOUS
    <2>1. i + m \in Nat /\ i + (m + 1) = (i + m) + 1
      OBVIOUS
    <2>2. Rank(S, (i + m) + 1) >= Rank(S, i + m)
      BY <1>r, <1>s, <2>1
    <2> QED BY <1>r, <2>1, <2>2
  <1> HIDE DEF T
  <1>3. Nat \subseteq T
    BY <1>1, <1>2, NatInSet
  <1>4. \A x \in Nat : i <= x => Rank(S, i) <= Rank(S, x)
    <2> SUFFICES ASSUME NEW x \in Nat, i <= x PROVE Rank(S, i) <= Rank(S, x)
      OBVIOUS
    <2>1. x - i \in Nat /\ i + (x - i) = x
      OBVIOUS
    <2>2. x - i \in T
      BY <1>3, <2>1
    <2>3. Rank(S, i) <= Rank(S, i + (x - i))
      BY <2>2 DEF T
    <2> QED BY <2>1, <2>3
  <1>5. ASSUME i < k, k \in S PROVE Rank(S, i) < Rank(S, k)
    <2>1. k - 1 \in Nat /\ i <= k - 1 /\ (k - 1) + 1 = k
      BY <1>5
    <2>2. Rank(S, k) = Rank(S, k - 1) + 1
      BY <1>5, <1>s, <2>1
    <2>3. Rank(S, i) <= Rank(S, k - 1)
      BY <1>4, <2>1
    <2> QED BY <1>r, <2>1, <2>2, <2>3
  <1> QED BY <1>4, <1>5

\* Nth finds the member of a rank.
LEMMA NthFacts ==
    ASSUME NEW n \in Nat, NEW S, Below(S, n)
    PROVE  /\ \A k \in 1 .. Cardinality(S) : Nth(S, k) \in S /\ Rank(S, Nth(S, k)) = k
           /\ \A i \in S : Rank(S, i) \in 1 .. Cardinality(S) /\ Nth(S, Rank(S, i)) = i
  <1>r. Cardinality(S) \in Nat /\ Rank(S, 0) = 0 /\ \A x \in Nat : Rank(S, x) \in Nat
    BY RankStep
  <1>s. \A x \in Nat : Rank(S, x + 1) = IF x + 1 \in S THEN Rank(S, x) + 1 ELSE Rank(S, x)
    BY RankStep
  <1>n. Rank(S, n) = Cardinality(S)
    BY RankStep
  <1>0. \A j \in S : j \in Nat /\ 1 <= j /\ j <= n
    BY DEF Below
  <1>u. \A i, j \in S : Rank(S, i) = Rank(S, j) => i = j
    <2> SUFFICES ASSUME NEW i \in S, NEW j \in S, i < j PROVE Rank(S, i) < Rank(S, j)
      BY <1>r, <1>0
    <2>1. i \in Nat /\ j \in Nat /\ i <= j
      BY <1>0
    <2> QED BY <2>1, RankMonotone
  <1>1. ASSUME NEW k \in 1 .. Cardinality(S)
        PROVE  \E i \in S : Rank(S, i) = k
    <2> DEFINE T == {x \in Nat : Rank(S, x) >= k}
    <2>1. n \in T
      BY <1>n, <1>r
    <2>2. PICK x \in T : \A y \in T : x <= y
      <3>1. T \in SUBSET Nat /\ T # {}
        BY <2>1
      <3> HIDE DEF T
      <3> QED BY <3>1, NatMin
    <2>3. x \in Nat /\ Rank(S, x) >= k
      BY <2>2
    <2>4. x # 0
      BY <1>r, <2>3
    <2>5. x - 1 \in Nat /\ (x - 1) + 1 = x
      BY <2>3, <2>4
    <2>6. ~(Rank(S, x - 1) >= k)
      BY <2>2, <2>5
    <2>7. Rank(S, x) = IF x \in S THEN Rank(S, x - 1) + 1 ELSE Rank(S, x - 1)
      BY <1>s, <2>5
    <2>8. Rank(S, x) \in Nat /\ Rank(S, x - 1) \in Nat
      BY <1>r, <2>5, <2>3
    <2>9. x \in S /\ Rank(S, x) = k
      BY <2>3, <2>6, <2>7, <2>8
    <2> QED BY <2>9
  <1>2. \A k \in 1 .. Cardinality(S) : Nth(S, k) \in S /\ Rank(S, Nth(S, k)) = k
    BY <1>1 DEF Nth, Rank
  <1>3. ASSUME NEW i \in S
        PROVE  Rank(S, i) \in 1 .. Cardinality(S)
    <2>1. i \in Nat /\ i <= n /\ 0 <= i /\ 0 < i
      BY <1>0
    <2>2. Rank(S, 0) < Rank(S, i)
      BY <2>1, RankMonotone
    <2>3. Rank(S, i) <= Rank(S, n)
      BY <2>1, RankMonotone
    <2> QED BY <1>r, <1>n, <2>1, <2>2, <2>3
  <1>4. ASSUME NEW i \in S
        PROVE  Nth(S, Rank(S, i)) = i
    BY <1>2, <1>3, <1>u
  <1> QED BY <1>2, <1>3, <1>4

-----------------------------------------------------------------------------
(* Where an index ends.                                                    *)

\* n entries are in use.
EndsAt(ix, n) ==
    /\ n \in 0 .. IndexCap
    /\ \A i \in 1 .. n : ix[i] # ZeroEntry
    /\ n < IndexCap => ix[n + 1] = ZeroEntry

\* An index ends in one place, the one that FindIndexEnd finds.
LEMMA EndFacts ==
    ASSUME NEW ix
    PROVE  EndsAt(ix, End(ix)) /\ \A n : EndsAt(ix, n) => n = End(ix)
  <1> DEFINE T == {n \in Nat : n < IndexCap => ix[n + 1] = ZeroEntry}
  <1>0. IndexCap \in Nat
    BY IndexAssumption
  <1>1. PICK x \in T : \A y \in T : x <= y
    <2>1. IndexCap \in T /\ T \in SUBSET Nat
      BY <1>0
    <2> HIDE DEF T
    <2> QED BY <2>1, NatMin
  <1>2. x \in Nat /\ x <= IndexCap /\ (x < IndexCap => ix[x + 1] = ZeroEntry)
    BY <1>0, <1>1
  <1>3. \A i \in 1 .. x : ix[i] # ZeroEntry
    <2> SUFFICES ASSUME NEW i \in 1 .. x, ix[i] = ZeroEntry PROVE FALSE
      OBVIOUS
    <2>1. i - 1 \in Nat /\ (i - 1) + 1 = i /\ ~(x <= i - 1)
      BY <1>2
    <2>2. i - 1 \in T
      BY <2>1
    <2> QED BY <1>1, <2>1, <2>2
  <1>4. EndsAt(ix, x)
    BY <1>0, <1>2, <1>3 DEF EndsAt
  <1>5. \A n : n \in 0 .. IndexCap /\ (\A i \in 1 .. n : ix[i] # ZeroEntry)
                 /\ (n < IndexCap => ix[n + 1] = ZeroEntry) <=> EndsAt(ix, n)
    BY DEF EndsAt
  <1>6. EndsAt(ix, End(ix))
    BY <1>4 DEF End, EndsAt
  <1>7. ASSUME NEW n, NEW m, EndsAt(ix, n), EndsAt(ix, m), n < m PROVE FALSE
    <2>1. n \in Nat /\ m \in Nat /\ m <= IndexCap /\ n + 1 \in 1 .. m /\ n < IndexCap
      BY <1>0, <1>7 DEF EndsAt
    <2> QED BY <1>7, <2>1 DEF EndsAt
  <1>8. ASSUME NEW n, EndsAt(ix, n) PROVE n = End(ix)
    <2>1. n \in Nat /\ End(ix) \in Nat
      BY <1>0, <1>6, <1>8 DEF EndsAt
    <2>2. ~(n < End(ix)) /\ ~(End(ix) < n)
      BY <1>6, <1>7, <1>8
    <2> QED BY <2>1, <2>2
  <1> QED BY <1>6, <1>8
-----------------------------------------------------------------------------
(* The loop of replayIndex, entry by entry.                                *)

\* What the first i entries make.
Fold(d, ix) ==
    LET r[i \in Nat] == IF i = 0 THEN ReplayStart ELSE ReplayEntry(d, r[i - 1], ix[i])
    IN  r

\* Fold obeys its recursion equation.
LEMMA FoldDef ==
    ASSUME NEW d, NEW ix
    PROVE  /\ Fold(d, ix)[0] = ReplayStart
           /\ \A i \in Nat : Fold(d, ix)[i + 1] = ReplayEntry(d, Fold(d, ix)[i], ix[i + 1])
  <1> DEFINE Turn(v, i) == ReplayEntry(d, v, ix[i])
             f == Fold(d, ix)
  <1>1. NatInductiveDefHypothesis(f, ReplayStart, Turn)
    BY Zenon DEF NatInductiveDefHypothesis, Fold
  <1> HIDE DEF f
  <1>2. NatInductiveDefConclusion(f, ReplayStart, Turn)
    BY <1>1, NatInductiveDef
  <1>3. f = [i \in Nat |-> IF i = 0 THEN ReplayStart ELSE Turn(f[i - 1], i)]
    BY <1>2 DEF NatInductiveDefConclusion
  <1> HIDE DEF Turn
  <1>4. f[0] = ReplayStart /\ \A i \in Nat : f[i + 1] = Turn(f[i], i + 1)
    <2>1. f[0] = ReplayStart
      BY <1>3
    <2>2. ASSUME NEW i \in Nat PROVE f[i + 1] = Turn(f[i], i + 1)
      <3>1. i + 1 \in Nat /\ i + 1 # 0 /\ (i + 1) - 1 = i
        OBVIOUS
      <3>2. f[i + 1] = Turn(f[(i + 1) - 1], i + 1)
        BY <1>3, <3>1
      <3> QED BY <3>1, <3>2
    <2> QED BY <2>1, <2>2
  <1> QED BY <1>4, Zenon DEF f, Turn

\* The loop ends with what the entries in use make.
LEMMA ScanIsFold ==
    ASSUME NEW d, NEW ix
    PROVE  Scan(d, ix) = Fold(d, ix)[End(ix)]
  <1> DEFINE n == End(ix)
             Turn(v, i) == Once(LAMBDA q : ReplayEntry(d, q, ix[i]), v)
             g == CHOOSE r : r = [i \in 0 .. n |-> IF i = 0 THEN ReplayStart ELSE Turn(r[i - 1], i)]
             f == Fold(d, ix)
  <1>0. n \in Nat /\ 0 \in Nat
    BY EndFacts, IndexAssumption DEF EndsAt
  <1>1. Scan(d, ix) = g[n]
    BY Zenon DEF Scan
  <1>2. FiniteNatInductiveDefHypothesis(g, ReplayStart, Turn, 0, n)
    BY Zenon DEF FiniteNatInductiveDefHypothesis
  <1> HIDE DEF g, n
  <1>3. FiniteNatInductiveDefConclusion(g, ReplayStart, Turn, 0, n)
    BY <1>0, <1>2, FiniteNatInductiveDef
  <1>4. g = [i \in 0 .. n |-> IF i = 0 THEN ReplayStart ELSE Turn(g[i - 1], i)]
    BY <1>3, Zenon DEF FiniteNatInductiveDefConclusion
  <1> DEFINE T == {i \in Nat : i <= n => g[i] = f[i]}
  <1>5. \A v, i : Turn(v, i) = ReplayEntry(d, v, ix[i])
    BY Zenon DEF Once
  <1>6. f[0] = ReplayStart /\ \A i \in Nat : f[i + 1] = ReplayEntry(d, f[i], ix[i + 1])
    BY FoldDef, Zenon
  <1> HIDE DEF Turn, f
  <1>7. 0 \in T
    BY <1>0, <1>4, <1>6
  <1>8. \A i \in Nat : i \in T => i + 1 \in T
    <2> SUFFICES ASSUME NEW i \in Nat, i \in T, i + 1 <= n PROVE g[i + 1] = f[i + 1]
      OBVIOUS
    <2>1. i + 1 \in 0 .. n /\ i + 1 # 0 /\ (i + 1) - 1 = i /\ i <= n
      BY <1>0
    <2>2. g[i + 1] = Turn(g[i], i + 1)
      BY <1>4, <2>1
    <2>3. g[i] = f[i]
      BY <2>1
    <2> QED BY <1>5, <1>6, <2>2, <2>3
  <1> HIDE DEF T
  <1>9. n \in T
    BY <1>0, <1>7, <1>8, NatInSet
  <1>10. g[n] = f[n]
    BY <1>0, <1>9 DEF T
  <1> QED BY <1>1, <1>10 DEF f, n

\* Entries behind position n have no say in what the first n make.
LEMMA FoldPrefix ==
    ASSUME NEW d, NEW ix, NEW iy, NEW n \in Nat, \A i \in 1 .. n : ix[i] = iy[i]
    PROVE  \A i \in 0 .. n : Fold(d, ix)[i] = Fold(d, iy)[i]
  <1> DEFINE f == Fold(d, ix)
             g == Fold(d, iy)
             T == {i \in Nat : i <= n => f[i] = g[i]}
  <1>1. f[0] = ReplayStart /\ \A i \in Nat : f[i + 1] = ReplayEntry(d, f[i], ix[i + 1])
    BY FoldDef, Zenon
  <1>2. g[0] = ReplayStart /\ \A i \in Nat : g[i + 1] = ReplayEntry(d, g[i], iy[i + 1])
    BY FoldDef, Zenon
  <1> HIDE DEF f, g
  <1>3. 0 \in T
    BY <1>1, <1>2
  <1>4. \A i \in Nat : i \in T => i + 1 \in T
    <2> SUFFICES ASSUME NEW i \in Nat, i \in T, i + 1 <= n PROVE f[i + 1] = g[i + 1]
      OBVIOUS
    <2>1. i + 1 \in 1 .. n /\ i <= n
      OBVIOUS
    <2>2. f[i] = g[i] /\ ix[i + 1] = iy[i + 1]
      BY <2>1
    <2> QED BY <1>1, <1>2, <2>2
  <1> HIDE DEF T
  <1>5. \A i \in Nat : i \in T
    BY <1>3, <1>4, NatInSet
  <1> QED BY <1>5 DEF T, f, g

-----------------------------------------------------------------------------
(* One entry.                                                              *)

ObjectRefs == [fid : Nat, storedSize : Nat, size : Nat, offset : Nat, packed : BOOLEAN]

ReplayStates ==
    [refs : [Fids -> ObjectRefs], exts : SUBSET [fid : Fids, iv : Intervals],
     alias : Fids \cup {0}, anchor : BOOLEAN, tables : Seq(Fids), ok : BOOLEAN]

\* A pair is open.
Mid(r) == r.alias # 0 \/ r.anchor

ExtentFor(d, e) == [fid |-> e.fid, iv |-> Extent(d, e.fid, e.size)]

\* s is r but for these fields.
Same(r, s, refs, exts, alias, anchor, tables) ==
    /\ s \in ReplayStates /\ s.ok = r.ok
    /\ s.refs = refs /\ s.exts = exts /\ s.alias = alias /\ s.anchor = anchor /\ s.tables = tables

\* What an entry that is not zero has in it.
LEMMA EntryFacts ==
    ASSUME NEW e \in Entries
    PROVE  /\ e # ZeroEntry <=> e.kind # "zero"
           /\ e.kind # "zero" => /\ e.fid \in Fids /\ e.fid \in Nat /\ e.fid # 0 /\ e.size \in Nat
                                /\ e.kind \in {"plain", "jump", "anchor", "tomb"}
  <1>1. ZeroEntry.kind = "zero"
    BY DEF ZeroEntry, Entry
  <1>2. CASE e = ZeroEntry
    BY <1>1, <1>2
  <1>3. CASE e \in [kind : {"plain", "jump", "anchor", "tomb"}, fid : Fids, size : Nat]
    <2>1. e.kind \in {"plain", "jump", "anchor", "tomb"} /\ e.fid \in Fids /\ e.size \in Nat
      BY <1>3
    <2>2. e.fid \in Nat /\ e.fid # 0
      BY <2>1, IndexAssumption
    <2> QED BY <1>1, <2>1, <2>2
  <1> QED BY <1>2, <1>3 DEF Entries

\* An extent that AddrForFID grants lies on the grid.
LEMMA ExtentFacts ==
    ASSUME NEW d \in Disks, NEW fid \in Nat, NEW size \in Nat, AddrOK(d, fid, size)
    PROVE  /\ size # 0
           /\ Extent(d, fid, size) \in Intervals
           /\ Extent(d, fid, size).start <= Extent(d, fid, size).end
           /\ Extent(d, fid, size).end < Slots[d]
  <1>1. SlotSize \in Nat \ {0} /\ Slots[d] \in Nat \ {0}
    BY IndexAssumption
  <1>2. SlotsNeeded(size) \in Nat \ {0}
    <2>1. (size + SlotSize - 1) \div SlotSize \in Nat
      BY <1>1
    <2> QED BY <2>1 DEF AddrOK, SlotsNeeded
  <1>3. SlotsNeeded(size) <= Slots[d]
    BY DEF AddrOK
  <1>4. SlotIndex(d, fid, size) \in Nat
    <2>1. Slots[d] - SlotsNeeded(size) + 1 \in Nat \ {0}
      BY <1>1, <1>2, <1>3
    <2>2. \A n \in Nat \ {0} : fid % n \in Nat
      OBVIOUS
    <2> QED BY <2>1, <2>2 DEF SlotIndex
  <1>5. SlotIndex(d, fid, size) + SlotsNeeded(size) <= Slots[d]
    BY DEF AddrOK
  <1>6. size # 0
    <2> SUFFICES ASSUME size = 0 PROVE FALSE
      OBVIOUS
    <2>1. (0 + SlotSize - 1) \div SlotSize = 0
      BY <1>1
    <2> QED BY <1>2, <2>1 DEF SlotsNeeded
  <1>7. Extent(d, fid, size) = [start |-> SlotIndex(d, fid, size),
                                end |-> SlotIndex(d, fid, size) + SlotsNeeded(size) - 1]
    BY DEF Extent
  <1>8. /\ Extent(d, fid, size).start = SlotIndex(d, fid, size)
        /\ Extent(d, fid, size).end = SlotIndex(d, fid, size) + SlotsNeeded(size) - 1
    BY <1>7
  <1>9. Extent(d, fid, size) \in Intervals
    BY <1>2, <1>4, <1>7 DEF Intervals
  <1> QED BY <1>1, <1>2, <1>4, <1>5, <1>6, <1>8, <1>9

\* References that an entry makes.
LEMMA RefTypes ==
    ASSUME NEW f \in Nat, NEW s \in Nat
    PROVE  /\ Own(f, s) \in ObjectRefs /\ NoRef \in ObjectRefs
           /\ s # 0 => AliasOf(f, s) \in ObjectRefs
           /\ f # 0 => Own(f, s) # NoRef /\ AliasOf(f, s) # NoRef
           /\ Own(f, s) = [fid |-> f, storedSize |-> s, size |-> s, offset |-> 0, packed |-> FALSE]
           /\ AliasOf(f, s) = [fid |-> f, storedSize |-> s, size |-> s - 1, offset |-> 0,
                               packed |-> FALSE]
  <1>1. Own(f, s) = [fid |-> f, storedSize |-> s, size |-> s, offset |-> 0, packed |-> FALSE]
    BY DEF Own
  <1>2. AliasOf(f, s) = [fid |-> f, storedSize |-> s, size |-> s - 1, offset |-> 0,
                         packed |-> FALSE]
    <2>1. AliasOf(f, s) = [Own(f, s) EXCEPT !.size = s - 1]
      BY DEF AliasOf
    <2>2. \A v, a, b : [[fid |-> f, storedSize |-> s, size |-> s, offset |-> a, packed |-> b]
                            EXCEPT !.size = v]
                         = [fid |-> f, storedSize |-> s, size |-> v, offset |-> a, packed |-> b]
      OBVIOUS
    <2> QED BY <1>1, <2>1, <2>2, Zenon
  <1>3. Own(f, s) \in ObjectRefs
    BY <1>1 DEF ObjectRefs
  <1>4. NoRef = [fid |-> 0, storedSize |-> 0, size |-> 0, offset |-> 0, packed |-> FALSE]
    BY DEF NoRef, Own
  <1>5. NoRef \in ObjectRefs
    BY <1>4 DEF ObjectRefs
  <1>6. s # 0 => AliasOf(f, s) \in ObjectRefs
    <2>1. s # 0 => s - 1 \in Nat
      OBVIOUS
    <2> QED BY <1>2, <2>1 DEF ObjectRefs
  <1>7. f # 0 => Own(f, s) # NoRef /\ AliasOf(f, s) # NoRef
    <2>1. Own(f, s).fid = f /\ AliasOf(f, s).fid = f /\ NoRef.fid = 0
      BY <1>1, <1>2, <1>4
    <2> QED BY <2>1
  <1> QED BY <1>1, <1>2, <1>3, <1>5, <1>6, <1>7

\* A plain entry on its own, or the second of an alias pair.
LEMMA ApplyPlain ==
    ASSUME NEW d \in Disks, NEW r \in ReplayStates, NEW e \in Entries, e.kind = "plain", ~r.anchor,
           Accepts(d, r, e)
    PROVE  Same(r, Apply(d, r, e),
                [f \in Fids |-> IF f = r.alias THEN AliasOf(e.fid, e.size)
                                ELSE IF f = e.fid THEN Own(e.fid, e.size) ELSE r.refs[f]],
                {x \in r.exts : x.fid # e.fid} \cup {ExtentFor(d, e)},
                0, FALSE, r.tables)
  <1>1. e.fid \in Fids /\ e.size \in Nat /\ e.fid \in Nat
    BY EntryFacts
  <1>2. AddrOK(d, e.fid, e.size)
    BY DEF Accepts
  <1>3. e.size # 0 /\ ExtentFor(d, e) \in [fid : Fids, iv : Intervals]
    BY <1>1, <1>2, ExtentFacts DEF ExtentFor
  <1>4. AliasOf(e.fid, e.size) \in ObjectRefs /\ Own(e.fid, e.size) \in ObjectRefs
    BY <1>1, <1>3, RefTypes
  <1>5. r.refs \in [Fids -> ObjectRefs] /\ r.exts \in SUBSET [fid : Fids, iv : Intervals]
        /\ r.anchor \in BOOLEAN
    BY DEF ReplayStates
  <1> DEFINE own == [r.refs EXCEPT ![e.fid] = Own(e.fid, e.size)]
             refs == [f \in Fids |-> IF f = r.alias THEN AliasOf(e.fid, e.size) ELSE own[f]]
             exts == {x \in r.exts : x.fid # e.fid} \cup {ExtentFor(d, e)}
  <1>6. Apply(d, r, e) = [r EXCEPT !.refs = refs, !.exts = exts, !.alias = 0]
    BY DEF Apply, ExtentFor
  <1>7. refs = [f \in Fids |-> IF f = r.alias THEN AliasOf(e.fid, e.size)
                               ELSE IF f = e.fid THEN Own(e.fid, e.size) ELSE r.refs[f]]
    BY <1>1, <1>5
  <1>8. refs \in [Fids -> ObjectRefs]
    BY <1>4, <1>5, <1>7
  <1>9. exts \in SUBSET [fid : Fids, iv : Intervals]
    BY <1>3, <1>5
  <1>10. r.anchor = FALSE
    BY <1>5
  <1> HIDE DEF refs, exts
  <1>11. Same(r, Apply(d, r, e), refs, exts, 0, FALSE, r.tables)
    BY <1>6, <1>8, <1>9, <1>10 DEF Same, ReplayStates
  <1> QED BY <1>7, <1>11 DEF exts

\* The second entry of an anchor.
LEMMA ApplyTable ==
    ASSUME NEW d \in Disks, NEW r \in ReplayStates, NEW e \in Entries, e.kind = "plain", r.anchor,
           Accepts(d, r, e)
    PROVE  Same(r, Apply(d, r, e),
                [f \in Fids |-> IF f = e.fid THEN Own(e.fid, e.size) ELSE r.refs[f]],
                {x \in r.exts : x.fid # e.fid} \cup {ExtentFor(d, e)},
                r.alias, FALSE, Append(r.tables, e.fid))
  <1>1. e.fid \in Fids /\ e.size \in Nat /\ e.fid \in Nat
    BY EntryFacts
  <1>2. AddrOK(d, e.fid, e.size)
    BY DEF Accepts
  <1>3. ExtentFor(d, e) \in [fid : Fids, iv : Intervals]
    BY <1>1, <1>2, ExtentFacts DEF ExtentFor
  <1>4. Own(e.fid, e.size) \in ObjectRefs
    BY <1>1, RefTypes
  <1>5. r.refs \in [Fids -> ObjectRefs] /\ r.exts \in SUBSET [fid : Fids, iv : Intervals]
        /\ r.anchor \in BOOLEAN /\ r.tables \in Seq(Fids)
    BY DEF ReplayStates
  <1> DEFINE refs == [r.refs EXCEPT ![e.fid] = Own(e.fid, e.size)]
             exts == {x \in r.exts : x.fid # e.fid} \cup {ExtentFor(d, e)}
             tables == Append(r.tables, e.fid)
  <1>6. Apply(d, r, e) = [r EXCEPT !.refs = refs, !.exts = exts, !.anchor = FALSE, !.tables = tables]
    BY DEF Apply, ExtentFor
  <1>7. refs = [f \in Fids |-> IF f = e.fid THEN Own(e.fid, e.size) ELSE r.refs[f]]
    BY <1>1, <1>5
  <1>8. refs \in [Fids -> ObjectRefs]
    BY <1>4, <1>5, <1>7
  <1>9. exts \in SUBSET [fid : Fids, iv : Intervals]
    BY <1>3, <1>5
  <1>10. tables \in Seq(Fids)
    BY <1>1, <1>5
  <1> HIDE DEF refs, exts, tables
  <1>11. Same(r, Apply(d, r, e), refs, exts, r.alias, FALSE, tables)
    BY <1>6, <1>8, <1>9, <1>10 DEF Same, ReplayStates
  <1> QED BY <1>7, <1>11 DEF exts, tables

\* The first entry of a pair, and a tombstone.
LEMMA ApplyOther ==
    ASSUME NEW d \in Disks, NEW r \in ReplayStates, NEW e \in Entries
    PROVE  /\ e.kind = "jump" =>
                Same(r, Apply(d, r, e), r.refs, r.exts, e.fid, r.anchor, r.tables)
           /\ e.kind = "anchor" =>
                Same(r, Apply(d, r, e), r.refs, r.exts, r.alias, TRUE, r.tables)
           /\ e.kind = "tomb" =>
                Same(r, Apply(d, r, e),
                     [f \in Fids |-> IF f = e.fid THEN NoRef ELSE r.refs[f]],
                     {x \in r.exts : x.fid # e.fid}, r.alias, r.anchor, r.tables)
  <1>1. e.kind \in {"jump", "anchor", "tomb"} => e.fid \in Fids
    BY EntryFacts
  <1>2. ASSUME e.kind = "jump"
        PROVE  Same(r, Apply(d, r, e), r.refs, r.exts, e.fid, r.anchor, r.tables)
    <2>1. Apply(d, r, e) = [r EXCEPT !.alias = e.fid]
      BY <1>2 DEF Apply
    <2> QED BY <1>1, <1>2, <2>1 DEF Same, ReplayStates
  <1>3. ASSUME e.kind = "anchor"
        PROVE  Same(r, Apply(d, r, e), r.refs, r.exts, r.alias, TRUE, r.tables)
    <2>1. Apply(d, r, e) = [r EXCEPT !.anchor = TRUE]
      BY <1>3 DEF Apply
    <2> QED BY <1>1, <1>3, <2>1 DEF Same, ReplayStates
  <1>4. ASSUME e.kind = "tomb"
        PROVE  Same(r, Apply(d, r, e),
                     [f \in Fids |-> IF f = e.fid THEN NoRef ELSE r.refs[f]],
                     {x \in r.exts : x.fid # e.fid}, r.alias, r.anchor, r.tables)
    <2> DEFINE refs == [r.refs EXCEPT ![e.fid] = NoRef]
               exts == {x \in r.exts : x.fid # e.fid}
    <2>1. Apply(d, r, e) = [r EXCEPT !.refs = refs, !.exts = exts]
      BY <1>4 DEF Apply
    <2>2. r.refs \in [Fids -> ObjectRefs] /\ r.exts \in SUBSET [fid : Fids, iv : Intervals]
      BY DEF ReplayStates
    <2>3. NoRef \in ObjectRefs
      BY RefTypes
    <2>4. refs = [f \in Fids |-> IF f = e.fid THEN NoRef ELSE r.refs[f]] /\ refs \in [Fids -> ObjectRefs]
      BY <2>2, <2>3
    <2>5. exts \in SUBSET [fid : Fids, iv : Intervals]
      BY <2>2
    <2> HIDE DEF refs, exts
    <2>6. Same(r, Apply(d, r, e), refs, exts, r.alias, r.anchor, r.tables)
      BY <2>1, <2>4, <2>5 DEF Same, ReplayStates
    <2> QED BY <2>4, <2>6 DEF exts
  <1> QED BY <1>2, <1>3, <1>4

\* A turn of the loop keeps the types, and fails when the entry is refused.
LEMMA StepFacts ==
    ASSUME NEW d \in Disks, NEW r \in ReplayStates, NEW e \in Entries, e # ZeroEntry
    PROVE  /\ ReplayEntry(d, r, e) \in ReplayStates
           /\ ReplayEntry(d, r, e).ok =>
                /\ r.ok /\ Accepts(d, r, e) /\ ReplayEntry(d, r, e) = Apply(d, r, e)
  <1>0. e.kind \in {"plain", "jump", "anchor", "tomb"}
    BY EntryFacts
  <1>1. CASE r.ok /\ Accepts(d, r, e)
    <2>1. ReplayEntry(d, r, e) = Apply(d, r, e)
      BY <1>1, Zenon DEF ReplayEntry
    <2>2. Apply(d, r, e) \in ReplayStates
      <3>1. CASE e.kind = "plain" /\ r.anchor
        BY <1>1, <3>1, ApplyTable DEF Same
      <3>2. CASE e.kind = "plain" /\ ~r.anchor
        BY <1>1, <3>2, ApplyPlain DEF Same
      <3>3. CASE e.kind # "plain"
        BY <1>0, <3>3, ApplyOther DEF Same
      <3> QED BY <3>1, <3>2, <3>3
    <2> QED BY <1>1, <2>1, <2>2
  <1>2. CASE ~(r.ok /\ Accepts(d, r, e))
    <2>1. ReplayEntry(d, r, e) = [r EXCEPT !.ok = FALSE]
      BY <1>2, Zenon DEF ReplayEntry
    <2>2. ReplayEntry(d, r, e) \in ReplayStates /\ ~ReplayEntry(d, r, e).ok
      BY <2>1 DEF ReplayStates
    <2> QED BY <2>2
  <1> QED BY <1>1, <1>2

\* The start of a replay.
LEMMA StartFacts ==
    /\ ReplayStart \in ReplayStates /\ ReplayStart.ok /\ ~Mid(ReplayStart)
    /\ ReplayStart.refs = [f \in Fids |-> NoRef] /\ ReplayStart.exts = {}
    /\ ReplayStart.tables = <<>>
  <1>1. NoRef \in ObjectRefs
    BY RefTypes
  <1>2. [f \in Fids |-> NoRef] \in [Fids -> ObjectRefs] /\ <<>> \in Seq(Fids)
    BY <1>1
  <1> QED BY <1>2 DEF ReplayStart, ReplayStates, Mid

\* The states of a replay have their types.
LEMMA FoldType ==
    ASSUME NEW d \in Disks, NEW ix \in Indexes, NEW n \in Nat, n <= End(ix)
    PROVE  \A i \in 0 .. n : Fold(d, ix)[i] \in ReplayStates
  <1> DEFINE f == Fold(d, ix)
             T == {i \in Nat : i <= n => f[i] \in ReplayStates}
  <1>0. /\ End(ix) \in Nat /\ End(ix) <= IndexCap /\ IndexCap \in Nat
        /\ \A i \in 1 .. End(ix) : ix[i] # ZeroEntry
    BY EndFacts, IndexAssumption DEF EndsAt
  <1>1. f[0] = ReplayStart /\ \A i \in Nat : f[i + 1] = ReplayEntry(d, f[i], ix[i + 1])
    BY FoldDef, Zenon
  <1> HIDE DEF f
  <1>2. 0 \in T
    BY <1>1, StartFacts
  <1>3. \A i \in Nat : i \in T => i + 1 \in T
    <2> SUFFICES ASSUME NEW i \in Nat, i \in T, i + 1 <= n PROVE f[i + 1] \in ReplayStates
      OBVIOUS
    <2>1. f[i] \in ReplayStates
      OBVIOUS
    <2>2. i + 1 \in 1 .. End(ix) /\ i + 1 \in 1 .. IndexCap
      BY <1>0
    <2>3. ix[i + 1] \in Entries /\ ix[i + 1] # ZeroEntry
      BY <1>0, <2>2 DEF Indexes
    <2> QED BY <1>1, <2>1, <2>3, StepFacts
  <1> HIDE DEF T
  <1>4. \A i \in Nat : i \in T
    BY <1>2, <1>3, NatInSet
  <1> QED BY <1>4 DEF T, f

\* As long as the replay has not failed, every entry was accepted.
LEMMA OkBefore ==
    ASSUME NEW d \in Disks, NEW ix \in Indexes, NEW n \in Nat, n <= End(ix), Fold(d, ix)[n].ok
    PROVE  \A i \in Nat : i < n =>
                /\ ix[i + 1] \in Entries /\ ix[i + 1] # ZeroEntry
                /\ Fold(d, ix)[i] \in ReplayStates /\ Fold(d, ix)[i].ok
                /\ Fold(d, ix)[i + 1] \in ReplayStates /\ Fold(d, ix)[i + 1].ok
                /\ Accepts(d, Fold(d, ix)[i], ix[i + 1])
                /\ Fold(d, ix)[i + 1] = Apply(d, Fold(d, ix)[i], ix[i + 1])
  <1> DEFINE f == Fold(d, ix)
             T == {m \in Nat : m <= n => f[n - m].ok}
  <1>0. /\ End(ix) \in Nat /\ End(ix) <= IndexCap /\ IndexCap \in Nat
        /\ \A i \in 1 .. End(ix) : ix[i] # ZeroEntry
    BY EndFacts, IndexAssumption DEF EndsAt
  <1>1. \A i \in Nat : f[i + 1] = ReplayEntry(d, f[i], ix[i + 1])
    BY FoldDef, Zenon
  <1>2. \A i \in 0 .. n : f[i] \in ReplayStates
    BY FoldType
  <1>k. f[n].ok
    OBVIOUS
  <1> HIDE DEF f
  <1>3. \A i \in Nat : i < n => ix[i + 1] \in Entries /\ ix[i + 1] # ZeroEntry
                               /\ f[i] \in ReplayStates /\ f[i + 1] \in ReplayStates
    <2> SUFFICES ASSUME NEW i \in Nat, i < n
                 PROVE  ix[i + 1] \in Entries /\ ix[i + 1] # ZeroEntry
                        /\ f[i] \in ReplayStates /\ f[i + 1] \in ReplayStates
      OBVIOUS
    <2>1. i + 1 \in 1 .. End(ix) /\ i + 1 \in 1 .. IndexCap /\ i \in 0 .. n /\ i + 1 \in 0 .. n
      BY <1>0
    <2> QED BY <1>0, <1>2, <2>1 DEF Indexes
  <1>4. \A i \in Nat : i < n /\ f[i + 1].ok =>
           f[i].ok /\ Accepts(d, f[i], ix[i + 1]) /\ f[i + 1] = Apply(d, f[i], ix[i + 1])
    BY <1>1, <1>3, StepFacts
  <1>5. 0 \in T
    <2>1. n - 0 = n
      OBVIOUS
    <2> QED BY <1>k, <2>1
  <1>6. \A m \in Nat : m \in T => m + 1 \in T
    <2> SUFFICES ASSUME NEW m \in Nat, m \in T, m + 1 <= n PROVE f[n - (m + 1)].ok
      OBVIOUS
    <2>1. n - (m + 1) \in Nat /\ (n - (m + 1)) + 1 = n - m /\ n - (m + 1) < n /\ m <= n
      OBVIOUS
    <2>2. f[n - m].ok
      BY <2>1
    <2> QED BY <1>4, <2>1, <2>2
  <1> HIDE DEF T
  <1>7. \A m \in Nat : m \in T
    BY <1>5, <1>6, NatInSet
  <1>8. \A i \in Nat : i < n => f[i + 1].ok
    <2> SUFFICES ASSUME NEW i \in Nat, i < n PROVE f[i + 1].ok
      OBVIOUS
    <2>1. n - (i + 1) \in Nat /\ n - (i + 1) <= n /\ n - (n - (i + 1)) = i + 1
      OBVIOUS
    <2>2. n - (i + 1) \in T
      BY <1>7, <2>1
    <2>3. f[n - (n - (i + 1))].ok
      BY <2>1, <2>2 DEF T
    <2> QED BY <2>1, <2>3
  <1> QED BY <1>3, <1>4, <1>8 DEF f
-----------------------------------------------------------------------------
(* Records.                                                                *)

\* The entry that says where the object of the record at j lies.
Obj(ix, j) == IF ix[j].kind = "plain" THEN ix[j] ELSE ix[j + 1]

Named(ix, j) == {ix[j].fid, Obj(ix, j).fid}

\* The positions L hold records that share no name.
Records(ix, L) ==
    /\ \A j \in L : /\ ix[j].kind \in {"plain", "jump", "anchor"} /\ ix[j].fid \in Fids
                    /\ Obj(ix, j) \in Entries /\ Obj(ix, j).kind = "plain"
                    /\ ix[j].kind # "jump" => Obj(ix, j).fid = ix[j].fid
                    /\ ix[j].kind = "jump" => Obj(ix, j).fid # ix[j].fid
    /\ \A j, k \in L : Named(ix, j) \cap Named(ix, k) # {} => j = k

\* refs and exts are what the records L say.
Describes(d, ix, L, refs, exts) ==
    /\ refs \in [Fids -> ObjectRefs]
    /\ \A j \in L : /\ refs[Obj(ix, j).fid] = Own(Obj(ix, j).fid, Obj(ix, j).size)
                    /\ ix[j].kind = "jump" =>
                         refs[ix[j].fid] = AliasOf(Obj(ix, j).fid, Obj(ix, j).size)
    /\ \A f \in Fids : (\A j \in L : f \notin Named(ix, j)) => refs[f] = NoRef
    /\ exts = {ExtentFor(d, Obj(ix, j)) : j \in L}

\* A name is in use exactly if a record has it.
LEMMA UnusedName ==
    ASSUME NEW d, NEW ix, NEW L, NEW refs, NEW exts, Records(ix, L), Describes(d, ix, L, refs, exts),
           NEW f \in Fids, refs[f] = NoRef
    PROVE  \A j \in L : f \notin Named(ix, j)
  <1> SUFFICES ASSUME NEW j \in L, f \in Named(ix, j) PROVE FALSE
    OBVIOUS
  <1>1. /\ Obj(ix, j) \in Entries /\ Obj(ix, j).kind = "plain"
        /\ ix[j].kind # "jump" => Obj(ix, j).fid = ix[j].fid
    BY DEF Records
  <1>2. Obj(ix, j).fid \in Nat /\ Obj(ix, j).fid # 0 /\ Obj(ix, j).size \in Nat
    BY <1>1, EntryFacts
  <1>3. /\ Own(Obj(ix, j).fid, Obj(ix, j).size) # NoRef
        /\ AliasOf(Obj(ix, j).fid, Obj(ix, j).size) # NoRef
    BY <1>2, RefTypes
  <1>4. CASE f = Obj(ix, j).fid
    BY <1>3, <1>4 DEF Describes
  <1>5. CASE f = ix[j].fid /\ ix[j].kind = "jump"
    BY <1>3, <1>5 DEF Describes
  <1> QED BY <1>1, <1>4, <1>5 DEF Named

\* What two sets of references say about the same records is the same.
LEMMA DescribedOnce ==
    ASSUME NEW d, NEW ix, NEW L, NEW refs, NEW exts, NEW refs2, NEW exts2, Records(ix, L),
           Describes(d, ix, L, refs, exts), Describes(d, ix, L, refs2, exts2)
    PROVE  refs = refs2 /\ exts = exts2
  <1>1. exts = exts2
    BY DEF Describes
  <1>2. refs \in [Fids -> ObjectRefs] /\ refs2 \in [Fids -> ObjectRefs]
    BY DEF Describes
  <1>3. ASSUME NEW f \in Fids PROVE refs[f] = refs2[f]
    <2>1. CASE \A j \in L : f \notin Named(ix, j)
      BY <2>1 DEF Describes
    <2>2. CASE \E j \in L : f \in Named(ix, j)
      <3>1. PICK j \in L : f \in Named(ix, j)
        BY <2>2
      <3>2. f = Obj(ix, j).fid \/ (f = ix[j].fid /\ ix[j].kind = "jump")
        BY <3>1 DEF Named, Records
      <3>3. CASE f = Obj(ix, j).fid
        BY <3>3 DEF Describes
      <3>4. CASE f = ix[j].fid /\ ix[j].kind = "jump"
        BY <3>4 DEF Describes
      <3> QED BY <3>2, <3>3, <3>4
    <2> QED BY <2>1, <2>2
  <1> QED BY <1>1, <1>2, <1>3


\* The record at b by itself.
Record(ix, b) ==
    /\ ix[b].kind \in {"plain", "jump", "anchor"} /\ ix[b].fid \in Fids
    /\ Obj(ix, b) \in Entries /\ Obj(ix, b).kind = "plain"
    /\ ix[b].kind # "jump" => Obj(ix, b).fid = ix[b].fid
    /\ ix[b].kind = "jump" => Obj(ix, b).fid # ix[b].fid

\* No record of L is about a name of jump f, either way.
NoJumpNames(ix, L, f) == \A j \in L : f \in Named(ix, j) => ix[j].kind # "jump"

Without(ix, L, f) == {j \in L : ix[j].fid # f}

\* The records without those of one name.
LEMMA DropRecords ==
    ASSUME NEW d, NEW ix, NEW L, NEW refs, NEW exts, Records(ix, L), Describes(d, ix, L, refs, exts),
           NEW f \in Fids, NoJumpNames(ix, L, f)
    PROVE  /\ Records(ix, Without(ix, L, f))
           /\ Describes(d, ix, Without(ix, L, f),
                        [g \in Fids |-> IF g = f THEN NoRef ELSE refs[g]], {x \in exts : x.fid # f})
           /\ \A j \in Without(ix, L, f) : f \notin Named(ix, j)
  <1> DEFINE M == Without(ix, L, f)
             new == [g \in Fids |-> IF g = f THEN NoRef ELSE refs[g]]
  <1>0. \A j \in L : Record(ix, j)
    BY DEF Records, Record
  <1>1. \A j \in M : j \in L /\ f \notin Named(ix, j)
    BY <1>0 DEF Without, Record, NoJumpNames, Named
  <1>2. \A j \in L : j \notin M => Obj(ix, j).fid = f /\ Named(ix, j) = {f}
    BY <1>0 DEF Without, Record, NoJumpNames, Named
  <1> HIDE DEF M
  <1>3. Records(ix, M)
    BY <1>1 DEF Records
  <1>4. new \in [Fids -> ObjectRefs]
    <2>1. NoRef \in ObjectRefs /\ refs \in [Fids -> ObjectRefs]
      BY RefTypes DEF Describes
    <2> QED BY <2>1
  <1>5. ASSUME NEW j \in M
        PROVE  /\ new[Obj(ix, j).fid] = Own(Obj(ix, j).fid, Obj(ix, j).size)
               /\ ix[j].kind = "jump" => new[ix[j].fid] = AliasOf(Obj(ix, j).fid, Obj(ix, j).size)
    <2>1. Obj(ix, j).fid # f /\ ix[j].fid # f /\ j \in L
      BY <1>1 DEF Named
    <2>2. Obj(ix, j).fid \in Fids /\ ix[j].fid \in Fids
      BY <2>1, <1>0, EntryFacts DEF Record
    <2>3. new[Obj(ix, j).fid] = refs[Obj(ix, j).fid] /\ new[ix[j].fid] = refs[ix[j].fid]
      BY <2>1, <2>2
    <2> QED BY <2>1, <2>3 DEF Describes
  <1>6. ASSUME NEW g \in Fids, \A j \in M : g \notin Named(ix, j)
        PROVE  new[g] = NoRef
    <2>1. CASE g = f
      BY <2>1
    <2>2. CASE g # f
      <3>1. \A j \in L : g \notin Named(ix, j)
        BY <1>2, <1>6, <2>2
      <3>2. refs[g] = NoRef
        BY <3>1 DEF Describes
      <3> QED BY <2>2, <3>2
    <2> QED BY <2>1, <2>2
  <1>7. {x \in exts : x.fid # f} = {ExtentFor(d, Obj(ix, j)) : j \in M}
    <2>1. exts = {ExtentFor(d, Obj(ix, j)) : j \in L}
      BY DEF Describes
    <2>2. \A j : ExtentFor(d, Obj(ix, j)).fid = Obj(ix, j).fid
      BY DEF ExtentFor
    <2>3. \A j \in L : j \in M <=> Obj(ix, j).fid # f
      BY <1>1, <1>2 DEF Named
    <2>4. \A j \in M : j \in L
      BY <1>1
    <2> QED BY <2>1, <2>2, <2>3, <2>4
  <1> HIDE DEF new
  <1>8. Describes(d, ix, M, new, {x \in exts : x.fid # f})
    BY <1>4, <1>5, <1>6, <1>7 DEF Describes
  <1> QED BY <1>1, <1>3, <1>8 DEF M, new

\* The references once the record at b is there too.
With(ix, b, refs) ==
    [g \in Fids |-> IF ix[b].kind = "jump" /\ g = ix[b].fid
                    THEN AliasOf(Obj(ix, b).fid, Obj(ix, b).size)
                    ELSE IF g = Obj(ix, b).fid THEN Own(Obj(ix, b).fid, Obj(ix, b).size)
                    ELSE refs[g]]

\* One record more.
LEMMA AddRecord ==
    ASSUME NEW d, NEW ix, NEW L, NEW refs, NEW exts, Records(ix, L), Describes(d, ix, L, refs, exts),
           NEW b, Record(ix, b), Obj(ix, b).size # 0,
           \A j \in L : Named(ix, j) \cap Named(ix, b) = {}
    PROVE  /\ Records(ix, L \cup {b})
           /\ Describes(d, ix, L \cup {b}, With(ix, b, refs), exts \cup {ExtentFor(d, Obj(ix, b))})
  <1> DEFINE M == L \cup {b}
             o == Obj(ix, b)
             new == With(ix, b, refs)
  <1>0. \A j \in L : Record(ix, j)
    BY DEF Records, Record
  <1>o. o \in Entries /\ o.kind = "plain" /\ o.fid \in Fids /\ o.fid \in Nat /\ o.size \in Nat
    BY EntryFacts DEF Record
  <1>1. Records(ix, M)
    <2>1. \A j \in M : Record(ix, j)
      BY <1>0
    <2>2. \A j, k \in M : Named(ix, j) \cap Named(ix, k) # {} => j = k
      <3> SUFFICES ASSUME NEW j \in M, NEW k \in M, Named(ix, j) \cap Named(ix, k) # {}, j # k
                   PROVE  FALSE
        OBVIOUS
      <3>1. CASE j \in L /\ k \in L
        BY <3>1 DEF Records
      <3>2. CASE j = b \/ k = b
        <4>1. Named(ix, j) \cap Named(ix, k) = Named(ix, k) \cap Named(ix, j)
          OBVIOUS
        <4> QED BY <3>2, <4>1
      <3> QED BY <3>1, <3>2
    <2> HIDE DEF M
    <2> QED BY <2>1, <2>2 DEF Records, Record
  <1>r. refs \in [Fids -> ObjectRefs]
    BY DEF Describes
  <1>4. new \in [Fids -> ObjectRefs]
    <2>1. Own(o.fid, o.size) \in ObjectRefs /\ AliasOf(o.fid, o.size) \in ObjectRefs
      BY <1>o, RefTypes
    <2> QED BY <1>r, <2>1 DEF With
  <1>b. /\ new[o.fid] = Own(o.fid, o.size)
        /\ ix[b].kind = "jump" => new[ix[b].fid] = AliasOf(o.fid, o.size)
    BY <1>o DEF With, Record
  <1>f. \A g \in Fids : g \notin Named(ix, b) => new[g] = refs[g]
    BY DEF With, Named
  <1>5. ASSUME NEW j \in M
        PROVE  /\ new[Obj(ix, j).fid] = Own(Obj(ix, j).fid, Obj(ix, j).size)
               /\ ix[j].kind = "jump" => new[ix[j].fid] = AliasOf(Obj(ix, j).fid, Obj(ix, j).size)
    <2>1. CASE j = b
      BY <1>b, <2>1
    <2>2. CASE j \in L
      <3>1. Obj(ix, j).fid \in Fids /\ ix[j].fid \in Fids
        BY <2>2, <1>0, EntryFacts DEF Record
      <3>2. Obj(ix, j).fid \in Named(ix, j) /\ ix[j].fid \in Named(ix, j)
        BY DEF Named
      <3>3. Obj(ix, j).fid \notin Named(ix, b) /\ ix[j].fid \notin Named(ix, b)
        BY <2>2, <3>2
      <3>4. new[Obj(ix, j).fid] = refs[Obj(ix, j).fid] /\ new[ix[j].fid] = refs[ix[j].fid]
        BY <1>f, <3>1, <3>3
      <3> QED BY <2>2, <3>4 DEF Describes
    <2> QED BY <2>1, <2>2
  <1>6. ASSUME NEW g \in Fids, \A j \in M : g \notin Named(ix, j)
        PROVE  new[g] = NoRef
    <2>1. new[g] = refs[g] /\ \A j \in L : g \notin Named(ix, j)
      BY <1>f, <1>6
    <2> QED BY <2>1 DEF Describes
  <1>7. exts \cup {ExtentFor(d, o)} = {ExtentFor(d, Obj(ix, j)) : j \in M}
    <2>1. exts = {ExtentFor(d, Obj(ix, j)) : j \in L}
      BY DEF Describes
    <2> QED BY <2>1
  <1> HIDE DEF new, M
  <1>8. Describes(d, ix, M, new, exts \cup {ExtentFor(d, o)})
    BY <1>4, <1>5, <1>6, <1>7 DEF Describes
  <1> QED BY <1>1, <1>8 DEF M, new

\* A record of one object takes the place of what its name had.
LEMMA Supersede ==
    ASSUME NEW d, NEW ix, NEW L, NEW refs, NEW exts, Records(ix, L), Describes(d, ix, L, refs, exts),
           NEW b, Record(ix, b), ix[b].kind # "jump", Obj(ix, b).size # 0,
           NoJumpNames(ix, L, ix[b].fid)
    PROVE  /\ Records(ix, Without(ix, L, ix[b].fid) \cup {b})
           /\ Describes(d, ix, Without(ix, L, ix[b].fid) \cup {b},
                        [g \in Fids |-> IF g = ix[b].fid THEN Own(ix[b].fid, Obj(ix, b).size)
                                        ELSE refs[g]],
                        {x \in exts : x.fid # ix[b].fid} \cup {ExtentFor(d, Obj(ix, b))})
  <1> DEFINE f == ix[b].fid
             M == Without(ix, L, f)
             less == [g \in Fids |-> IF g = f THEN NoRef ELSE refs[g]]
             fewer == {x \in exts : x.fid # f}
  <1>1. f \in Fids /\ Obj(ix, b).fid = f
    BY DEF Record
  <1>2. Records(ix, M) /\ Describes(d, ix, M, less, fewer) /\ \A j \in M : f \notin Named(ix, j)
    BY <1>1, DropRecords
  <1>3. Named(ix, b) = {f}
    BY <1>1 DEF Named
  <1>4. \A j \in M : Named(ix, j) \cap Named(ix, b) = {}
    BY <1>2, <1>3
  <1>5. With(ix, b, less) = [g \in Fids |-> IF g = f THEN Own(f, Obj(ix, b).size) ELSE refs[g]]
    BY <1>1 DEF With
  <1> HIDE DEF M, less, fewer
  <1>6. Records(ix, M \cup {b})
        /\ Describes(d, ix, M \cup {b}, With(ix, b, less), fewer \cup {ExtentFor(d, Obj(ix, b))})
    BY <1>2, <1>4, AddRecord
  <1> QED BY <1>5, <1>6 DEF M, fewer

\* An alias pair adds a record with two names that were free.
LEMMA AddPair ==
    ASSUME NEW d, NEW ix, NEW L, NEW refs, NEW exts, Records(ix, L), Describes(d, ix, L, refs, exts),
           NEW b, Record(ix, b), ix[b].kind = "jump", Obj(ix, b).size # 0,
           refs[ix[b].fid] = NoRef, refs[Obj(ix, b).fid] = NoRef
    PROVE  /\ Records(ix, Without(ix, L, ix[b].fid) \cup {b})
           /\ Describes(d, ix, Without(ix, L, ix[b].fid) \cup {b},
                        [g \in Fids |-> IF g = ix[b].fid
                                        THEN AliasOf(Obj(ix, b).fid, Obj(ix, b).size)
                                        ELSE IF g = Obj(ix, b).fid
                                        THEN Own(Obj(ix, b).fid, Obj(ix, b).size) ELSE refs[g]],
                        {x \in exts : x.fid # Obj(ix, b).fid} \cup {ExtentFor(d, Obj(ix, b))})
  <1> DEFINE o == Obj(ix, b)
             new == [g \in Fids |-> IF g = ix[b].fid THEN AliasOf(o.fid, o.size)
                                    ELSE IF g = o.fid THEN Own(o.fid, o.size) ELSE refs[g]]
  <1>1. o.fid \in Fids /\ ix[b].fid \in Fids
    BY EntryFacts DEF Record
  <1>2. \A j \in L : ix[b].fid \notin Named(ix, j) /\ o.fid \notin Named(ix, j)
    BY <1>1, UnusedName
  <1>3. \A j \in L : Named(ix, j) \cap Named(ix, b) = {}
    BY <1>2 DEF Named
  <1>4. Without(ix, L, ix[b].fid) = L
    BY <1>2 DEF Without, Named
  <1>5. {x \in exts : x.fid # o.fid} = exts
    <2>1. exts = {ExtentFor(d, Obj(ix, j)) : j \in L}
      BY DEF Describes
    <2>2. \A j : ExtentFor(d, Obj(ix, j)).fid = Obj(ix, j).fid
      BY DEF ExtentFor
    <2>3. \A j \in L : Obj(ix, j).fid # o.fid
      BY <1>2 DEF Named
    <2> QED BY <2>1, <2>2, <2>3
  <1>6. With(ix, b, refs) = new
    BY DEF With
  <1> HIDE DEF new
  <1>7. Records(ix, L \cup {b})
        /\ Describes(d, ix, L \cup {b}, With(ix, b, refs), exts \cup {ExtentFor(d, o)})
    BY <1>3, AddRecord
  <1>8. Records(ix, Without(ix, L, ix[b].fid) \cup {b})
        /\ Describes(d, ix, Without(ix, L, ix[b].fid) \cup {b}, new,
                     {x \in exts : x.fid # o.fid} \cup {ExtentFor(d, o)})
    BY <1>4, <1>5, <1>6, <1>7
  <1> QED BY <1>8 DEF new

\* What Trim relies on: a reference is to the object of its own name, or to
\* that of another.
Separate(refs, f) == \A g \in Fids : refs[g] # NoRef => (g = f <=> refs[g].fid = f)

\* A name that only references to its own object mention is in no jump.
LEMMA SeparateNames ==
    ASSUME NEW d, NEW ix, NEW L, NEW refs, NEW exts, Records(ix, L), Describes(d, ix, L, refs, exts),
           NEW f \in Fids, Separate(refs, f)
    PROVE  NoJumpNames(ix, L, f)
  <1> SUFFICES ASSUME NEW j \in L, f \in Named(ix, j), ix[j].kind = "jump" PROVE FALSE
    BY DEF NoJumpNames
  <1> DEFINE o == Obj(ix, j)
  <1>1. ix[j].fid \in Fids /\ o \in Entries /\ o.kind = "plain" /\ o.fid # ix[j].fid
    BY DEF Records
  <1>2. o.fid \in Nat /\ o.fid # 0 /\ o.size \in Nat /\ o.fid \in Fids
    BY <1>1, EntryFacts
  <1>3. AliasOf(o.fid, o.size) # NoRef /\ AliasOf(o.fid, o.size).fid = o.fid
    BY <1>2, RefTypes
  <1>4. refs[ix[j].fid] = AliasOf(o.fid, o.size)
    BY DEF Describes
  <1>5. f = ix[j].fid \/ f = o.fid
    BY DEF Named
  <1> QED BY <1>1, <1>3, <1>4, <1>5 DEF Separate
-----------------------------------------------------------------------------
(* What the first entries of an index say.                                 *)

\* Position j is not the second of a pair.
Begins(d, ix, j) == ~Mid(Fold(d, ix)[j - 1])

\* The records among the first m entries that nothing later replaces.
Live(d, ix, m) ==
    {i \in 1 .. m : /\ Begins(d, ix, i) /\ ix[i].kind # "tomb"
                    /\ \A j \in 1 .. m : Begins(d, ix, j) /\ ix[j].fid = ix[i].fid => j <= i}

InTables(r, f) == \E k \in DOMAIN r.tables : r.tables[k] = f

\* How the daemon writes: e behind p, in the state r of the replay.
Fits(r, p, e) ==
    /\ r.alias # 0 => e.kind # "tomb"
    /\ r.anchor => e.fid = p.fid
    /\ e.kind \in {"anchor", "tomb"} => Separate(r.refs, e.fid) /\ ~InTables(r, e.fid)

Shaped(d, ix) ==
    \A i \in Nat : i < End(ix) => Fits(Fold(d, ix)[i], ix[i], ix[i + 1])

\* The live records are what the replay has at this point, and no table was
\* retired.
Good(d, ix, m) ==
    /\ Records(ix, Live(d, ix, m))
    /\ Describes(d, ix, Live(d, ix, m), Fold(d, ix)[m].refs, Fold(d, ix)[m].exts)
    /\ \A j \in 1 .. m : Begins(d, ix, j) /\ ix[j].kind = "anchor" =>
            j \in Live(d, ix, m) /\ InTables(Fold(d, ix)[m], ix[j].fid)
    /\ \A f : InTables(Fold(d, ix)[m], f) =>
            \E j \in Live(d, ix, m) : ix[j].kind = "anchor" /\ ix[j].fid = f

\* A pair is open behind m.
Opened(r, s, e) ==
    /\ IsHead(e)
    /\ s.refs = r.refs /\ s.exts = r.exts /\ s.tables = r.tables
    /\ s.alias = (IF e.kind = "jump" THEN e.fid ELSE 0)
    /\ s.anchor = (e.kind = "anchor")

\* The live records once a record, or a tombstone, is complete.
LEMMA LiveStep ==
    ASSUME NEW d, NEW ix, NEW m \in Nat, NEW k \in Nat, m < k, Begins(d, ix, m + 1),
           \A j \in Nat : m + 1 < j /\ j <= k => ~Begins(d, ix, j)
    PROVE  Live(d, ix, k) = Without(ix, Live(d, ix, m), ix[m + 1].fid)
                                \cup (IF ix[m + 1].kind = "tomb" THEN {} ELSE {m + 1})
  <1> DEFINE R == Without(ix, Live(d, ix, m), ix[m + 1].fid)
                      \cup (IF ix[m + 1].kind = "tomb" THEN {} ELSE {m + 1})
  <1>b. \A j \in 1 .. k : Begins(d, ix, j) <=> (j = m + 1 \/ (j \in 1 .. m /\ Begins(d, ix, j)))
    OBVIOUS
  <1>c. \A j \in 1 .. m : j \in 1 .. k /\ j <= m + 1 /\ ~(m + 1 <= j)
    OBVIOUS
  <1>d. m + 1 \in 1 .. k
    OBVIOUS
  <1>1. ASSUME NEW i \in Live(d, ix, k) PROVE i \in R
    <2>1. /\ i \in 1 .. k /\ Begins(d, ix, i) /\ ix[i].kind # "tomb"
          /\ \A j \in 1 .. k : Begins(d, ix, j) /\ ix[j].fid = ix[i].fid => j <= i
      BY DEF Live
    <2>2. CASE i = m + 1
      BY <2>1, <2>2
    <2>3. CASE i \in 1 .. m
      <3>1. ix[m + 1].fid # ix[i].fid
        BY <1>c, <1>d, <2>1, <2>3
      <3>2. i \in Live(d, ix, m)
        BY <1>c, <2>1, <2>3 DEF Live
      <3> QED BY <3>1, <3>2 DEF Without
    <2> QED BY <1>b, <2>1, <2>2, <2>3
  <1>2. ASSUME NEW i \in R PROVE i \in Live(d, ix, k)
    <2>1. CASE i = m + 1 /\ ix[m + 1].kind # "tomb"
      BY <1>b, <1>c, <1>d, <2>1 DEF Live
    <2>2. CASE i \in Live(d, ix, m) /\ ix[i].fid # ix[m + 1].fid
      <3>1. /\ i \in 1 .. m /\ Begins(d, ix, i) /\ ix[i].kind # "tomb"
            /\ \A j \in 1 .. m : Begins(d, ix, j) /\ ix[j].fid = ix[i].fid => j <= i
        BY <2>2 DEF Live
      <3>2. \A j \in 1 .. k : Begins(d, ix, j) /\ ix[j].fid = ix[i].fid => j <= i
        BY <1>b, <2>2, <3>1
      <3> QED BY <1>c, <3>1, <3>2 DEF Live
    <2>3. (i = m + 1 /\ ix[m + 1].kind # "tomb") \/ (i \in Live(d, ix, m) /\ ix[i].fid # ix[m + 1].fid)
      BY DEF Without
    <2> QED BY <2>1, <2>2, <2>3
  <1> QED BY <1>1, <1>2

\* A record, or a tombstone, that ends at k.
LEMMA GoodStep ==
    ASSUME NEW d, NEW ix, NEW m \in Nat, NEW k \in Nat, m < k, Begins(d, ix, m + 1),
           \A j \in Nat : m + 1 < j /\ j <= k => ~Begins(d, ix, j),
           Good(d, ix, m), NEW N,
           N = Without(ix, Live(d, ix, m), ix[m + 1].fid)
                 \cup (IF ix[m + 1].kind = "tomb" THEN {} ELSE {m + 1}),
           Records(ix, N), Describes(d, ix, N, Fold(d, ix)[k].refs, Fold(d, ix)[k].exts),
           \A j \in Live(d, ix, m) : ix[j].kind = "anchor" => ix[j].fid # ix[m + 1].fid,
           \A f : InTables(Fold(d, ix)[k], f) <=>
                    InTables(Fold(d, ix)[m], f) \/ (ix[m + 1].kind = "anchor" /\ f = ix[m + 1].fid)
    PROVE  Good(d, ix, k)
  <1>1. Live(d, ix, k) = N
    BY LiveStep
  <1>2. ASSUME NEW j \in 1 .. k, Begins(d, ix, j), ix[j].kind = "anchor"
        PROVE  j \in N /\ InTables(Fold(d, ix)[k], ix[j].fid)
    <2>1. j = m + 1 \/ j \in 1 .. m
      BY <1>2
    <2>2. CASE j = m + 1
      <3>1. "anchor" # "tomb"
        OBVIOUS
      <3> QED BY <1>2, <2>2, <3>1
    <2>3. CASE j \in 1 .. m
      <3>1. j \in Live(d, ix, m) /\ InTables(Fold(d, ix)[m], ix[j].fid)
        BY <1>2, <2>3 DEF Good
      <3>2. ix[j].fid # ix[m + 1].fid
        BY <1>2, <3>1
      <3>3. j \in Without(ix, Live(d, ix, m), ix[m + 1].fid)
        BY <3>1, <3>2 DEF Without
      <3> QED BY <3>1, <3>3
    <2> QED BY <2>1, <2>2, <2>3
  <1>3. ASSUME NEW f, InTables(Fold(d, ix)[k], f)
        PROVE  \E j \in N : ix[j].kind = "anchor" /\ ix[j].fid = f
    <2>1. CASE InTables(Fold(d, ix)[m], f)
      <3>1. PICK j \in Live(d, ix, m) : ix[j].kind = "anchor" /\ ix[j].fid = f
        BY <2>1 DEF Good
      <3>2. j \in Without(ix, Live(d, ix, m), ix[m + 1].fid)
        BY <3>1 DEF Without
      <3> QED BY <3>1, <3>2
    <2>2. CASE ix[m + 1].kind = "anchor" /\ f = ix[m + 1].fid
      <3>1. "anchor" # "tomb"
        OBVIOUS
      <3>2. m + 1 \in N
        BY <2>2, <3>1
      <3> QED BY <2>2, <3>2
    <2> QED BY <1>3, <2>1, <2>2
  <1> QED BY <1>1, <1>2, <1>3 DEF Good

\* What a plain entry, a tombstone, and the second entry of a pair headed by h
\* make of r.
AfterPlain(d, r, e, s) ==
    /\ e.size # 0 /\ r.refs[e.fid] = NoRef /\ ~Mid(s)
    /\ s.refs = [f \in Fids |-> IF f = e.fid THEN Own(e.fid, e.size) ELSE r.refs[f]]
    /\ s.exts = {x \in r.exts : x.fid # e.fid} \cup {ExtentFor(d, e)}
    /\ s.tables = r.tables

AfterTomb(r, e, s) ==
    /\ ~Mid(s)
    /\ s.refs = [f \in Fids |-> IF f = e.fid THEN NoRef ELSE r.refs[f]]
    /\ s.exts = {x \in r.exts : x.fid # e.fid}
    /\ s.tables = r.tables

AfterJump(d, r, h, e, s) ==
    /\ e.fid # h.fid /\ r.refs[e.fid] = NoRef /\ ~Mid(s)
    /\ s.refs = [f \in Fids |-> IF f = h.fid THEN AliasOf(e.fid, e.size)
                                ELSE IF f = e.fid THEN Own(e.fid, e.size) ELSE r.refs[f]]
    /\ s.exts = {x \in r.exts : x.fid # e.fid} \cup {ExtentFor(d, e)}
    /\ s.tables = r.tables

AfterAnchor(d, r, h, e, s) ==
    /\ e.fid = h.fid /\ ~Mid(s)
    /\ s.refs = [f \in Fids |-> IF f = e.fid THEN Own(e.fid, e.size) ELSE r.refs[f]]
    /\ s.exts = {x \in r.exts : x.fid # e.fid} \cup {ExtentFor(d, e)}
    /\ s.tables = Append(r.tables, e.fid)

\* Between two records: what the next entry may be, and what it does.
LEMMA TurnClosed ==
    ASSUME NEW d \in Disks, NEW r \in ReplayStates, NEW e \in Entries, e # ZeroEntry, Accepts(d, r, e),
           ~Mid(r)
    PROVE  /\ e.fid \in Fids
           /\ e.kind = "plain" => AfterPlain(d, r, e, Apply(d, r, e))
           /\ e.kind = "tomb" => AfterTomb(r, e, Apply(d, r, e))
           /\ IsHead(e) => Opened(r, Apply(d, r, e), e) /\ Mid(Apply(d, r, e))
           /\ e.kind = "jump" => r.refs[e.fid] = NoRef
           /\ e.kind = "plain" \/ e.kind = "tomb" \/ IsHead(e)
  <1>0. e.fid \in Fids /\ e.fid \in Nat /\ e.fid # 0 /\ e.size \in Nat
        /\ e.kind \in {"plain", "jump", "anchor", "tomb"}
    BY EntryFacts
  <1>1. r.alias = 0 /\ ~r.anchor /\ r.anchor = FALSE
    BY DEF Mid, ReplayStates
  <1>2. ASSUME e.kind = "plain" PROVE AfterPlain(d, r, e, Apply(d, r, e))
    <2>1. e.size # 0
      <3>1. AddrOK(d, e.fid, e.size)
        BY <1>2 DEF Accepts
      <3> QED BY <1>0, <3>1, ExtentFacts
    <2>2. r.refs[e.fid] = NoRef
      BY <1>1, <1>2 DEF Accepts
    <2>3. \A f \in Fids : f # 0
      BY IndexAssumption
    <2>4. [f \in Fids |-> IF f = r.alias THEN AliasOf(e.fid, e.size)
                          ELSE IF f = e.fid THEN Own(e.fid, e.size) ELSE r.refs[f]]
             = [f \in Fids |-> IF f = e.fid THEN Own(e.fid, e.size) ELSE r.refs[f]]
      BY <1>1, <2>3
    <2>5. Same(r, Apply(d, r, e),
                [f \in Fids |-> IF f = r.alias THEN AliasOf(e.fid, e.size)
                                ELSE IF f = e.fid THEN Own(e.fid, e.size) ELSE r.refs[f]],
                {x \in r.exts : x.fid # e.fid} \cup {ExtentFor(d, e)},
                0, FALSE, r.tables)
      BY <1>1, <1>2, ApplyPlain
    <2> QED BY <2>1, <2>2, <2>4, <2>5 DEF Same, Mid, AfterPlain
  <1>3. ASSUME e.kind = "tomb" PROVE AfterTomb(r, e, Apply(d, r, e))
    <2>1. Same(r, Apply(d, r, e),
               [f \in Fids |-> IF f = e.fid THEN NoRef ELSE r.refs[f]],
               {x \in r.exts : x.fid # e.fid}, r.alias, r.anchor, r.tables)
      BY <1>3, ApplyOther
    <2> QED BY <1>1, <2>1 DEF Same, Mid, AfterTomb
  <1>4. ASSUME e.kind = "jump"
        PROVE  Opened(r, Apply(d, r, e), e) /\ Mid(Apply(d, r, e)) /\ r.refs[e.fid] = NoRef
    <2>1. Same(r, Apply(d, r, e), r.refs, r.exts, e.fid, r.anchor, r.tables)
      BY <1>4, ApplyOther
    <2>2. r.refs[e.fid] = NoRef
      BY <1>4 DEF Accepts
    <2> QED BY <1>0, <1>1, <1>4, <2>1, <2>2 DEF Same, Mid, Opened, IsHead
  <1>5. ASSUME e.kind = "anchor"
        PROVE  Opened(r, Apply(d, r, e), e) /\ Mid(Apply(d, r, e))
    <2>1. Same(r, Apply(d, r, e), r.refs, r.exts, r.alias, TRUE, r.tables)
      BY <1>5, ApplyOther
    <2> QED BY <1>1, <1>5, <2>1 DEF Same, Mid, Opened, IsHead
  <1>6. IsHead(e) <=> e.kind = "jump" \/ e.kind = "anchor"
    BY DEF IsHead
  <1>7. IsHead(e) => Opened(r, Apply(d, r, e), e) /\ Mid(Apply(d, r, e))
    BY <1>4, <1>5, <1>6
  <1>8. e.kind = "plain" \/ e.kind = "tomb" \/ IsHead(e)
    BY <1>0, <1>6
  <1> QED BY <1>0, <1>2, <1>3, <1>4, <1>7, <1>8

\* Inside a pair, opened in the state r by the entry h, comes its second.
LEMMA TurnOpen ==
    ASSUME NEW d \in Disks, NEW r, NEW h \in Entries, h # ZeroEntry, NEW s \in ReplayStates,
           Opened(r, s, h), NEW e \in Entries, e # ZeroEntry, Accepts(d, s, e), Fits(s, h, e)
    PROVE  /\ e.kind = "plain" /\ e.fid \in Fids /\ e.size # 0
           /\ h.kind = "jump" => AfterJump(d, r, h, e, Apply(d, s, e))
           /\ h.kind = "anchor" => AfterAnchor(d, r, h, e, Apply(d, s, e))
           /\ h.kind = "jump" \/ h.kind = "anchor"
  <1>0. e.fid \in Fids /\ e.fid \in Nat /\ e.fid # 0 /\ e.size \in Nat
        /\ e.kind \in {"plain", "jump", "anchor", "tomb"}
    BY EntryFacts
  <1>h. h.fid # 0
    BY EntryFacts
  <1>k. h.kind = "jump" \/ h.kind = "anchor"
    BY DEF Opened, IsHead
  <1>1. /\ s.refs = r.refs /\ s.exts = r.exts /\ s.tables = r.tables
        /\ s.alias = (IF h.kind = "jump" THEN h.fid ELSE 0)
        /\ s.anchor = (h.kind = "anchor")
    BY DEF Opened
  <1>2. h.kind = "jump" => s.alias = h.fid /\ s.alias # 0 /\ ~s.anchor
    BY <1>1, <1>h
  <1>3. h.kind = "anchor" => s.alias = 0 /\ s.anchor
    BY <1>1
  <1>4. e.kind = "plain"
    <2>1. CASE h.kind = "jump"
      BY <1>0, <1>2, <2>1 DEF Accepts, Fits
    <2>2. CASE h.kind = "anchor"
      BY <1>3, <2>2 DEF Accepts
    <2> QED BY <1>k, <2>1, <2>2
  <1>5. e.size # 0
    <2>1. AddrOK(d, e.fid, e.size)
      BY <1>4 DEF Accepts
    <2> QED BY <1>0, <2>1, ExtentFacts
  <1>6. ASSUME h.kind = "jump" PROVE AfterJump(d, r, h, e, Apply(d, s, e))
    <2>1. e.fid # h.fid /\ r.refs[e.fid] = NoRef
      BY <1>1, <1>2, <1>4, <1>6 DEF Accepts
    <2>2. Same(s, Apply(d, s, e),
                [f \in Fids |-> IF f = s.alias THEN AliasOf(e.fid, e.size)
                                ELSE IF f = e.fid THEN Own(e.fid, e.size) ELSE s.refs[f]],
                {x \in s.exts : x.fid # e.fid} \cup {ExtentFor(d, e)},
                0, FALSE, s.tables)
      BY <1>2, <1>4, <1>6, ApplyPlain
    <2>3. s.alias = h.fid /\ s.refs = r.refs /\ s.exts = r.exts /\ s.tables = r.tables
      BY <1>1, <1>2, <1>6
    <2> QED BY <2>1, <2>2, <2>3 DEF Same, Mid, AfterJump
  <1>7. ASSUME h.kind = "anchor" PROVE AfterAnchor(d, r, h, e, Apply(d, s, e))
    <2>1. e.fid = h.fid
      BY <1>3, <1>7 DEF Fits
    <2>2. Same(s, Apply(d, s, e),
                [f \in Fids |-> IF f = e.fid THEN Own(e.fid, e.size) ELSE s.refs[f]],
                {x \in s.exts : x.fid # e.fid} \cup {ExtentFor(d, e)},
                s.alias, FALSE, Append(s.tables, e.fid))
      BY <1>3, <1>4, <1>7, ApplyTable
    <2>3. s.alias = 0 /\ s.refs = r.refs /\ s.exts = r.exts /\ s.tables = r.tables
      BY <1>1, <1>3, <1>7
    <2> QED BY <2>1, <2>2, <2>3 DEF Same, Mid, AfterAnchor
  <1> QED BY <1>0, <1>k, <1>4, <1>5, <1>6, <1>7

\* Where the replay stands behind the first m entries.
Phase(d, ix, m) ==
    \/ ~Mid(Fold(d, ix)[m]) /\ Good(d, ix, m)
    \/ /\ m # 0 /\ Mid(Fold(d, ix)[m]) /\ ~Mid(Fold(d, ix)[m - 1]) /\ Good(d, ix, m - 1)
       /\ Opened(Fold(d, ix)[m - 1], Fold(d, ix)[m], ix[m])

\* A plain entry or a tombstone between two records.
LEMMA GoodSingle ==
    ASSUME NEW d \in Disks, NEW ix, NEW m \in Nat, NEW r \in ReplayStates, r = Fold(d, ix)[m],
           ~Mid(r), Good(d, ix, m), NEW e \in Entries, e = ix[m + 1], e # ZeroEntry,
           Accepts(d, r, e), Fits(r, ix[m], e), Fold(d, ix)[m + 1] = Apply(d, r, e), ~IsHead(e)
    PROVE  ~Mid(Fold(d, ix)[m + 1]) /\ Good(d, ix, m + 1)
  <1> DEFINE L == Live(d, ix, m)
             s == Fold(d, ix)[m + 1]
             b == m + 1
  <1>0. b \in Nat /\ m < b /\ b - 1 = m
    OBVIOUS
  <1>1. Begins(d, ix, b)
    BY <1>0, Zenon DEF Begins
  <1>2. \A j \in Nat : m + 1 < j /\ j <= b => ~Begins(d, ix, j)
    OBVIOUS
  <1>3. Records(ix, L) /\ Describes(d, ix, L, r.refs, r.exts)
    BY DEF Good
  <1>4. e.fid \in Fids
    BY TurnClosed
  <1>5. \A j \in L : ix[j].kind = "anchor" => InTables(r, ix[j].fid)
    <2>1. \A j \in L : j \in 1 .. m /\ Begins(d, ix, j)
      BY DEF Live
    <2> QED BY <2>1 DEF Good
  <1>6. CASE e.kind = "plain"
    <2>1. /\ e.size # 0 /\ r.refs[e.fid] = NoRef /\ ~Mid(s)
          /\ s.refs = [f \in Fids |-> IF f = e.fid THEN Own(e.fid, e.size) ELSE r.refs[f]]
          /\ s.exts = {x \in r.exts : x.fid # e.fid} \cup {ExtentFor(d, e)}
          /\ s.tables = r.tables
      <3>1. AfterPlain(d, r, e, s)
        BY <1>6, TurnClosed
      <3> QED BY <3>1 DEF AfterPlain
    <2> HIDE DEF L, s
    <2>2. Obj(ix, b) = e
      BY <1>6 DEF Obj
    <2>3. Record(ix, b)
      BY <1>4, <1>6, <2>2 DEF Record
    <2>4. \A j \in L : e.fid \notin Named(ix, j)
      BY <1>3, <1>4, <2>1, UnusedName
    <2>5. NoJumpNames(ix, L, ix[b].fid)
      BY <2>4 DEF NoJumpNames
    <2>6. Records(ix, Without(ix, L, e.fid) \cup {b})
          /\ Describes(d, ix, Without(ix, L, e.fid) \cup {b}, s.refs, s.exts)
      <3>1. ix[b] = e /\ ix[b].kind # "jump" /\ Obj(ix, b).size # 0
        BY <1>6, <2>1, <2>2
      <3>2. /\ Records(ix, Without(ix, L, ix[b].fid) \cup {b})
            /\ Describes(d, ix, Without(ix, L, ix[b].fid) \cup {b},
                         [g \in Fids |-> IF g = ix[b].fid THEN Own(ix[b].fid, Obj(ix, b).size)
                                         ELSE r.refs[g]],
                         {x \in r.exts : x.fid # ix[b].fid} \cup {ExtentFor(d, Obj(ix, b))})
        BY <1>3, <2>3, <2>5, <3>1, Supersede
      <3> QED BY <2>1, <2>2, <3>1, <3>2
    <2>7. \A j \in L : ix[j].kind = "anchor" => ix[j].fid # ix[b].fid
      BY <2>4 DEF Named
    <2>8. \A f : InTables(s, f) <=> InTables(r, f)
      BY <2>1 DEF InTables
    <2>9. ix[b].kind # "tomb" /\ ix[b].kind # "anchor"
      BY <1>6
    <2>10. Good(d, ix, b)
      BY <1>0, <1>1, <1>2, <2>6, <2>7, <2>8, <2>9, GoodStep DEF L, s
    <2> QED BY <2>1, <2>10 DEF s
  <1>7. CASE e.kind = "tomb"
    <2>1. /\ ~Mid(s)
          /\ s.refs = [f \in Fids |-> IF f = e.fid THEN NoRef ELSE r.refs[f]]
          /\ s.exts = {x \in r.exts : x.fid # e.fid}
          /\ s.tables = r.tables
      <3>1. AfterTomb(r, e, s)
        BY <1>7, TurnClosed
      <3> QED BY <3>1 DEF AfterTomb
    <2> HIDE DEF L, s
    <2>2. Separate(r.refs, e.fid) /\ ~InTables(r, e.fid)
      BY <1>7 DEF Fits
    <2>3. NoJumpNames(ix, L, e.fid)
      BY <1>3, <1>4, <2>2, SeparateNames
    <2>4. Records(ix, Without(ix, L, e.fid))
          /\ Describes(d, ix, Without(ix, L, e.fid), s.refs, s.exts)
      BY <1>3, <1>4, <2>1, <2>3, DropRecords
    <2>5. Without(ix, L, e.fid) = Without(ix, L, ix[b].fid)
             \cup (IF ix[b].kind = "tomb" THEN {} ELSE {b})
      BY <1>7
    <2>7. \A j \in L : ix[j].kind = "anchor" => ix[j].fid # ix[b].fid
      BY <1>5, <2>2
    <2>8. \A f : InTables(s, f) <=> InTables(r, f)
      BY <2>1 DEF InTables
    <2>9. ix[b].kind # "anchor"
      BY <1>7
    <2>10. Good(d, ix, b)
      <3> DEFINE N == Without(ix, L, e.fid)
      <3>1. N = Without(ix, Live(d, ix, m), ix[m + 1].fid)
                  \cup (IF ix[m + 1].kind = "tomb" THEN {} ELSE {m + 1})
        BY <2>5, Zenon DEF L
      <3>2. Records(ix, N) /\ Describes(d, ix, N, Fold(d, ix)[b].refs, Fold(d, ix)[b].exts)
        BY <2>4 DEF s
      <3> HIDE DEF N
      <3> QED BY <1>0, <1>1, <1>2, <3>1, <3>2, <2>7, <2>8, <2>9, GoodStep DEF L, s
    <2> QED BY <2>1, <2>10 DEF s
  <1> QED BY <1>6, <1>7, TurnClosed

\* The second entry of a pair.
LEMMA GoodPair ==
    ASSUME NEW d \in Disks, NEW ix, NEW m \in Nat, NEW r, r = Fold(d, ix)[m],
           ~Mid(r), Good(d, ix, m), r.tables \in Seq(Fids),
           NEW h \in Entries, h = ix[m + 1], h # ZeroEntry, Fits(r, ix[m], h),
           h.kind = "jump" => r.refs[h.fid] = NoRef,
           NEW s \in ReplayStates, s = Fold(d, ix)[m + 1], Mid(s), Opened(r, s, h),
           NEW e \in Entries, e = ix[m + 2], e # ZeroEntry, Accepts(d, s, e), Fits(s, h, e),
           Fold(d, ix)[m + 2] = Apply(d, s, e)
    PROVE  ~Mid(Fold(d, ix)[m + 2]) /\ Good(d, ix, m + 2)
  <1> DEFINE L == Live(d, ix, m)
             t == Fold(d, ix)[m + 2]
             b == m + 1
  <1>0. b \in Nat /\ m < b /\ b - 1 = m /\ m + 2 \in Nat /\ m < m + 2 /\ (m + 2) - 1 = b /\ b + 1 = m + 2
    OBVIOUS
  <1>1. Begins(d, ix, b)
    BY <1>0, Zenon DEF Begins
  <1>2. \A j \in Nat : m + 1 < j /\ j <= m + 2 => ~Begins(d, ix, j)
    <2>1. ~Begins(d, ix, m + 2)
      BY <1>0, Zenon DEF Begins
    <2>2. \A j \in Nat : m + 1 < j /\ j <= m + 2 => j = m + 2
      OBVIOUS
    <2> QED BY <2>1, <2>2, Zenon
  <1>3. Records(ix, L) /\ Describes(d, ix, L, r.refs, r.exts)
    BY DEF Good
  <1>4. h.fid \in Fids /\ e.kind = "plain" /\ e.fid \in Fids /\ e.size # 0
    <2>1. h.fid \in Fids
      BY EntryFacts
    <2>2. e.kind = "plain" /\ e.fid \in Fids /\ e.size # 0
      <3>1. /\ e.kind = "plain" /\ e.fid \in Fids /\ e.size # 0
            /\ \/ AfterJump(d, r, h, e, Apply(d, s, e))
               \/ AfterAnchor(d, r, h, e, Apply(d, s, e))
        BY TurnOpen
      <3> QED BY <3>1
    <2> QED BY <2>1, <2>2
  <1>5. \A j \in L : ix[j].kind = "anchor" => InTables(r, ix[j].fid)
    <2>1. \A j \in L : j \in 1 .. m /\ Begins(d, ix, j)
      BY DEF Live
    <2> QED BY <2>1 DEF Good
  <1>k. h.kind = "jump" \/ h.kind = "anchor"
    BY DEF Opened, IsHead
  <1>o. Obj(ix, b) = e
    BY <1>0, <1>k DEF Obj
  <1>6. CASE h.kind = "jump"
    <2>1. /\ e.fid # h.fid /\ r.refs[e.fid] = NoRef /\ ~Mid(t)
          /\ t.refs = [f \in Fids |-> IF f = h.fid THEN AliasOf(e.fid, e.size)
                                      ELSE IF f = e.fid THEN Own(e.fid, e.size) ELSE r.refs[f]]
          /\ t.exts = {x \in r.exts : x.fid # e.fid} \cup {ExtentFor(d, e)}
          /\ t.tables = r.tables
      <3>1. AfterJump(d, r, h, e, t)
        BY <1>6, TurnOpen
      <3> QED BY <3>1 DEF AfterJump
    <2> HIDE DEF L, t
    <2>2. Record(ix, b)
      BY <1>4, <1>6, <1>o, <2>1 DEF Record
    <2>3. /\ ix[b] = h /\ ix[b].kind = "jump" /\ Obj(ix, b).size # 0
          /\ r.refs[ix[b].fid] = NoRef /\ r.refs[Obj(ix, b).fid] = NoRef
      BY <1>4, <1>6, <1>o, <2>1
    <2>4. Records(ix, Without(ix, L, h.fid) \cup {b})
          /\ Describes(d, ix, Without(ix, L, h.fid) \cup {b}, t.refs, t.exts)
      <3>1. /\ Records(ix, Without(ix, L, ix[b].fid) \cup {b})
            /\ Describes(d, ix, Without(ix, L, ix[b].fid) \cup {b},
                        [g \in Fids |-> IF g = ix[b].fid
                                        THEN AliasOf(Obj(ix, b).fid, Obj(ix, b).size)
                                        ELSE IF g = Obj(ix, b).fid
                                        THEN Own(Obj(ix, b).fid, Obj(ix, b).size) ELSE r.refs[g]],
                        {x \in r.exts : x.fid # Obj(ix, b).fid} \cup {ExtentFor(d, Obj(ix, b))})
        BY <1>3, <2>2, <2>3, AddPair
      <3>2. ix[b] = h /\ Obj(ix, b) = e
        BY <1>o, <2>3
      <3>3. Describes(d, ix, Without(ix, L, h.fid) \cup {b},
                      [f \in Fids |-> IF f = h.fid THEN AliasOf(e.fid, e.size)
                                      ELSE IF f = e.fid THEN Own(e.fid, e.size) ELSE r.refs[f]],
                      {x \in r.exts : x.fid # e.fid} \cup {ExtentFor(d, e)})
        BY <3>1, <3>2, Zenon
      <3> QED BY <2>1, <3>1, <3>2, <3>3, Zenon
    <2>5. \A j \in L : h.fid \notin Named(ix, j)
      BY <1>3, <1>4, <2>3, UnusedName
    <2>7. \A j \in L : ix[j].kind = "anchor" => ix[j].fid # ix[b].fid
      BY <2>5 DEF Named
    <2>8. \A f : InTables(t, f) <=> InTables(r, f)
      BY <2>1 DEF InTables
    <2>9. ix[b].kind # "tomb" /\ ix[b].kind # "anchor"
      BY <1>6
    <2>10. Good(d, ix, m + 2)
      BY <1>0, <1>1, <1>2, <2>4, <2>7, <2>8, <2>9, GoodStep DEF L, t
    <2> QED BY <2>1, <2>10 DEF t
  <1>7. CASE h.kind = "anchor"
    <2>1. /\ e.fid = h.fid /\ ~Mid(t)
          /\ t.refs = [f \in Fids |-> IF f = e.fid THEN Own(e.fid, e.size) ELSE r.refs[f]]
          /\ t.exts = {x \in r.exts : x.fid # e.fid} \cup {ExtentFor(d, e)}
          /\ t.tables = Append(r.tables, e.fid)
      <3>1. AfterAnchor(d, r, h, e, t)
        BY <1>7, TurnOpen
      <3> QED BY <3>1 DEF AfterAnchor
    <2> HIDE DEF L, t
    <2>2. Record(ix, b)
      BY <1>4, <1>7, <1>o, <2>1 DEF Record
    <2>3. Separate(r.refs, h.fid) /\ ~InTables(r, h.fid)
      BY <1>7 DEF Fits
    <2>5. NoJumpNames(ix, L, ix[b].fid)
      BY <1>3, <1>4, <2>3, SeparateNames
    <2>6. Records(ix, Without(ix, L, h.fid) \cup {b})
          /\ Describes(d, ix, Without(ix, L, h.fid) \cup {b}, t.refs, t.exts)
      <3>1. ix[b] = h /\ ix[b].kind # "jump" /\ Obj(ix, b).size # 0
        BY <1>4, <1>7, <1>o
      <3>2. /\ Records(ix, Without(ix, L, ix[b].fid) \cup {b})
            /\ Describes(d, ix, Without(ix, L, ix[b].fid) \cup {b},
                         [g \in Fids |-> IF g = ix[b].fid THEN Own(ix[b].fid, Obj(ix, b).size)
                                         ELSE r.refs[g]],
                         {x \in r.exts : x.fid # ix[b].fid} \cup {ExtentFor(d, Obj(ix, b))})
        BY <1>3, <2>2, <2>5, <3>1, Supersede
      <3>3. ix[b] = h /\ Obj(ix, b) = e /\ e.fid = h.fid
        BY <1>o, <2>1, <3>1
      <3>4. Describes(d, ix, Without(ix, L, h.fid) \cup {b},
                      [g \in Fids |-> IF g = h.fid THEN Own(h.fid, e.size) ELSE r.refs[g]],
                      {x \in r.exts : x.fid # h.fid} \cup {ExtentFor(d, e)})
        BY <3>2, <3>3, Zenon
      <3>5. /\ t.refs = [f \in Fids |-> IF f = h.fid THEN Own(h.fid, e.size) ELSE r.refs[f]]
            /\ t.exts = {x \in r.exts : x.fid # h.fid} \cup {ExtentFor(d, e)}
        BY <2>1, <3>3
      <3> QED BY <3>2, <3>3, <3>4, <3>5, Zenon
    <2>7. \A j \in L : ix[j].kind = "anchor" => ix[j].fid # ix[b].fid
      BY <1>5, <2>3
    <2>8. \A f : InTables(t, f) <=> InTables(r, f) \/ f = h.fid
      <3> DEFINE T == r.tables
                 U == Append(T, e.fid)
      <3>1. T \in Seq(Fids) /\ e.fid \in Fids
        BY <1>4
      <3> HIDE DEF T
      <3>2. /\ \A k \in DOMAIN T : k \in DOMAIN U /\ U[k] = T[k]
            /\ Len(T) + 1 \in DOMAIN U /\ U[Len(T) + 1] = e.fid
            /\ \A k \in DOMAIN U : k \in DOMAIN T \/ k = Len(T) + 1
        BY <3>1
      <3> QED BY <2>1, <3>2 DEF InTables, T
    <2>9. ix[b].kind # "tomb"
      BY <1>7
    <2>10. Good(d, ix, m + 2)
      <3> DEFINE N == Without(ix, L, h.fid) \cup {b}
      <3>1. N = Without(ix, Live(d, ix, m), ix[m + 1].fid)
                  \cup (IF ix[m + 1].kind = "tomb" THEN {} ELSE {m + 1})
        BY <2>9 DEF L
      <3>2. Records(ix, N) /\ Describes(d, ix, N, Fold(d, ix)[m + 2].refs, Fold(d, ix)[m + 2].exts)
        BY <2>6 DEF t
      <3>3. \A f : InTables(Fold(d, ix)[m + 2], f) <=>
                    InTables(Fold(d, ix)[m], f) \/ (ix[m + 1].kind = "anchor" /\ f = ix[m + 1].fid)
        BY <1>7, <2>8 DEF t
      <3> HIDE DEF N
      <3> QED BY <1>0, <1>1, <1>2, <2>7, <3>1, <3>2, <3>3, GoodStep DEF L
    <2> QED BY <2>1, <2>10 DEF t
  <1> QED BY <1>k, <1>6, <1>7

\* At every point, the replay of a shaped index has what its live records say.
LEMMA Phases ==
    ASSUME NEW d \in Disks, NEW ix \in Indexes, Fold(d, ix)[End(ix)].ok, Shaped(d, ix)
    PROVE  \A m \in 0 .. End(ix) : Phase(d, ix, m)
  <1> DEFINE F == Fold(d, ix)
             n == End(ix)
             T == {m \in Nat : m <= n => Phase(d, ix, m)}
  <1>0. n \in Nat
    BY EndFacts, IndexAssumption DEF EndsAt
  <1>1. \A i \in Nat : i < n =>
                /\ ix[i + 1] \in Entries /\ ix[i + 1] # ZeroEntry
                /\ F[i] \in ReplayStates /\ F[i].ok
                /\ F[i + 1] \in ReplayStates /\ F[i + 1].ok
                /\ Accepts(d, F[i], ix[i + 1])
                /\ F[i + 1] = Apply(d, F[i], ix[i + 1])
    BY <1>0, OkBefore
  <1>2. \A i \in Nat : i < n => Fits(F[i], ix[i], ix[i + 1])
    BY DEF Shaped
  <1>3. F[0] = ReplayStart
    BY FoldDef, Zenon
  <1> HIDE DEF n
  <1>4. 0 \in T
    <2>1. Live(d, ix, 0) = {}
      BY DEF Live
    <2>2. ~Mid(F[0]) /\ F[0].refs = [f \in Fids |-> NoRef] /\ F[0].exts = {}
      BY <1>3, StartFacts
    <2>3. F[0].refs \in [Fids -> ObjectRefs]
      BY <1>3, StartFacts DEF ReplayStates
    <2>4. Records(ix, {})
      BY DEF Records
    <2>5. Describes(d, ix, {}, F[0].refs, F[0].exts)
      <3>1. {ExtentFor(d, Obj(ix, j)) : j \in {}} = {}
        OBVIOUS
      <3> HIDE DEF F
      <3> QED BY <2>2, <2>3, <3>1 DEF Describes
    <2>6. Good(d, ix, 0)
      <3>1. \A f : ~InTables(F[0], f)
        <4>1. F[0].tables = <<>>
          BY <1>3, StartFacts
        <4> QED BY <4>1 DEF InTables
      <3> QED BY <2>1, <2>4, <2>5, <3>1 DEF Good
    <2> QED BY <2>2, <2>6 DEF Phase
  <1>5. \A m \in Nat : m \in T => m + 1 \in T
    <2> SUFFICES ASSUME NEW m \in Nat, m \in T, m + 1 <= n PROVE Phase(d, ix, m + 1)
      OBVIOUS
    <2>1. m < n /\ Phase(d, ix, m) /\ m + 1 # 0 /\ (m + 1) - 1 = m /\ m + 1 \in Nat
      BY <1>0
    <2>2. CASE ~Mid(F[m]) /\ Good(d, ix, m)
      <3>1. CASE IsHead(ix[m + 1])
        <4>1. Opened(F[m], F[m + 1], ix[m + 1]) /\ Mid(F[m + 1])
          BY <1>1, <2>1, <2>2, <3>1, TurnClosed
        <4> QED BY <2>1, <2>2, <4>1 DEF Phase
      <3>2. CASE ~IsHead(ix[m + 1])
        <4>1. ~Mid(F[m + 1]) /\ Good(d, ix, m + 1)
          BY <1>1, <1>2, <2>1, <2>2, <3>2, GoodSingle
        <4> QED BY <4>1 DEF Phase
      <3> QED BY <3>1, <3>2
    <2>3. CASE /\ m # 0 /\ Mid(F[m]) /\ ~Mid(F[m - 1]) /\ Good(d, ix, m - 1)
               /\ Opened(F[m - 1], F[m], ix[m])
      <3> DEFINE q == m - 1
      <3>1. q \in Nat /\ q + 1 = m /\ q + 2 = m + 1 /\ q < n
        BY <1>0, <2>1, <2>3
      <3> HIDE DEF q
      <3>2. ~Mid(F[q]) /\ Good(d, ix, q) /\ Opened(F[q], F[q + 1], ix[q + 1]) /\ Mid(F[q + 1])
        BY <2>3, <3>1 DEF q
      <3>3. /\ F[q] \in ReplayStates /\ F[q + 1] \in ReplayStates
            /\ ix[q + 1] \in Entries /\ ix[q + 1] # ZeroEntry /\ Accepts(d, F[q], ix[q + 1])
            /\ Fits(F[q], ix[q], ix[q + 1])
        BY <1>1, <1>2, <3>1
      <3>4. /\ ix[q + 2] \in Entries /\ ix[q + 2] # ZeroEntry /\ Accepts(d, F[q + 1], ix[q + 2])
            /\ Fits(F[q + 1], ix[q + 1], ix[q + 2]) /\ F[q + 2] = Apply(d, F[q + 1], ix[q + 2])
        BY <1>1, <1>2, <2>1, <3>1
      <3>5. ix[q + 1].kind = "jump" => F[q].refs[ix[q + 1].fid] = NoRef
        BY <3>3 DEF Accepts
      <3>6. F[q].tables \in Seq(Fids)
        BY <3>3 DEF ReplayStates
      <3>7. ~Mid(F[q + 2]) /\ Good(d, ix, q + 2)
        <4> HIDE DEF F
        <4>1. \A r, h, s, e : r = F[q] /\ h = ix[q + 1] /\ s = F[q + 1] /\ e = ix[q + 2] =>
                ~Mid(F[q + 2]) /\ Good(d, ix, q + 2)
          BY <3>1, <3>2, <3>3, <3>4, <3>5, <3>6, GoodPair DEF F
        <4> QED BY <4>1
      <3> QED BY <3>1, <3>7 DEF Phase
    <2> QED BY <2>1, <2>2, <2>3 DEF Phase
  <1> HIDE DEF T
  <1>6. \A m \in Nat : m \in T
    BY <1>4, <1>5, NatInSet
  <1> QED BY <1>0, <1>6 DEF T, n

\* Pairs open at their heads and close one entry on.
LEMMA MidStep ==
    ASSUME NEW d \in Disks, NEW ix \in Indexes, Fold(d, ix)[End(ix)].ok, Shaped(d, ix)
    PROVE  /\ ~Mid(Fold(d, ix)[0])
           /\ \A m \in 1 .. End(ix) :
                /\ Mid(Fold(d, ix)[m]) <=> IsHead(ix[m]) /\ ~Mid(Fold(d, ix)[m - 1])
                /\ ~Begins(d, ix, m) => ix[m].kind = "plain"
  <1> DEFINE F == Fold(d, ix)
             n == End(ix)
  <1>0. n \in Nat
    BY EndFacts, IndexAssumption DEF EndsAt
  <1>1. \A i \in Nat : i < n =>
                /\ ix[i + 1] \in Entries /\ ix[i + 1] # ZeroEntry
                /\ F[i] \in ReplayStates /\ F[i + 1] \in ReplayStates
                /\ Accepts(d, F[i], ix[i + 1])
                /\ F[i + 1] = Apply(d, F[i], ix[i + 1])
    BY <1>0, OkBefore
  <1>2. \A i \in Nat : i < n => Fits(F[i], ix[i], ix[i + 1])
    BY DEF Shaped
  <1>3. ~Mid(F[0])
    <2>1. F[0] = ReplayStart
      BY FoldDef, Zenon
    <2> QED BY <2>1, StartFacts
  <1>p. \A m \in 0 .. n : Phase(d, ix, m)
    BY Phases
  <1> HIDE DEF n
  <1>4. ASSUME NEW m \in 1 .. n
        PROVE  /\ Mid(F[m]) <=> IsHead(ix[m]) /\ ~Mid(F[m - 1])
               /\ Mid(F[m - 1]) => ix[m].kind = "plain"
    <2> DEFINE q == m - 1
    <2>1. q \in Nat /\ q + 1 = m /\ q < n /\ m \in 0 .. n /\ q \in 0 .. n
      BY <1>0
    <2>2. Mid(F[m]) => IsHead(ix[m]) /\ ~Mid(F[m - 1])
      BY <1>p, <2>1 DEF Phase, Opened
    <2>3. ASSUME IsHead(ix[m]), ~Mid(F[q]) PROVE Mid(F[m])
      <3>1. /\ ix[m] \in Entries /\ ix[m] # ZeroEntry /\ F[q] \in ReplayStates
            /\ Accepts(d, F[q], ix[m]) /\ F[m] = Apply(d, F[q], ix[m])
        BY <1>1, <2>1
      <3> HIDE DEF q, F
      <3> QED BY <2>3, <3>1, TurnClosed
    <2>4. ASSUME Mid(F[q]) PROVE ix[m].kind = "plain"
      <3>1. ~Mid(F[q - 1]) /\ q # 0 /\ Opened(F[q - 1], F[q], ix[q])
        BY <1>p, <2>1, <2>4 DEF Phase
      <3>2. q - 1 \in Nat /\ q - 1 < n /\ (q - 1) + 1 = q
        BY <1>0, <2>1, <3>1
      <3>3. /\ ix[m] \in Entries /\ ix[m] # ZeroEntry /\ F[q] \in ReplayStates
            /\ Accepts(d, F[q], ix[m]) /\ F[m] = Apply(d, F[q], ix[m]) /\ Fits(F[q], ix[q], ix[m])
        BY <1>1, <1>2, <2>1
      <3>4. ix[q] \in Entries /\ ix[q] # ZeroEntry
        BY <1>1, <3>2
      <3> HIDE DEF q, F
      <3>5. /\ ix[m].kind = "plain"
            /\ \/ AfterJump(d, F[q - 1], ix[q], ix[m], Apply(d, F[q], ix[m]))
               \/ AfterAnchor(d, F[q - 1], ix[q], ix[m], Apply(d, F[q], ix[m]))
        BY <3>1, <3>3, <3>4, TurnOpen
      <3> QED BY <3>5
    <2> QED BY <2>2, <2>3, <2>4
  <1> QED BY <1>3, <1>4, Zenon DEF Begins, n

\* The compaction sees the same pairs as the replay.
LEMMA PairEndsFacts ==
    ASSUME NEW d \in Disks, NEW ix \in Indexes, Fold(d, ix)[End(ix)].ok, Shaped(d, ix)
    PROVE  \A i \in 1 .. End(ix) : PairEnds(ix)[i] <=> ~Begins(d, ix, i)
  <1> DEFINE F == Fold(d, ix)
             n == End(ix)
             Turn(v, i) == IsHead(ix[i - 1]) /\ ~v
             g == CHOOSE f : f = [i \in 1 .. n |-> IF i = 1 THEN FALSE ELSE Turn(f[i - 1], i)]
             T == {i \in Nat : i + 1 <= n => (g[i + 1] <=> Mid(F[i]))}
  <1>0. n \in Nat /\ 1 \in Nat
    BY EndFacts, IndexAssumption DEF EndsAt
  <1>1. PairEnds(ix) = g
    BY Zenon DEF PairEnds
  <1>2. FiniteNatInductiveDefHypothesis(g, FALSE, Turn, 1, n)
    BY Zenon DEF FiniteNatInductiveDefHypothesis
  <1>m. ~Mid(F[0]) /\ \A m \in 1 .. n : Mid(F[m]) <=> IsHead(ix[m]) /\ ~Mid(F[m - 1])
    BY MidStep
  <1> HIDE DEF g, n, F
  <1>3. FiniteNatInductiveDefConclusion(g, FALSE, Turn, 1, n)
    BY <1>0, <1>2, FiniteNatInductiveDef
  <1>4. g = [i \in 1 .. n |-> IF i = 1 THEN FALSE ELSE Turn(g[i - 1], i)]
    BY <1>3, Zenon DEF FiniteNatInductiveDefConclusion
  <1>5. 0 \in T
    BY <1>0, <1>4, <1>m
  <1>6. \A i \in Nat : i \in T => i + 1 \in T
    <2> SUFFICES ASSUME NEW i \in Nat, i \in T, (i + 1) + 1 <= n
                 PROVE  g[(i + 1) + 1] <=> Mid(F[i + 1])
      OBVIOUS
    <2>1. i + 1 <= n /\ i + 1 \in 1 .. n /\ (i + 1) + 1 \in 1 .. n /\ (i + 1) + 1 # 1
          /\ ((i + 1) + 1) - 1 = i + 1 /\ (i + 1) - 1 = i
      BY <1>0
    <2>2. g[i + 1] <=> Mid(F[i])
      BY <2>1
    <2>3. g[(i + 1) + 1] = Turn(g[i + 1], (i + 1) + 1)
      BY <1>4, <2>1
    <2>4. Turn(g[i + 1], (i + 1) + 1) <=> IsHead(ix[i + 1]) /\ ~g[i + 1]
      BY <2>1
    <2> QED BY <1>m, <2>1, <2>2, <2>3, <2>4
  <1> HIDE DEF T
  <1>7. \A i \in Nat : i \in T
    BY <1>5, <1>6, NatInSet
  <1>8. ASSUME NEW i \in 1 .. n PROVE g[i] <=> Mid(F[i - 1])
    <2>1. i - 1 \in Nat /\ (i - 1) + 1 = i /\ i <= n
      BY <1>0
    <2> QED BY <1>7, <2>1 DEF T
  <1> QED BY <1>1, <1>8, Zenon DEF Begins, F, n

\* The compaction keeps exactly the live records.
LEMMA HeadsAreLive ==
    ASSUME NEW d \in Disks, NEW ix \in Indexes, Fold(d, ix)[End(ix)].ok, Shaped(d, ix),
           ~Mid(Fold(d, ix)[End(ix)])
    PROVE  LatestHeads(ix) = Live(d, ix, End(ix))
  <1> DEFINE n == End(ix)
             rec(i) == /\ ~PairEnds(ix)[i]
                       /\ IsHead(ix[i]) => i < n /\ ix[i + 1].kind = "plain"
             recs == {i \in 1 .. n : rec(i)}
  <1>0. n \in Nat
    BY EndFacts, IndexAssumption DEF EndsAt
  <1>1. LatestHeads(ix) = {i \in recs : /\ ix[i].kind # "tomb"
                                        /\ \A j \in recs : ix[j].fid = ix[i].fid => j <= i}
    BY Zenon DEF LatestHeads
  <1>2. \A m \in 1 .. n :
                /\ Mid(Fold(d, ix)[m]) <=> IsHead(ix[m]) /\ ~Mid(Fold(d, ix)[m - 1])
                /\ ~Begins(d, ix, m) => ix[m].kind = "plain"
    BY MidStep
  <1>3. \A i \in 1 .. n : PairEnds(ix)[i] <=> ~Begins(d, ix, i)
    BY PairEndsFacts
  <1>n. ~Mid(Fold(d, ix)[n])
    OBVIOUS
  <1> HIDE DEF n
  <1>4. ASSUME NEW i \in 1 .. n PROVE rec(i) <=> Begins(d, ix, i)
    <2>1. ASSUME Begins(d, ix, i), IsHead(ix[i])
          PROVE  i < n /\ ix[i + 1].kind = "plain"
      <3>1. ~Mid(Fold(d, ix)[i - 1])
        BY <2>1 DEF Begins
      <3>2. Mid(Fold(d, ix)[i])
        BY <1>2, <2>1, <3>1
      <3>3. i < n /\ i + 1 \in 1 .. n /\ (i + 1) - 1 = i
        BY <1>0, <1>n, <3>2
      <3>4. ~Begins(d, ix, i + 1)
        BY <3>2, <3>3 DEF Begins
      <3> QED BY <1>2, <3>3, <3>4
    <2> QED BY <1>3, <2>1
  <1> HIDE DEF rec
  <1>5. \A i : i \in recs <=> i \in 1 .. n /\ Begins(d, ix, i)
    BY <1>4
  <1> HIDE DEF recs
  <1>6. Live(d, ix, n) = {i \in 1 .. n : /\ Begins(d, ix, i) /\ ix[i].kind # "tomb"
                                         /\ \A j \in 1 .. n : Begins(d, ix, j) /\ ix[j].fid = ix[i].fid
                                                => j <= i}
    BY DEF Live
  <1>7. \A i : i \in LatestHeads(ix) <=> i \in Live(d, ix, n)
    BY <1>1, <1>5, <1>6
  <1> QED BY <1>7 DEF n

-----------------------------------------------------------------------------
(* The replay of a compacted index follows that of the index.              *)

Upto(H, m) == {j \in H : j <= m}

\* g has what the records H up to m say, and the tables of the first m
\* entries.
Follows(d, ix, H, m, g) ==
    /\ g \in ReplayStates /\ g.ok /\ ~Mid(g)
    /\ g.tables = Fold(d, ix)[m].tables
    /\ Describes(d, ix, Upto(H, m), g.refs, g.exts)

\* The names of the record at b are new to the records U.
Fresh(ix, U, refs, b) ==
    /\ Records(ix, U) /\ Record(ix, b)
    /\ refs[ix[b].fid] = NoRef /\ refs[Obj(ix, b).fid] = NoRef
    /\ Without(ix, U, ix[b].fid) = U
    /\ NoJumpNames(ix, U, ix[b].fid)

\* The records up to m, and one that is not among them.
LEMMA FreshRecord ==
    ASSUME NEW d, NEW ix, NEW H, Records(ix, H), \A j \in H : j \in Nat, NEW m \in Nat,
           NEW refs, NEW exts, Describes(d, ix, Upto(H, m), refs, exts), NEW b \in H, m < b
    PROVE  Fresh(ix, Upto(H, m), refs, b)
  <1> DEFINE U == Upto(H, m)
  <1>1. \A j \in U : j \in H /\ j # b
    BY DEF Upto
  <1> HIDE DEF U
  <1>2. Records(ix, U)
    BY <1>1 DEF Records
  <1>3. Record(ix, b)
    BY DEF Records, Record
  <1>4. \A j \in U : Named(ix, j) \cap Named(ix, b) = {}
    BY <1>1 DEF Records
  <1>5. \A j \in U : ix[b].fid \notin Named(ix, j) /\ Obj(ix, b).fid \notin Named(ix, j)
    BY <1>4 DEF Named
  <1>6. refs[ix[b].fid] = NoRef /\ refs[Obj(ix, b).fid] = NoRef
    <2>1. ix[b].fid \in Fids /\ Obj(ix, b).fid \in Fids
      BY <1>3, EntryFacts DEF Record
    <2> QED BY <1>5, <2>1 DEF Describes, U
  <1>7. Without(ix, U, ix[b].fid) = U
    BY <1>5 DEF Without, Named
  <1>8. NoJumpNames(ix, U, ix[b].fid)
    BY <1>5 DEF NoJumpNames
  <1> QED BY <1>2, <1>3, <1>6, <1>7, <1>8 DEF U, Fresh

\* A turn of the loop in which the entry is accepted.
LEMMA Turned ==
    ASSUME NEW d \in Disks, NEW g \in ReplayStates, g.ok, NEW e \in Entries, e # ZeroEntry,
           Accepts(d, g, e)
    PROVE  /\ ReplayEntry(d, g, e) = Apply(d, g, e)
           /\ ReplayEntry(d, g, e) \in ReplayStates /\ ReplayEntry(d, g, e).ok
  <1>0. e.kind \in {"plain", "jump", "anchor", "tomb"}
    BY EntryFacts
  <1>1. ReplayEntry(d, g, e) = Apply(d, g, e)
    BY Zenon DEF ReplayEntry
  <1>2. Apply(d, g, e) \in ReplayStates /\ Apply(d, g, e).ok = g.ok
    <2>1. CASE e.kind = "plain" /\ g.anchor
      BY <2>1, ApplyTable DEF Same
    <2>2. CASE e.kind = "plain" /\ ~g.anchor
      BY <2>2, ApplyPlain DEF Same
    <2>3. CASE e.kind # "plain"
      BY <1>0, <2>3, ApplyOther DEF Same
    <2> QED BY <2>1, <2>2, <2>3
  <1> QED BY <1>1, <1>2

\* A single entry: kept, or left out.
LEMMA FollowSingle ==
    ASSUME NEW d \in Disks, NEW ix, NEW H, Records(ix, H), \A j \in H : j \in Nat, NEW m \in Nat,
           NEW r \in ReplayStates, r = Fold(d, ix)[m], ~Mid(r),
           NEW e \in Entries, e = ix[m + 1], e # ZeroEntry, ~IsHead(e),
           Accepts(d, r, e), Fold(d, ix)[m + 1] = Apply(d, r, e),
           NEW g, Follows(d, ix, H, m, g)
    PROVE  /\ m + 1 \notin H => Follows(d, ix, H, m + 1, g)
           /\ m + 1 \in H => Follows(d, ix, H, m + 1, ReplayEntry(d, g, e))
  <1> DEFINE b == m + 1
             s == Fold(d, ix)[b]
  <1>0. b \in Nat /\ m < b
    OBVIOUS
  <1>1. s.tables = r.tables /\ e.fid \in Fids /\ (e.kind = "plain" \/ e.kind = "tomb")
    <2>1. e.fid \in Fids /\ (e.kind = "plain" \/ e.kind = "tomb")
      BY EntryFacts DEF IsHead
    <2>2. CASE e.kind = "plain"
      <3>1. AfterPlain(d, r, e, s)
        BY <2>2, TurnClosed
      <3> QED BY <2>1, <3>1 DEF AfterPlain
    <2>3. CASE e.kind = "tomb"
      <3>1. AfterTomb(r, e, s)
        BY <2>3, TurnClosed
      <3> QED BY <2>1, <3>1 DEF AfterTomb
    <2> QED BY <2>1, <2>2, <2>3
  <1>g. /\ g \in ReplayStates /\ g.ok /\ ~Mid(g) /\ g.tables = r.tables
        /\ Describes(d, ix, Upto(H, m), g.refs, g.exts)
    BY DEF Follows
  <1> HIDE DEF s
  <1>2. ASSUME b \notin H PROVE Follows(d, ix, H, b, g)
    <2>1. Upto(H, b) = Upto(H, m)
      BY <1>2 DEF Upto
    <2> QED BY <1>1, <1>g, <2>1 DEF Follows, s
  <1>3. ASSUME b \in H PROVE Follows(d, ix, H, b, ReplayEntry(d, g, e))
    <2> DEFINE U == Upto(H, m)
               t == ReplayEntry(d, g, e)
    <2>1. /\ Records(ix, U) /\ Record(ix, b)
          /\ g.refs[ix[b].fid] = NoRef
          /\ Without(ix, U, ix[b].fid) = U /\ NoJumpNames(ix, U, ix[b].fid)
      <3>1. Fresh(ix, U, g.refs, b)
        BY <1>0, <1>3, <1>g, FreshRecord
      <3> QED BY <3>1 DEF Fresh
    <2>2. e.kind = "plain" /\ Obj(ix, b) = e
      BY <1>1, <2>1 DEF Record, Obj
    <2>3. Accepts(d, g, e)
      <3>1. g.alias = 0 /\ ~g.anchor
        BY <1>g DEF Mid
      <3>2. AddrOK(d, e.fid, e.size)
        BY <2>2 DEF Accepts
      <3> QED BY <2>1, <2>2, <3>1, <3>2 DEF Accepts
    <2>4. t = Apply(d, g, e) /\ t \in ReplayStates /\ t.ok
      BY <1>g, <2>3, Turned
    <2> HIDE DEF t
    <2>5. AfterPlain(d, g, e, t)
      BY <1>g, <2>2, <2>3, <2>4, TurnClosed
    <2>6. /\ e.size # 0 /\ ~Mid(t) /\ t.tables = g.tables
          /\ t.refs = [f \in Fids |-> IF f = e.fid THEN Own(e.fid, e.size) ELSE g.refs[f]]
          /\ t.exts = {x \in g.exts : x.fid # e.fid} \cup {ExtentFor(d, e)}
      BY <2>5 DEF AfterPlain
    <2>7. ix[b] = e /\ ix[b].kind # "jump" /\ Obj(ix, b).size # 0
      BY <2>2, <2>6
    <2>8. Describes(d, ix, Without(ix, U, ix[b].fid) \cup {b},
                         [f \in Fids |-> IF f = ix[b].fid THEN Own(ix[b].fid, Obj(ix, b).size)
                                         ELSE g.refs[f]],
                         {x \in g.exts : x.fid # ix[b].fid} \cup {ExtentFor(d, Obj(ix, b))})
      BY <1>g, <2>1, <2>7, Supersede
    <2>9. Upto(H, b) = U \cup {b}
      BY <1>3 DEF Upto
    <2>10. Describes(d, ix, Upto(H, b), t.refs, t.exts)
      <3>1. Describes(d, ix, U \cup {b},
                      [f \in Fids |-> IF f = e.fid THEN Own(e.fid, e.size) ELSE g.refs[f]],
                      {x \in g.exts : x.fid # e.fid} \cup {ExtentFor(d, e)})
        BY <2>1, <2>2, <2>7, <2>8, Zenon
      <3> QED BY <2>6, <2>9, <3>1, Zenon
    <2> QED BY <1>1, <1>g, <2>4, <2>6, <2>10 DEF Follows, s, t
  <1> QED BY <1>2, <1>3

\* A pair: kept, or left out.  A pair that announces a table is kept.
LEMMA FollowPair ==
    ASSUME NEW d \in Disks, NEW ix, NEW H, Records(ix, H), \A j \in H : j \in Nat, NEW m \in Nat,
           NEW r, r = Fold(d, ix)[m],
           NEW h \in Entries, h = ix[m + 1], h # ZeroEntry,
           NEW s \in ReplayStates, Opened(r, s, h),
           NEW e \in Entries, e = ix[m + 2], e # ZeroEntry,
           Accepts(d, s, e), Fits(s, h, e), Fold(d, ix)[m + 2] = Apply(d, s, e),
           m + 2 \notin H, h.kind = "anchor" => m + 1 \in H,
           NEW g, Follows(d, ix, H, m, g)
    PROVE  /\ m + 1 \notin H => Follows(d, ix, H, m + 2, g)
           /\ m + 1 \in H => Follows(d, ix, H, m + 2, ReplayEntry(d, ReplayEntry(d, g, h), e))
  <1> DEFINE b == m + 1
             z == Fold(d, ix)[m + 2]
  <1>0. b \in Nat /\ m < b /\ m + 2 \in Nat /\ b + 1 = m + 2
    OBVIOUS
  <1>k. h.kind = "jump" \/ h.kind = "anchor"
    BY DEF Opened, IsHead
  <1>h. h.fid \in Fids /\ h.fid # 0
    BY EntryFacts
  <1>e. e.kind = "plain"
    <2>1. CASE h.kind = "jump"
      <3>1. e.kind = "plain" /\ AfterJump(d, r, h, e, Apply(d, s, e))
        BY <2>1, TurnOpen
      <3> QED BY <3>1
    <2>2. CASE h.kind = "anchor"
      <3>1. e.kind = "plain" /\ AfterAnchor(d, r, h, e, Apply(d, s, e))
        BY <2>2, TurnOpen
      <3> QED BY <3>1
    <2> QED BY <1>k, <2>1, <2>2
  <1>g. /\ g \in ReplayStates /\ g.ok /\ ~Mid(g) /\ g.tables = r.tables
        /\ Describes(d, ix, Upto(H, m), g.refs, g.exts)
    BY DEF Follows
  <1>1. ASSUME b \notin H PROVE Follows(d, ix, H, m + 2, g)
    <2>1. h.kind = "jump"
      BY <1>k, <1>1
    <2>2. AfterJump(d, r, h, e, z)
      BY <2>1, TurnOpen
    <2>3. z.tables = r.tables
      BY <2>2 DEF AfterJump
    <2> HIDE DEF z
    <2>4. \A j \in H : j <= m + 2 <=> j <= m
      BY <1>1
    <2>5. Upto(H, m + 2) = Upto(H, m)
      BY <2>4 DEF Upto
    <2> QED BY <1>g, <2>3, <2>5 DEF Follows, z
  <1>2. ASSUME b \in H
        PROVE  Follows(d, ix, H, m + 2, ReplayEntry(d, ReplayEntry(d, g, h), e))
    <2> DEFINE U == Upto(H, m)
               u == ReplayEntry(d, g, h)
               t == ReplayEntry(d, u, e)
    <2>1. /\ Records(ix, U) /\ Record(ix, b)
          /\ g.refs[ix[b].fid] = NoRef /\ g.refs[Obj(ix, b).fid] = NoRef
          /\ Without(ix, U, ix[b].fid) = U /\ NoJumpNames(ix, U, ix[b].fid)
      <3>1. Fresh(ix, U, g.refs, b)
        BY <1>0, <1>2, <1>g, FreshRecord
      <3> QED BY <3>1 DEF Fresh
    <2>2. ix[b] = h /\ Obj(ix, b) = e
      BY <1>0, <1>k DEF Obj
    <2>3. Accepts(d, g, h)
      <3>1. g.alias = 0 /\ ~g.anchor
        BY <1>g DEF Mid
      <3> QED BY <1>k, <2>1, <2>2, <3>1 DEF Accepts
    <2>4. u = Apply(d, g, h) /\ u \in ReplayStates /\ u.ok
      BY <1>g, <2>3, Turned
    <2>5. Opened(g, u, h)
      <3>1. IsHead(h)
        BY DEF Opened
      <3> HIDE DEF u
      <3> QED BY <1>g, <2>3, <2>4, <3>1, TurnClosed
    <2> HIDE DEF u
    <2>6. /\ u.refs = g.refs /\ u.alias = s.alias /\ u.anchor = s.anchor
      BY <2>5 DEF Opened
    <2>7. Accepts(d, u, e) /\ Fits(u, h, e)
      <3>1. AddrOK(d, e.fid, e.size)
        BY <1>e DEF Accepts
      <3>2. g.refs[e.fid] = NoRef
        BY <2>1, <2>2
      <3>3. ~s.anchor => (s.alias # 0 => s.alias # e.fid /\ e.size >= 2)
        BY <1>e DEF Accepts
      <3>4. s.anchor => e.fid = h.fid
        BY DEF Fits
      <3>5. Accepts(d, u, e)
        BY <1>e, <2>6, <3>1, <3>2, <3>3 DEF Accepts
      <3>6. Fits(u, h, e)
        BY <1>e, <2>6, <3>4 DEF Fits
      <3> QED BY <3>5, <3>6
    <2>8. t = Apply(d, u, e) /\ t \in ReplayStates /\ t.ok
      BY <2>4, <2>7, Turned
    <2> HIDE DEF t
    <2>9. Upto(H, m + 2) = U \cup {b}
      <3>1. \A j \in H : j <= m + 2 <=> j <= m \/ j = b
        OBVIOUS
      <3> QED BY <1>2, <3>1 DEF Upto
    <2>10. CASE h.kind = "jump"
      <3>1. AfterJump(d, r, h, e, z)
        BY <2>10, TurnOpen
      <3>2. z.tables = r.tables
        BY <3>1 DEF AfterJump
      <3>3. e.size # 0 /\ AfterJump(d, g, h, e, t)
        <4>1. e.size # 0 /\ AfterJump(d, g, h, e, Apply(d, u, e))
          BY <2>4, <2>5, <2>7, <2>10, TurnOpen
        <4> QED BY <2>8, <4>1
      <3>4. /\ ~Mid(t) /\ t.tables = g.tables
            /\ t.refs = [f \in Fids |-> IF f = h.fid THEN AliasOf(e.fid, e.size)
                                        ELSE IF f = e.fid THEN Own(e.fid, e.size) ELSE g.refs[f]]
            /\ t.exts = {x \in g.exts : x.fid # e.fid} \cup {ExtentFor(d, e)}
        BY <3>3 DEF AfterJump
      <3> HIDE DEF z
      <3>5. ix[b].kind = "jump" /\ Obj(ix, b).size # 0
        BY <2>2, <2>10, <3>3
      <3>6. Describes(d, ix, Without(ix, U, ix[b].fid) \cup {b},
                        [f \in Fids |-> IF f = ix[b].fid
                                        THEN AliasOf(Obj(ix, b).fid, Obj(ix, b).size)
                                        ELSE IF f = Obj(ix, b).fid
                                        THEN Own(Obj(ix, b).fid, Obj(ix, b).size) ELSE g.refs[f]],
                        {x \in g.exts : x.fid # Obj(ix, b).fid} \cup {ExtentFor(d, Obj(ix, b))})
        BY <1>g, <2>1, <3>5, AddPair
      <3>7. Describes(d, ix, U \cup {b},
                      [f \in Fids |-> IF f = h.fid THEN AliasOf(e.fid, e.size)
                                      ELSE IF f = e.fid THEN Own(e.fid, e.size) ELSE g.refs[f]],
                      {x \in g.exts : x.fid # e.fid} \cup {ExtentFor(d, e)})
        BY <2>1, <2>2, <3>6, Zenon
      <3>8. Describes(d, ix, Upto(H, m + 2), t.refs, t.exts)
        BY <2>9, <3>4, <3>7, Zenon
      <3> QED BY <1>g, <2>8, <3>2, <3>4, <3>8 DEF Follows, t, u, z
    <2>11. CASE h.kind = "anchor"
      <3>1. AfterAnchor(d, r, h, e, z)
        BY <2>11, TurnOpen
      <3>2. z.tables = Append(r.tables, e.fid)
        BY <3>1 DEF AfterAnchor
      <3>3. e.size # 0 /\ AfterAnchor(d, g, h, e, t)
        <4>1. e.size # 0 /\ AfterAnchor(d, g, h, e, Apply(d, u, e))
          BY <2>4, <2>5, <2>7, <2>11, TurnOpen
        <4> QED BY <2>8, <4>1
      <3>4. /\ ~Mid(t) /\ t.tables = Append(g.tables, e.fid) /\ e.fid = h.fid
            /\ t.refs = [f \in Fids |-> IF f = e.fid THEN Own(e.fid, e.size) ELSE g.refs[f]]
            /\ t.exts = {x \in g.exts : x.fid # e.fid} \cup {ExtentFor(d, e)}
        BY <3>3 DEF AfterAnchor
      <3> HIDE DEF z
      <3>5. ix[b].kind # "jump" /\ Obj(ix, b).size # 0
        BY <2>2, <2>11, <3>3
      <3>6. Describes(d, ix, Without(ix, U, ix[b].fid) \cup {b},
                         [f \in Fids |-> IF f = ix[b].fid THEN Own(ix[b].fid, Obj(ix, b).size)
                                         ELSE g.refs[f]],
                         {x \in g.exts : x.fid # ix[b].fid} \cup {ExtentFor(d, Obj(ix, b))})
        BY <1>g, <2>1, <3>5, Supersede
      <3>n. ix[b].fid = e.fid
        BY <2>2, <3>4
      <3>7. Describes(d, ix, U \cup {b},
                      [f \in Fids |-> IF f = e.fid THEN Own(e.fid, e.size) ELSE g.refs[f]],
                      {x \in g.exts : x.fid # e.fid} \cup {ExtentFor(d, e)})
        BY <2>1, <2>2, <3>n, <3>6, Zenon
      <3>8. Describes(d, ix, Upto(H, m + 2), t.refs, t.exts)
        BY <2>9, <3>4, <3>7, Zenon
      <3>9. t.tables = z.tables
        BY <1>g, <3>2, <3>4
      <3> QED BY <2>8, <3>4, <3>8, <3>9 DEF Follows, t, u, z
    <2> QED BY <1>k, <2>10, <2>11
  <1> QED BY <1>1, <1>2

\* The entries at a set of positions, moved to the front.
LEMMA ImageFacts ==
    ASSUME NEW ix \in Indexes, NEW K, Below(K, End(ix))
    PROVE  /\ Image(ix, K) \in Indexes
           /\ End(Image(ix, K)) = Cardinality(K)
           /\ \A i \in K : Image(ix, K)[Rank(K, i)] = ix[i]
  <1> DEFINE n == End(ix)
             c == Cardinality(K)
             cx == Image(ix, K)
  <1>0. /\ n \in Nat /\ n <= IndexCap /\ IndexCap \in Nat
        /\ \A i \in 1 .. n : ix[i] # ZeroEntry
    BY EndFacts, IndexAssumption DEF EndsAt
  <1>1. \A i \in K : i \in 1 .. n /\ i \in 1 .. IndexCap
    <2>1. \A i \in K : i \in 1 .. n
      BY DEF Below
    <2>2. \A i \in 1 .. n : i \in 1 .. IndexCap
      BY <1>0
    <2> QED BY <2>1, <2>2, Zenon
  <1>2. c \in Nat /\ c <= n
    <2>1. IsFiniteSet(1 .. n) /\ Cardinality(1 .. n) = n
      BY <1>0, FS_Interval
    <2>2. IsFiniteSet(K) /\ Cardinality(K) <= Cardinality(1 .. n)
      BY <2>1, FS_Subset DEF Below
    <2>3. c \in Nat
      BY <2>2, FS_CardinalityType
    <2> QED BY <2>1, <2>2, <2>3
  <1>3. /\ \A k \in 1 .. c : Nth(K, k) \in K
        /\ \A i \in K : Rank(K, i) \in 1 .. c /\ Nth(K, Rank(K, i)) = i
    BY <1>0, NthFacts
  <1>4. cx = [k \in 1 .. IndexCap |-> IF k <= c THEN ix[Nth(K, k)] ELSE ZeroEntry]
    BY Zenon DEF Image
  <1> HIDE DEF n, c, cx
  <1>5. \A k \in 1 .. c : k \in 1 .. IndexCap /\ cx[k] = ix[Nth(K, k)]
    BY <1>0, <1>2, <1>4
  <1>6. cx \in Indexes
    <2>1. \A k \in 1 .. IndexCap : ~(k <= c) => cx[k] = ZeroEntry
      BY <1>4
    <2>2. \A k \in 1 .. IndexCap : cx[k] \in Entries
      <3> SUFFICES ASSUME NEW k \in 1 .. IndexCap PROVE cx[k] \in Entries
        OBVIOUS
      <3>1. CASE k <= c
        <4>1. k \in 1 .. c
          BY <1>2, <3>1
        <4>2. Nth(K, k) \in 1 .. IndexCap
          BY <1>1, <1>3, <4>1
        <4> QED BY <1>5, <4>1, <4>2 DEF Indexes
      <3>2. CASE ~(k <= c)
        BY <2>1, <3>2 DEF Entries
      <3> QED BY <3>1, <3>2
    <2>3. cx = [k \in 1 .. IndexCap |-> cx[k]]
      BY <1>4
    <2> QED BY <2>2, <2>3 DEF Indexes
  <1>7. EndsAt(cx, c)
    <2>1. c \in 0 .. IndexCap
      BY <1>0, <1>2
    <2>2. ASSUME NEW k \in 1 .. c PROVE cx[k] # ZeroEntry
      <3>1. Nth(K, k) \in 1 .. n
        BY <1>1, <1>3
      <3> QED BY <1>0, <1>5, <3>1
    <2>3. ASSUME c < IndexCap PROVE cx[c + 1] = ZeroEntry
      <3>1. c + 1 \in 1 .. IndexCap /\ ~(c + 1 <= c)
        BY <1>0, <1>2, <2>3
      <3> QED BY <1>4, <3>1
    <2> QED BY <2>1, <2>2, <2>3 DEF EndsAt
  <1>8. End(cx) = c
    BY <1>7, EndFacts
  <1>9. \A i \in K : cx[Rank(K, i)] = ix[i]
    BY <1>3, <1>5
  <1> QED BY <1>6, <1>8, <1>9 DEF c, cx

\* Which positions a compaction keeps.
LEMMA KeptFacts ==
    ASSUME NEW d \in Disks, NEW ix \in Indexes, Fold(d, ix)[End(ix)].ok, Shaped(d, ix),
           ~Mid(Fold(d, ix)[End(ix)])
    PROVE  /\ Below(Kept(ix), End(ix))
           /\ \A i \in 1 .. End(ix) : Begins(d, ix, i) => (i \in Kept(ix) <=> i \in LatestHeads(ix))
           /\ \A i \in 1 .. End(ix) : i < End(ix) /\ ~Begins(d, ix, i + 1) =>
                    (i + 1 \in Kept(ix) <=> i \in LatestHeads(ix))
           /\ \A i \in LatestHeads(ix) : i \in 1 .. End(ix) /\ Begins(d, ix, i)
           /\ Records(ix, LatestHeads(ix))
  <1> DEFINE n == End(ix)
             H == LatestHeads(ix)
             K == Kept(ix)
  <1>0. n \in Nat
    BY EndFacts, IndexAssumption DEF EndsAt
  <1>1. H = Live(d, ix, n)
    BY HeadsAreLive
  <1>2. K = H \cup {i + 1 : i \in {j \in H : ix[j].kind # "plain"}}
    BY Zenon DEF Kept
  <1>3. Good(d, ix, n)
    <2>1. Phase(d, ix, n)
      BY <1>0, Phases
    <2> QED BY <2>1 DEF Phase
  <1>4. Records(ix, H)
    BY <1>1, <1>3, Zenon DEF Good
  <1>m. \A m \in 1 .. n :
                /\ Mid(Fold(d, ix)[m]) <=> IsHead(ix[m]) /\ ~Mid(Fold(d, ix)[m - 1])
                /\ ~Begins(d, ix, m) => ix[m].kind = "plain"
    BY MidStep
  <1>n. ~Mid(Fold(d, ix)[n])
    OBVIOUS
  <1>5. \A i \in H : i \in 1 .. n /\ Begins(d, ix, i)
    BY <1>1 DEF Live
  <1> HIDE DEF n, H, K
  <1>6. ASSUME NEW i \in H, ix[i].kind # "plain"
        PROVE  i + 1 \in 1 .. n /\ ~Begins(d, ix, i + 1)
    <2>1. IsHead(ix[i])
      BY <1>4, <1>6 DEF Records, IsHead
    <2>2. i \in 1 .. n /\ ~Mid(Fold(d, ix)[i - 1])
      BY <1>5 DEF Begins
    <2>3. Mid(Fold(d, ix)[i])
      BY <1>m, <2>1, <2>2
    <2>4. i # n
      BY <1>n, <2>3
    <2>5. i + 1 \in 1 .. n /\ (i + 1) - 1 = i
      BY <1>0, <2>2, <2>4
    <2> QED BY <2>3, <2>5 DEF Begins
  <1>7. \A k \in K : k \in 1 .. n
    BY <1>2, <1>5, <1>6
  <1>8. Below(K, n)
    BY <1>7 DEF Below
  <1>9. \A i \in 1 .. n : Begins(d, ix, i) => (i \in K <=> i \in H)
    BY <1>2, <1>6
  <1>10. ASSUME NEW i \in 1 .. n, i < n, ~Begins(d, ix, i + 1)
         PROVE  i + 1 \in K <=> i \in H
    <2>1. i + 1 \notin H
      BY <1>5, <1>10
    <2>2. \A j \in H : j + 1 = i + 1 => j = i
      <3>1. \A j \in H : j \in Nat
        BY <1>0, <1>5
      <3> QED BY <3>1, <1>0
    <2>3. i + 1 \in K => i \in H
      BY <1>2, <2>1, <2>2
    <2>4. ASSUME i \in H PROVE ix[i].kind # "plain"
      <3>1. i + 1 \in 1 .. n /\ (i + 1) - 1 = i
        BY <1>0, <1>10
      <3>2. Mid(Fold(d, ix)[i])
        BY <1>10, <3>1 DEF Begins
      <3>3. IsHead(ix[i])
        BY <1>m, <3>2
      <3> QED BY <3>3 DEF IsHead
    <2>5. i \in H => i + 1 \in K
      BY <1>2, <2>4
    <2> QED BY <2>3, <2>5
  <1> QED BY <1>4, <1>5, <1>8, <1>9, <1>10 DEF n, H, K

\* The replay of the compacted index, at the place the replay of the index
\* has reached.
LEMMA CompactedFollows ==
    ASSUME NEW d \in Disks, NEW ix \in Indexes, Fold(d, ix)[End(ix)].ok, Shaped(d, ix),
           ~Mid(Fold(d, ix)[End(ix)])
    PROVE  \A m \in 0 .. End(ix) : ~Mid(Fold(d, ix)[m]) =>
                Follows(d, ix, LatestHeads(ix), m, Fold(d, Compacted(ix))[Rank(Kept(ix), m)])
  <1> DEFINE F == Fold(d, ix)
             n == End(ix)
             H == LatestHeads(ix)
             K == Kept(ix)
             cx == Compacted(ix)
             G == Fold(d, cx)
             At(m) == Follows(d, ix, H, m, G[Rank(K, m)])
             T == {m \in Nat : m <= n => /\ ~Mid(F[m]) => At(m)
                                         /\ Mid(F[m]) => At(m - 1)}
  <1>0. n \in Nat
    BY EndFacts, IndexAssumption DEF EndsAt
  <1>1. /\ Below(K, n) /\ Records(ix, H)
        /\ \A i \in 1 .. n : Begins(d, ix, i) => (i \in K <=> i \in H)
        /\ \A i \in 1 .. n : i < n /\ ~Begins(d, ix, i + 1) => (i + 1 \in K <=> i \in H)
        /\ \A i \in H : i \in 1 .. n /\ Begins(d, ix, i)
    BY KeptFacts
  <1>2. /\ cx \in Indexes /\ End(cx) = Cardinality(K)
        /\ \A i \in K : cx[Rank(K, i)] = ix[i]
    BY <1>1, ImageFacts DEF Compacted
  <1>3. /\ Rank(K, 0) = 0 /\ \A i \in Nat : Rank(K, i) \in Nat
        /\ \A i \in Nat : Rank(K, i + 1) = IF i + 1 \in K THEN Rank(K, i) + 1 ELSE Rank(K, i)
        /\ Rank(K, n) = Cardinality(K)
    BY <1>0, <1>1, RankStep
  <1>4. F[0] = ReplayStart /\ G[0] = ReplayStart
        /\ \A i \in Nat : G[i + 1] = ReplayEntry(d, G[i], cx[i + 1])
    BY FoldDef, Zenon
  <1>5. \A i \in Nat : i < n =>
                /\ ix[i + 1] \in Entries /\ ix[i + 1] # ZeroEntry
                /\ F[i] \in ReplayStates /\ F[i + 1] \in ReplayStates
                /\ Accepts(d, F[i], ix[i + 1])
                /\ F[i + 1] = Apply(d, F[i], ix[i + 1])
                /\ Fits(F[i], ix[i], ix[i + 1])
    <2>1. \A i \in Nat : i < n =>
                /\ ix[i + 1] \in Entries /\ ix[i + 1] # ZeroEntry
                /\ F[i] \in ReplayStates /\ F[i + 1] \in ReplayStates
                /\ Accepts(d, F[i], ix[i + 1])
                /\ F[i + 1] = Apply(d, F[i], ix[i + 1])
      BY <1>0, OkBefore
    <2>2. \A i \in Nat : i < n => Fits(F[i], ix[i], ix[i + 1])
      BY DEF Shaped
    <2> QED BY <2>1, <2>2
  <1>6. \A m \in 0 .. n : Phase(d, ix, m)
    BY Phases
  <1>7. /\ ~Mid(F[0])
        /\ \A m \in 1 .. n : Mid(F[m]) <=> IsHead(ix[m]) /\ ~Mid(F[m - 1])
    BY MidStep
  <1>8. \A j \in 1 .. n : Begins(d, ix, j) /\ ix[j].kind = "anchor" => j \in H
    <2>1. Phase(d, ix, n) /\ ~Mid(F[n])
      BY <1>0, <1>6
    <2>2. Good(d, ix, n)
      BY <2>1 DEF Phase
    <2>3. H = Live(d, ix, n)
      BY HeadsAreLive
    <2> HIDE DEF H, n
    <2> QED BY <2>2, <2>3 DEF Good
  <1>h. \A j \in H : j \in Nat
    BY <1>0, <1>1
  <1> HIDE DEF n, H, K, cx, G, F
  <1>9. 0 \in T
    <2>1. Upto(H, 0) = {}
      BY <1>1 DEF Upto
    <2>2. /\ G[0] \in ReplayStates /\ G[0].ok /\ ~Mid(G[0]) /\ G[0].tables = F[0].tables
          /\ G[0].refs = [f \in Fids |-> NoRef] /\ G[0].exts = {}
      BY <1>4, StartFacts
    <2>3. G[0].refs \in [Fids -> ObjectRefs]
      BY <2>2 DEF ReplayStates
    <2>4. Describes(d, ix, {}, G[0].refs, G[0].exts)
      <3>1. {ExtentFor(d, Obj(ix, j)) : j \in {}} = {}
        OBVIOUS
      <3> QED BY <2>2, <2>3, <3>1 DEF Describes
    <2>5. At(0)
      BY <1>3, <2>1, <2>2, <2>4 DEF Follows, F
    <2> QED BY <1>7, <2>5
  <1>10. \A m \in Nat : m \in T => m + 1 \in T
    <2> SUFFICES ASSUME NEW m \in Nat, m \in T, m + 1 <= n
                 PROVE  /\ ~Mid(F[m + 1]) => At(m + 1)
                        /\ Mid(F[m + 1]) => At((m + 1) - 1)
      OBVIOUS
    <2>1. m < n /\ m <= n /\ m + 1 \in 1 .. n /\ (m + 1) - 1 = m /\ m + 1 \in Nat
      BY <1>0
    <2>2. (~Mid(F[m]) => At(m)) /\ (Mid(F[m]) => At(m - 1))
      BY <2>1
    <2> HIDE DEF At
    <2>3. CASE ~Mid(F[m]) /\ IsHead(ix[m + 1])
      <3>1. Mid(F[m + 1])
        BY <1>7, <2>1, <2>3
      <3> QED BY <2>1, <2>2, <2>3, <3>1
    <2>4. CASE ~Mid(F[m]) /\ ~IsHead(ix[m + 1])
      <3> DEFINE c == Rank(K, m)
                 g == G[c]
                 e == ix[m + 1]
      <3>1. ~Mid(F[m + 1])
        BY <1>7, <2>1, <2>4
      <3>2. Begins(d, ix, m + 1)
        BY <2>1, <2>4 DEF Begins, F
      <3>3. m + 1 \in K <=> m + 1 \in H
        BY <1>1, <2>1, <3>2
      <3>4. Follows(d, ix, H, m, g)
        BY <2>2, <2>4 DEF At
      <3>5. /\ m + 1 \notin H => Follows(d, ix, H, m + 1, g)
            /\ m + 1 \in H => Follows(d, ix, H, m + 1, ReplayEntry(d, g, e))
        <4>1. \A r : r = F[m] =>
                /\ m + 1 \notin H => Follows(d, ix, H, m + 1, g)
                /\ m + 1 \in H => Follows(d, ix, H, m + 1, ReplayEntry(d, g, e))
          BY <1>1, <1>5, <1>h, <2>1, <2>4, <3>4, FollowSingle DEF F
        <4> QED BY <4>1
      <3>6. CASE m + 1 \notin H
        <4>1. Rank(K, m + 1) = c
          BY <1>3, <3>3, <3>6
        <4> QED BY <3>1, <3>5, <3>6, <4>1 DEF At
      <3>7. CASE m + 1 \in H
        <4>1. Rank(K, m + 1) = c + 1 /\ c \in Nat
          BY <1>3, <3>3, <3>7
        <4>2. cx[c + 1] = e
          BY <1>2, <3>3, <3>7, <4>1
        <4>3. G[c + 1] = ReplayEntry(d, g, e)
          BY <1>4, <4>1, <4>2
        <4> QED BY <3>1, <3>5, <3>7, <4>1, <4>3 DEF At
      <3> QED BY <3>6, <3>7
    <2>5. CASE Mid(F[m])
      <3> DEFINE q == m - 1
                 c == Rank(K, q)
                 g == G[c]
                 h == ix[q + 1]
                 e == ix[q + 2]
      <3>1. ~Mid(F[m + 1])
        BY <1>7, <2>1, <2>5
      <3>2. m # 0
        BY <1>7, <2>5
      <3>3. /\ q \in Nat /\ q + 1 = m /\ q + 2 = m + 1 /\ q < n /\ q + 1 \in 1 .. n
            /\ q + 1 < n /\ (q + 1) + 1 = q + 2 /\ q + 1 \in Nat /\ (q + 2) - 1 = q + 1
            /\ (q + 1) - 1 = q /\ m \in 0 .. n /\ q + 2 \in 1 .. n
        BY <1>0, <2>1, <3>2
      <3>4. ~Mid(F[q]) /\ Opened(F[q], F[q + 1], h)
        <4>1. Phase(d, ix, m)
          BY <1>6, <3>3
        <4> QED BY <2>5, <3>3, <4>1 DEF Phase, F
      <3>a. At(q)
        BY <2>2, <2>5
      <3> HIDE DEF q
      <3>5. Begins(d, ix, q + 1) /\ ~Begins(d, ix, q + 2)
        BY <2>5, <3>3, <3>4 DEF Begins, F
      <3>6. (q + 1 \in K <=> q + 1 \in H) /\ (q + 2 \in K <=> q + 1 \in H) /\ q + 2 \notin H
        BY <1>1, <3>3, <3>5
      <3>7. Follows(d, ix, H, q, g)
        BY <3>a DEF At
      <3>8. h.kind = "anchor" => q + 1 \in H
        BY <1>8, <3>3, <3>5
      <3>9. /\ h \in Entries /\ h # ZeroEntry /\ F[q + 1] \in ReplayStates
            /\ e \in Entries /\ e # ZeroEntry /\ Accepts(d, F[q + 1], e)
            /\ Fits(F[q + 1], h, e) /\ F[q + 2] = Apply(d, F[q + 1], e)
        BY <1>5, <3>3
      <3>10. /\ q + 1 \notin H => Follows(d, ix, H, q + 2, g)
             /\ q + 1 \in H => Follows(d, ix, H, q + 2, ReplayEntry(d, ReplayEntry(d, g, h), e))
        <4>1. \A r, s : r = F[q] /\ s = F[q + 1] =>
               /\ q + 1 \notin H => Follows(d, ix, H, q + 2, g)
               /\ q + 1 \in H => Follows(d, ix, H, q + 2, ReplayEntry(d, ReplayEntry(d, g, h), e))
          BY <1>1, <1>h, <3>3, <3>4, <3>6, <3>7, <3>8, <3>9, FollowPair DEF F
        <4> QED BY <4>1
      <3>11. Rank(K, q + 2) = IF q + 2 \in K THEN Rank(K, q + 1) + 1 ELSE Rank(K, q + 1)
        BY <1>3, <3>3
      <3>12. Rank(K, q + 1) = IF q + 1 \in K THEN c + 1 ELSE c
        BY <1>3, <3>3
      <3>13. CASE q + 1 \notin H
        <4>1. Rank(K, q + 2) = c
          BY <3>6, <3>11, <3>12, <3>13
        <4>2. At(q + 2)
          BY <3>10, <3>13, <4>1 DEF At
        <4> QED BY <3>1, <3>3, <4>2
      <3>14. CASE q + 1 \in H
        <4>1. Rank(K, q + 1) = c + 1 /\ Rank(K, q + 2) = (c + 1) + 1 /\ c \in Nat /\ c + 1 \in Nat
          BY <1>3, <3>3, <3>6, <3>11, <3>12, <3>14
        <4>2. cx[c + 1] = h /\ cx[(c + 1) + 1] = e
          <5>1. q + 1 \in K /\ q + 2 \in K
            BY <3>6, <3>14
          <5>2. cx[Rank(K, q + 1)] = ix[q + 1] /\ cx[Rank(K, q + 2)] = ix[q + 2]
            BY <1>2, <5>1
          <5> QED BY <4>1, <5>2
        <4>3. G[c + 1] = ReplayEntry(d, g, h)
          BY <1>4, <4>1, <4>2
        <4>4. G[(c + 1) + 1] = ReplayEntry(d, G[c + 1], e)
          BY <1>4, <4>1, <4>2
        <4>5. At(q + 2)
          BY <3>10, <3>14, <4>1, <4>3, <4>4 DEF At
        <4> QED BY <3>1, <3>3, <4>5
      <3> QED BY <3>13, <3>14
    <2> QED BY <2>3, <2>4, <2>5
  <1> HIDE DEF T
  <1>11. \A m \in Nat : m \in T
    BY <1>9, <1>10, NatInSet
  <1>12. \A m \in 0 .. n : ~Mid(F[m]) => At(m)
    BY <1>0, <1>11 DEF T
  <1> QED BY <1>12 DEF n, H, K, cx, G, F

-----------------------------------------------------------------------------
\* CollectLatestIndexRecords and WriteLatestIndexRecords keep everything: the
\* loop of replayIndex over the compacted index ends in the state in which it
\* ends over the index itself, with the same references, extents and packed
\* tables in the same order, whatever the index, as long as it was written the
\* way the daemon writes.
THEOREM CompactionKeepsScan ==
    ASSUME NEW d \in Disks, NEW ix \in Indexes, Shaped(d, ix), Scan(d, ix).ok, ~Mid(Scan(d, ix))
    PROVE  Scan(d, Compacted(ix)) = Scan(d, ix)
  <1> DEFINE n == End(ix)
             r == Fold(d, ix)[n]
             g == Fold(d, Compacted(ix))[Cardinality(Kept(ix))]
             H == LatestHeads(ix)
  <1>0. n \in Nat
    BY EndFacts, IndexAssumption DEF EndsAt
  <1>1. Scan(d, ix) = r
    BY ScanIsFold
  <1>2. r.ok /\ ~Mid(r) /\ r \in ReplayStates
    <2>1. r \in ReplayStates
      BY <1>0, FoldType
    <2> QED BY <1>1, <2>1
  <1>3. Below(Kept(ix), n) /\ Records(ix, H) /\ \A i \in H : i \in 1 .. n
    BY <1>2, KeptFacts
  <1>4. Scan(d, Compacted(ix)) = g
    <2>1. End(Compacted(ix)) = Cardinality(Kept(ix))
      BY <1>3, ImageFacts DEF Compacted
    <2>2. Scan(d, Compacted(ix)) = Fold(d, Compacted(ix))[End(Compacted(ix))]
      BY ScanIsFold
    <2> QED BY <2>1, <2>2
  <1>5. Follows(d, ix, H, n, g)
    <2>1. Follows(d, ix, H, n, Fold(d, Compacted(ix))[Rank(Kept(ix), n)])
      BY <1>0, <1>2, CompactedFollows
    <2>2. Rank(Kept(ix), n) = Cardinality(Kept(ix))
      BY <1>0, <1>3, RankStep
    <2> QED BY <2>1, <2>2
  <1>6. Describes(d, ix, H, r.refs, r.exts)
    <2>1. Phase(d, ix, n)
      BY <1>0, <1>2, Phases
    <2>2. Good(d, ix, n)
      BY <1>2, <2>1 DEF Phase
    <2>3. H = Live(d, ix, n)
      BY <1>2, HeadsAreLive
    <2> QED BY <2>2, <2>3, Zenon DEF Good
  <1> HIDE DEF n, g, H
  <1>7. Upto(H, n) = H
    BY <1>3 DEF Upto
  <1>8. /\ g \in ReplayStates /\ g.ok /\ ~Mid(g) /\ g.tables = r.tables
        /\ Describes(d, ix, H, g.refs, g.exts)
    BY <1>5, <1>7 DEF Follows
  <1> HIDE DEF r
  <1>9. g.refs = r.refs /\ g.exts = r.exts
    BY <1>3, <1>6, <1>8, DescribedOnce
  <1>10. g.alias = r.alias /\ g.anchor = r.anchor /\ g.ok = r.ok
    <2>1. g.alias = 0 /\ r.alias = 0 /\ ~g.anchor /\ ~r.anchor
      BY <1>2, <1>8 DEF Mid
    <2>2. g.anchor \in BOOLEAN /\ r.anchor \in BOOLEAN /\ g.ok \in BOOLEAN /\ r.ok \in BOOLEAN
      BY <1>2, <1>8 DEF ReplayStates
    <2> QED BY <1>2, <1>8, <2>1, <2>2
  <1>11. g = r
    <2>1. \A x \in ReplayStates : x = [refs |-> x.refs, exts |-> x.exts, alias |-> x.alias,
                                       anchor |-> x.anchor, tables |-> x.tables, ok |-> x.ok]
      BY DEF ReplayStates
    <2> QED BY <1>2, <1>8, <1>9, <1>10, <2>1
  <1> QED BY <1>1, <1>4, <1>11

\* Compacting the index changes nothing that replayIndex makes of it, whatever
\* the grid holds: the packed tables are found in the same order and override
\* the same names.
THEOREM CompactionKeepsReplay ==
    ASSUME NEW d \in Disks, NEW ix \in Indexes, Shaped(d, ix), NEW g, Replay(d, ix, g).ok
    PROVE  Replay(d, Compacted(ix), g) = Replay(d, ix, g)
  <1>1. \A iy : Replay(d, iy, g) = Finish(d, g, Scan(d, iy))
    BY Zenon DEF Replay, Once
  <1>2. Scan(d, ix).ok /\ Scan(d, ix).alias = 0 /\ ~Scan(d, ix).anchor
    <2>1. Finish(d, g, Scan(d, ix)).ok
      BY <1>1
    <2> QED BY <2>1 DEF Finish
  <1>3. Scan(d, Compacted(ix)) = Scan(d, ix)
    BY <1>2, CompactionKeepsScan DEF Mid
  <1> QED BY <1>1, <1>3

\* A new name is separate from those in use.
LEMMA FreshSeparate ==
    ASSUME NEW d, NEW ix, NEW U, NEW refs, NEW exts, Records(ix, U), Describes(d, ix, U, refs, exts),
           NEW f \in Fids, \A j \in U : f \notin Named(ix, j)
    PROVE  Separate(refs, f)
  <1> SUFFICES ASSUME NEW g \in Fids, refs[g] # NoRef
               PROVE  g # f /\ refs[g].fid # f
    BY DEF Separate
  <1>1. PICK j \in U : g \in Named(ix, j)
    BY DEF Describes
  <1> DEFINE o == Obj(ix, j)
  <1>2. o \in Entries /\ o.kind = "plain" /\ (ix[j].kind # "jump" => o.fid = ix[j].fid)
    BY DEF Records
  <1>3. o.fid \in Nat /\ o.size \in Nat
    BY <1>2, EntryFacts
  <1>4. Own(o.fid, o.size).fid = o.fid /\ AliasOf(o.fid, o.size).fid = o.fid
    BY <1>3, RefTypes
  <1>5. refs[g] = Own(o.fid, o.size) \/ refs[g] = AliasOf(o.fid, o.size)
    BY <1>1, <1>2 DEF Named, Describes
  <1>6. o.fid # f /\ g # f
    BY <1>1 DEF Named
  <1> QED BY <1>4, <1>5, <1>6

\* The compacted index is again one that the daemon could have written.
LEMMA CompactedShaped ==
    ASSUME NEW d \in Disks, NEW ix \in Indexes, Shaped(d, ix), Scan(d, ix).ok, ~Mid(Scan(d, ix))
    PROVE  Compacted(ix) \in Indexes /\ Shaped(d, Compacted(ix))
  <1> DEFINE F == Fold(d, ix)
             n == End(ix)
             H == LatestHeads(ix)
             K == Kept(ix)
             cx == Compacted(ix)
             G == Fold(d, cx)
  <1>0. n \in Nat
    BY EndFacts, IndexAssumption DEF EndsAt
  <1>s. F[n].ok /\ ~Mid(F[n])
    <2>1. Scan(d, ix) = F[n]
      BY ScanIsFold
    <2> QED BY <2>1
  <1>1. /\ Below(K, n) /\ Records(ix, H)
        /\ \A i \in 1 .. n : Begins(d, ix, i) => (i \in K <=> i \in H)
        /\ \A i \in 1 .. n : i < n /\ ~Begins(d, ix, i + 1) => (i + 1 \in K <=> i \in H)
        /\ \A i \in H : i \in 1 .. n /\ Begins(d, ix, i)
    BY <1>s, KeptFacts
  <1>2. /\ cx \in Indexes /\ End(cx) = Cardinality(K)
        /\ \A i \in K : cx[Rank(K, i)] = ix[i]
    BY <1>1, ImageFacts DEF Compacted
  <1>3. /\ Rank(K, 0) = 0 /\ \A i \in Nat : Rank(K, i) \in Nat
        /\ \A i \in Nat : Rank(K, i + 1) = IF i + 1 \in K THEN Rank(K, i) + 1 ELSE Rank(K, i)
        /\ Cardinality(K) \in Nat
    BY <1>0, <1>1, RankStep
  <1>4. \A k \in 1 .. Cardinality(K) : Nth(K, k) \in K /\ Rank(K, Nth(K, k)) = k
    BY <1>0, <1>1, NthFacts
  <1>5. \A m \in 0 .. n : ~Mid(F[m]) => Follows(d, ix, H, m, G[Rank(K, m)])
    BY <1>s, CompactedFollows
  <1>6. \A i \in Nat : i < n => Fits(F[i], ix[i], ix[i + 1])
    BY DEF Shaped
  <1>7. \A i \in Nat : i < Cardinality(K) =>
                /\ cx[i + 1] \in Entries /\ cx[i + 1] # ZeroEntry
                /\ G[i] \in ReplayStates /\ Accepts(d, G[i], cx[i + 1])
                /\ G[i + 1] = Apply(d, G[i], cx[i + 1])
    <2>1. Scan(d, cx) = G[End(cx)]
      BY ScanIsFold
    <2>2. G[End(cx)].ok
      BY <2>1, CompactionKeepsScan
    <2> QED BY <1>2, <1>3, <2>2, OkBefore
  <1>8. /\ ~Mid(F[0])
        /\ \A m \in 1 .. n : Mid(F[m]) <=> IsHead(ix[m]) /\ ~Mid(F[m - 1])
        /\ \A m \in 1 .. n : ~Begins(d, ix, m) => ix[m].kind = "plain"
    BY <1>s, MidStep
  <1>9. \A m \in 0 .. n : Phase(d, ix, m)
    BY <1>s, Phases
  <1>h. \A j \in H : j \in Nat
    BY <1>0, <1>1
  <1> HIDE DEF n, H, K, cx, F, G
  <1>10. ASSUME NEW i \in Nat, i < Cardinality(K)
         PROVE  Fits(G[i], cx[i], cx[i + 1])
    <2> DEFINE p == Nth(K, i + 1)
               e == ix[p]
    <2>1. i + 1 \in 1 .. Cardinality(K)
      BY <1>3, <1>10
    <2>2. p \in K /\ Rank(K, p) = i + 1 /\ cx[i + 1] = e
      BY <1>2, <1>4, <2>1
    <2>3. p \in 1 .. n
      BY <2>2, <1>1 DEF Below
    <2> HIDE DEF p
    <2> DEFINE m == p - 1
    <2>4. m \in Nat /\ m + 1 = p /\ m < n /\ m \in 0 .. n
      BY <1>0, <2>3
    <2>5. Rank(K, m) = i
      <3>1. Rank(K, p) = Rank(K, m) + 1 /\ Rank(K, m) \in Nat
        BY <1>3, <2>2, <2>4
      <3> QED BY <2>2, <3>1
    <2>6. CASE Begins(d, ix, p)
      <3>1. p \in H
        BY <1>1, <2>2, <2>3, <2>6
      <3>2. ~Mid(F[m])
        BY <2>6 DEF Begins, F
      <3>3. Follows(d, ix, H, m, G[i])
        BY <1>5, <2>4, <2>5, <3>2
      <3>4. ~Mid(G[i]) /\ G[i].tables = F[m].tables /\ Describes(d, ix, Upto(H, m), G[i].refs, G[i].exts)
        BY <3>3 DEF Follows, F
      <3>5. e.kind # "tomb"
        BY <1>1, <3>1 DEF Records
      <3>6. ASSUME e.kind = "anchor"
            PROVE  Separate(G[i].refs, e.fid) /\ ~InTables(G[i], e.fid)
        <4>1. Fits(F[m], ix[m], ix[p])
          BY <1>6, <2>4
        <4>2. ~InTables(F[m], e.fid)
          BY <3>6, <4>1 DEF Fits
        <4>3. ~InTables(G[i], e.fid)
          BY <3>4, <4>2 DEF InTables
        <4>4. Records(ix, Upto(H, m)) /\ e.fid \in Fids /\ \A j \in Upto(H, m) : e.fid \notin Named(ix, j)
          <5>1. \A j \in Upto(H, m) : j \in H /\ j # p
            BY <1>h, <2>4 DEF Upto
          <5>2. \A j \in H : j # p => Named(ix, j) \cap Named(ix, p) = {}
            BY <1>1, <3>1 DEF Records
          <5>3. e.fid \in Named(ix, p)
            BY DEF Named
          <5>4. Records(ix, Upto(H, m))
            BY <1>1, <5>1 DEF Records
          <5>5. e.fid \in Fids
            BY <1>1, <3>1 DEF Records
          <5> QED BY <5>1, <5>2, <5>3, <5>4, <5>5
        <4>5. Separate(G[i].refs, e.fid)
          BY <3>4, <4>4, FreshSeparate
        <4> QED BY <4>3, <4>5
      <3>7. G[i].alias = 0 /\ ~G[i].anchor
        BY <3>4 DEF Mid
      <3> QED BY <2>2, <3>5, <3>6, <3>7 DEF Fits
    <2>7. CASE ~Begins(d, ix, p)
      <3>1. Mid(F[m])
        BY <2>7 DEF Begins, F
      <3>2. m # 0
        BY <1>8, <3>1
      <3> DEFINE q == m - 1
      <3>3. q \in Nat /\ q + 1 = m /\ m \in 1 .. n /\ q \in 0 .. n /\ q < n
        BY <1>0, <2>4, <3>2
      <3>4. ~Mid(F[q]) /\ Opened(F[q], F[m], ix[m])
        BY <1>9, <2>4, <3>1 DEF Phase, F
      <3> HIDE DEF q
      <3>5. Begins(d, ix, m)
        BY <3>3, <3>4 DEF Begins, F, q
      <3>6. m \in H
        BY <1>1, <2>2, <2>4, <2>7, <3>3
      <3>7. m \in K
        BY <1>1, <3>3, <3>5, <3>6
      <3>8. cx[i] = ix[m]
        BY <1>2, <2>5, <3>7
      <3>9. Rank(K, q) \in Nat /\ Rank(K, q) + 1 = i
        BY <1>3, <2>5, <3>3, <3>7
      <3>10. Follows(d, ix, H, q, G[Rank(K, q)])
        BY <1>5, <3>3, <3>4
      <3> DEFINE c == Rank(K, q)
      <3> HIDE DEF c
      <3>11. c \in Nat /\ c + 1 = i /\ ~Mid(G[c])
        BY <3>9, <3>10 DEF c, Follows
      <3>12. /\ cx[i] \in Entries /\ cx[i] # ZeroEntry /\ G[c] \in ReplayStates
             /\ Accepts(d, G[c], cx[i]) /\ G[i] = Apply(d, G[c], cx[i])
        <4>1. c < Cardinality(K)
          BY <1>3, <1>10, <3>11
        <4> QED BY <1>7, <3>11, <4>1
      <3>13. IsHead(cx[i])
        BY <3>4, <3>8 DEF Opened
      <3>14. Opened(G[c], G[i], cx[i])
        BY <3>11, <3>12, <3>13, TurnClosed
      <3>15. e.kind = "plain"
        BY <1>8, <2>3, <2>7
      <3>16. G[i].anchor => e.fid = cx[i].fid
        <4>1. Fits(F[m], ix[m], ix[p])
          BY <1>6, <2>4
        <4>2. G[i].anchor => F[m].anchor
          BY <3>4, <3>8, <3>14 DEF Opened
        <4> QED BY <3>8, <4>1, <4>2 DEF Fits
      <3> QED BY <2>2, <3>15, <3>16 DEF Fits
    <2> QED BY <2>6, <2>7
  <1>11. Shaped(d, cx)
    BY <1>2, <1>10 DEF Shaped, G
  <1> QED BY <1>2, <1>11 DEF cx
=============================================================================
