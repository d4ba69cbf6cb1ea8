---------------------------- MODULE TrimDataProofs ----------------------------
(***************************************************************************)
(* What references deliver: no space somebody refers to is freed or        *)
(* overwritten by Trim, and every content the index may have after a crash *)
(* serves what was acknowledged.  For any number of Puts, any headers, any *)
(* index capacity and any grid, under WholeWrites.                         *)
(***************************************************************************)
EXTENDS TrimDiskProofs

-----------------------------------------------------------------------------
(* References and the slots behind them.                                   *)

\* The slots a reference reads from, as an extent.
RefExtent(ref) == Extent(Disk, ref.fid, ref.storedSize)

\* The slots of an extent.
SlotsIn(iv) == iv.start .. iv.end

\* An extent of the grid.
Proper(iv) == iv \in Intervals /\ iv.start <= iv.end /\ SlotsIn(iv) \subseteq GridSlots(Disk)

\* Nothing of the extent is waiting for a sync.
Dry(D, iv) == SlotsIn(iv) \cap D = {}

\* What a reference reads is all synced.
Clean(D, ref) == Dry(D, RefExtent(ref))

\* No two extents of the set share a slot.
Apart(S) == \A a, b \in S : a # b => ~Overlaps(a, b)

\* In place of c, ref would serve the same bytes, from an extent of I.
Match(g, I, ref, c) ==
    /\ ref # NoRef /\ ref.size = c.size /\ RefExtent(ref) \in I
    /\ Deliver(Disk, g, ref) = Deliver(Disk, g, c)

\* The slots are what a reference delivers.
LEMMA DeliverSame ==
    ASSUME NEW g, NEW h, NEW ref, Proper(RefExtent(ref)),
           \A s \in SlotsIn(RefExtent(ref)) : g[s] = h[s]
    PROVE  Deliver(Disk, g, ref) = Deliver(Disk, h, ref)
  <1> DEFINE iv == RefExtent(ref)
             A == {g[s] : s \in iv.start .. iv.end}
             B == {h[s] : s \in iv.start .. iv.end}
             u == g[iv.start]
             v == h[iv.start]
             Of(vals, w) == IF Cardinality(vals) > 1 THEN Junk
                            ELSE IF ~ref.packed THEN w
                            ELSE IF w.kind # "container" THEN Junk
                            ELSE IF \E k \in DOMAIN w.parts : w.parts[k].offset = ref.offset
                                 THEN w.parts[CHOOSE k \in DOMAIN w.parts :
                                                w.parts[k].offset = ref.offset].data
                                 ELSE Junk
  <1>1. Deliver(Disk, g, ref) = Of(A, u) /\ Deliver(Disk, h, ref) = Of(B, v)
    BY Zenon DEF Deliver, RefExtent
  <1>2. A = B
    <2>1. \A s \in iv.start .. iv.end : g[s] = h[s]
      BY Zenon DEF SlotsIn
    <2> DEFINE S == iv.start .. iv.end
    <2>2. \A s \in S : g[s] = h[s]
      BY <2>1
    <2> HIDE DEF iv, S
    <2>3. {g[s] : s \in S} = {h[s] : s \in S}
      BY <2>2
    <2> QED BY <2>3 DEF S
  <1>3. iv.start \in SlotsIn(iv)
    BY DEF Proper, Intervals, SlotsIn
  <1>4. u = v
    BY <1>3
  <1> HIDE DEF A, B, u, v, Of
  <1> QED BY <1>1, <1>2, <1>4

\* The extent of the reference has v all over.
Holds(g, ref, v) == Proper(RefExtent(ref)) /\ \A s \in SlotsIn(RefExtent(ref)) : g[s] = v

\* The k-th part of container v is the one at offset o.
PartAt(v, o, k) ==
    /\ v.kind = "container" /\ k \in DOMAIN v.parts /\ v.parts[k].offset = o
    /\ \A i \in DOMAIN v.parts : v.parts[i].offset = o => i = k

\* What was written is what a reference delivers.
LEMMA DeliverFilled ==
    ASSUME NEW g, NEW ref, NEW v, Holds(g, ref, v)
    PROVE  /\ ~ref.packed => Deliver(Disk, g, ref) = v
           /\ \A k : ref.packed /\ PartAt(v, ref.offset, k) => Deliver(Disk, g, ref) = v.parts[k].data
  <1> DEFINE iv == RefExtent(ref)
             A == {g[s] : s \in iv.start .. iv.end}
             u == g[iv.start]
             Of(vals, w) == IF Cardinality(vals) > 1 THEN Junk
                            ELSE IF ~ref.packed THEN w
                            ELSE IF w.kind # "container" THEN Junk
                            ELSE IF \E k \in DOMAIN w.parts : w.parts[k].offset = ref.offset
                                 THEN w.parts[CHOOSE k \in DOMAIN w.parts :
                                                w.parts[k].offset = ref.offset].data
                                 ELSE Junk
  <1>1. Deliver(Disk, g, ref) = Of(A, u)
    BY Zenon DEF Deliver, RefExtent
  <1>2. iv.start \in SlotsIn(iv)
    BY DEF Holds, Proper, Intervals, SlotsIn
  <1>3. u = v
    BY <1>2 DEF Holds
  <1>4. A = {v}
    BY <1>2 DEF Holds, SlotsIn
  <1>5. ~(Cardinality(A) > 1)
    <2>1. Cardinality(A) = 1
      BY <1>4, FS_Singleton
    <2> QED BY <2>1
  <1> HIDE DEF A, u
  <1>6. Of(A, u) = IF ~ref.packed THEN v
                   ELSE IF v.kind # "container" THEN Junk
                   ELSE IF \E k \in DOMAIN v.parts : v.parts[k].offset = ref.offset
                        THEN v.parts[CHOOSE k \in DOMAIN v.parts : v.parts[k].offset = ref.offset].data
                        ELSE Junk
    BY <1>3, <1>5, Zenon
  <1>7. ASSUME ref.packed, NEW k, PartAt(v, ref.offset, k)
        PROVE  Deliver(Disk, g, ref) = v.parts[k].data
    <2>0. /\ v.kind = "container" /\ k \in DOMAIN v.parts /\ v.parts[k].offset = ref.offset
          /\ \A i \in DOMAIN v.parts : v.parts[i].offset = ref.offset => i = k
      BY <1>7, Zenon DEF PartAt
    <2>1. (CHOOSE i \in DOMAIN v.parts : v.parts[i].offset = ref.offset) = k
      BY <2>0, Zenon
    <2> QED BY <1>1, <1>6, <1>7, <2>0, <2>1, Zenon
  <1> QED BY <1>1, <1>6, <1>7, Zenon

\* Extents that do not overlap share no slot.
LEMMA ApartSlots ==
    ASSUME NEW a, NEW b, Proper(a), Proper(b)
    PROVE  ~Overlaps(a, b) <=> SlotsIn(a) \cap SlotsIn(b) = {}
  <1>1. a.start \in Nat /\ a.end \in Nat /\ b.start \in Nat /\ b.end \in Nat
        /\ a.start <= a.end /\ b.start <= b.end
    BY DEF Proper, Intervals
  <1>2. ASSUME Overlaps(a, b) PROVE SlotsIn(a) \cap SlotsIn(b) # {}
    <2>1. a.start <= b.end /\ b.start <= a.end
      BY <1>2 DEF Overlaps
    <2>2. CASE a.start <= b.start
      BY <1>1, <2>1, <2>2 DEF SlotsIn
    <2>3. CASE b.start <= a.start
      BY <1>1, <2>1, <2>3 DEF SlotsIn
    <2> QED BY <1>1, <2>2, <2>3
  <1>3. ASSUME NEW s \in SlotsIn(a), s \in SlotsIn(b) PROVE Overlaps(a, b)
    BY <1>1, <1>3 DEF SlotsIn, Overlaps
  <1> QED BY <1>2, <1>3

\* The extent of a placed object.
LEMMA PlacedProper ==
    ASSUME NEW f \in Nat, NEW s \in Nat, AddrOK(Disk, f, s)
    PROVE  Proper(Extent(Disk, f, s)) /\ s # 0
  BY ExtentFacts, PlacedExtent, TrimAssumption DEF Proper, SlotsIn

\* The extents and the bytes of a reference to a whole object.
LEMMA OwnRefs ==
    ASSUME NEW f \in Nat, NEW s \in Nat
    PROVE  /\ Own(f, s).fid = f /\ Own(f, s).storedSize = s /\ Own(f, s).size = s
           /\ ~Own(f, s).packed /\ RefExtent(Own(f, s)) = Extent(Disk, f, s)
           /\ AliasOf(f, s).size = s - 1 /\ RefExtent(AliasOf(f, s)) = Extent(Disk, f, s)
           /\ AliasOf(f, s).fid = f /\ ~AliasOf(f, s).packed
           /\ \A g : Deliver(Disk, g, AliasOf(f, s)) = Deliver(Disk, g, Own(f, s))
           /\ f # 0 => Own(f, s) # NoRef /\ AliasOf(f, s) # NoRef
  <1>1. /\ Own(f, s).fid = f /\ Own(f, s).storedSize = s /\ Own(f, s).size = s /\ Own(f, s).packed = FALSE
        /\ AliasOf(f, s).fid = f /\ AliasOf(f, s).storedSize = s /\ AliasOf(f, s).size = s - 1
        /\ AliasOf(f, s).packed = FALSE
        /\ f # 0 => Own(f, s) # NoRef /\ AliasOf(f, s) # NoRef
    BY RefTypes
  <1>2. \A g : Deliver(Disk, g, AliasOf(f, s)) = Deliver(Disk, g, Own(f, s))
    BY <1>1 DEF Deliver
  <1> QED BY <1>1, <1>2 DEF RefExtent

-----------------------------------------------------------------------------
(* A scanned index against memory and the grid.  Throughout, s is the state *)
(* of a scan, C the references and I the extents in memory, g the grid, and *)
(* D the slots that wait for a sync.                                        *)

\* What the entries of s find where they say table t lies.
TableAt(g, s, t) == Deliver(Disk, g, s.refs[t])

\* A packed table of s lists f.
Listed(g, s, f) == \E t \in Fids : InTables(s, t) /\ Lists(TableAt(g, s, t), f)

\* v decodes as a table, which lies where s says table t is; table and
\* container are objects of s, of memory and of the medium; memory serves the
\* same as the table for every name in it.
TableIs(g, D, C, I, s, t, v) ==
    /\ v.kind = "table" /\ v.container \in Fids /\ v.size \in Nat
    /\ C[t] # NoRef /\ Match(g, I, s.refs[t], C[t]) /\ Clean(D, s.refs[t])
    /\ s.refs[v.container] = Own(v.container, v.size)
    /\ C[v.container] # NoRef /\ Match(g, I, s.refs[v.container], C[v.container])
    /\ Clean(D, s.refs[v.container])
    /\ \A f \in Fids : Lists(v, f) =>
         C[f] # NoRef /\ Match(g, I, PackedRef(v, EntryFor(v, f)), C[f])

\* The table that s has under t is one memory agrees with.
TableOK(g, D, C, I, s, t) == TableIs(g, D, C, I, s, t, TableAt(g, s, t))

\* So are all the tables of s.
TablesOK(g, D, C, I, s) == \A t \in Fids : InTables(s, t) => TableOK(g, D, C, I, s, t)

\* Every name that memory serves is in s.
NamesOK(g, C, I, s) ==
    \A f \in Fids : C[f] # NoRef => Listed(g, s, f) \/ Match(g, I, s.refs[f], C[f])

\* The extents of a scan do not overlap, so a boot accepts it.
ExtsOK(s) == \A x, y \in s.exts : x # y => ~Overlaps(x.iv, y.iv)

\* s is the index as memory knows it, up to names memory does not serve.
Current(g, D, C, I, s) == ExtsOK(s) /\ TablesOK(g, D, C, I, s) /\ NamesOK(g, C, I, s)

\* The tables of s are tables of q, and s has the same to say about them.
TablesFrom(g, s, q) ==
    \A t \in Fids : InTables(s, t) =>
        /\ InTables(q, t) /\ s.refs[t] = q.refs[t]
        /\ s.refs[TableAt(g, q, t).container] = q.refs[TableAt(g, q, t).container]

\* s may be on the medium while reads see q: it still serves the names A.
Past(g, D, C, I, A, s, q) ==
    /\ ExtsOK(s) /\ TablesFrom(g, s, q)
    /\ \A f \in A : \/ Listed(g, s, f)
                    \/ /\ s.refs[f] = q.refs[f] /\ Match(g, I, s.refs[f], C[f])
                       /\ Clean(D, s.refs[f])

\* References and extents as memory has them: every reference has its extent,
\* and the extents are of the grid and apart.
Memory(C, I) ==
    /\ \A f \in Fids : C[f] # NoRef => RefExtent(C[f]) \in I /\ C[f].size # 0
    /\ \A iv \in I : Proper(iv)
    /\ Apart(I)

\* Memory, the grid and the medium move on, and nothing that was served
\* changes.
Carries(g, D, C, I, h, E, B, J) ==
    /\ I \subseteq J
    /\ \A iv \in I : Dry(D, iv) => Dry(E, iv)
    /\ \A ref : RefExtent(ref) \in I => Deliver(Disk, h, ref) = Deliver(Disk, g, ref)
    /\ \A f \in Fids : C[f] # NoRef =>
         B[f] # NoRef /\ B[f].size = C[f].size /\ Deliver(Disk, h, B[f]) = Deliver(Disk, g, C[f])

\* Writes that keep away from the extents of memory.
LEMMA CarriesWrite ==
    ASSUME NEW g, NEW D, NEW C, NEW I, Memory(C, I), NEW h, NEW E,
           \A iv \in I : Dry(D, iv) => Dry(E, iv),
           \A iv \in I : \A s \in SlotsIn(iv) : h[s] = g[s]
    PROVE  Carries(g, D, C, I, h, E, C, I)
  <1>1. \A ref : RefExtent(ref) \in I => Deliver(Disk, h, ref) = Deliver(Disk, g, ref)
    <2> SUFFICES ASSUME NEW ref, RefExtent(ref) \in I
                 PROVE  Deliver(Disk, h, ref) = Deliver(Disk, g, ref)
      OBVIOUS
    <2>1. Proper(RefExtent(ref))
      BY DEF Memory
    <2> QED BY <2>1, DeliverSame
  <1> QED BY <1>1 DEF Carries, Memory

\* The grid and memory stay as they are and only the unsynced slots change.
LEMMA CarriesSelf ==
    ASSUME NEW g, NEW D, NEW C, NEW I, Memory(C, I), NEW E, \A iv \in I : Dry(D, iv) => Dry(E, iv)
    PROVE  Carries(g, D, C, I, g, E, C, I)
  BY DEF Carries

\* A sync.
LEMMA CarriesSync ==
    ASSUME NEW g, NEW D, NEW C, NEW I, Memory(C, I)
    PROVE  Carries(g, D, C, I, g, {}, C, I)
  <1>1. \A iv : Dry({}, iv)
    BY DEF Dry
  <1> QED BY <1>1, CarriesSelf

\* A reference that serves a name goes on serving it.
LEMMA CarriesMatch ==
    ASSUME NEW g, NEW D, NEW C, NEW I, NEW h, NEW E, NEW B, NEW J, Carries(g, D, C, I, h, E, B, J),
           NEW f \in Fids, C[f] # NoRef, NEW ref, Match(g, I, ref, C[f])
    PROVE  Match(h, J, ref, B[f])
  BY DEF Carries, Match

\* A table keeps its place.
LEMMA CarriesTable ==
    ASSUME NEW g, NEW D, NEW C, NEW I, NEW h, NEW E, NEW B, NEW J, Carries(g, D, C, I, h, E, B, J),
           NEW s, NEW t \in Fids, TableOK(g, D, C, I, s, t), NEW q, q.refs[t] = s.refs[t],
           q.refs[TableAt(g, s, t).container] = s.refs[TableAt(g, s, t).container]
    PROVE  TableOK(h, E, B, J, q, t) /\ TableAt(h, q, t) = TableAt(g, s, t)
  <1> DEFINE v == TableAt(g, s, t)
  <1>0. TableIs(g, D, C, I, s, t, v) /\ q.refs[v.container] = s.refs[v.container]
    BY DEF TableOK
  <1>v. v = TableAt(g, s, t)
    OBVIOUS
  <1> HIDE DEF v
  <1>1. /\ v.kind = "table" /\ v.container \in Fids /\ v.size \in Nat
        /\ C[t] # NoRef /\ Match(g, I, s.refs[t], C[t]) /\ Clean(D, s.refs[t])
        /\ s.refs[v.container] = Own(v.container, v.size)
        /\ C[v.container] # NoRef /\ Match(g, I, s.refs[v.container], C[v.container])
        /\ Clean(D, s.refs[v.container])
        /\ \A f \in Fids : Lists(v, f) =>
             C[f] # NoRef /\ Match(g, I, PackedRef(v, EntryFor(v, f)), C[f])
    BY <1>0, Zenon DEF TableIs
  <1>2. RefExtent(s.refs[t]) \in I /\ RefExtent(s.refs[v.container]) \in I
    BY <1>1 DEF Match
  <1>3. TableAt(h, q, t) = v
    BY <1>v, <1>2 DEF TableAt, Carries
  <1>4. Clean(E, s.refs[t]) /\ Clean(E, s.refs[v.container])
    BY <1>1, <1>2 DEF Carries, Clean
  <1>5. Match(h, J, s.refs[t], B[t]) /\ Match(h, J, s.refs[v.container], B[v.container])
    BY <1>1, CarriesMatch
  <1>6. B[t] # NoRef /\ B[v.container] # NoRef
    BY <1>1 DEF Carries
  <1>7. \A f \in Fids : Lists(v, f) =>
             B[f] # NoRef /\ Match(h, J, PackedRef(v, EntryFor(v, f)), B[f])
    <2> SUFFICES ASSUME NEW f \in Fids, Lists(v, f)
                 PROVE  B[f] # NoRef /\ Match(h, J, PackedRef(v, EntryFor(v, f)), B[f])
      OBVIOUS
    <2>1. C[f] # NoRef /\ Match(g, I, PackedRef(v, EntryFor(v, f)), C[f])
      BY <1>1
    <2>2. B[f] # NoRef
      BY <2>1 DEF Carries
    <2> QED BY <2>1, <2>2, CarriesMatch
  <1>8. TableIs(h, E, B, J, q, t, v)
    BY <1>0, <1>1, <1>4, <1>5, <1>6, <1>7 DEF TableIs
  <1> QED BY <1>v, <1>3, <1>8 DEF TableOK

\* Tables that come from those of s.
LEMMA CarriesTables ==
    ASSUME NEW g, NEW D, NEW C, NEW I, NEW h, NEW E, NEW B, NEW J, Carries(g, D, C, I, h, E, B, J),
           NEW s, NEW q, TablesOK(g, D, C, I, s), TablesFrom(g, q, s)
    PROVE  TablesOK(h, E, B, J, q) /\ \A t \in Fids : InTables(q, t) => TableAt(h, q, t) = TableAt(g, s, t)
  <1> SUFFICES ASSUME NEW t \in Fids, InTables(q, t)
               PROVE  TableOK(h, E, B, J, q, t) /\ TableAt(h, q, t) = TableAt(g, s, t)
    BY DEF TablesOK
  <1>1. /\ InTables(s, t) /\ q.refs[t] = s.refs[t]
        /\ q.refs[TableAt(g, s, t).container] = s.refs[TableAt(g, s, t).container]
    BY DEF TablesFrom
  <1>2. TableOK(g, D, C, I, s, t)
    BY <1>1 DEF TablesOK
  <1> QED BY <1>1, <1>2, CarriesTable

\* A name that a table of s lists is listed by the same table of q.
LEMMA CarriesListed ==
    ASSUME NEW g, NEW D, NEW C, NEW I, NEW h, NEW E, NEW B, NEW J, Carries(g, D, C, I, h, E, B, J),
           NEW s, NEW q, TablesOK(g, D, C, I, s),
           \A t \in Fids : InTables(s, t) => InTables(q, t) /\ q.refs[t] = s.refs[t],
           NEW f, Listed(g, s, f)
    PROVE  Listed(h, q, f)
  <1>1. PICK t \in Fids : InTables(s, t) /\ Lists(TableAt(g, s, t), f)
    BY Zenon DEF Listed
  <1>2. TableOK(g, D, C, I, s, t) /\ InTables(q, t) /\ q.refs[t] = s.refs[t]
    BY <1>1 DEF TablesOK
  <1>3. Match(g, I, s.refs[t], C[t])
    BY <1>2, Zenon DEF TableOK, TableIs
  <1>4. RefExtent(s.refs[t]) \in I
    BY <1>3 DEF Match
  <1>5. TableAt(h, q, t) = TableAt(g, s, t)
    BY <1>2, <1>4 DEF TableAt, Carries
  <1> QED BY <1>1, <1>2, <1>5, Zenon DEF Listed

\* The index that memory knows moves on: its tables stay, and a new one is a
\* good one; a new name, or one that has changed, is served.
LEMMA CarriesCurrent ==
    ASSUME NEW g, NEW D, NEW C, NEW I, NEW h, NEW E, NEW B, NEW J, Carries(g, D, C, I, h, E, B, J),
           NEW s, NEW q, Current(g, D, C, I, s), ExtsOK(q), TablesFrom(g, s, q),
           \A t \in Fids : InTables(q, t) =>
              \/ /\ InTables(s, t) /\ q.refs[t] = s.refs[t]
                 /\ q.refs[TableAt(g, s, t).container] = s.refs[TableAt(g, s, t).container]
              \/ TableOK(h, E, B, J, q, t),
           \A f \in Fids : B[f] # NoRef =>
              \/ C[f] # NoRef /\ q.refs[f] = s.refs[f]
              \/ Match(h, J, q.refs[f], B[f])
              \/ Listed(h, q, f)
    PROVE  Current(h, E, B, J, q)
  <1>1. TablesOK(g, D, C, I, s) /\ NamesOK(g, C, I, s)
    BY DEF Current
  <1>2. TablesOK(h, E, B, J, q)
    <2> SUFFICES ASSUME NEW t \in Fids, InTables(q, t),
                        InTables(s, t), q.refs[t] = s.refs[t],
                        q.refs[TableAt(g, s, t).container] = s.refs[TableAt(g, s, t).container]
                 PROVE  TableOK(h, E, B, J, q, t)
      BY Zenon DEF TablesOK
    <2>1. TableOK(g, D, C, I, s, t)
      BY <1>1 DEF TablesOK
    <2> QED BY <2>1, CarriesTable
  <1>3. \A t \in Fids : InTables(s, t) => InTables(q, t) /\ q.refs[t] = s.refs[t]
    BY DEF TablesFrom
  <1>4. NamesOK(h, B, J, q)
    <2> SUFFICES ASSUME NEW f \in Fids, B[f] # NoRef, C[f] # NoRef, q.refs[f] = s.refs[f]
                 PROVE  Listed(h, q, f) \/ Match(h, J, q.refs[f], B[f])
      BY Zenon DEF NamesOK
    <2>1. Listed(g, s, f) \/ Match(g, I, s.refs[f], C[f])
      BY <1>1 DEF NamesOK
    <2>2. CASE Listed(g, s, f)
      BY <1>1, <1>3, <2>2, CarriesListed
    <2>3. CASE Match(g, I, s.refs[f], C[f])
      BY <2>3, CarriesMatch
    <2> QED BY <2>1, <2>2, <2>3
  <1> QED BY <1>2, <1>4 DEF Current

\* What may be on the medium still serves A.
LEMMA CarriesPast ==
    ASSUME NEW g, NEW D, NEW C, NEW I, NEW h, NEW E, NEW B, NEW J, Carries(g, D, C, I, h, E, B, J),
           NEW A, NEW s, NEW q, NEW p, Past(g, D, C, I, A, s, q), TablesOK(g, D, C, I, q), TablesFrom(g, q, p),
           \A f \in A : f \in Fids /\ C[f] # NoRef /\ (Listed(g, s, f) \/ p.refs[f] = q.refs[f])
    PROVE  Past(h, E, B, J, A, s, p)
  <1>1. ExtsOK(s) /\ TablesFrom(g, s, q)
    BY DEF Past
  <1>2. ASSUME NEW t \in Fids, InTables(s, t)
        PROVE  /\ InTables(p, t) /\ s.refs[t] = p.refs[t] /\ TableAt(h, p, t) = TableAt(g, q, t)
               /\ s.refs[TableAt(h, p, t).container] = p.refs[TableAt(h, p, t).container]
    <2> DEFINE v == TableAt(g, q, t)
    <2>1. InTables(q, t) /\ s.refs[t] = q.refs[t] /\ s.refs[v.container] = q.refs[v.container]
      BY <1>1, <1>2 DEF TablesFrom
    <2>2. TableOK(g, D, C, I, q, t)
      BY <2>1 DEF TablesOK
    <2>3. /\ InTables(p, t) /\ q.refs[t] = p.refs[t]
          /\ q.refs[TableAt(g, p, t).container] = p.refs[TableAt(g, p, t).container]
      BY <2>1 DEF TablesFrom
    <2>4. TableAt(g, p, t) = v
      BY <2>3 DEF TableAt
    <2>5. TableAt(h, p, t) = v
      <3>1. Match(g, I, q.refs[t], C[t])
        BY <2>2, Zenon DEF TableOK, TableIs
      <3> QED BY <2>3, <3>1 DEF TableAt, Carries, Match
    <2> QED BY <2>1, <2>3, <2>4, <2>5
  <1>3. TablesFrom(h, s, p)
    BY <1>2, Zenon DEF TablesFrom
  <1>4. ASSUME NEW f \in A
        PROVE  \/ Listed(h, s, f)
               \/ /\ s.refs[f] = p.refs[f] /\ Match(h, J, s.refs[f], B[f])
                  /\ Clean(E, s.refs[f])
    <2>1. f \in Fids /\ C[f] # NoRef
      BY <1>4
    <2>2. CASE Listed(g, s, f)
      <3>1. Carries(g, D, C, I, g, D, C, I)
        BY DEF Carries
      <3>2. TablesOK(g, D, C, I, s)
        BY <1>1, <3>1, CarriesTables
      <3> QED BY <2>2, <3>2, CarriesListed
    <2>3. CASE ~Listed(g, s, f)
      <3>1. s.refs[f] = q.refs[f] /\ Match(g, I, s.refs[f], C[f]) /\ Clean(D, s.refs[f])
        BY <1>4, <2>3 DEF Past
      <3>2. p.refs[f] = q.refs[f]
        BY <1>4, <2>3
      <3>3. Match(h, J, s.refs[f], B[f])
        BY <2>1, <3>1, CarriesMatch
      <3>4. Clean(E, s.refs[f])
        BY <3>1 DEF Carries, Clean, Match
      <3> QED BY <3>1, <3>2, <3>3, <3>4
    <2> QED BY <2>2, <2>3
  <1> QED BY <1>1, <1>3, <1>4, Zenon DEF Past

-----------------------------------------------------------------------------
(* What the daemon's indexes scan to, and what a replay loads from them.   *)

\* What a scan of an index of the daemon is like: accepted, no anchor half read,
\* every reference a whole blob whose extent was taken, every table referred to.
Regular(s) ==
    /\ s \in ReplayStates /\ s.ok /\ ~Mid(s)
    /\ \A f \in Fids : s.refs[f] # NoRef =>
         /\ ~s.refs[f].packed /\ s.refs[f].size # 0
         /\ [fid |-> s.refs[f].fid, iv |-> RefExtent(s.refs[f])] \in s.exts
    /\ \A t : InTables(s, t) => t \in Fids /\ s.refs[t] # NoRef
    /\ \A x \in s.exts : Proper(x.iv)

\* Scans of a sound index are regular, at the end and at every blob before it
\* that does not split an anchor.
LEMMA RegularAt ==
    ASSUME NEW ix, Sound(ix), NEW n \in Nat, n <= End(ix), ~Mid(At(ix, n))
    PROVE  Regular(At(ix, n))
  <1> DEFINE s == At(ix, n)
             L == Live(Disk, ix, n)
  <1>1. Good(Disk, ix, n) /\ s \in ReplayStates /\ s.ok /\ PlacedRefs(Disk, s) /\ ~Mid(s)
    BY GoodAt
  <1>2. /\ Records(ix, L) /\ Describes(Disk, ix, L, s.refs, s.exts)
        /\ \A f : InTables(s, f) => \E j \in L : ix[j].kind = "anchor" /\ ix[j].fid = f
    BY <1>1 DEF Good, At
  <1> HIDE DEF s, L
  <1>3. s.refs \in [Fids -> ObjectRefs]
    BY <1>1 DEF ReplayStates
  <1>4. ASSUME NEW j \in L
        PROVE  /\ ix[j].fid \in Fids /\ Obj(ix, j).fid \in Fids /\ Obj(ix, j).fid \in Nat
               /\ Obj(ix, j).fid # 0 /\ Obj(ix, j).size \in Nat
               /\ s.refs[Obj(ix, j).fid] = Own(Obj(ix, j).fid, Obj(ix, j).size)
               /\ ix[j].kind = "jump" => s.refs[ix[j].fid] = AliasOf(Obj(ix, j).fid, Obj(ix, j).size)
               /\ ix[j].kind # "jump" => Obj(ix, j).fid = ix[j].fid
               /\ ExtentFor(Disk, Obj(ix, j)) \in s.exts
               /\ Proper(Extent(Disk, Obj(ix, j).fid, Obj(ix, j).size))
    <2> DEFINE o == Obj(ix, j)
    <2>1. /\ ix[j].fid \in Fids /\ o \in Entries /\ o.kind = "plain"
          /\ ix[j].kind # "jump" => o.fid = ix[j].fid
      BY <1>2, <1>4 DEF Records
    <2>2. o.fid \in Fids /\ o.fid \in Nat /\ o.fid # 0 /\ o.size \in Nat
      BY <2>1, EntryFacts
    <2>3. /\ s.refs[o.fid] = Own(o.fid, o.size) /\ ExtentFor(Disk, o) \in s.exts
          /\ ix[j].kind = "jump" => s.refs[ix[j].fid] = AliasOf(o.fid, o.size)
      BY <1>2, <1>4 DEF Describes
    <2> HIDE DEF o
    <2>4. /\ Own(o.fid, o.size) # NoRef /\ Own(o.fid, o.size).fid = o.fid
          /\ Own(o.fid, o.size).storedSize = o.size
      BY <2>2, RefTypes
    <2>5. AddrOK(Disk, o.fid, o.size)
      BY <1>1, <2>2, <2>3, <2>4 DEF PlacedRefs, PlacedRef
    <2>6. Proper(Extent(Disk, o.fid, o.size))
      BY <2>2, <2>5, PlacedProper
    <2> QED BY <2>1, <2>2, <2>3, <2>6 DEF o
  <1>5. ASSUME NEW f \in Fids, s.refs[f] # NoRef
        PROVE  /\ ~s.refs[f].packed /\ s.refs[f].size # 0
               /\ [fid |-> s.refs[f].fid, iv |-> RefExtent(s.refs[f])] \in s.exts
    <2>1. PICK j \in L : f \in Named(ix, j)
      BY <1>2, <1>5 DEF Describes
    <2> DEFINE o == Obj(ix, j)
    <2>2. /\ o.fid \in Nat /\ o.size \in Nat /\ s.refs[o.fid] = Own(o.fid, o.size)
          /\ ix[j].kind = "jump" => s.refs[ix[j].fid] = AliasOf(o.fid, o.size)
          /\ ix[j].kind # "jump" => o.fid = ix[j].fid
          /\ ExtentFor(Disk, o) \in s.exts
      BY <1>4
    <2>3. f = o.fid \/ (f = ix[j].fid /\ ix[j].kind = "jump")
      BY <2>1, <2>2 DEF Named
    <2> HIDE DEF o
    <2>4. s.refs[f] \in {Own(o.fid, o.size), AliasOf(o.fid, o.size)}
      BY <2>2, <2>3
    <2>5. RefExtent(s.refs[f]) = Extent(Disk, o.fid, o.size) /\ s.refs[f].fid = o.fid
      BY <2>2, <2>4, OwnRefs
    <2>6. ~s.refs[f].packed /\ s.refs[f].size # 0
      BY <1>1, <1>5 DEF PlacedRefs, PlacedRef
    <2> QED BY <2>2, <2>5, <2>6 DEF ExtentFor
  <1>6. ASSUME NEW t, InTables(s, t) PROVE t \in Fids /\ s.refs[t] # NoRef
    <2>1. PICK j \in L : ix[j].kind = "anchor" /\ ix[j].fid = t
      BY <1>2, <1>6
    <2> DEFINE o == Obj(ix, j)
    <2>2. o.fid = t /\ o.fid \in Fids /\ o.fid \in Nat /\ o.fid # 0 /\ o.size \in Nat
          /\ s.refs[o.fid] = Own(o.fid, o.size)
      BY <1>4, <2>1
    <2> HIDE DEF o
    <2> QED BY <2>2, RefTypes
  <1>7. ASSUME NEW x \in s.exts PROVE Proper(x.iv)
    <2>1. PICK j \in L : x = ExtentFor(Disk, Obj(ix, j))
      BY <1>2, <1>7 DEF Describes
    <2> QED BY <1>4, <2>1 DEF ExtentFor
  <1> QED BY <1>1, <1>5, <1>6, <1>7 DEF Regular, s

\* The whole of an index that is whole.
Final(ix) == At(ix, End(ix))

\* So is the scan of an index that is whole.
LEMMA FinalRegular ==
    ASSUME NEW ix, Whole(ix)
    PROVE  Regular(Final(ix))
  <1>1. Sound(ix) /\ ix \in Indexes /\ ~Mid(At(ix, End(ix)))
    BY DEF Whole, Sound
  <1>2. End(ix) \in Nat /\ End(ix) <= End(ix)
    BY <1>1, EndFacts, IndexAssumption DEF EndsAt
  <1> QED BY <1>1, <1>2, RegularAt DEF Final

\* The scan of an index without the half of an anchor that may end it.
Settled(ix) == IF Mid(Final(ix)) THEN At(ix, End(ix) - 1) ELSE Final(ix)

\* Nothing is left out of an index that is whole.
LEMMA WholeSettled ==
    ASSUME NEW ix, Whole(ix)
    PROVE  Settled(ix) = Final(ix)
  BY DEF Whole, Settled, Final

\* An anchor at the end is half of a pair.
LEMMA LastAnchor ==
    ASSUME NEW ix, Sound(ix), End(ix) # 0, ix[End(ix)].kind = "anchor"
    PROVE  Mid(At(ix, End(ix))) /\ ~Mid(At(ix, End(ix) - 1))
  <1> DEFINE n == End(ix) - 1
  <1>0. ix \in Indexes /\ End(ix) \in Nat /\ At(ix, End(ix)).ok /\ Disk \in Disks
    BY EndFacts, IndexAssumption, TrimAssumption DEF EndsAt, Sound
  <1>1. n \in Nat /\ n < End(ix) /\ n + 1 = End(ix) /\ End(ix) <= End(ix)
    BY <1>0
  <1> HIDE DEF n
  <1>2. Accepts(Disk, At(ix, n), ix[n + 1])
    BY <1>0, <1>1, OkBefore DEF At
  <1>3. ~Mid(At(ix, n))
    BY <1>1, <1>2 DEF Accepts, Mid
  <1>4. IsHead(ix[n + 1])
    BY <1>1 DEF IsHead
  <1>5. Mid(At(ix, n + 1))
    BY <1>1, <1>3, <1>4, Behind
  <1> QED BY <1>1, <1>3, <1>5 DEF n

\* The scan is regular, with half an anchor or without one.
LEMMA SettledRegular ==
    ASSUME NEW ix, Whole(ix) \/ Half(ix)
    PROVE  Regular(Settled(ix))
  <1>1. CASE Whole(ix)
    BY <1>1, WholeSettled, FinalRegular
  <1>2. CASE Half(ix)
    <2>1. /\ Sound(ix) /\ ix \in Indexes /\ End(ix) # 0 /\ ~Mid(At(ix, End(ix) - 1))
          /\ Settled(ix) = At(ix, End(ix) - 1)
      BY <1>2 DEF Half, Sound, Settled, Final
    <2>2. End(ix) \in Nat
      BY <2>1, EndFacts, IndexAssumption DEF EndsAt
    <2>3. End(ix) - 1 \in Nat /\ End(ix) - 1 <= End(ix)
      BY <2>1, <2>2
    <2> QED BY <2>1, <2>3, RegularAt
  <1> QED BY <1>1, <1>2

\* finish, when the extents of s keep apart and its tables decode: a name that
\* a table lists is read through such a table.
LEMMA FinishFacts ==
    ASSUME NEW g, NEW s, Regular(s), ExtsOK(s),
           \A t \in Fids : InTables(s, t) => TableAt(g, s, t).kind = "table"
    PROVE  /\ Finish(Disk, g, s).ok
           /\ Finish(Disk, g, s).exts = {x.iv : x \in s.exts}
           /\ \A f \in Fids : ~Listed(g, s, f) => Finish(Disk, g, s).refs[f] = s.refs[f]
           /\ \A f \in Fids : Listed(g, s, f) => \E t \in Fids :
                /\ InTables(s, t) /\ Lists(TableAt(g, s, t), f)
                /\ Finish(Disk, g, s).refs[f] = PackedRef(TableAt(g, s, t), EntryFor(TableAt(g, s, t), f))
  <1> DEFINE q == Finish(Disk, g, s)
             live    == {i \in DOMAIN s.tables : s.refs[s.tables[i]] # NoRef}
             tab(i)  == Deliver(Disk, g, s.refs[s.tables[i]])
             by(f)   == {i \in live : Lists(tab(i), f)}
             last(S) == CHOOSE i \in S : \A j \in S : j <= i
             X == /\ s.ok /\ s.alias = 0 /\ ~s.anchor /\ \A i \in live : tab(i).kind = "table"
                  /\ \A x, y \in s.exts : x # y => ~Overlaps(x.iv, y.iv)
             Y == IF ~(\A i \in live : tab(i).kind = "table") THEN s.refs
                  ELSE [f \in Fids |-> IF by(f) = {} THEN s.refs[f]
                                 ELSE PackedRef(tab(last(by(f))), EntryFor(tab(last(by(f))), f))]
             Z == {x.iv : x \in s.exts}
  <1>1. q = [ok |-> X, refs |-> Y, exts |-> Z]
    BY Zenon DEF Finish
  <1>2. (q.ok <=> X) /\ q.refs = Y /\ q.exts = Z
    <2> HIDE DEF X, Y, Z, q
    <2> QED BY <1>1
  <1>3. /\ s.ok /\ s.alias = 0 /\ ~s.anchor /\ s.tables \in Seq(Fids)
        /\ \A t : InTables(s, t) => t \in Fids /\ s.refs[t] # NoRef
    BY DEF Regular, ReplayStates, Mid
  <1>4. \A i \in DOMAIN s.tables : s.tables[i] \in Fids /\ InTables(s, s.tables[i]) /\ i \in live
    <2> SUFFICES ASSUME NEW i \in DOMAIN s.tables
                 PROVE  s.tables[i] \in Fids /\ InTables(s, s.tables[i]) /\ s.refs[s.tables[i]] # NoRef
      OBVIOUS
    <2>1. InTables(s, s.tables[i])
      BY DEF InTables
    <2> QED BY <1>3, <2>1
  <1>5. \A i \in live : tab(i).kind = "table" /\ tab(i) = TableAt(g, s, s.tables[i])
    BY <1>4 DEF TableAt
  <1>6. X /\ Y = [f \in Fids |-> IF by(f) = {} THEN s.refs[f]
                                 ELSE PackedRef(tab(last(by(f))), EntryFor(tab(last(by(f))), f))]
    BY <1>3, <1>5, Zenon DEF ExtsOK
  <1>7. \A f : by(f) # {} => last(by(f)) \in by(f)
    <2> SUFFICES ASSUME NEW f, by(f) # {} PROVE last(by(f)) \in by(f)
      OBVIOUS
    <2>1. Len(s.tables) \in Nat /\ \A i \in by(f) : i \in 1 .. Len(s.tables)
      BY <1>3
    <2>3. \E i \in by(f) : \A j \in by(f) : j <= i
      <3> DEFINE S == by(f)
                 n == Len(s.tables)
                 M == {m \in Nat : \E i \in S : i + m = n}
      <3>1. n \in Nat /\ S # {} /\ \A i \in S : i \in 1 .. n
        BY <2>1
      <3> HIDE DEF S, n
      <3>2. PICK i0 \in S : TRUE
        BY <3>1
      <3>3. n - i0 \in M
        BY <3>1, <3>2
      <3>4. PICK m \in M : \A y \in M : m <= y
        <4>1. M \in SUBSET Nat /\ M # {}
          BY <3>3
        <4> HIDE DEF M
        <4> QED BY <4>1, NatMin
      <3>5. PICK i \in S : i + m = n
        BY <3>4
      <3>6. \A j \in S : j <= i
        <4> SUFFICES ASSUME NEW j \in S PROVE j <= i
          OBVIOUS
        <4>1. n - j \in M
          BY <3>1
        <4>2. m <= n - j /\ m \in Nat
          BY <3>4, <4>1
        <4> QED BY <3>1, <3>5, <4>2
      <3> QED BY <3>5, <3>6 DEF S
    <2> QED BY <2>3, Zenon
  <1>8. ASSUME NEW f \in Fids
        PROVE  /\ by(f) = {} <=> ~Listed(g, s, f)
               /\ by(f) # {} => \E t \in Fids :
                    /\ InTables(s, t) /\ Lists(TableAt(g, s, t), f)
                    /\ q.refs[f] = PackedRef(TableAt(g, s, t), EntryFor(TableAt(g, s, t), f))
               /\ by(f) = {} => q.refs[f] = s.refs[f]
    <2>1. ASSUME NEW i \in by(f)
          PROVE  s.tables[i] \in Fids /\ InTables(s, s.tables[i]) /\ Lists(TableAt(g, s, s.tables[i]), f)
                 /\ tab(i) = TableAt(g, s, s.tables[i])
      BY <1>4, <1>5
    <2>2. ASSUME Listed(g, s, f) PROVE by(f) # {}
      <3>1. PICK t \in Fids : InTables(s, t) /\ Lists(TableAt(g, s, t), f)
        BY <2>2, Zenon DEF Listed
      <3>2. PICK i \in DOMAIN s.tables : s.tables[i] = t
        BY <3>1 DEF InTables
      <3>3. i \in by(f)
        BY <1>4, <1>5, <3>1, <3>2
      <3> QED BY <3>3
    <2>3. ASSUME by(f) # {} PROVE Listed(g, s, f)
      <3>1. PICK i \in by(f) : TRUE
        BY <2>3
      <3> QED BY <2>1, <3>1, Zenon DEF Listed
    <2>4. ASSUME by(f) # {}
          PROVE  \E t \in Fids :
                    /\ InTables(s, t) /\ Lists(TableAt(g, s, t), f)
                    /\ q.refs[f] = PackedRef(TableAt(g, s, t), EntryFor(TableAt(g, s, t), f))
      <3> DEFINE l == last(by(f))
      <3>1. l \in by(f)
        BY <1>7, <2>4
      <3>2. q.refs[f] = PackedRef(tab(l), EntryFor(tab(l), f))
        BY <1>2, <1>6, <2>4, Zenon
      <3>3. s.tables[l] \in Fids /\ InTables(s, s.tables[l]) /\ Lists(TableAt(g, s, s.tables[l]), f)
                 /\ tab(l) = TableAt(g, s, s.tables[l])
        BY <2>1, <3>1
      <3> HIDE DEF l, q, tab
      <3> QED BY <3>2, <3>3
    <2>5. ASSUME by(f) = {} PROVE q.refs[f] = s.refs[f]
      BY <1>2, <1>6, <2>5, Zenon
    <2> QED BY <2>2, <2>3, <2>4, <2>5
  <1> HIDE DEF by, q, X, Y, last
  <1>9. /\ q.ok /\ q.exts = Z
        /\ \A f \in Fids : ~Listed(g, s, f) => q.refs[f] = s.refs[f]
        /\ \A f \in Fids : Listed(g, s, f) => \E t \in Fids :
             /\ InTables(s, t) /\ Lists(TableAt(g, s, t), f)
             /\ q.refs[f] = PackedRef(TableAt(g, s, t), EntryFor(TableAt(g, s, t), f))
    BY <1>2, <1>6, <1>8
  <1> QED BY <1>9, Zenon DEF q

\* The extents a replay of s reserves.
ExtsOf(s) == {x.iv : x \in s.exts}

\* A replay of s, when the grid still delivers what memory refers to: the
\* index is accepted and serves the names in it as memory did.
Reloads(g, C, h, E, s, L, R) ==
    /\ Memory(L, R) /\ Current(h, E, L, R, s)
    /\ \A t \in Fids : InTables(s, t) => TableAt(h, s, t) = TableAt(g, s, t)
    /\ \A f \in Fids : ~Listed(h, s, f) => L[f] = s.refs[f]
    /\ \A f \in Fids : Listed(h, s, f) =>
         L[f] # NoRef /\ L[f].size = C[f].size /\ Deliver(Disk, h, L[f]) = Deliver(Disk, g, C[f])

\* References through a packed table lie in its container.
LEMMA PackedExtent ==
    ASSUME NEW v, v.container \in Nat, v.size \in Nat, NEW e
    PROVE  /\ RefExtent(PackedRef(v, e)) = RefExtent(Own(v.container, v.size))
           /\ PackedRef(v, e) # NoRef /\ PackedRef(v, e).size = e.size
  <1>1. /\ PackedRef(v, e).fid = v.container /\ PackedRef(v, e).storedSize = v.size
        /\ PackedRef(v, e).packed = TRUE /\ NoRef.packed = FALSE /\ PackedRef(v, e).size = e.size
    BY DEF PackedRef, NoRef, Own
  <1>2. Own(v.container, v.size).fid = v.container /\ Own(v.container, v.size).storedSize = v.size
    BY OwnRefs
  <1> QED BY <1>1, <1>2 DEF RefExtent

\* A replay of a scan whose tables memory agrees with: the pool opens, with the
\* extents of the scan, and serves through the tables what memory served.
LEMMA Reload ==
    ASSUME NEW g, NEW D, NEW C, NEW I, Memory(C, I), NEW h, NEW E, NEW s, Regular(s), ExtsOK(s),
           TablesOK(g, D, C, I, s),
           \A ref : RefExtent(ref) \in I /\ Clean(D, ref) => Deliver(Disk, h, ref) = Deliver(Disk, g, ref),
           \A iv : Dry(D, iv) => Dry(E, iv)
    PROVE  /\ Finish(Disk, h, s).ok
           /\ Finish(Disk, h, s).exts = ExtsOf(s)
           /\ Reloads(g, C, h, E, s, Finish(Disk, h, s).refs, ExtsOf(s))
  <1> DEFINE L == Finish(Disk, h, s).refs
             R == ExtsOf(s)
  <1>0. Fids \subseteq Nat \ {0}
    BY IndexAssumption
  <1>r. /\ \A f \in Fids : s.refs[f] # NoRef => s.refs[f].size # 0 /\ RefExtent(s.refs[f]) \in R
        /\ \A x \in s.exts : Proper(x.iv)
    <2>1. ASSUME NEW f \in Fids, s.refs[f] # NoRef PROVE s.refs[f].size # 0 /\ RefExtent(s.refs[f]) \in R
      <3>1. [fid |-> s.refs[f].fid, iv |-> RefExtent(s.refs[f])] \in s.exts /\ s.refs[f].size # 0
        BY <2>1 DEF Regular
      <3>2. \A x \in s.exts : x.iv \in R
        BY DEF ExtsOf
      <3> HIDE DEF R
      <3> QED BY <3>1, <3>2
    <2> QED BY <2>1 DEF Regular
  <1>1. ASSUME NEW t \in Fids, InTables(s, t)
        PROVE  TableIs(g, D, C, I, s, t, TableAt(h, s, t)) /\ TableAt(h, s, t) = TableAt(g, s, t)
    <2>1. TableIs(g, D, C, I, s, t, TableAt(g, s, t))
      BY <1>1 DEF TablesOK, TableOK
    <2>2. Match(g, I, s.refs[t], C[t]) /\ Clean(D, s.refs[t])
      BY <2>1, Zenon DEF TableIs
    <2>3. TableAt(h, s, t) = TableAt(g, s, t)
      BY <2>2 DEF TableAt, Match
    <2> QED BY <2>1, <2>3
  <1>2. ASSUME NEW t \in Fids, InTables(s, t), NEW v, v = TableAt(h, s, t)
        PROVE  /\ v.kind = "table" /\ v.container \in Fids /\ v.size \in Nat
               /\ C[t] # NoRef /\ Match(g, I, s.refs[t], C[t]) /\ Clean(D, s.refs[t])
               /\ s.refs[v.container] = Own(v.container, v.size)
               /\ C[v.container] # NoRef /\ Match(g, I, s.refs[v.container], C[v.container])
               /\ Clean(D, s.refs[v.container])
               /\ s.refs[t] # NoRef /\ s.refs[v.container] # NoRef
               /\ \A f \in Fids : Lists(v, f) =>
                    LET ref == PackedRef(v, EntryFor(v, f))
                    IN  /\ C[f] # NoRef /\ ref # NoRef /\ ref.size = C[f].size /\ ref.size # 0
                        /\ RefExtent(ref) \in R
                        /\ Deliver(Disk, h, ref) = Deliver(Disk, g, C[f])
    <2>1. TableIs(g, D, C, I, s, t, v)
      BY <1>1, <1>2
    <2>2. /\ v.kind = "table" /\ v.container \in Fids /\ v.size \in Nat
          /\ C[t] # NoRef /\ Match(g, I, s.refs[t], C[t]) /\ Clean(D, s.refs[t])
          /\ s.refs[v.container] = Own(v.container, v.size)
          /\ C[v.container] # NoRef /\ Match(g, I, s.refs[v.container], C[v.container])
          /\ Clean(D, s.refs[v.container])
          /\ \A f \in Fids : Lists(v, f) =>
               C[f] # NoRef /\ Match(g, I, PackedRef(v, EntryFor(v, f)), C[f])
      BY <2>1, Zenon DEF TableIs
    <2>3. s.refs[t] # NoRef /\ s.refs[v.container] # NoRef
      BY <2>2 DEF Match
    <2>4. ASSUME NEW f \in Fids, Lists(v, f), NEW ref, ref = PackedRef(v, EntryFor(v, f))
          PROVE  /\ C[f] # NoRef /\ ref # NoRef /\ ref.size = C[f].size /\ ref.size # 0
                 /\ RefExtent(ref) \in R
                 /\ Deliver(Disk, h, ref) = Deliver(Disk, g, C[f])
      <3>1. C[f] # NoRef /\ Match(g, I, ref, C[f])
        BY <2>2, <2>4
      <3>2. RefExtent(ref) = RefExtent(s.refs[v.container])
        BY <1>0, <2>2, <2>4, PackedExtent
      <3>3. RefExtent(ref) \in R
        BY <1>r, <2>2, <2>3, <3>2
      <3>4. Clean(D, ref) /\ RefExtent(ref) \in I
        BY <2>2, <3>1, <3>2 DEF Clean, Match
      <3>5. Deliver(Disk, h, ref) = Deliver(Disk, g, ref)
        BY <3>4
      <3>6. C[f].size # 0
        BY <3>1 DEF Memory
      <3> QED BY <3>1, <3>3, <3>5, <3>6 DEF Match
    <2> HIDE DEF R
    <2> QED BY <2>2, <2>3, <2>4, Zenon
  <1>3. /\ Finish(Disk, h, s).ok /\ Finish(Disk, h, s).exts = R
        /\ \A f \in Fids : ~Listed(h, s, f) => L[f] = s.refs[f]
        /\ \A f \in Fids : Listed(h, s, f) => \E t \in Fids :
             /\ InTables(s, t) /\ Lists(TableAt(h, s, t), f)
             /\ L[f] = PackedRef(TableAt(h, s, t), EntryFor(TableAt(h, s, t), f))
    <2>1. \A t \in Fids : InTables(s, t) => TableAt(h, s, t).kind = "table"
      BY <1>2
    <2>2. Finish(Disk, h, s).exts = {x.iv : x \in s.exts}
      BY <2>1, FinishFacts
    <2>3. Finish(Disk, h, s).exts = R
      BY <2>2 DEF ExtsOf
    <2> HIDE DEF R
    <2> QED BY <2>1, <2>3, FinishFacts
  <1>4. ASSUME NEW f \in Fids, Listed(h, s, f)
        PROVE  /\ L[f] # NoRef /\ L[f].size = C[f].size /\ L[f].size # 0 /\ RefExtent(L[f]) \in R
               /\ Deliver(Disk, h, L[f]) = Deliver(Disk, g, C[f])
    <2>1. PICK t \in Fids : /\ InTables(s, t) /\ Lists(TableAt(h, s, t), f)
                            /\ L[f] = PackedRef(TableAt(h, s, t), EntryFor(TableAt(h, s, t), f))
      BY <1>3, <1>4
    <2> DEFINE v == TableAt(h, s, t)
    <2>2. v = TableAt(h, s, t) /\ Lists(v, f) /\ L[f] = PackedRef(v, EntryFor(v, f))
      BY <2>1
    <2> DEFINE ref == PackedRef(v, EntryFor(v, f))
    <2> HIDE DEF v, R, L
    <2>3. /\ C[f] # NoRef /\ ref # NoRef /\ ref.size = C[f].size /\ ref.size # 0
          /\ RefExtent(ref) \in R
          /\ Deliver(Disk, h, ref) = Deliver(Disk, g, C[f])
      BY <1>2, <2>1, <2>2, Zenon
    <2> HIDE DEF ref
    <2> QED BY <2>2, <2>3 DEF ref
  <1> HIDE DEF L, R
  <1>5. Memory(L, R)
    <2>1. ASSUME NEW f \in Fids, L[f] # NoRef PROVE RefExtent(L[f]) \in R /\ L[f].size # 0
      BY <1>3, <1>4, <1>r, <2>1
    <2>2. \A iv \in R : Proper(iv)
      BY <1>r DEF R, ExtsOf
    <2>3. Apart(R)
      BY DEF R, ExtsOf, Apart, ExtsOK
    <2> QED BY <2>1, <2>2, <2>3 DEF Memory
  <1>6. ASSUME NEW f \in Fids, NEW ref, C[f] # NoRef, Match(g, I, ref, C[f]), Clean(D, ref),
               s.refs[f] = ref
        PROVE  L[f] # NoRef /\ Match(h, R, ref, L[f]) /\ Clean(E, ref)
    <2>1. ref # NoRef /\ ref.size = C[f].size /\ Deliver(Disk, h, ref) = Deliver(Disk, g, C[f])
      BY <1>6 DEF Match
    <2>2. RefExtent(ref) \in R
      BY <1>6, <1>r, <2>1
    <2>3. Clean(E, ref)
      BY <1>6 DEF Clean
    <2> QED BY <1>3, <1>4, <1>6, <2>1, <2>2, <2>3 DEF Match
  <1>7. ASSUME NEW t \in Fids, InTables(s, t) PROVE TableOK(h, E, L, R, s, t)
    <2> DEFINE v == TableAt(h, s, t)
    <2>v. v = TableAt(h, s, t)
      OBVIOUS
    <2> HIDE DEF v
    <2>1. /\ v.kind = "table" /\ v.container \in Fids /\ v.size \in Nat
          /\ C[t] # NoRef /\ Match(g, I, s.refs[t], C[t]) /\ Clean(D, s.refs[t])
          /\ s.refs[v.container] = Own(v.container, v.size)
          /\ C[v.container] # NoRef /\ Match(g, I, s.refs[v.container], C[v.container])
          /\ Clean(D, s.refs[v.container])
      BY <1>2, <1>7, <2>v, Zenon
    <2>2. /\ L[t] # NoRef /\ Match(h, R, s.refs[t], L[t]) /\ Clean(E, s.refs[t])
          /\ L[v.container] # NoRef /\ Match(h, R, s.refs[v.container], L[v.container])
          /\ Clean(E, s.refs[v.container])
      BY <1>6, <2>1
    <2>3. ASSUME NEW f \in Fids, Lists(v, f)
          PROVE  L[f] # NoRef /\ Match(h, R, PackedRef(v, EntryFor(v, f)), L[f])
      <3> DEFINE ref == PackedRef(v, EntryFor(v, f))
      <3>1. /\ C[f] # NoRef /\ ref # NoRef /\ ref.size = C[f].size
            /\ RefExtent(ref) \in R
            /\ Deliver(Disk, h, ref) = Deliver(Disk, g, C[f])
        BY <1>2, <1>7, <2>3, <2>v, Zenon
      <3>2. Listed(h, s, f)
        BY <1>7, <2>3, <2>v, Zenon DEF Listed
      <3> HIDE DEF ref
      <3>3. L[f] # NoRef /\ Match(h, R, ref, L[f])
        BY <1>4, <3>1, <3>2 DEF Match
      <3> QED BY <3>3 DEF ref
    <2>4. TableIs(h, E, L, R, s, t, v)
      BY <2>1, <2>2, <2>3, Zenon DEF TableIs
    <2> QED BY <2>4, <2>v DEF TableOK
  <1>8. NamesOK(h, L, R, s)
    <2> SUFFICES ASSUME NEW f \in Fids, L[f] # NoRef, ~Listed(h, s, f)
                 PROVE  Match(h, R, s.refs[f], L[f])
      BY DEF NamesOK
    <2>1. L[f] = s.refs[f]
      BY <1>3
    <2> QED BY <1>r, <2>1 DEF Match
  <1>9. Current(h, E, L, R, s)
    BY <1>7, <1>8 DEF Current, TablesOK
  <1>10. Reloads(g, C, h, E, s, L, R)
    BY <1>1, <1>3, <1>4, <1>5, <1>9 DEF Reloads
  <1> QED BY <1>3, <1>10 DEF L, R

-----------------------------------------------------------------------------
(* The view: what memory, the index and the medium have to do with each    *)
(* other.                                                                  *)

\* The names (fids and aliases) of the Puts P.
NamesOf(P) == UNION {Names(Header[p]) : p \in P}

\* The references C serve the payloads of the Puts P.
Serves(g, C, P) ==
    /\ P \subseteq Puts
    /\ \A p \in P : \A f \in Names(Header[p]) :
         C[f] # NoRef /\ C[f].size = LogicalSize(p, f) /\ Deliver(Disk, g, C[f]) = Data(p)

\* now is what a boot would scan, base what memory knows of it, and M what may
\* be on the medium instead.
View(g, D, C, I, P, now, base, M) ==
    /\ Memory(C, I) /\ Serves(g, C, P)
    /\ Current(g, D, C, I, now) /\ Current(g, D, C, I, base)
    /\ \A x \in base.exts : x.iv \in I
    /\ Past(g, D, C, I, NamesOf(P), now, now)
    /\ \A s \in M : Past(g, D, C, I, NamesOf(P), s, now)

\* The names of Puts, which are served.
LEMMA ServedNames ==
    ASSUME NEW g, NEW C, NEW P, Serves(g, C, P)
    PROVE  \A f \in NamesOf(P) : f \in Fids /\ C[f] # NoRef
  <1> SUFFICES ASSUME NEW p \in P, NEW f \in Names(Header[p])
               PROVE  f \in Fids /\ C[f] # NoRef
    BY Zenon DEF NamesOf
  <1>1. p \in Puts /\ C[f] # NoRef
    BY DEF Serves
  <1> QED BY <1>1, HeaderFacts, TrimAssumption

\* What is served goes on being served.
LEMMA CarriesServes ==
    ASSUME NEW g, NEW D, NEW C, NEW I, NEW h, NEW E, NEW B, NEW J, Carries(g, D, C, I, h, E, B, J),
           NEW P, Serves(g, C, P)
    PROVE  Serves(h, B, P)
  <1> SUFFICES ASSUME NEW p \in P, NEW f \in Names(Header[p])
               PROVE  B[f] # NoRef /\ B[f].size = LogicalSize(p, f) /\ Deliver(Disk, h, B[f]) = Data(p)
    BY Zenon DEF Serves
  <1>1. p \in Puts /\ C[f] # NoRef /\ C[f].size = LogicalSize(p, f) /\ Deliver(Disk, g, C[f]) = Data(p)
    BY DEF Serves
  <1>2. f \in Fids
    BY <1>1, HeaderFacts, TrimAssumption
  <1> QED BY <1>1, <1>2 DEF Carries

\* The tables of a scan are its own.
LEMMA TablesFromSelf ==
    ASSUME NEW g, NEW s
    PROVE  TablesFrom(g, s, s)
  BY Zenon DEF TablesFrom

\* The index stays, and so does what it says.
LEMMA CarriesSame ==
    ASSUME NEW g, NEW D, NEW C, NEW I, NEW h, NEW E, NEW B, NEW J, Carries(g, D, C, I, h, E, B, J),
           NEW s, Current(g, D, C, I, s), Memory(B, J),
           \A f \in Fids : B[f] # NoRef => C[f] # NoRef \/ s.refs[f] = B[f]
    PROVE  Current(h, E, B, J, s)
  <1>1. ExtsOK(s) /\ TablesFrom(g, s, s)
    BY TablesFromSelf DEF Current
  <1>2. \A t \in Fids : InTables(s, t) =>
              \/ /\ InTables(s, t) /\ s.refs[t] = s.refs[t]
                 /\ s.refs[TableAt(g, s, t).container] = s.refs[TableAt(g, s, t).container]
              \/ TableOK(h, E, B, J, s, t)
    BY Zenon
  <1>3. \A f \in Fids : B[f] # NoRef =>
              \/ C[f] # NoRef /\ s.refs[f] = s.refs[f]
              \/ Match(h, J, s.refs[f], B[f])
              \/ Listed(h, s, f)
    <2> SUFFICES ASSUME NEW f \in Fids, B[f] # NoRef, C[f] = NoRef
                 PROVE  Match(h, J, s.refs[f], B[f])
      BY Zenon
    <2>1. s.refs[f] = B[f]
      OBVIOUS
    <2> QED BY <2>1 DEF Match, Memory
  <1> QED BY <1>1, <1>2, <1>3, CarriesCurrent

\* A step that leaves the index alone.
LEMMA ViewCarries ==
    ASSUME NEW g, NEW D, NEW C, NEW I, NEW h, NEW E, NEW B, NEW J, Carries(g, D, C, I, h, E, B, J),
           NEW P, NEW now, NEW base, NEW M, View(g, D, C, I, P, now, base, M),
           Memory(B, J), \A f \in Fids : B[f] # NoRef => C[f] # NoRef
    PROVE  View(h, E, B, J, P, now, base, M)
  <1>1. Current(h, E, B, J, now) /\ Current(h, E, B, J, base)
    <2>1. Current(g, D, C, I, now) /\ Current(g, D, C, I, base)
      BY DEF View
    <2>2. /\ \A f \in Fids : B[f] # NoRef => C[f] # NoRef \/ now.refs[f] = B[f]
          /\ \A f \in Fids : B[f] # NoRef => C[f] # NoRef \/ base.refs[f] = B[f]
      OBVIOUS
    <2> QED BY <2>1, <2>2, CarriesSame
  <1>2. Serves(h, B, P)
    BY CarriesServes DEF View
  <1>3. \A x \in base.exts : x.iv \in J
    BY DEF View, Carries
  <1>4. ASSUME NEW s, Past(g, D, C, I, NamesOf(P), s, now)
        PROVE  Past(h, E, B, J, NamesOf(P), s, now)
    <2>1. \A f \in NamesOf(P) : f \in Fids /\ C[f] # NoRef /\ (Listed(g, s, f) \/ now.refs[f] = now.refs[f])
      BY ServedNames DEF View
    <2>2. TablesOK(g, D, C, I, now) /\ TablesFrom(g, now, now)
      BY TablesFromSelf DEF View, Current
    <2> QED BY <1>4, <2>1, <2>2, CarriesPast
  <1> QED BY <1>1, <1>2, <1>3, <1>4 DEF View

\* After a sync, with no doubt left, an index serves itself.
LEMMA PastSelf ==
    ASSUME NEW g, NEW C, NEW I, NEW A, NEW s, Current(g, {}, C, I, s), NEW q, TablesFrom(g, s, q), ExtsOK(s),
           \A f \in A : f \in Fids /\ C[f] # NoRef /\ s.refs[f] = q.refs[f]
    PROVE  Past(g, {}, C, I, A, s, q)
  <1>1. \A ref : Clean({}, ref)
    BY DEF Clean, Dry
  <1>2. ASSUME NEW f \in A
        PROVE  \/ Listed(g, s, f)
               \/ s.refs[f] = q.refs[f] /\ Match(g, I, s.refs[f], C[f]) /\ Clean({}, s.refs[f])
    BY <1>1, <1>2 DEF Current, NamesOK
  <1> QED BY <1>2, Zenon DEF Past

\* A sync, with which memory catches up with the index.
LEMMA ViewSettle ==
    ASSUME NEW g, NEW D, NEW C, NEW I, NEW B, NEW J, Carries(g, D, C, I, g, {}, B, J),
           NEW s, Current(g, D, C, I, s), Memory(B, J), NEW P, Serves(g, B, P),
           \A f \in Fids : B[f] # NoRef => C[f] # NoRef \/ s.refs[f] = B[f],
           \A x \in s.exts : x.iv \in J
    PROVE  View(g, {}, B, J, P, s, s, {s})
  <1>1. Current(g, {}, B, J, s)
    BY CarriesSame
  <1>2. Past(g, {}, B, J, NamesOf(P), s, s)
    <2>1. \A f \in NamesOf(P) : f \in Fids /\ B[f] # NoRef /\ s.refs[f] = s.refs[f]
      BY ServedNames
    <2>2. ExtsOK(s) /\ TablesFrom(g, s, s)
      BY TablesFromSelf DEF Current
    <2> QED BY <1>1, <2>1, <2>2, PastSelf
  <1> QED BY <1>1, <1>2 DEF View

\* s is b and names that memory does not serve.
Extends(C, b, s) ==
    /\ ExtsOK(s) /\ s.tables = b.tables
    /\ \A f \in Fids : C[f] # NoRef => s.refs[f] = b.refs[f]

\* Extensions of what memory knows have the same tables.
LEMMA ExtendsTables ==
    ASSUME NEW g, NEW D, NEW C, NEW I, NEW b, TablesOK(g, D, C, I, b), NEW s, Extends(C, b, s),
           NEW q, Extends(C, b, q)
    PROVE  /\ TablesFrom(g, s, q)
           /\ \A t \in Fids : InTables(s, t) =>
                InTables(b, t) /\ TableAt(g, s, t) = TableAt(g, b, t)
  <1> SUFFICES ASSUME NEW t \in Fids, InTables(s, t)
               PROVE  /\ InTables(q, t) /\ s.refs[t] = q.refs[t]
                      /\ s.refs[TableAt(g, q, t).container] = q.refs[TableAt(g, q, t).container]
                      /\ InTables(b, t) /\ TableAt(g, s, t) = TableAt(g, b, t)
    BY Zenon DEF TablesFrom
  <1>1. InTables(b, t) /\ InTables(q, t)
    BY DEF Extends, InTables
  <1> DEFINE v == TableAt(g, b, t)
  <1>2. TableIs(g, D, C, I, b, t, v)
    BY <1>1 DEF TablesOK, TableOK
  <1>3. v.container \in Fids /\ C[t] # NoRef /\ C[v.container] # NoRef
    BY <1>2, Zenon DEF TableIs
  <1>4. s.refs[t] = b.refs[t] /\ q.refs[t] = b.refs[t]
    BY <1>3 DEF Extends
  <1>5. TableAt(g, q, t) = v /\ TableAt(g, s, t) = v
    BY <1>4 DEF TableAt
  <1> HIDE DEF v
  <1>6. s.refs[v.container] = b.refs[v.container] /\ q.refs[v.container] = b.refs[v.container]
    BY <1>3 DEF Extends
  <1> QED BY <1>1, <1>4, <1>5, <1>6 DEF v

\* ... and serve the same.
LEMMA ExtendsCurrent ==
    ASSUME NEW g, NEW D, NEW C, NEW I, Memory(C, I), NEW b, Current(g, D, C, I, b), NEW s, Extends(C, b, s)
    PROVE  Current(g, D, C, I, s)
  <1>1. Carries(g, D, C, I, g, D, C, I)
    BY DEF Carries
  <1>2. TablesOK(g, D, C, I, b) /\ ExtsOK(s) /\ ExtsOK(b)
    BY DEF Current, Extends
  <1>3. Extends(C, b, b)
    BY <1>2 DEF Extends
  <1>4. TablesFrom(g, b, s) /\ TablesFrom(g, s, b)
    BY <1>2, <1>3, ExtendsTables
  <1>5. \A t \in Fids : InTables(s, t) =>
              \/ /\ InTables(b, t) /\ s.refs[t] = b.refs[t]
                 /\ s.refs[TableAt(g, b, t).container] = b.refs[TableAt(g, b, t).container]
              \/ TableOK(g, D, C, I, s, t)
    BY <1>4 DEF TablesFrom
  <1>6. \A f \in Fids : C[f] # NoRef =>
              \/ C[f] # NoRef /\ s.refs[f] = b.refs[f]
              \/ Match(g, I, s.refs[f], C[f])
              \/ Listed(g, s, f)
    BY DEF Extends
  <1> QED BY <1>1, <1>2, <1>4, <1>5, <1>6, CarriesCurrent

\* A sync and an append that memory does not know yet: both q, which was there
\* before, and s may be on the medium.
LEMMA ViewAppend ==
    ASSUME NEW g, NEW D, NEW C, NEW I, NEW h, Carries(g, D, C, I, h, {}, C, I),
           NEW P, NEW now, NEW base, NEW M, View(g, D, C, I, P, now, base, M),
           NEW q, Extends(C, base, q), NEW s, Extends(C, base, s)
    PROVE  View(h, {}, C, I, P, s, base, {q, s})
  <1>1. View(h, {}, C, I, P, now, base, M)
    <2>1. Memory(C, I) /\ \A f \in Fids : C[f] # NoRef => C[f] # NoRef
      BY DEF View
    <2> QED BY <2>1, ViewCarries
  <1>2. /\ Memory(C, I) /\ Serves(h, C, P) /\ Current(h, {}, C, I, base) /\ TablesOK(h, {}, C, I, base)
        /\ \A x \in base.exts : x.iv \in I
    BY <1>1 DEF View, Current
  <1>3. Current(h, {}, C, I, s) /\ Current(h, {}, C, I, q) /\ ExtsOK(s) /\ ExtsOK(q)
    BY <1>2, ExtendsCurrent DEF Extends
  <1>4. TablesFrom(h, s, s) /\ TablesFrom(h, q, s)
    BY <1>2, ExtendsTables
  <1>5. \A f \in NamesOf(P) : f \in Fids /\ C[f] # NoRef /\ q.refs[f] = s.refs[f] /\ s.refs[f] = s.refs[f]
    BY <1>2, ServedNames DEF Extends
  <1>6. Past(h, {}, C, I, NamesOf(P), s, s) /\ Past(h, {}, C, I, NamesOf(P), q, s)
    BY <1>3, <1>4, <1>5, PastSelf
  <1> QED BY <1>2, <1>3, <1>6 DEF View

\* Memory is made anew from s: from what may be on the medium after a crash,
\* or from what reads see.  What was acknowledged is served as before.
LEMMA ViewReload ==
    ASSUME NEW g, NEW D, NEW C, NEW I, NEW P, NEW now, NEW base, NEW M, View(g, D, C, I, P, now, base, M),
           NEW h, NEW E, NEW s, Regular(s), Past(g, D, C, I, NamesOf(P), s, now),
           \A ref : RefExtent(ref) \in I /\ Clean(D, ref) => Deliver(Disk, h, ref) = Deliver(Disk, g, ref),
           \A iv : Dry(D, iv) => Dry(E, iv),
           NEW N, \A m \in N : Past(g, D, C, I, NamesOf(P), m, s)
    PROVE  /\ Finish(Disk, h, s).ok
           /\ Finish(Disk, h, s).exts = ExtsOf(s)
           /\ View(h, E, Finish(Disk, h, s).refs, ExtsOf(s), P, s, s, N)
  <1> DEFINE L == Finish(Disk, h, s).refs
             R == ExtsOf(s)
             A == NamesOf(P)
  <1>1. /\ Memory(C, I) /\ Serves(g, C, P) /\ TablesOK(g, D, C, I, now)
        /\ ExtsOK(s) /\ TablesFrom(g, s, now)
    BY DEF View, Current, Past
  <1>2. TablesOK(g, D, C, I, s)
    <2>1. Carries(g, D, C, I, g, D, C, I)
      BY DEF Carries
    <2> QED BY <1>1, <2>1, CarriesTables
  <1>3. Finish(Disk, h, s).ok /\ Finish(Disk, h, s).exts = R /\ Reloads(g, C, h, E, s, L, R)
    BY <1>1, <1>2, Reload
  <1>x. /\ \A x \in s.exts : x.iv \in R
        /\ \A f \in Fids : s.refs[f] # NoRef => RefExtent(s.refs[f]) \in R
    <2>1. \A x \in s.exts : x.iv \in R
      BY DEF ExtsOf
    <2> HIDE DEF R
    <2>2. ASSUME NEW f \in Fids, s.refs[f] # NoRef PROVE RefExtent(s.refs[f]) \in R
      <3>1. [fid |-> s.refs[f].fid, iv |-> RefExtent(s.refs[f])] \in s.exts
        BY <2>2 DEF Regular
      <3> QED BY <2>1, <3>1
    <2> QED BY <2>1, <2>2
  <1> HIDE DEF L, R
  <1>4. /\ Memory(L, R) /\ Current(h, E, L, R, s)
        /\ \A t \in Fids : InTables(s, t) => TableAt(h, s, t) = TableAt(g, s, t)
        /\ \A f \in Fids : ~Listed(h, s, f) => L[f] = s.refs[f]
        /\ \A f \in Fids : Listed(h, s, f) =>
             L[f] # NoRef /\ L[f].size = C[f].size /\ Deliver(Disk, h, L[f]) = Deliver(Disk, g, C[f])
    BY <1>3 DEF Reloads
  <1>5. ASSUME NEW f \in Fids, C[f] # NoRef, NEW ref, ref = s.refs[f], Match(g, I, ref, C[f]), Clean(D, ref)
        PROVE  /\ Match(h, R, ref, L[f]) /\ Clean(E, ref) /\ L[f] # NoRef /\ L[f].size = C[f].size
               /\ Deliver(Disk, h, L[f]) = Deliver(Disk, g, C[f])
    <2>1. /\ ref # NoRef /\ ref.size = C[f].size /\ Deliver(Disk, h, ref) = Deliver(Disk, g, C[f])
          /\ RefExtent(ref) \in R /\ Clean(E, ref)
      BY <1>5, <1>x DEF Match, Clean
    <2> QED BY <1>4, <1>5, <2>1 DEF Match
  <1>6. \A f \in A : f \in Fids /\ C[f] # NoRef
    BY <1>1, ServedNames
  <1>7. ASSUME NEW f, NEW m, TablesFrom(g, m, s), Listed(g, m, f) PROVE Listed(h, m, f) /\ Listed(h, s, f)
    <2>1. PICK t \in Fids : InTables(m, t) /\ Lists(TableAt(g, m, t), f)
      BY <1>7, Zenon DEF Listed
    <2>2. InTables(s, t) /\ m.refs[t] = s.refs[t]
      BY <1>7, <2>1 DEF TablesFrom
    <2>3. TableAt(h, s, t) = TableAt(g, s, t) /\ TableAt(g, m, t) = TableAt(g, s, t)
          /\ TableAt(h, m, t) = TableAt(h, s, t)
      BY <1>4, <2>2 DEF TableAt
    <2> QED BY <2>1, <2>2, <2>3, Zenon DEF Listed
  <1>8. ASSUME NEW f \in A
        PROVE  L[f] # NoRef /\ L[f].size = C[f].size /\ Deliver(Disk, h, L[f]) = Deliver(Disk, g, C[f])
    <2>1. f \in Fids /\ C[f] # NoRef
      BY <1>6, <1>8
    <2>2. CASE Listed(g, s, f)
      BY <1>4, <1>7, <2>1, <2>2, TablesFromSelf
    <2>3. CASE ~Listed(g, s, f)
      <3>1. Match(g, I, s.refs[f], C[f]) /\ Clean(D, s.refs[f])
        BY <1>8, <2>3 DEF Past
      <3> QED BY <1>5, <2>1, <3>1
    <2> QED BY <2>2, <2>3
  <1>9. Serves(h, L, P)
    <2> SUFFICES ASSUME NEW p \in P, NEW f \in Names(Header[p])
                 PROVE  L[f] # NoRef /\ L[f].size = LogicalSize(p, f) /\ Deliver(Disk, h, L[f]) = Data(p)
      BY <1>1, Zenon DEF Serves
    <2>1. f \in A
      BY Zenon DEF NamesOf
    <2>2. C[f].size = LogicalSize(p, f) /\ Deliver(Disk, g, C[f]) = Data(p)
      BY <1>1 DEF Serves
    <2> QED BY <1>8, <2>1, <2>2
  <1>10. ASSUME NEW m, Past(g, D, C, I, A, m, s) PROVE Past(h, E, L, R, A, m, s)
    <2>1. ExtsOK(m) /\ TablesFrom(g, m, s)
      BY <1>10 DEF Past
    <2>2. TablesFrom(h, m, s)
      <3> SUFFICES ASSUME NEW t \in Fids, InTables(m, t)
                   PROVE  /\ InTables(s, t) /\ m.refs[t] = s.refs[t]
                          /\ m.refs[TableAt(h, s, t).container] = s.refs[TableAt(h, s, t).container]
        BY Zenon DEF TablesFrom
      <3>1. /\ InTables(s, t) /\ m.refs[t] = s.refs[t]
            /\ m.refs[TableAt(g, s, t).container] = s.refs[TableAt(g, s, t).container]
        BY <2>1 DEF TablesFrom
      <3> QED BY <1>4, <3>1
    <2>3. ASSUME NEW f \in A
          PROVE  \/ Listed(h, m, f)
                 \/ m.refs[f] = s.refs[f] /\ Match(h, R, m.refs[f], L[f]) /\ Clean(E, m.refs[f])
      <3>1. f \in Fids /\ C[f] # NoRef
        BY <1>6, <2>3
      <3>2. CASE Listed(g, m, f)
        BY <1>7, <2>1, <3>2
      <3>3. CASE ~Listed(g, m, f)
        <4>1. m.refs[f] = s.refs[f] /\ Match(g, I, m.refs[f], C[f]) /\ Clean(D, m.refs[f])
          BY <1>10, <2>3, <3>3 DEF Past
        <4> QED BY <1>5, <3>1, <4>1
      <3> QED BY <3>2, <3>3
    <2> QED BY <2>1, <2>2, <2>3, Zenon DEF Past
  <1>11. Past(g, D, C, I, A, s, s)
    <2>1. ASSUME NEW f \in A
          PROVE  Listed(g, s, f) \/ (Match(g, I, s.refs[f], C[f]) /\ Clean(D, s.refs[f]))
      BY <2>1 DEF Past
    <2> QED BY <1>1, <2>1, TablesFromSelf DEF Past
  <1>12. View(h, E, L, R, P, s, s, N)
    BY <1>4, <1>9, <1>10, <1>11, <1>x DEF View
  <1> QED BY <1>3, <1>12 DEF L, R

\* Nothing needs the entry of a name any more: tables list the name, and it is
\* neither a table nor a container of one.
Dispensable(g, now, M, fid) ==
    /\ ~InTables(now, fid)
    /\ \A t \in Fids : InTables(now, t) => TableAt(g, now, t).container # fid
    /\ Listed(g, now, fid) /\ \A m \in M : Listed(g, m, fid)

\* What tables list stays listed, by tables that were there.
ListsStay(g, now, s) ==
    /\ \A f : Listed(g, now, f) => Listed(g, s, f)
    /\ \A t \in Fids : InTables(s, t) => InTables(now, t) /\ TableAt(g, s, t) = TableAt(g, now, t)

\* A tombstone for a name that a table lists.
LEMMA ViewTomb ==
    ASSUME NEW g, NEW D, NEW C, NEW I, NEW P, NEW now, NEW M, View(g, D, C, I, P, now, now, M),
           NEW e, NEW s, AfterTomb(now, e, s), Dispensable(g, now, M, e.fid)
    PROVE  View(g, D, C, I, P, s, s, M \cup {s}) /\ ListsStay(g, now, s)
  <1> USE DEF Dispensable
  <1> DEFINE A == NamesOf(P)
  <1>1. /\ \A f \in Fids : f # e.fid => s.refs[f] = now.refs[f]
        /\ \A t : InTables(s, t) <=> InTables(now, t)
        /\ \A x \in s.exts : x \in now.exts
    BY DEF AfterTomb, InTables
  <1>2. /\ Memory(C, I) /\ Serves(g, C, P) /\ Current(g, D, C, I, now) /\ TablesOK(g, D, C, I, now)
        /\ \A x \in now.exts : x.iv \in I
        /\ \A f \in A : f \in Fids /\ C[f] # NoRef
    BY ServedNames DEF View, Current
  <1>3. ExtsOK(s)
    BY <1>1 DEF View, Current, ExtsOK
  <1>4. Carries(g, D, C, I, g, D, C, I)
    BY DEF Carries
  <1>5. ASSUME NEW t \in Fids, InTables(now, t)
        PROVE  /\ s.refs[t] = now.refs[t] /\ TableAt(g, s, t) = TableAt(g, now, t)
               /\ s.refs[TableAt(g, now, t).container] = now.refs[TableAt(g, now, t).container]
    <2>1. s.refs[t] = now.refs[t]
      BY <1>1, <1>5
    <2>2. TableAt(g, now, t).container \in Fids /\ TableAt(g, now, t).container # e.fid
      BY <1>2, <1>5, Zenon DEF TablesOK, TableOK, TableIs
    <2>3. TableAt(g, s, t) = TableAt(g, now, t)
      BY <2>1 DEF TableAt
    <2> QED BY <1>1, <2>1, <2>2, <2>3
  <1>6. TablesFrom(g, now, s) /\ TablesFrom(g, s, now)
    BY <1>1, <1>5 DEF TablesFrom
  <1>7. \A f : Listed(g, now, f) => Listed(g, s, f)
    BY <1>2, <1>4, <1>1, <1>5, CarriesListed
  <1>8. Current(g, D, C, I, s)
    <2>1. \A t \in Fids : InTables(s, t) =>
              \/ /\ InTables(now, t) /\ s.refs[t] = now.refs[t]
                 /\ s.refs[TableAt(g, now, t).container] = now.refs[TableAt(g, now, t).container]
              \/ TableOK(g, D, C, I, s, t)
      BY <1>1, <1>5
    <2>2. \A f \in Fids : C[f] # NoRef =>
              \/ C[f] # NoRef /\ s.refs[f] = now.refs[f]
              \/ Match(g, I, s.refs[f], C[f])
              \/ Listed(g, s, f)
      BY <1>1, <1>7
    <2> QED BY <1>2, <1>3, <1>4, <1>6, <2>1, <2>2, CarriesCurrent
  <1>9. \A m \in M : Past(g, D, C, I, A, m, s)
    <2> SUFFICES ASSUME NEW m \in M PROVE Past(g, D, C, I, A, m, s)
      OBVIOUS
    <2>1. Past(g, D, C, I, A, m, now)
      BY DEF View
    <2>2. \A f \in A : f \in Fids /\ C[f] # NoRef /\ (Listed(g, m, f) \/ s.refs[f] = now.refs[f])
      BY <1>1, <1>2
    <2> QED BY <1>2, <1>4, <1>6, <2>1, <2>2, CarriesPast
  <1>10. Past(g, D, C, I, A, s, s)
    <2>1. ASSUME NEW f \in A
          PROVE  Listed(g, s, f) \/ (Match(g, I, s.refs[f], C[f]) /\ Clean(D, s.refs[f]))
      <3>1. CASE f = e.fid
        BY <1>7, <3>1
      <3>2. CASE f # e.fid
        <4>1. Listed(g, now, f) \/ (Match(g, I, now.refs[f], C[f]) /\ Clean(D, now.refs[f]))
          BY <2>1 DEF View, Past
        <4> QED BY <1>1, <1>2, <1>7, <2>1, <3>2, <4>1
      <3> QED BY <3>1, <3>2
    <2> QED BY <1>3, <2>1, TablesFromSelf DEF Past
  <1>11. View(g, D, C, I, P, s, s, M \cup {s})
    BY <1>1, <1>2, <1>8, <1>9, <1>10 DEF View
  <1> QED BY <1>1, <1>5, <1>7, <1>11 DEF ListsStay

\* An anchor adds its table, and repeats the table's entry.
LEMMA AnchorAdds ==
    ASSUME NEW base, Regular(base), NEW k, NEW e, e.fid \in Fids, e.size \in Nat,
           NEW s, AfterAnchor(Disk, base, k, e, s), base.refs[e.fid] = Own(e.fid, e.size)
    PROVE  /\ \A f \in Fids : s.refs[f] = base.refs[f]
           /\ \A t : InTables(s, t) <=> InTables(base, t) \/ t = e.fid
           /\ \A x \in s.exts : x \in base.exts
  <1>0. e.fid \in Nat /\ e.fid # 0
    BY IndexAssumption
  <1>1. \A f \in Fids : s.refs[f] = base.refs[f]
    BY DEF AfterAnchor
  <1>2. \A t : InTables(s, t) <=> InTables(base, t) \/ t = e.fid
    <2>1. s.tables = Append(base.tables, e.fid) /\ base.tables \in Seq(Fids)
      BY DEF AfterAnchor, Regular, ReplayStates
    <2>2. DOMAIN base.tables = 1 .. Len(base.tables) /\ Len(base.tables) \in Nat
          /\ DOMAIN s.tables = 1 .. Len(base.tables) + 1
          /\ s.tables[Len(base.tables) + 1] = e.fid
          /\ \A i \in 1 .. Len(base.tables) : s.tables[i] = base.tables[i]
      BY <2>1
    <2> QED BY <2>2 DEF InTables
  <1>3. ExtentFor(Disk, e) \in base.exts
    <2>1. Own(e.fid, e.size) # NoRef /\ RefExtent(Own(e.fid, e.size)) = Extent(Disk, e.fid, e.size)
          /\ Own(e.fid, e.size).fid = e.fid
      BY <1>0, OwnRefs
    <2>2. [fid |-> base.refs[e.fid].fid, iv |-> RefExtent(base.refs[e.fid])] \in base.exts
      BY <2>1 DEF Regular
    <2> QED BY <2>1, <2>2 DEF ExtentFor
  <1>4. \A x \in s.exts : x \in base.exts
    BY <1>3 DEF AfterAnchor
  <1> QED BY <1>1, <1>2, <1>4

\* A packed table is announced.
LEMMA ViewAnchor ==
    ASSUME NEW g, NEW D, NEW C, NEW I, NEW P, NEW base, NEW M, View(g, D, C, I, P, base, base, M),
           Regular(base), NEW k, NEW e, e.fid \in Fids, e.size \in Nat, NEW s, AfterAnchor(Disk, base, k, e, s),
           base.refs[e.fid] = Own(e.fid, e.size), TableOK(g, D, C, I, s, e.fid)
    PROVE  /\ View(g, D, C, I, P, s, base, M \cup {s})
           /\ \A x \in s.exts : x.iv \in I
  <1> DEFINE A == NamesOf(P)
  <1>1. /\ \A f \in Fids : s.refs[f] = base.refs[f]
        /\ \A t : InTables(s, t) <=> InTables(base, t) \/ t = e.fid
        /\ \A x \in s.exts : x \in base.exts
    BY AnchorAdds
  <1>2. /\ Memory(C, I) /\ Serves(g, C, P) /\ Current(g, D, C, I, base) /\ TablesOK(g, D, C, I, base)
        /\ \A x \in base.exts : x.iv \in I
        /\ \A f \in A : f \in Fids /\ C[f] # NoRef
    BY ServedNames DEF View, Current
  <1>3. ExtsOK(s)
    BY <1>1 DEF View, Current, ExtsOK
  <1>4. Carries(g, D, C, I, g, D, C, I)
    BY DEF Carries
  <1>5. ASSUME NEW t \in Fids, InTables(base, t)
        PROVE  /\ s.refs[t] = base.refs[t] /\ TableAt(g, s, t) = TableAt(g, base, t)
               /\ s.refs[TableAt(g, base, t).container] = base.refs[TableAt(g, base, t).container]
    <2>1. s.refs[t] = base.refs[t]
      BY <1>1, <1>5
    <2>2. TableAt(g, base, t).container \in Fids
      BY <1>2, <1>5, Zenon DEF TablesOK, TableOK, TableIs
    <2>3. TableAt(g, s, t) = TableAt(g, base, t)
      BY <2>1 DEF TableAt
    <2> QED BY <1>1, <2>1, <2>2, <2>3
  <1>6. TablesFrom(g, base, s)
    BY <1>1, <1>5 DEF TablesFrom
  <1>7. \A f : Listed(g, base, f) => Listed(g, s, f)
    BY <1>2, <1>4, <1>1, <1>5, CarriesListed
  <1>8. Current(g, D, C, I, s)
    <2>1. \A t \in Fids : InTables(s, t) =>
              \/ /\ InTables(base, t) /\ s.refs[t] = base.refs[t]
                 /\ s.refs[TableAt(g, base, t).container] = base.refs[TableAt(g, base, t).container]
              \/ TableOK(g, D, C, I, s, t)
      BY <1>1, <1>5
    <2>2. \A f \in Fids : C[f] # NoRef =>
              \/ C[f] # NoRef /\ s.refs[f] = base.refs[f]
              \/ Match(g, I, s.refs[f], C[f])
              \/ Listed(g, s, f)
      BY <1>1
    <2> QED BY <1>2, <1>3, <1>4, <1>6, <2>1, <2>2, CarriesCurrent
  <1>9. \A m \in M : Past(g, D, C, I, A, m, s)
    <2> SUFFICES ASSUME NEW m \in M PROVE Past(g, D, C, I, A, m, s)
      OBVIOUS
    <2>1. Past(g, D, C, I, A, m, base)
      BY DEF View
    <2>2. \A f \in A : f \in Fids /\ C[f] # NoRef /\ (Listed(g, m, f) \/ s.refs[f] = base.refs[f])
      BY <1>1, <1>2
    <2> QED BY <1>2, <1>4, <1>6, <2>1, <2>2, CarriesPast
  <1>10. Past(g, D, C, I, A, s, s)
    <2>1. ASSUME NEW f \in A
          PROVE  Listed(g, s, f) \/ (Match(g, I, s.refs[f], C[f]) /\ Clean(D, s.refs[f]))
      <3>1. Listed(g, base, f) \/ (Match(g, I, base.refs[f], C[f]) /\ Clean(D, base.refs[f]))
        BY <2>1 DEF View, Past
      <3> QED BY <1>1, <1>2, <1>7, <2>1, <3>1
    <2> QED BY <1>3, <2>1, TablesFromSelf DEF Past
  <1>11. View(g, D, C, I, P, s, base, M \cup {s})
    BY <1>2, <1>8, <1>9, <1>10 DEF View
  <1> QED BY <1>1, <1>2, <1>11

\* s has the names N more than b, and the extent x.
Adds(b, s, N, x) ==
    /\ s.tables = b.tables
    /\ \A f \in Fids : f \notin N => s.refs[f] = b.refs[f]
    /\ \A y \in s.exts : y \in b.exts \/ y = x

\* New names, in free space.
LEMMA AddsExtends ==
    ASSUME NEW C, NEW b, NEW s, NEW N, NEW x, Adds(b, s, N, x), \A f \in N : C[f] = NoRef,
           ExtsOK(b), \A y \in b.exts : ~Overlaps(y.iv, x.iv)
    PROVE  Extends(C, b, s)
  <1>1. ExtsOK(s)
    BY DEF Adds, ExtsOK, Overlaps
  <1> QED BY <1>1 DEF Adds, Extends

\* One plain entry behind n.
LEMMA PlainAdds ==
    ASSUME NEW ix, Sound(ix), NEW n \in Nat, End(ix) = n + 1, ~Mid(At(ix, n)), ix[n + 1].kind = "plain"
    PROVE  /\ Adds(At(ix, n), Final(ix), {ix[n + 1].fid}, ExtentFor(Disk, ix[n + 1]))
           /\ Final(ix).refs[ix[n + 1].fid] = Own(ix[n + 1].fid, ix[n + 1].size)
  <1> DEFINE e == ix[n + 1]
             b == At(ix, n)
             s == At(ix, n + 1)
  <1>1. AfterPlain(Disk, b, e, s) /\ e.fid \in Fids
    BY Behind
  <1>2. s = Final(ix)
    BY DEF Final
  <1> HIDE DEF e, b, s
  <1>3. /\ s.refs = [f \in Fids |-> IF f = e.fid THEN Own(e.fid, e.size) ELSE b.refs[f]]
        /\ s.exts = {x \in b.exts : x.fid # e.fid} \cup {ExtentFor(Disk, e)} /\ s.tables = b.tables
    BY <1>1 DEF AfterPlain
  <1>4. Adds(b, s, {e.fid}, ExtentFor(Disk, e)) /\ s.refs[e.fid] = Own(e.fid, e.size)
    BY <1>1, <1>3 DEF Adds
  <1> QED BY <1>2, <1>4 DEF e, b

\* The entries of a Put behind n.
LEMMA PutAdds ==
    ASSUME NEW p \in Puts, NEW ix, Sound(ix), NEW n \in Nat, End(ix) = n + Len(PutEntries(p)),
           ~Mid(At(ix, n)), \A i \in 1 .. Len(PutEntries(p)) : ix[n + i] = PutEntries(p)[i]
    PROVE  /\ Adds(At(ix, n), Final(ix), Names(Header[p]), [fid |-> Header[p].fid, iv |-> PutExtent(p)])
           /\ \A f \in Names(Header[p]) :
                Final(ix).refs[f] = IF f = Header[p].fid THEN Own(Header[p].fid, Header[p].size)
                                    ELSE AliasOf(Header[p].fid, Header[p].size)
  <1> DEFINE h == Header[p]
             b == At(ix, n)
             s == Final(ix)
  <1>0. /\ h.fid \in Fids /\ h.alias \in Nat /\ h.size \in Nat /\ (h.alias # NoAlias => h.alias \in Fids)
        /\ (h.alias # NoAlias => h.alias # h.fid)
    BY HeaderFacts, TrimAssumption
  <1>x. ExtentFor(Disk, Plain(h.fid, h.size)) = [fid |-> h.fid, iv |-> PutExtent(p)]
        /\ Plain(h.fid, h.size).fid = h.fid /\ Plain(h.fid, h.size).size = h.size
        /\ Plain(h.fid, h.size).kind = "plain" /\ Jump(h.alias).fid = h.alias
        /\ Jump(h.alias).kind = "jump"
    BY DEF ExtentFor, Plain, Jump, Entry, PutExtent, ExtentOf
  <1>1. CASE h.alias = NoAlias
    <2>1. PutEntries(p) = <<Plain(h.fid, h.size)>> /\ Names(h) = {h.fid}
      BY <1>1 DEF PutEntries, Names
    <2>2. End(ix) = n + 1 /\ ix[n + 1] = Plain(h.fid, h.size)
      BY <2>1
    <2>3. /\ Adds(b, s, {h.fid}, ExtentFor(Disk, ix[n + 1]))
          /\ s.refs[h.fid] = Own(h.fid, h.size)
      <3>1. ix[n + 1].kind = "plain" /\ ix[n + 1].fid = h.fid /\ ix[n + 1].size = h.size
        BY <1>x, <2>2
      <3> HIDE DEF h
      <3> QED BY <2>2, <3>1, PlainAdds
    <2> HIDE DEF b, s, h
    <2> QED BY <1>x, <2>1, <2>2, <2>3 DEF b, s, h
  <1>2. CASE h.alias # NoAlias
    <2>1. PutEntries(p) = <<Jump(h.alias), Plain(h.fid, h.size)>> /\ Names(h) = {h.fid, h.alias}
      BY <1>2 DEF PutEntries, Names
    <2>2. End(ix) = n + 2 /\ ix[n + 1] = Jump(h.alias) /\ ix[n + 2] = Plain(h.fid, h.size)
      BY <2>1
    <2>3. n + 1 < End(ix) /\ IsHead(ix[n + 1])
      BY <1>x, <2>2 DEF IsHead
    <2>4. AfterJump(Disk, b, ix[n + 1], ix[n + 2], At(ix, n + 2))
      BY <1>x, <2>2, <2>3, PairBehind
    <2>5. At(ix, n + 2) = s
      BY <2>2 DEF Final
    <2>6. AfterJump(Disk, b, Jump(h.alias), Plain(h.fid, h.size), s)
      BY <2>2, <2>4, <2>5
    <2> HIDE DEF b, s, h
    <2>7. /\ s.refs = [f \in Fids |-> IF f = h.alias THEN AliasOf(h.fid, h.size)
                                ELSE IF f = h.fid THEN Own(h.fid, h.size) ELSE b.refs[f]]
          /\ s.exts = {x \in b.exts : x.fid # h.fid} \cup {[fid |-> h.fid, iv |-> PutExtent(p)]}
          /\ s.tables = b.tables
      BY <1>x, <2>6 DEF AfterJump
    <2>8. Adds(b, s, Names(h), [fid |-> h.fid, iv |-> PutExtent(p)])
      BY <2>1, <2>7 DEF Adds
    <2>9. s.refs[h.fid] = Own(h.fid, h.size) /\ s.refs[h.alias] = AliasOf(h.fid, h.size)
      BY <1>0, <1>2, <2>7
    <2> QED BY <1>0, <1>2, <2>1, <2>8, <2>9 DEF b, s, h
  <1> QED BY <1>1, <1>2

-----------------------------------------------------------------------------
(* The invariant.                                                          *)

\* What a boot would scan, but for half an anchor at the end.
Now == IF tpc = "anchorSecond" THEN At(idx, indexEnd) ELSE IF up THEN Final(idx) ELSE Settled(idx)

\* The part of it that memory knows of.
Base == IF up /\ tpc # "copy" THEN At(idx, indexEnd) ELSE Now

\* The scans of the contents the medium may have, but for half an anchor at the
\* end.
Finals == {Settled(ix) : ix \in media[0]}

\* What memory has, or would have after a boot.
ViewRefs == IF up THEN confirmed ELSE Finish(Disk, grid, Now).refs

\* The extents that go with them.
ViewExts == IF up THEN intervals ELSE ExtsOf(Now)

\* Memory, the index and the medium serve the acknowledged Puts.
ViewInv == View(grid, dirty, ViewRefs, ViewExts, Acked, Now, Base, Finals)

\* The Puts that have an extent reserved.
Holders == {p \in Puts : pc[p] \in {"stream", "commit", "sync", "abort"}}

\* No two extents overlap, each holder has one of its own, what was streamed
\* into it is there, and its names are not taken behind its back.
SpaceInv ==
    /\ ~up => pendingIntervals = {}
    /\ Apart(Extents) /\ intervals \cap pendingIntervals = {}
    /\ \A iv \in pendingIntervals : Proper(iv)
    /\ \A p \in Holders : PutExtent(p) \in pendingIntervals
    /\ \A p, q \in Holders : p # q => PutExtent(p) # PutExtent(q)
    /\ \A p \in Puts : pc[p] \in {"commit", "sync"} =>
         Deliver(Disk, grid, Own(Header[p].fid, Header[p].size)) = Data(p)
    /\ \A p \in Puts : pc[p] = "sync" => \A f \in Names(Header[p]) : confirmed[f] = NoRef

\* Offset, for any references.
OffsetIn(C, c, k) ==
    LET o[i \in 1 .. k] == IF i = 1 THEN 0 ELSE o[i - 1] + C[c[i - 1]].size
    IN  o[k]

\* The whole container of job j.
OwnContainer(j) == Own(j.container, j.containerSize)

\* The whole table of job j.
OwnTable(j) == Own(j.table, j.tableSize)

\* The reference to the k-th candidate of job j in its container.
PartRef(C, j, k) ==
    [fid |-> j.container, storedSize |-> j.containerSize, size |-> C[j.cand[k]].size,
     offset |-> OffsetIn(C, j.cand, k), packed |-> TRUE]

\* The table Trim writes for job j.
TableOf(C, j) ==
    Table(j.container, j.containerSize,
          [k \in DOMAIN j.cand |-> [fid |-> j.cand[k], offset |-> OffsetIn(C, j.cand, k),
                                    size |-> C[j.cand[k]].size]])

\* No candidate is the container of a table.
Away(g, base, j) ==
    \A t \in Fids : InTables(base, t) =>
        \A k \in DOMAIN j.cand : TableAt(g, base, t).container # j.cand[k]

\* The container has the bytes of the candidates.
Packed(g, C, j) ==
    \A k \in DOMAIN j.cand :
        /\ j.cand[k] # j.container
        /\ Deliver(Disk, g, PartRef(C, j, k)) = Deliver(Disk, g, C[j.cand[k]])

\* The container is confirmed, in the index and synced.
ContainerIn(D, C, base, j) ==
    /\ base.refs[j.container] = OwnContainer(j) /\ C[j.container] = OwnContainer(j)
    /\ Clean(D, OwnContainer(j))

\* The table is where its reference points.
TableIn(g, C, j) == Deliver(Disk, g, OwnTable(j)) = TableOf(C, j)

\* The table is synced and its reference in the index.
TableSafe(D, base, j) == Clean(D, OwnTable(j)) /\ base.refs[j.table] = OwnTable(j)

\* Every candidate is served by a table, whichever content the medium has.
CandsListed(g, base, M, j) ==
    \A k \in DOMAIN j.cand :
        Listed(g, base, j.cand[k]) /\ \A m \in M : Listed(g, m, j.cand[k])

\* No extent of X overlaps iv.
FreeIn(X, iv) == \A e \in X : ~Overlaps(e, iv)

\* What Trim has done when it is at l with job j.
Work(l, g, D, C, X, j, base, M) ==
    /\ l \notin {"idle", "copy"} => Away(g, base, j)
    /\ l \in {"containerSync", "table", "tableSync", "anchor", "anchorSecond", "anchorSync"} =>
         Packed(g, C, j)
    /\ l = "containerSync" => FreeIn(X, RefExtent(OwnContainer(j)))
    /\ l \in {"table", "tableSync", "anchor", "anchorSecond", "anchorSync"} => ContainerIn(D, C, base, j)
    /\ l = "tableSync" => FreeIn(X, RefExtent(OwnTable(j)))
    /\ l \in {"tableSync", "anchor", "anchorSecond", "anchorSync"} => TableIn(g, C, j)
    /\ l \in {"anchor", "anchorSecond", "anchorSync"} => TableSafe(D, base, j)
    /\ l = "load" => InTables(base, j.table)
    /\ l \in {"load", "tombs"} => CandsListed(g, base, M, j)
    /\ l = "copy" => Final(j.target) = base

\* Trim has done what its program counter says.
WorkInv == Work(tpc, grid, dirty, confirmed, Extents, job, Base, Finals)

\* The inductive invariant, on top of TypeInv and LogInv.
DataInv == ~indexErr /\ ViewInv /\ SpaceInv /\ WorkInv

\* The scans behind Now and Base.
LEMMA NowRegular ==
    ASSUME TypeInv, LogInv, ~indexErr
    PROVE  Regular(Now) /\ Regular(Base)
  <1>1. /\ Sound(idx) /\ (up /\ tpc # "anchorSecond" => Whole(idx)) /\ (Whole(idx) \/ Half(idx)) /\ RamInv
    BY DEF LogInv
  <1>2. up /\ tpc # "copy" => Regular(At(idx, indexEnd))
    <2> SUFFICES ASSUME up, tpc # "copy" PROVE Regular(At(idx, indexEnd))
      OBVIOUS
    <2>1. indexEnd <= End(idx) /\ ~Mid(At(idx, indexEnd)) /\ indexEnd \in Nat
      BY <1>1, IndexAssumption DEF RamInv, TypeInv, MemTypes
    <2> QED BY <1>1, <2>1, RegularAt
  <1>3. tpc = "anchorSecond" => up
    BY DEF TypeInv, JobInv
  <1>4. up /\ tpc # "anchorSecond" => Regular(Final(idx))
    BY <1>1, FinalRegular
  <1>5. Regular(Settled(idx))
    BY <1>1, SettledRegular
  <1> QED BY <1>2, <1>3, <1>4, <1>5 DEF Now, Base

-----------------------------------------------------------------------------
(* Steps that leave the index and memory alone.                            *)

\* The scans stay.
LEMMA SameScans ==
    ASSUME UNCHANGED <<idx, media, indexEnd, up>>,
           tpc' = tpc \/ {tpc, tpc'} \cap {"anchorSecond", "copy"} = {}
    PROVE  Now' = Now /\ Base' = Base /\ Finals' = Finals
  <1>1. Now' = Now
    BY DEF Now
  <1>2. Base' = Base
    BY <1>1 DEF Base
  <1>3. Finals' = Finals
    BY DEF Finals
  <1> QED BY <1>1, <1>2, <1>3

\* The view stays.
LEMMA SameView ==
    ASSUME ViewInv, UNCHANGED <<idx, media, indexEnd, up, grid, dirty, confirmed, intervals>>, Acked' = Acked,
           tpc' = tpc \/ {tpc, tpc'} \cap {"anchorSecond", "copy"} = {}
    PROVE  ViewInv'
  <1>1. Now' = Now /\ Base' = Base /\ Finals' = Finals
    BY SameScans
  <1>2. ViewRefs' = ViewRefs /\ ViewExts' = ViewExts
    BY <1>1 DEF ViewRefs, ViewExts
  <1> QED BY <1>1, <1>2 DEF ViewInv

\* Nothing is in progress when Trim is idle.
LEMMA WorkIdle ==
    ASSUME NEW g, NEW D, NEW C, NEW X, NEW j, NEW base, NEW M
    PROVE  Work("idle", g, D, C, X, j, base, M)
  BY DEF Work

\* The Puts that are acknowledged.
LEMMA SameAcked ==
    ASSUME pc \in [Puts -> PutPCs], NEW p \in Puts, NEW l, pc' = [pc EXCEPT ![p] = l]
    PROVE  /\ l # "acked" /\ pc[p] # "acked" => Acked' = Acked
           /\ l = "acked" => Acked' = Acked \cup {p}
           /\ \A q \in Puts : pc'[q] = IF q = p THEN l ELSE pc[q]
  BY DEF Acked

\* The extents of memory.
LEMMA ExtentsProper ==
    ASSUME up, ViewInv, SpaceInv
    PROVE  \A e \in Extents : Proper(e)
  <1>1. Memory(confirmed, intervals)
    BY DEF ViewInv, View, ViewRefs, ViewExts
  <1> QED BY <1>1 DEF Memory, SpaceInv, Extents

\* A proper extent is in its own way.
LEMMA FreeIsNew ==
    ASSUME NEW X, NEW iv, Proper(iv), FreeIn(X, iv)
    PROVE  iv \notin X
  BY DEF Proper, Intervals, FreeIn, Overlaps

\* The extent of a Put.
LEMMA PutExtentFacts ==
    ASSUME NEW p \in Puts, AddrOK(Disk, Header[p].fid, Header[p].size)
    PROVE  /\ Proper(PutExtent(p))
           /\ RefExtent(Own(Header[p].fid, Header[p].size)) = PutExtent(p)
           /\ SlotsOf(Disk, Header[p]) = SlotsIn(PutExtent(p)) /\ Header[p].size # 0
  <1>1. Header[p].fid \in Nat /\ Header[p].size \in Nat
    BY HeaderFacts
  <1>2. PutExtent(p) = Extent(Disk, Header[p].fid, Header[p].size)
    BY DEF PutExtent, ExtentOf
  <1> QED BY <1>1, <1>2, PlacedProper, OwnRefs DEF SlotsOf, SlotsIn, PutExtent

\* A Put reserves its extent.
LEMMA PutPrepareData ==
    ASSUME TypeInv, DataInv, NEW p \in Puts, PutPrepare(p)
    PROVE  DataInv'
  <1> DEFINE x == PutExtent(p)
  <1>p. /\ up /\ pc[p] = "idle" /\ MuFree /\ AddrOK(Disk, Header[p].fid, Header[p].size) /\ Free(x)
        /\ pendingIntervals' = pendingIntervals \cup {x} /\ pc' = [pc EXCEPT ![p] = "stream"]
        /\ UNCHANGED <<confirmed, intervals, indexEnd, indexErr, idx, media, grid, dirty, tpc, job, up>>
    BY Zenon DEF PutPrepare, Goto, idxVars, gridVars
  <1>t. pc \in [Puts -> PutPCs]
    BY DEF TypeInv, PutInv
  <1>0. ~indexErr /\ ViewInv /\ SpaceInv /\ tpc = "idle"
    BY <1>p DEF DataInv, MuFree
  <1>1. Acked' = Acked /\ \A q \in Puts : pc'[q] = IF q = p THEN "stream" ELSE pc[q]
    BY <1>p, <1>t, SameAcked
  <1>2. ViewInv'
    BY <1>p, <1>0, <1>1, SameView
  <1>3. Proper(x) /\ x \notin Extents /\ FreeIn(Extents, x)
    BY <1>p, PutExtentFacts, FreeIsNew DEF Free, FreeIn
  <1>4. SpaceInv'
    <2> HIDE DEF x
    <2>1. Extents' = Extents \cup {x}
      BY <1>p DEF Extents
    <2>2. Apart(Extents')
      BY <1>0, <1>3, <2>1 DEF SpaceInv, Apart, FreeIn, Overlaps
    <2>3. intervals' \cap pendingIntervals' = {}
      BY <1>p, <1>0, <1>3 DEF SpaceInv, Extents
    <2>4. \A iv \in pendingIntervals' : Proper(iv)
      BY <1>p, <1>0, <1>3 DEF SpaceInv
    <2>5. Holders' = Holders \cup {p} /\ p \notin Holders
      BY <1>p, <1>1 DEF Holders
    <2>6. \A q \in Holders : PutExtent(q) \in pendingIntervals /\ PutExtent(q) # x
      BY <1>0, <1>3 DEF SpaceInv, Extents
    <2>7. x = PutExtent(p)
      BY DEF x
    <2>8. \A q \in Holders' : PutExtent(q) \in pendingIntervals'
      BY <1>p, <2>5, <2>6, <2>7
    <2>9. \A q, r \in Holders' : q # r => PutExtent(q) # PutExtent(r)
      BY <1>0, <2>5, <2>6, <2>7 DEF SpaceInv
    <2>10. \A q \in Puts : pc'[q] \in {"commit", "sync"} =>
             Deliver(Disk, grid', Own(Header[q].fid, Header[q].size)) = Data(q)
      BY <1>p, <1>0, <1>1 DEF SpaceInv
    <2>11. up' /\ \A q \in Puts : pc'[q] = "sync" => \A f \in Names(Header[q]) : confirmed'[f] = NoRef
      BY <1>p, <1>0, <1>1 DEF SpaceInv
    <2> QED BY <2>2, <2>3, <2>4, <2>8, <2>9, <2>10, <2>11 DEF SpaceInv
  <1>5. WorkInv'
    BY <1>p, <1>0, WorkIdle DEF WorkInv
  <1> QED BY <1>p, <1>0, <1>2, <1>4, <1>5 DEF DataInv

\* A Put gives its extent back.
LEMMA PutAbortData ==
    ASSUME TypeInv, DataInv, NEW p \in Puts, PutAbort(p)
    PROVE  DataInv'
  <1> DEFINE x == PutExtent(p)
  <1>p. /\ up /\ pc[p] \in {"stream", "commit", "abort"} /\ MuFree
        /\ pendingIntervals' = pendingIntervals \ {x} /\ pc' = [pc EXCEPT ![p] = "failed"]
        /\ UNCHANGED <<confirmed, intervals, indexEnd, indexErr, idx, media, grid, dirty, tpc, job, up>>
    BY Zenon DEF PutAbort, Goto, idxVars, gridVars
  <1>t. pc \in [Puts -> PutPCs]
    BY DEF TypeInv, PutInv
  <1>0. ~indexErr /\ ViewInv /\ SpaceInv /\ tpc = "idle"
    BY <1>p DEF DataInv, MuFree
  <1>1. Acked' = Acked /\ \A q \in Puts : pc'[q] = IF q = p THEN "failed" ELSE pc[q]
    <2>1. pc[p] # "acked"
      BY <1>p
    <2> QED BY <1>p, <1>t, <2>1, SameAcked
  <1>2. ViewInv'
    BY <1>p, <1>0, <1>1, SameView
  <1>4. SpaceInv'
    <2> HIDE DEF x
    <2>2. Apart(Extents')
      BY <1>p, <1>0 DEF SpaceInv, Apart, Extents
    <2>3. intervals' \cap pendingIntervals' = {}
      BY <1>p, <1>0 DEF SpaceInv
    <2>4. \A iv \in pendingIntervals' : Proper(iv)
      BY <1>p, <1>0 DEF SpaceInv
    <2>5. Holders' = Holders \ {p} /\ p \in Holders
      BY <1>p, <1>1 DEF Holders
    <2>7. x = PutExtent(p)
      BY DEF x
    <2>6. \A q \in Holders' : PutExtent(q) \in pendingIntervals' /\ q \in Holders
      BY <1>p, <1>0, <2>5, <2>7 DEF SpaceInv
    <2>9. \A q, r \in Holders' : q # r => PutExtent(q) # PutExtent(r)
      BY <1>0, <2>6 DEF SpaceInv
    <2>10. \A q \in Puts : pc'[q] \in {"commit", "sync"} =>
             Deliver(Disk, grid', Own(Header[q].fid, Header[q].size)) = Data(q)
      BY <1>p, <1>0, <1>1 DEF SpaceInv
    <2>11. up' /\ \A q \in Puts : pc'[q] = "sync" => \A f \in Names(Header[q]) : confirmed'[f] = NoRef
      BY <1>p, <1>0, <1>1 DEF SpaceInv
    <2> QED BY <2>2, <2>3, <2>4, <2>6, <2>9, <2>10, <2>11 DEF SpaceInv
  <1>5. WorkInv'
    BY <1>p, <1>0, WorkIdle DEF WorkInv
  <1> QED BY <1>p, <1>0, <1>2, <1>4, <1>5 DEF DataInv

\* Reads, and steps that change nothing.
LEMMA ReadData ==
    ASSUME DataInv, UNCHANGED <<memVars, idxVars, gridVars, pc, tpc, job, up>>
    PROVE  DataInv'
  <1>p. UNCHANGED <<confirmed, intervals, pendingIntervals, indexEnd, indexErr, idx, media, grid, dirty,
                    pc, tpc, job, up>>
    BY Zenon DEF memVars, idxVars, gridVars
  <1>1. Acked' = Acked /\ Holders' = Holders /\ Extents' = Extents
    BY <1>p DEF Acked, Holders, Extents
  <1>2. ViewInv'
    BY <1>p, <1>1, SameView DEF DataInv
  <1>3. SpaceInv'
    BY <1>p, <1>1 DEF DataInv, SpaceInv
  <1>4. WorkInv'
    <2>1. Base' = Base /\ Finals' = Finals
      BY <1>p, SameScans
    <2> QED BY <1>p, <1>1, <2>1 DEF DataInv, WorkInv
  <1> QED BY <1>p, <1>2, <1>3, <1>4 DEF DataInv

-----------------------------------------------------------------------------
(* Streaming.                                                              *)

\* References that a write keeps away from.
Untouched(I, X, ref) == RefExtent(ref) \in I \/ (Proper(RefExtent(ref)) /\ FreeIn(X, RefExtent(ref)))

\* Tables that are served go on listing their names.
LEMMA StillListed ==
    ASSUME NEW g, NEW D, NEW C, NEW I, NEW h, NEW E, NEW B, NEW J, Carries(g, D, C, I, h, E, B, J),
           NEW s, TablesOK(g, D, C, I, s), NEW f, Listed(g, s, f)
    PROVE  Listed(h, s, f)
  <1>1. \A t \in Fids : InTables(s, t) => InTables(s, t) /\ s.refs[t] = s.refs[t]
    OBVIOUS
  <1> QED BY <1>1, CarriesListed

\* What Trim has done stays when somebody writes to an extent of X that is not
\* one of I.
LEMMA WorkCarries ==
    ASSUME NEW g, NEW D, NEW C, NEW I, NEW h, NEW E, Carries(g, D, C, I, h, E, C, I), Memory(C, I),
           NEW l, NEW X, NEW j, NEW base, NEW M, NEW now, Work(l, g, D, C, X, j, base, M),
           TablesOK(g, D, C, I, now), TablesOK(g, D, C, I, base), \A m \in M : TablesFrom(g, m, now),
           \A ref : Untouched(I, X, ref) => Deliver(Disk, h, ref) = Deliver(Disk, g, ref),
           l \notin {"idle", "copy"} => \A k \in DOMAIN j.cand : j.cand[k] \in Fids /\ C[j.cand[k]] # NoRef,
           l \notin {"idle", "container"} => Placed(j.container, j.containerSize),
           l \in {"tableSync", "anchor", "anchorSecond", "anchorSync"} => Placed(j.table, j.tableSize),
           l \in {"anchor", "anchorSecond", "anchorSync"} => C[j.table] = OwnTable(j)
    PROVE  Work(l, h, E, C, X, j, base, M)
  <1> DEFINE L1 == {"containerSync", "table", "tableSync", "anchor", "anchorSecond", "anchorSync"}
             L2 == {"table", "tableSync", "anchor", "anchorSecond", "anchorSync"}
             L3 == {"tableSync", "anchor", "anchorSecond", "anchorSync"}
             L4 == {"anchor", "anchorSecond", "anchorSync"}
  <1>0. \A f \in Fids, s \in Nat : Own(f, s) # NoRef /\ RefExtent(Own(f, s)) = Extent(Disk, f, s)
    BY OwnRefs, IndexAssumption
  <1>t. /\ l \in L1 => j.container \in Fids /\ j.containerSize \in Nat /\ Proper(RefExtent(OwnContainer(j)))
        /\ l \in L3 => j.table \in Fids /\ j.tableSize \in Nat /\ Proper(RefExtent(OwnTable(j)))
    BY <1>0, PlacedProper, IndexAssumption DEF Placed, OwnContainer, OwnTable
  <1>1. TablesFrom(g, base, base) /\ TablesFrom(g, now, now)
    BY TablesFromSelf
  <1>2. \A t \in Fids : InTables(base, t) => TableAt(h, base, t) = TableAt(g, base, t)
    BY <1>1, CarriesTables
  <1>3. l \notin {"idle", "copy"} => Away(h, base, j)
    BY <1>2 DEF Work, Away
  <1>4. /\ l \in L1 => RefExtent(OwnContainer(j)) \in I \/ FreeIn(X, RefExtent(OwnContainer(j)))
        /\ l \in L2 => RefExtent(OwnContainer(j)) \in I
    <2>1. ASSUME l \in L2 PROVE RefExtent(OwnContainer(j)) \in I
      <3>1. C[j.container] = OwnContainer(j)
        BY <2>1, Zenon DEF Work, ContainerIn
      <3> QED BY <1>0, <1>t, <2>1, <3>1 DEF Memory, OwnContainer
    <2>2. l = "containerSync" => FreeIn(X, RefExtent(OwnContainer(j)))
      BY DEF Work
    <2> QED BY <2>1, <2>2
  <1>5. /\ l \in L3 => RefExtent(OwnTable(j)) \in I \/ FreeIn(X, RefExtent(OwnTable(j)))
        /\ l \in L4 => RefExtent(OwnTable(j)) \in I
    <2>1. ASSUME l \in L4 PROVE RefExtent(OwnTable(j)) \in I
      BY <1>0, <1>t, <2>1 DEF Memory, OwnTable
    <2>2. l = "tableSync" => FreeIn(X, RefExtent(OwnTable(j)))
      BY DEF Work
    <2> QED BY <2>1, <2>2
  <1>6. l \in L1 => Packed(h, C, j)
    <2> SUFFICES ASSUME l \in L1, NEW k \in DOMAIN j.cand
                 PROVE  /\ j.cand[k] # j.container
                        /\ Deliver(Disk, h, PartRef(C, j, k)) = Deliver(Disk, h, C[j.cand[k]])
      BY DEF Packed
    <2>1. Packed(g, C, j)
      BY DEF Work
    <2>2. /\ j.cand[k] # j.container
          /\ Deliver(Disk, g, PartRef(C, j, k)) = Deliver(Disk, g, C[j.cand[k]])
      BY <2>1 DEF Packed
    <2>3. RefExtent(PartRef(C, j, k)) = RefExtent(OwnContainer(j))
      <3>1. PartRef(C, j, k).fid = j.container /\ PartRef(C, j, k).storedSize = j.containerSize
        BY DEF PartRef
      <3> QED BY <1>0, <1>t, <3>1 DEF RefExtent, OwnContainer
    <2>4. Untouched(I, X, PartRef(C, j, k))
      BY <1>4, <1>t, <2>3 DEF Untouched
    <2>5. Untouched(I, X, C[j.cand[k]])
      BY DEF Untouched, Memory
    <2> QED BY <2>2, <2>4, <2>5
  <1>7. l \in L2 => ContainerIn(E, C, base, j)
    BY <1>4 DEF Work, ContainerIn, Carries, Clean
  <1>8. l \in L3 => TableIn(h, C, j)
    <2> SUFFICES ASSUME l \in L3 PROVE TableIn(h, C, j)
      OBVIOUS
    <2>1. TableIn(g, C, j)
      BY DEF Work
    <2>2. Untouched(I, X, OwnTable(j))
      BY <1>5, <1>t DEF Untouched
    <2> QED BY <2>1, <2>2 DEF TableIn
  <1>9. l \in L4 => TableSafe(E, base, j)
    BY <1>5 DEF Work, TableSafe, Carries, Clean
  <1>10. l \in {"load", "tombs"} => CandsListed(h, base, M, j)
    <2> SUFFICES ASSUME l \in {"load", "tombs"}, NEW k \in DOMAIN j.cand
                 PROVE  Listed(h, base, j.cand[k]) /\ \A m \in M : Listed(h, m, j.cand[k])
      BY Zenon DEF CandsListed
    <2>1. Listed(g, base, j.cand[k]) /\ \A m \in M : Listed(g, m, j.cand[k])
      BY DEF Work, CandsListed
    <2>2. Listed(h, base, j.cand[k])
      <3>1. Listed(g, base, j.cand[k])
        BY <2>1
      <3> QED BY <3>1, StillListed
    <2>3. ASSUME NEW m \in M PROVE Listed(h, m, j.cand[k])
      <3>1. Carries(g, D, C, I, g, D, C, I)
        BY DEF Carries
      <3>2. TablesOK(g, D, C, I, m)
        BY <3>1, CarriesTables
      <3>3. Listed(g, m, j.cand[k])
        BY <2>1
      <3> QED BY <3>2, <3>3, StillListed
    <2> QED BY <2>2, <2>3
  <1>11. /\ l = "containerSync" => FreeIn(X, RefExtent(OwnContainer(j)))
         /\ l = "tableSync" => FreeIn(X, RefExtent(OwnTable(j)))
         /\ l = "load" => InTables(base, j.table)
         /\ l = "copy" => Final(j.target) = base
    BY Zenon DEF Work
  <1> QED BY <1>3, <1>6, <1>7, <1>8, <1>9, <1>10, <1>11, Zenon DEF Work

\* A write to an extent.
LEMMA FilledFacts ==
    ASSUME GridTypes, NEW x, Proper(x), NEW v
    PROVE  /\ \A s \in SlotsIn(x) : Filled(x, v)[s] = v
           /\ \A iv : Proper(iv) /\ ~Overlaps(x, iv) => \A s \in SlotsIn(iv) : Filled(x, v)[s] = grid[s]
           /\ \A ref : Proper(RefExtent(ref)) /\ ~Overlaps(x, RefExtent(ref)) =>
                Deliver(Disk, Filled(x, v), ref) = Deliver(Disk, grid, ref)
  <1>1. DOMAIN grid = GridSlots(Disk)
    BY DEF GridTypes
  <1>2. \A s \in GridSlots(Disk) : Filled(x, v)[s] = IF s \in SlotsIn(x) THEN v ELSE grid[s]
    BY <1>1 DEF Filled, SlotsIn
  <1>3. \A s \in SlotsIn(x) : Filled(x, v)[s] = v
    BY <1>2 DEF Proper
  <1>4. ASSUME NEW iv, Proper(iv), ~Overlaps(x, iv), NEW s \in SlotsIn(iv) PROVE Filled(x, v)[s] = grid[s]
    <2>1. SlotsIn(x) \cap SlotsIn(iv) = {}
      BY <1>4, ApartSlots
    <2> QED BY <1>2, <1>4, <2>1 DEF Proper
  <1>5. ASSUME NEW ref, Proper(RefExtent(ref)), ~Overlaps(x, RefExtent(ref))
        PROVE  Deliver(Disk, Filled(x, v), ref) = Deliver(Disk, grid, ref)
    BY <1>4, <1>5, DeliverSame
  <1> QED BY <1>3, <1>4, <1>5

\* The candidates are served.
LEMMA CandidatesServed ==
    ASSUME TypeInv, LogInv, tpc \notin {"idle", "copy"}
    PROVE  \A k \in DOMAIN job.cand : job.cand[k] \in Fids /\ confirmed[job.cand[k]] # NoRef
  <1>1. RetireInv /\ \A k \in DOMAIN job.cand : job.cand[k] \in Fids
    BY TrimTail
  <1> QED BY <1>1 DEF RetireInv

\* The payload of a Put, written without a lock.
LEMMA PutStreamData ==
    ASSUME TypeInv, LogInv, DataInv, NEW p \in Puts, PutStream(p)
    PROVE  DataInv'
  <1> DEFINE x == PutExtent(p)
             h == Filled(x, Data(p))
             E == dirty \cup SlotsIn(x)
             C == confirmed
             I == intervals
  <1>p. /\ up /\ pc[p] = "stream" /\ grid' = h /\ dirty' = dirty \cup SlotsOf(Disk, Header[p])
        /\ pc' = [pc EXCEPT ![p] = "commit"]
        /\ UNCHANGED <<confirmed, intervals, pendingIntervals, indexEnd, indexErr, idx, media, tpc, job, up>>
    BY Zenon DEF PutStream, Goto, memVars, idxVars
  <1>t. pc \in [Puts -> PutPCs] /\ AddrOK(Disk, Header[p].fid, Header[p].size) /\ GridTypes /\ JobInv
    BY <1>p DEF TypeInv, PutInv
  <1>0. ~indexErr /\ ViewInv /\ SpaceInv /\ WorkInv
    BY DEF DataInv
  <1>1. Acked' = Acked /\ \A q \in Puts : pc'[q] = IF q = p THEN "commit" ELSE pc[q]
    BY <1>p, <1>t, SameAcked
  <1>2. /\ Proper(x) /\ RefExtent(Own(Header[p].fid, Header[p].size)) = x /\ dirty' = E
    BY <1>p, <1>t, PutExtentFacts
  <1>3. x \in pendingIntervals /\ x \in Extents /\ x \notin I /\ p \in Holders
    BY <1>p, <1>0 DEF SpaceInv, Holders, Extents
  <1>4. Now' = Now /\ Base' = Base /\ Finals' = Finals
    BY <1>p, SameScans
  <1>5. ViewRefs = C /\ ViewExts = I /\ ViewRefs' = C /\ ViewExts' = I
    BY <1>p DEF ViewRefs, ViewExts
  <1>6. View(grid, dirty, C, I, Acked, Now, Base, Finals)
    BY <1>0, <1>5 DEF ViewInv
  <1>7. Memory(C, I)
    BY <1>6 DEF View
  <1>f. /\ \A s \in SlotsIn(x) : h[s] = Data(p)
        /\ \A iv : Proper(iv) /\ ~Overlaps(x, iv) => \A s \in SlotsIn(iv) : h[s] = grid[s]
        /\ \A ref : Proper(RefExtent(ref)) /\ ~Overlaps(x, RefExtent(ref)) =>
             Deliver(Disk, h, ref) = Deliver(Disk, grid, ref)
    BY <1>t, <1>2, FilledFacts
  <1> HIDE DEF x, h, C, I
  <1>8. \A e \in Extents : Proper(e) /\ (e # x => ~Overlaps(x, e))
    <2>1. \A e \in Extents : Proper(e)
      BY <1>p, <1>0, ExtentsProper
    <2> QED BY <1>0, <1>3, <2>1 DEF SpaceInv, Apart
  <1>9. \A iv \in I : Proper(iv) /\ ~Overlaps(x, iv) /\ (Dry(dirty, iv) => Dry(E, iv))
    <2> SUFFICES ASSUME NEW iv \in I
                 PROVE  Proper(iv) /\ ~Overlaps(x, iv) /\ (Dry(dirty, iv) => Dry(E, iv))
      OBVIOUS
    <2>1. iv \in Extents /\ iv # x
      BY <1>3 DEF Extents, I
    <2>2. Proper(iv) /\ ~Overlaps(x, iv)
      BY <1>8, <2>1
    <2>3. SlotsIn(x) \cap SlotsIn(iv) = {}
      BY <1>2, <2>2, ApartSlots
    <2> QED BY <2>2, <2>3 DEF Dry
  <1>10. Carries(grid, dirty, C, I, h, E, C, I)
    <2>1. \A iv \in I : \A s \in SlotsIn(iv) : h[s] = grid[s]
      BY <1>f, <1>9
    <2> QED BY <1>7, <1>9, <2>1, CarriesWrite
  <1>11. ViewInv'
    <2>1. View(h, E, C, I, Acked, Now, Base, Finals)
      BY <1>6, <1>7, <1>10, ViewCarries
    <2> QED BY <1>p, <1>1, <1>2, <1>4, <1>5, <2>1 DEF ViewInv
  <1>12. \A ref : Untouched(I, Extents, ref) => Deliver(Disk, h, ref) = Deliver(Disk, grid, ref)
    <2> SUFFICES ASSUME NEW ref, Untouched(I, Extents, ref)
                 PROVE  Proper(RefExtent(ref)) /\ ~Overlaps(x, RefExtent(ref))
      BY <1>f
    <2> QED BY <1>3, <1>9 DEF Untouched, FreeIn
  <1>13. WorkInv'
    <2>1. Work(tpc, grid, dirty, C, Extents, job, Base, Finals)
      BY <1>0 DEF WorkInv, C
    <2>2. TablesOK(grid, dirty, C, I, Now) /\ TablesOK(grid, dirty, C, I, Base)
          /\ \A m \in Finals : TablesFrom(grid, m, Now)
      BY <1>6 DEF View, Current, Past
    <2>3. tpc \notin {"idle", "copy"} => \A k \in DOMAIN job.cand : job.cand[k] \in Fids /\ C[job.cand[k]] # NoRef
      BY CandidatesServed DEF C
    <2>4. /\ tpc \notin {"idle", "container"} => Placed(job.container, job.containerSize)
          /\ tpc \in {"tableSync", "anchor", "anchorSecond", "anchorSync"} => Placed(job.table, job.tableSize)
          /\ tpc \in {"anchor", "anchorSecond", "anchorSync"} => C[job.table] = OwnTable(job)
      BY <1>t DEF JobInv, C, OwnTable
    <2>5. Work(tpc, h, E, C, Extents, job, Base, Finals)
      BY <1>7, <1>10, <1>12, <2>1, <2>2, <2>3, <2>4, WorkCarries
    <2>6. Extents' = Extents /\ confirmed' = C
      BY <1>p DEF Extents, C
    <2> QED BY <1>p, <1>2, <1>4, <2>5, <2>6 DEF WorkInv
  <1>14. SpaceInv'
    <2>1. Extents' = Extents /\ Holders' = Holders /\ intervals' = intervals
          /\ pendingIntervals' = pendingIntervals /\ up'
      BY <1>p, <1>1 DEF Extents, Holders
    <2>2. ASSUME NEW q \in Puts, pc'[q] \in {"commit", "sync"}
          PROVE  Deliver(Disk, grid', Own(Header[q].fid, Header[q].size)) = Data(q)
      <3> DEFINE ref == Own(Header[q].fid, Header[q].size)
      <3>0. Header[q].fid \in Nat /\ Header[q].size \in Nat
        BY HeaderFacts
      <3>1. CASE q = p
        <4>1. RefExtent(ref) = x /\ ~ref.packed
          BY <1>2, <3>0, <3>1, OwnRefs
        <4> HIDE DEF ref
        <4>2. Deliver(Disk, h, ref) = Data(p)
          BY <1>2, <1>f, <4>1, DeliverFilled DEF Holds
        <4> QED BY <1>p, <3>1, <4>2 DEF ref
      <3>2. CASE q # p
        <4>1. pc[q] \in {"commit", "sync"} /\ q \in Holders
          BY <1>1, <2>2, <3>2 DEF Holders
        <4>2. Deliver(Disk, grid, ref) = Data(q) /\ PutExtent(q) \in pendingIntervals /\ PutExtent(q) # x
          BY <1>0, <1>3, <3>2, <4>1 DEF SpaceInv, x
        <4>3. AddrOK(Disk, Header[q].fid, Header[q].size)
          BY <4>1 DEF TypeInv, PutInv
        <4>4. RefExtent(ref) = PutExtent(q) /\ PutExtent(q) \in Extents
          BY <4>2, <4>3, PutExtentFacts DEF Extents
        <4> HIDE DEF ref
        <4>5. Deliver(Disk, h, ref) = Deliver(Disk, grid, ref)
          BY <1>f, <1>8, <4>2, <4>4
        <4> QED BY <1>p, <4>2, <4>5 DEF ref
      <3> QED BY <3>1, <3>2
    <2>3. \A q \in Puts : pc'[q] = "sync" => \A f \in Names(Header[q]) : confirmed'[f] = NoRef
      BY <1>p, <1>0, <1>1 DEF SpaceInv
    <2> QED BY <1>0, <2>1, <2>2, <2>3 DEF SpaceInv
  <1> QED BY <1>p, <1>0, <1>11, <1>13, <1>14 DEF DataInv

-----------------------------------------------------------------------------
(* Commits.                                                                *)

\* When nobody writes to the index, what lies behind RAM's end of it is
\* nothing, or an entry in doubt.
LEMMA TailExtends ==
    ASSUME TypeInv, LogInv, DataInv, up, tpc \in {"idle", "container"}, \A p \in Puts : pc[p] # "sync"
    PROVE  Extends(confirmed, Base, Now) /\ Now = Final(idx) /\ Base = At(idx, indexEnd)
  <1>1. Now = Final(idx) /\ Base = At(idx, indexEnd)
    BY DEF Now, Base
  <1>2. /\ Sound(idx) /\ indexEnd \in Nat /\ ~Mid(At(idx, indexEnd))
        /\ \/ End(idx) = indexEnd
           \/ /\ End(idx) = indexEnd + 1 /\ idx[indexEnd + 1].kind = "plain"
              /\ confirmed[idx[indexEnd + 1].fid] = NoRef
    BY QuietTail DEF DataInv
  <1>3. ExtsOK(Now)
    BY DEF DataInv, ViewInv, View, Current
  <1>4. CASE End(idx) = indexEnd
    <2>1. Now = Base
      BY <1>1, <1>4 DEF Final
    <2> QED BY <1>1, <1>3, <2>1 DEF Extends
  <1>5. CASE End(idx) # indexEnd
    <2> DEFINE e == idx[indexEnd + 1]
    <2>1. Adds(Base, Now, {e.fid}, ExtentFor(Disk, e)) /\ confirmed[e.fid] = NoRef
      BY <1>1, <1>2, <1>5, PlainAdds
    <2> HIDE DEF e
    <2> QED BY <1>1, <1>3, <2>1 DEF Extends, Adds
  <1> QED BY <1>4, <1>5

\* The extents of the index that memory knows keep away from reservations and
\* from free space.
LEMMA BaseExtents ==
    ASSUME up, DataInv
    PROVE  /\ ExtsOK(Base)
           /\ \A y \in Base.exts : y.iv \in intervals
           /\ \A x \in pendingIntervals : \A y \in Base.exts : ~Overlaps(y.iv, x)
           /\ \A x : Free(x) => \A y \in Base.exts : ~Overlaps(y.iv, x)
  <1>1. ExtsOK(Base) /\ \A y \in Base.exts : y.iv \in intervals
    BY DEF DataInv, ViewInv, View, Current, ViewExts
  <1>2. Apart(Extents) /\ intervals \cap pendingIntervals = {}
    BY DEF DataInv, SpaceInv
  <1>3. \A x \in pendingIntervals : \A iv \in intervals : ~Overlaps(iv, x)
    BY <1>2 DEF Apart, Extents
  <1>4. \A x : Free(x) => \A iv \in intervals : ~Overlaps(iv, x)
    BY DEF Free, Extents
  <1> QED BY <1>1, <1>3, <1>4

\* A sync and the entries of a Put.
LEMMA PutCommitData ==
    ASSUME WholeWrites, TypeInv, LogInv, DataInv, NEW p \in Puts, PutCommit(p)
    PROVE  DataInv'
  <1> DEFINE n == indexEnd
             ix == WriteAt(idx, n, PutEntries(p))
             C == confirmed
             I == intervals
  <1>p. /\ up /\ pc[p] = "commit" /\ MuFree /\ ~indexErr /\ Unregistered(p)
        /\ n + Len(PutEntries(p)) <= IndexCap /\ SyncThenWrite(ix)
        /\ pc' = [pc EXCEPT ![p] = "sync"]
        /\ UNCHANGED <<confirmed, intervals, pendingIntervals, indexEnd, indexErr, grid, tpc, job, up>>
    BY DEF PutCommit, Goto, memVars
  <1>0. tpc = "idle" /\ \A q \in Puts : pc[q] # "sync"
    BY <1>p DEF MuFree
  <1>1. /\ Sound(idx) /\ n \in Nat /\ n <= End(idx) /\ End(idx) <= n + 1 /\ ~Mid(At(idx, n))
        /\ \A f \in Fids : At(idx, n).refs[f] # NoRef => confirmed[f] # NoRef
    BY <1>p, <1>0, QuietTail
  <1>2. \A f \in Names(Header[p]) : C[f] = NoRef /\ At(idx, n).refs[f] = NoRef
    <2>1. Names(Header[p]) \subseteq Fids
      BY HeaderFacts, TrimAssumption
    <2> QED BY <1>p, <1>1, <2>1 DEF Unregistered
  <1>3. AddrOK(Disk, Header[p].fid, Header[p].size) /\ IndexTypes /\ pc \in [Puts -> PutPCs]
    BY <1>p DEF TypeInv, PutInv
  <1>4. /\ Whole(ix) /\ End(ix) = n + Len(PutEntries(p)) /\ At(ix, n) = At(idx, n)
        /\ \A i \in 1 .. Len(PutEntries(p)) : ix[n + i] = PutEntries(p)[i]
    BY <1>p, <1>1, <1>2, <1>3, AppendPut
  <1>n. n = indexEnd
    OBVIOUS
  <1> HIDE DEF ix, n, C, I
  <1>5. idx' = ix /\ media'[0] = {idx, ix} /\ dirty' = {}
    <2>1. ix \in Indexes
      BY <1>4 DEF Whole, Sound
    <2> QED BY <1>p, <1>3, <2>1, WriteFacts DEF SyncThenWrite
  <1>6. Acked' = Acked /\ \A q \in Puts : pc'[q] = IF q = p THEN "sync" ELSE pc[q]
    BY <1>p, <1>3, SameAcked
  <1>7. Extends(C, Base, Now) /\ Now = Final(idx) /\ Base = At(idx, n)
    BY <1>p, <1>0, <1>n, TailExtends DEF C
  <1>8. Now' = Final(ix) /\ Base' = Base /\ Finals' = {Now, Final(ix)}
    <2>1. Now' = Final(ix)
      BY <1>p, <1>0, <1>5 DEF Now
    <2>2. Base' = Base
      BY <1>p, <1>0, <1>4, <1>5, <1>7, <1>n DEF Base
    <2>3. Settled(idx) = Final(idx) /\ Settled(ix) = Final(ix)
      BY <1>p, <1>0, <1>1, <1>4, WholeSettled DEF LogInv
    <2>4. Finals' = {Final(idx), Final(ix)}
      BY <1>5, <2>3 DEF Finals
    <2> QED BY <1>7, <2>1, <2>2, <2>4
  <1>9. ViewRefs = C /\ ViewExts = I /\ ViewRefs' = C /\ ViewExts' = I
    BY <1>p DEF ViewRefs, ViewExts, C, I
  <1>10. View(grid, dirty, C, I, Acked, Now, Base, Finals)
    BY <1>9 DEF DataInv, ViewInv
  <1>11. Extends(C, Base, Final(ix))
    <2>1. Adds(Base, Final(ix), Names(Header[p]), [fid |-> Header[p].fid, iv |-> PutExtent(p)])
      <3>1. ~Mid(At(ix, n)) /\ Sound(ix)
        BY <1>1, <1>4 DEF Whole
      <3> QED BY <1>1, <1>4, <1>7, <3>1, PutAdds
    <2>2. PutExtent(p) \in pendingIntervals
      BY <1>p DEF DataInv, SpaceInv, Holders
    <2>3. ExtsOK(Base) /\ \A y \in Base.exts : ~Overlaps(y.iv, PutExtent(p))
      BY <1>p, <2>2, BaseExtents
    <2> DEFINE x == [fid |-> Header[p].fid, iv |-> PutExtent(p)]
    <2>4. x.iv = PutExtent(p) /\ Adds(Base, Final(ix), Names(Header[p]), x)
      BY <2>1
    <2> HIDE DEF x
    <2> QED BY <1>2, <2>3, <2>4, AddsExtends
  <1>12. ViewInv'
    <2>1. Carries(grid, dirty, C, I, grid, {}, C, I)
      BY <1>10, CarriesSync DEF View
    <2>2. View(grid, {}, C, I, Acked, Final(ix), Base, {Now, Final(ix)})
      BY <1>7, <1>10, <1>11, <2>1, ViewAppend
    <2> QED BY <1>p, <1>5, <1>6, <1>8, <1>9, <2>2 DEF ViewInv
  <1>13. SpaceInv'
    <2>1. SpaceInv
      BY DEF DataInv
    <2>2. Extents' = Extents /\ Holders' = Holders /\ intervals' = intervals
          /\ pendingIntervals' = pendingIntervals /\ up' /\ grid' = grid
      BY <1>p, <1>6 DEF Extents, Holders
    <2>3. \A q \in Puts : pc'[q] \in {"commit", "sync"} =>
             Deliver(Disk, grid, Own(Header[q].fid, Header[q].size)) = Data(q)
      BY <1>p, <1>6, <2>1 DEF SpaceInv
    <2>4. \A q \in Puts : pc'[q] = "sync" => \A f \in Names(Header[q]) : confirmed'[f] = NoRef
      BY <1>p, <1>0, <1>2, <1>6 DEF C
    <2> QED BY <2>1, <2>2, <2>3, <2>4 DEF SpaceInv
  <1>14. WorkInv'
    BY <1>p, <1>0, WorkIdle DEF WorkInv
  <1> QED BY <1>p, <1>12, <1>13, <1>14 DEF DataInv

\* The entries are taken back.
LEMMA PutRollbackData ==
    ASSUME WholeWrites, TypeInv, LogInv, DataInv, NEW p \in Puts, PutRollback(p)
    PROVE  DataInv'
  <1> DEFINE n == indexEnd
             zs == [i \in DOMAIN PutEntries(p) |-> ZeroEntry]
             ix == WriteAt(idx, n, zs)
             C == confirmed
             I == intervals
  <1>p. /\ up /\ pc[p] = "sync" /\ idx' = ix /\ dirty' = {}
        /\ media' = [j \in Sectors |-> {Sector(ix, j)}]
        /\ pc' = [pc EXCEPT ![p] = "abort"]
        /\ UNCHANGED <<confirmed, intervals, pendingIntervals, indexEnd, indexErr, grid, tpc, job, up>>
    BY DEF PutRollback, Goto, memVars
  <1>1. /\ Sound(idx) /\ n \in Nat /\ tpc = "idle" /\ n <= End(idx)
        /\ \A q \in Puts : pc[q] = "sync" => q = p
        /\ End(idx) = n + Len(PutEntries(p)) /\ ~Mid(At(idx, n))
    BY <1>p, SyncTail
  <1>2. zs \in Seq({ZeroEntry}) /\ Len(zs) = Len(PutEntries(p))
    <2>1. PutEntries(p) \in Seq(Entries)
      BY PutEntriesTyped
    <2>2. DOMAIN PutEntries(p) = 1 .. Len(PutEntries(p)) /\ Len(PutEntries(p)) \in Nat
      BY <2>1
    <2> HIDE DEF zs
    <2>3. zs = [i \in 1 .. Len(PutEntries(p)) |-> ZeroEntry]
      BY <2>2 DEF zs
    <2> QED BY <2>2, <2>3
  <1>n. n = indexEnd
    OBVIOUS
  <1> HIDE DEF n, zs
  <1>3. Sound(ix) /\ End(ix) = n /\ \A i \in 0 .. n : At(ix, i) = At(idx, i)
    BY <1>1, <1>2, Truncate
  <1> HIDE DEF ix
  <1>4. At(ix, n) = At(idx, n) /\ ix \in Indexes
    BY <1>1, <1>3 DEF Sound
  <1>5. media'[0] = {ix}
    BY <1>p, <1>4, OneSector
  <1>t. pc \in [Puts -> PutPCs]
    BY DEF TypeInv, PutInv
  <1>6. Acked' = Acked /\ \A q \in Puts : pc'[q] = IF q = p THEN "abort" ELSE pc[q]
    BY <1>p, <1>t, SameAcked
  <1>7. Base = At(idx, n) /\ Final(ix) = Base /\ Now' = Base /\ Base' = Base /\ Finals' = {Base}
    <2>1. Base = At(idx, n)
      BY <1>p, <1>1, <1>n DEF Base
    <2>2. Final(ix) = Base
      BY <1>3, <1>4, <2>1 DEF Final
    <2>3. Now' = Base
      BY <1>p, <1>1, <2>2 DEF Now
    <2>4. Base' = Base
      BY <1>p, <1>1, <1>n, <1>4, <2>1 DEF Base
    <2>5. Settled(ix) = Final(ix)
      BY <1>1, <1>3, <1>4, WholeSettled DEF Whole
    <2>6. Finals' = {Final(ix)}
      BY <1>5, <2>5 DEF Finals
    <2> QED BY <2>1, <2>2, <2>3, <2>4, <2>6
  <1>8. ViewRefs = C /\ ViewExts = I /\ ViewRefs' = C /\ ViewExts' = I
    BY <1>p DEF ViewRefs, ViewExts
  <1> HIDE DEF C, I
  <1>9. View(grid, dirty, C, I, Acked, Now, Base, Finals)
    BY <1>8 DEF DataInv, ViewInv
  <1>10. ViewInv'
    <2>1. Memory(C, I) /\ Serves(grid, C, Acked) /\ Current(grid, dirty, C, I, Base)
          /\ \A x \in Base.exts : x.iv \in I
      BY <1>9 DEF View
    <2>2. Carries(grid, dirty, C, I, grid, {}, C, I)
      BY <2>1, CarriesSync
    <2>3. \A f \in Fids : C[f] # NoRef => C[f] # NoRef \/ Base.refs[f] = C[f]
      OBVIOUS
    <2>4. View(grid, {}, C, I, Acked, Base, Base, {Base})
      BY <2>1, <2>2, <2>3, ViewSettle
    <2> QED BY <1>p, <1>6, <1>7, <1>8, <2>4 DEF ViewInv
  <1>11. SpaceInv'
    <2>1. SpaceInv
      BY DEF DataInv
    <2>2. Extents' = Extents /\ Holders' = Holders /\ intervals' = intervals
          /\ pendingIntervals' = pendingIntervals /\ up' /\ grid' = grid
      BY <1>p, <1>6 DEF Extents, Holders
    <2>3. \A q \in Puts : pc'[q] \in {"commit", "sync"} =>
             Deliver(Disk, grid, Own(Header[q].fid, Header[q].size)) = Data(q)
      BY <1>p, <1>6, <2>1 DEF SpaceInv
    <2>4. \A q \in Puts : pc'[q] = "sync" => \A f \in Names(Header[q]) : confirmed'[f] = NoRef
      BY <1>1, <1>6
    <2> QED BY <2>1, <2>2, <2>3, <2>4 DEF SpaceInv
  <1>12. WorkInv'
    BY <1>p, <1>1, WorkIdle DEF WorkInv
  <1> QED BY <1>p, <1>10, <1>11, <1>12 DEF DataInv

-----------------------------------------------------------------------------
(* Memory takes over what was synced.                                      *)

\* The names N are new in B, with an extent that was free.
Takes(C, B, N, x) ==
    /\ \A f \in Fids : f \notin N => B[f] = C[f]
    /\ \A f \in N : f \in Fids /\ C[f] = NoRef /\ RefExtent(B[f]) = x /\ B[f].size # 0

\* Nothing that was served changes.
LEMMA TakesOver ==
    ASSUME NEW g, NEW D, NEW C, NEW I, Memory(C, I), NEW B, NEW N, NEW x, Takes(C, B, N, x),
           Proper(x), FreeIn(I, x)
    PROVE  Memory(B, I \cup {x}) /\ Carries(g, D, C, I, g, {}, B, I \cup {x})
  <1> DEFINE J == I \cup {x}
  <1>1. Apart(J)
    <2>1. \A a \in I : ~Overlaps(a, x) /\ ~Overlaps(x, a)
      BY DEF FreeIn, Overlaps
    <2> QED BY <2>1 DEF Memory, Apart
  <1>2. \A iv \in J : Proper(iv)
    BY DEF Memory
  <1>3. \A f \in Fids : B[f] # NoRef => RefExtent(B[f]) \in J /\ B[f].size # 0
    BY DEF Memory, Takes
  <1>4. \A f \in Fids : C[f] # NoRef => B[f] = C[f]
    BY DEF Takes
  <1>5. \A iv : Dry({}, iv)
    BY DEF Dry
  <1>6. I \subseteq J
    OBVIOUS
  <1> HIDE DEF J
  <1>7. Memory(B, J)
    BY <1>1, <1>2, <1>3 DEF Memory
  <1>8. Carries(g, D, C, I, g, {}, B, J)
    BY <1>4, <1>5, <1>6 DEF Carries
  <1> QED BY <1>7, <1>8 DEF J

\* The names of a Put, published.
LEMMA PutTakes ==
    ASSUME NEW p \in Puts, AddrOK(Disk, Header[p].fid, Header[p].size), NEW C, NEW B,
           \A f \in Names(Header[p]) : C[f] = NoRef,
           B = [f \in Fids |-> IF f = Header[p].fid THEN Own(Header[p].fid, Header[p].size)
                               ELSE IF f \in Names(Header[p]) THEN AliasOf(Header[p].fid, Header[p].size)
                               ELSE C[f]]
    PROVE  /\ Takes(C, B, Names(Header[p]), PutExtent(p))
           /\ \A f \in Names(Header[p]) :
                /\ B[f] # NoRef /\ B[f].size = LogicalSize(p, f)
                /\ \A g : Deliver(Disk, g, B[f]) = Deliver(Disk, g, Own(Header[p].fid, Header[p].size))
                /\ B[f] = IF f = Header[p].fid THEN Own(Header[p].fid, Header[p].size)
                          ELSE AliasOf(Header[p].fid, Header[p].size)
  <1> DEFINE f0 == Header[p].fid
             z == Header[p].size
             N == Names(Header[p])
  <1>1. f0 \in Nat /\ z \in Nat /\ f0 # 0 /\ N \subseteq Fids /\ f0 \in N /\ z # 0
    <2>1. f0 \in Nat /\ z \in Nat /\ f0 # 0 /\ N \subseteq Fids
      BY HeaderFacts, TrimAssumption
    <2>2. z # 0
      BY PutExtentFacts
    <2>3. f0 \in N
      BY DEF Names
    <2> QED BY <2>1, <2>2, <2>3
  <1>2. \A f \in N : f # f0 => z >= 2
    BY TrimAssumption DEF Names
  <1>3. /\ Own(f0, z) # NoRef /\ AliasOf(f0, z) # NoRef /\ Own(f0, z).size = z /\ AliasOf(f0, z).size = z - 1
        /\ RefExtent(Own(f0, z)) = RefExtent(AliasOf(f0, z))
        /\ \A g : Deliver(Disk, g, AliasOf(f0, z)) = Deliver(Disk, g, Own(f0, z))
    BY <1>1, OwnRefs
  <1>4. RefExtent(Own(f0, z)) = PutExtent(p)
    BY PutExtentFacts
  <1>5. \A f \in N : LogicalSize(p, f) = IF f = f0 THEN z ELSE z - 1
    BY DEF LogicalSize
  <1>6. \A f \in Fids : B[f] = IF f = f0 THEN Own(f0, z) ELSE IF f \in N THEN AliasOf(f0, z) ELSE C[f]
    BY Zenon
  <1>7. \A f \in N : C[f] = NoRef
    OBVIOUS
  <1> HIDE DEF f0, z, N
  <1>8. Takes(C, B, N, PutExtent(p))
    <2>1. \A f \in N : f # f0 => z - 1 # 0
      <3>1. z >= 2 => z - 1 # 0
        BY <1>1
      <3> QED BY <1>2, <3>1, Zenon
    <2>2. ASSUME NEW f \in N PROVE RefExtent(B[f]) = PutExtent(p) /\ B[f].size # 0
      <3>0. f \in Fids
        BY <1>1
      <3>1. CASE f = f0
        <4>1. B[f] = Own(f0, z)
          BY <1>6, <3>0, <3>1
        <4> QED BY <1>1, <1>3, <1>4, <4>1
      <3>2. CASE f # f0
        <4>1. B[f] = AliasOf(f0, z)
          BY <1>6, <3>0, <3>2
        <4> QED BY <1>3, <1>4, <2>1, <3>2, <4>1
      <3> QED BY <3>1, <3>2
    <2>3. \A f \in Fids : f \notin N => B[f] = C[f]
      BY <1>1, <1>6
    <2> QED BY <1>1, <1>7, <2>2, <2>3 DEF Takes
  <1>9. \A f \in N :
                /\ B[f] # NoRef /\ B[f].size = LogicalSize(p, f)
                /\ \A g : Deliver(Disk, g, B[f]) = Deliver(Disk, g, Own(f0, z))
                /\ B[f] = IF f = f0 THEN Own(f0, z) ELSE AliasOf(f0, z)
    BY <1>1, <1>3, <1>5, <1>6
  <1> QED BY <1>8, <1>9, Zenon DEF f0, z, N

\* A Put is published.
LEMMA PutPublishData ==
    ASSUME WholeWrites, TypeInv, LogInv, DataInv, NEW p \in Puts, PutPublish(p)
    PROVE  DataInv'
  <1> DEFINE n == indexEnd
             N == Names(Header[p])
             x == PutExtent(p)
             C == confirmed
             B == confirmed'
             I == intervals
             J == I \cup {x}
  <1>p. /\ up /\ pc[p] = "sync" /\ Sync
        /\ B = [f \in Fids |-> IF f = Header[p].fid THEN Own(Header[p].fid, Header[p].size)
                               ELSE IF f \in N THEN AliasOf(Header[p].fid, Header[p].size)
                               ELSE C[f]]
        /\ indexEnd' = indexEnd + Len(PutEntries(p))
        /\ pendingIntervals' = pendingIntervals \ {x} /\ intervals' = J
        /\ pc' = [pc EXCEPT ![p] = "acked"]
        /\ UNCHANGED <<indexErr, grid, tpc, job, up>>
    BY Zenon DEF PutPublish, Goto
  <1>1. /\ Sound(idx) /\ n \in Nat /\ tpc = "idle"
        /\ \A q \in Puts : pc[q] = "sync" => q = p
        /\ End(idx) = n + Len(PutEntries(p)) /\ ~Mid(At(idx, n))
        /\ \A i \in 1 .. Len(PutEntries(p)) : idx[n + i] = PutEntries(p)[i]
    BY <1>p, SyncTail
  <1>2. idx' = idx /\ media'[0] = {idx} /\ dirty' = {}
    BY <1>p, <1>1, WriteFacts DEF TypeInv, IndexTypes, Sync
  <1>t. pc \in [Puts -> PutPCs] /\ AddrOK(Disk, Header[p].fid, Header[p].size)
    BY <1>p DEF TypeInv, PutInv
  <1>3. Acked' = Acked \cup {p} /\ \A q \in Puts : pc'[q] = IF q = p THEN "acked" ELSE pc[q]
    BY <1>p, <1>t, SameAcked
  <1>0. ViewInv /\ SpaceInv /\ ~indexErr
    BY DEF DataInv
  <1>4. /\ x \in pendingIntervals /\ Proper(x) /\ \A f \in N : C[f] = NoRef
        /\ Deliver(Disk, grid, Own(Header[p].fid, Header[p].size)) = Data(p)
        /\ p \in Holders
    BY <1>p, <1>0 DEF SpaceInv, Holders
  <1>5. /\ Takes(C, B, N, x)
        /\ \A f \in N : /\ B[f] # NoRef /\ B[f].size = LogicalSize(p, f) /\ Deliver(Disk, grid, B[f]) = Data(p)
                        /\ B[f] = IF f = Header[p].fid THEN Own(Header[p].fid, Header[p].size)
                                  ELSE AliasOf(Header[p].fid, Header[p].size)
    BY <1>p, <1>t, <1>4, PutTakes
  <1>6. /\ Adds(At(idx, n), Final(idx), N, [fid |-> Header[p].fid, iv |-> x])
        /\ \A f \in N : Final(idx).refs[f] = IF f = Header[p].fid THEN Own(Header[p].fid, Header[p].size)
                                             ELSE AliasOf(Header[p].fid, Header[p].size)
    BY <1>1, PutAdds
  <1>7. Now = Final(idx) /\ Base = At(idx, n)
    BY <1>p, <1>1 DEF Now, Base
  <1>8. Now' = Now /\ Base' = Now /\ Finals' = {Now}
    <2>1. Now' = Final(idx)
      BY <1>p, <1>1, <1>2 DEF Now
    <2>2. Base' = Final(idx)
      BY <1>p, <1>1, <1>2 DEF Base, Final
    <2>3. Settled(idx) = Final(idx)
      BY <1>p, <1>1, WholeSettled DEF LogInv
    <2>4. Finals' = {Final(idx)}
      BY <1>2, <2>3 DEF Finals
    <2> QED BY <1>7, <2>1, <2>2, <2>4
  <1>9. ViewRefs = C /\ ViewExts = I /\ ViewRefs' = B /\ ViewExts' = J
    BY <1>p DEF ViewRefs, ViewExts
  <1>x. \A e \in Extents : e # x => ~Overlaps(e, x)
    BY <1>0, <1>4 DEF SpaceInv, Apart, Extents
  <1> HIDE DEF x, C, B, I, J, N, n
  <1>10. View(grid, dirty, C, I, Acked, Now, Base, Finals)
    BY <1>0, <1>9 DEF ViewInv
  <1>11. FreeIn(I, x) /\ x \notin I
    <2>1. x \notin I
      BY <1>0, <1>4 DEF SpaceInv, I
    <2>2. I \subseteq Extents
      BY DEF I, Extents
    <2> QED BY <1>x, <2>1, <2>2 DEF FreeIn
  <1>12. Memory(B, J) /\ Carries(grid, dirty, C, I, grid, {}, B, J)
    <2>1. Memory(C, I)
      BY <1>10 DEF View
    <2> QED BY <1>4, <1>5, <1>11, <2>1, TakesOver DEF J
  <1>13. Serves(grid, B, Acked \cup {p})
    <2>1. Serves(grid, B, Acked)
      BY <1>10, <1>12, CarriesServes DEF View
    <2>2. \A f \in Names(Header[p]) :
            B[f] # NoRef /\ B[f].size = LogicalSize(p, f) /\ Deliver(Disk, grid, B[f]) = Data(p)
      BY <1>5 DEF N
    <2> HIDE DEF B
    <2> QED BY <2>1, <2>2 DEF Serves
  <1>14. ViewInv'
    <2>1. Current(grid, dirty, C, I, Now)
      BY <1>10 DEF View
    <2>2. \A f \in Fids : B[f] # NoRef => C[f] # NoRef \/ Now.refs[f] = B[f]
      BY <1>5, <1>6, <1>7 DEF Takes
    <2>3. \A y \in Now.exts : y.iv \in J
      <3>1. \A y \in Base.exts : y.iv \in I
        BY <1>10 DEF View
      <3>2. \A y \in Now.exts : y \in Base.exts \/ y = [fid |-> Header[p].fid, iv |-> x]
        BY <1>6, <1>7 DEF Adds
      <3> QED BY <3>1, <3>2 DEF J
    <2>4. View(grid, {}, B, J, Acked \cup {p}, Now, Now, {Now})
      BY <1>12, <1>13, <2>1, <2>2, <2>3, ViewSettle
    <2> QED BY <1>p, <1>2, <1>3, <1>8, <1>9, <2>4 DEF ViewInv
  <1>15. SpaceInv'
    <2>1. Extents' = Extents
      BY <1>p, <1>4 DEF Extents, J, I
    <2>2. Holders' = Holders \ {p}
      BY <1>3 DEF Holders
    <2>3. intervals' \cap pendingIntervals' = {}
      BY <1>p, <1>0 DEF SpaceInv, J, I
    <2>4. \A iv \in pendingIntervals' : Proper(iv)
      BY <1>p, <1>0 DEF SpaceInv
    <2>5. \A q \in Holders' : PutExtent(q) \in pendingIntervals'
      BY <1>p, <1>0, <1>4, <2>2 DEF SpaceInv, x
    <2>6. \A q \in Puts : pc'[q] \in {"commit", "sync"} =>
             Deliver(Disk, grid', Own(Header[q].fid, Header[q].size)) = Data(q)
      BY <1>p, <1>0, <1>3 DEF SpaceInv
    <2>7. \A q \in Puts : pc'[q] # "sync"
      BY <1>1, <1>3
    <2>8. Apart(Extents') /\ up' /\ \A q, r \in Holders' : q # r => PutExtent(q) # PutExtent(r)
      BY <1>p, <1>0, <2>1, <2>2 DEF SpaceInv
    <2> QED BY <2>3, <2>4, <2>5, <2>6, <2>7, <2>8 DEF SpaceInv
  <1>16. WorkInv'
    BY <1>p, <1>1, WorkIdle DEF WorkInv
  <1> QED BY <1>p, <1>0, <1>14, <1>15, <1>16 DEF DataInv

-----------------------------------------------------------------------------
(* The steps of Trim that write objects.                                   *)

\* What the tables of the index, as far as memory knows it, point into is
\* left alone.
LEMMA SmallAreAway ==
    ASSUME TypeInv, LogInv, DataInv, up, MuFree, NEW i \in Small, NEW t \in Fids, InTables(Base, t)
    PROVE  TableAt(grid, Base, t).container # idx[i].fid
  <1> DEFINE n == indexEnd
             m == End(idx)
             v == TableAt(grid, Base, t)
  <1>0. tpc = "idle" /\ (\A p \in Puts : pc[p] # "sync") /\ ~indexErr
    BY DEF MuFree, DataInv
  <1>1. /\ Whole(idx) /\ Sound(idx) /\ n \in Nat /\ n <= m /\ ~Mid(At(idx, n))
    BY <1>0, QuietTail
  <1>2. Base = At(idx, n) /\ m \in Nat /\ ~Mid(At(idx, m)) /\ m <= m
    BY <1>0, <1>1, EndFacts, IndexAssumption DEF Base, EndsAt, Whole, Sound
  <1>3. Good(Disk, idx, n) /\ Good(Disk, idx, m)
    BY <1>1, <1>2, GoodAt
  <1>4. LatestHeads(idx) = Live(Disk, idx, m)
    BY <1>1, HeadsAreLive, TrimAssumption DEF Whole, Sound, At
  <1>5. PICK j \in Live(Disk, idx, n) : idx[j].kind = "anchor" /\ idx[j].fid = t
    BY <1>2, <1>3 DEF Good, At
  <1>v. v = TableAt(grid, Base, t)
    OBVIOUS
  <1> HIDE DEF n, m, v
  <1>6. j \in Live(Disk, idx, m)
    <2>1. j \in 1 .. n /\ Begins(Disk, idx, j)
      BY DEF Live
    <2>2. j \in 1 .. m
      BY <1>1, <1>2, <2>1
    <2> QED BY <1>3, <1>5, <2>1, <2>2 DEF Good
  <1>7. idx[j + 1].fid = t
    <2>1. Records(idx, Live(Disk, idx, m))
      BY <1>3 DEF Good
    <2>2. Obj(idx, j).fid = idx[j].fid
      BY <1>5, <1>6, <2>1 DEF Records
    <2> QED BY <1>5, <2>2 DEF Obj
  <1>8. t \in Seconds("anchor")
    BY <1>4, <1>5, <1>6, <1>7 DEF Seconds, Heads, m
  <1>9. Bytes(confirmed[t]).container \in Excluded
    BY <1>8, Zenon DEF Excluded
  <1>10. idx[i].fid \notin Excluded
    BY DEF Small
  <1>11. v = Bytes(confirmed[t])
    <2>1. TablesOK(grid, dirty, confirmed, intervals, Base)
      BY DEF DataInv, ViewInv, View, Current, ViewRefs, ViewExts
    <2>2. TableIs(grid, dirty, confirmed, intervals, Base, t, v)
      BY <1>v, <2>1 DEF TablesOK, TableOK
    <2>3. Match(grid, intervals, Base.refs[t], confirmed[t])
      BY <2>2, Zenon DEF TableIs
    <2> QED BY <1>v, <2>3 DEF Match, Bytes, TableAt
  <1> QED BY <1>9, <1>10, <1>11, <1>v

\* Candidates are listed.
LEMMA TrimStartData ==
    ASSUME TypeInv, LogInv, DataInv, TrimStart
    PROVE  DataInv'
  <1>p. /\ up /\ MuFree /\ tpc' = "container"
        /\ UNCHANGED <<confirmed, intervals, pendingIntervals, indexEnd, indexErr, idx, media, grid, dirty, pc, up>>
    BY DEF TrimStart, memVars, idxVars, gridVars
  <1>q. PICK n \in 1 .. Cardinality(Small) :
            job' = [NoJob EXCEPT !.cand = [k \in 1 .. n |-> idx[Nth(Small, k)].fid]]
    BY Zenon DEF TrimStart
  <1> DEFINE c == [k \in 1 .. n |-> idx[Nth(Small, k)].fid]
             S == Small
  <1>0. tpc = "idle" /\ ViewInv /\ SpaceInv /\ ~indexErr
    BY <1>p DEF MuFree, DataInv
  <1>1. job'.cand = c
    <2>1. job' = [NoJob EXCEPT !.cand = c]
      BY <1>q, Zenon
    <2> HIDE DEF c
    <2> QED BY <2>1 DEF NoJob
  <1>2. ASSUME NEW k \in 1 .. n PROVE Nth(S, k) \in S
    <2>1. End(idx) \in Nat /\ Below(S, End(idx))
      BY EndFacts, IndexAssumption DEF EndsAt, Below, Small, Heads, LatestHeads
    <2>2. n \in 1 .. Cardinality(S)
      BY <1>q
    <2> HIDE DEF S
    <2>3. Cardinality(S) \in Nat
      BY <2>1, RankStep
    <2>4. k \in 1 .. Cardinality(S)
      BY <2>2, <2>3
    <2> QED BY <2>1, <2>4, NthFacts
  <1>3. ASSUME NEW k \in DOMAIN job'.cand, NEW t \in Fids, InTables(Base, t)
        PROVE  TableAt(grid, Base, t).container # job'.cand[k]
    <2>1. k \in 1 .. n /\ job'.cand[k] = idx[Nth(S, k)].fid
      BY <1>1
    <2> HIDE DEF c, S
    <2>2. Nth(S, k) \in Small
      BY <1>2, <2>1 DEF S
    <2> QED BY <1>p, <1>3, <2>1, <2>2, SmallAreAway
  <1> HIDE DEF c, S
  <1>4. Now' = Now /\ Base' = Base /\ Finals' = Finals
    BY <1>p, <1>0, SameScans
  <1>5. Acked' = Acked /\ Extents' = Extents /\ Holders' = Holders
    BY <1>p DEF Acked, Extents, Holders
  <1>6. ViewInv'
    BY <1>p, <1>0, <1>5, SameView
  <1>7. SpaceInv'
    BY <1>p, <1>0, <1>5 DEF SpaceInv
  <1>8. WorkInv'
    <2>1. Away(grid', Base', job')
      BY <1>p, <1>3, <1>4 DEF Away
    <2> QED BY <1>p, <2>1 DEF WorkInv, Work
  <1> QED BY <1>p, <1>0, <1>6, <1>7, <1>8 DEF DataInv

\* Memory and the index before Trim writes an object.
LEMMA StoreTail ==
    ASSUME TypeInv, LogInv, DataInv, tpc \in {"container", "table"}
    PROVE  Extends(confirmed, Base, Now) /\ Now = Final(idx) /\ Base = At(idx, indexEnd)
  <1>0. up /\ TailInv /\ (\A p \in Puts : pc[p] # "sync") /\ ~indexErr
    BY TrimTail
  <1>1. CASE tpc = "container"
    BY <1>0, <1>1, TailExtends
  <1>2. CASE tpc = "table"
    <2>1. Now = Final(idx) /\ Base = At(idx, indexEnd) /\ End(idx) = indexEnd
      BY <1>0, <1>2 DEF Now, Base, TailInv
    <2>2. Now = Base
      BY <2>1 DEF Final
    <2>3. ExtsOK(Now)
      BY DEF DataInv, ViewInv, View, Current
    <2> QED BY <2>1, <2>2, <2>3 DEF Extends
  <1> QED BY <1>1, <1>2

\* An object of Trim's own is written to free space.
LEMMA StoreObjectData ==
    ASSUME WholeWrites, TypeInv, LogInv, DataInv, tpc \in {"container", "table"},
           NEW f \in Fids, NEW s \in Nat, NEW v, StoreObject(f, s, v),
           UNCHANGED <<confirmed, intervals, pendingIntervals, indexEnd, indexErr, pc, up>>,
           tpc' \in {"containerSync", "tableSync"}
    PROVE  /\ ~indexErr' /\ ViewInv' /\ SpaceInv' /\ Base' = Base /\ dirty' = {} /\ Extents' = Extents
           /\ Proper(Extent(Disk, f, s)) /\ FreeIn(Extents, Extent(Disk, f, s))
           /\ Carries(grid, dirty, confirmed, intervals, grid', {}, confirmed, intervals)
           /\ \A i \in SlotsIn(Extent(Disk, f, s)) : grid'[i] = v
           /\ \A t \in Fids : InTables(Base, t) => TableAt(grid', Base, t) = TableAt(grid, Base, t)
  <1> DEFINE n == indexEnd
             x == Extent(Disk, f, s)
             h == grid'
             C == confirmed
             I == intervals
             q == Final(idx')
  <1>1. Usable(f, s) /\ n < IndexCap /\ h = Filled(x, v) /\ SyncThenWrite(WriteAt(idx, n, <<Plain(f, s)>>))
    BY Zenon DEF StoreObject
  <1>2. C[f] = NoRef /\ AddrOK(Disk, f, s) /\ Free(x)
    BY <1>1 DEF Usable
  <1>3. /\ Whole(idx') /\ Sound(idx') /\ End(idx') = n + 1 /\ At(idx', n) = At(idx, n) /\ idx'[n + 1] = Plain(f, s)
    BY StoreObjectLog DEF Whole
  <1>4. media'[0] = {idx, idx'} /\ dirty' = {}
    <2>1. idx' = WriteAt(idx, n, <<Plain(f, s)>>) /\ idx' \in Indexes
      BY <1>1, <1>3 DEF SyncThenWrite, Whole, Sound
    <2>2. IndexTypes
      BY DEF TypeInv
    <2>3. SyncThenWrite(idx')
      BY <1>1, <2>1
    <2> QED BY <2>1, <2>2, <2>3, <1>1, WriteFacts DEF SyncThenWrite
  <1>5. up /\ ~indexErr /\ n \in Nat /\ ~Mid(At(idx, n)) /\ \A p \in Puts : pc[p] # "sync"
    BY TrimTail
  <1>6. Extends(C, Base, Now) /\ Now = Final(idx) /\ Base = At(idx, n)
    BY StoreTail
  <1>7. Now' = q /\ Base' = Base /\ Finals' = {Now, q}
    <2>1. Now' = q
      BY <1>5 DEF Now
    <2>2. Base' = Base
      BY <1>3, <1>5, <1>6 DEF Base
    <2>3. Settled(idx) = Final(idx) /\ Settled(idx') = q
      BY <1>3, <1>5, WholeSettled DEF LogInv
    <2>4. Finals' = {Final(idx), q}
      BY <1>4, <2>3 DEF Finals
    <2> QED BY <1>6, <2>1, <2>2, <2>4
  <1>8. ViewRefs = C /\ ViewExts = I /\ ViewRefs' = C /\ ViewExts' = I
    BY <1>5 DEF ViewRefs, ViewExts
  <1>9. Proper(x) /\ FreeIn(Extents, x) /\ GridTypes
    BY <1>2, PlacedProper, IndexAssumption DEF Free, FreeIn, TypeInv
  <1>10. Adds(Base, q, {f}, ExtentFor(Disk, Plain(f, s)))
    <2>1. Plain(f, s).kind = "plain" /\ Plain(f, s).fid = f
      BY DEF Plain, Entry
    <2>2. ~Mid(At(idx', n)) /\ idx'[n + 1].kind = "plain"
      BY <1>3, <1>5, <2>1
    <2>3. Adds(At(idx', n), q, {idx'[n + 1].fid}, ExtentFor(Disk, idx'[n + 1]))
      BY <1>3, <1>5, <2>2, PlainAdds
    <2> QED BY <1>3, <1>6, <2>1, <2>3
  <1>x. x = ExtentFor(Disk, Plain(f, s)).iv /\ \A e \in I : e \in Extents
    BY DEF ExtentFor, Plain, Entry, Extents
  <1>a. Acked' = Acked /\ Extents' = Extents /\ Holders' = Holders
    BY DEF Acked, Extents, Holders
  <1>f. /\ \A i \in SlotsIn(x) : h[i] = v
        /\ \A iv : Proper(iv) /\ ~Overlaps(x, iv) => \A i \in SlotsIn(iv) : h[i] = grid[i]
        /\ \A ref : Proper(RefExtent(ref)) /\ ~Overlaps(x, RefExtent(ref)) =>
             Deliver(Disk, h, ref) = Deliver(Disk, grid, ref)
    BY <1>1, <1>9, FilledFacts
  <1> HIDE DEF x, h, C, I, q
  <1>11. View(grid, dirty, C, I, Acked, Now, Base, Finals) /\ SpaceInv
    BY <1>8 DEF DataInv, ViewInv
  <1>12. \A e \in Extents : Proper(e) /\ ~Overlaps(x, e)
    <2>1. \A e \in Extents : Proper(e)
      BY <1>5, ExtentsProper DEF DataInv
    <2> QED BY <1>9, <2>1 DEF FreeIn, Overlaps
  <1>13. Carries(grid, dirty, C, I, h, {}, C, I)
    <2>1. Memory(C, I)
      BY <1>11 DEF View
    <2>2. \A iv \in I : \A i \in SlotsIn(iv) : h[i] = grid[i]
      BY <1>f, <1>x, <1>12
    <2>3. \A iv \in I : Dry(dirty, iv) => Dry({}, iv)
      BY DEF Dry
    <2> QED BY <2>1, <2>2, <2>3, CarriesWrite
  <1>14. Extends(C, Base, q)
    <2>1. ExtsOK(Base) /\ \A y \in Base.exts : ~Overlaps(y.iv, x)
      BY <1>2, <1>5, BaseExtents DEF x
    <2>2. \A g \in {f} : C[g] = NoRef
      BY <1>2
    <2> DEFINE y == ExtentFor(Disk, Plain(f, s))
    <2>3. \A z \in Base.exts : ~Overlaps(z.iv, y.iv)
      BY <1>x, <2>1
    <2>4. Adds(Base, q, {f}, y)
      BY <1>10
    <2> HIDE DEF y
    <2> QED BY <2>1, <2>2, <2>3, <2>4, AddsExtends
  <1>15. ViewInv'
    <2>1. View(h, {}, C, I, Acked, q, Base, {Now, q})
      BY <1>6, <1>11, <1>13, <1>14, ViewAppend
    <2> QED BY <1>4, <1>7, <1>8, <1>a, <2>1 DEF ViewInv, h
  <1>16. SpaceInv'
    <2>1. \A p \in Puts : pc'[p] \in {"commit", "sync"} =>
             Deliver(Disk, h, Own(Header[p].fid, Header[p].size)) = Data(p)
      <3> SUFFICES ASSUME NEW p \in Puts, pc[p] \in {"commit", "sync"}
                   PROVE  Deliver(Disk, h, Own(Header[p].fid, Header[p].size)) = Data(p)
        OBVIOUS
      <3>1. Deliver(Disk, grid, Own(Header[p].fid, Header[p].size)) = Data(p)
        BY <1>11 DEF SpaceInv
      <3>2. PutExtent(p) \in Extents
        BY <1>11 DEF SpaceInv, Holders, Extents
      <3>3. AddrOK(Disk, Header[p].fid, Header[p].size)
        BY DEF TypeInv, PutInv
      <3>4. RefExtent(Own(Header[p].fid, Header[p].size)) = PutExtent(p)
        BY <3>3, PutExtentFacts
      <3> QED BY <1>f, <1>12, <3>1, <3>2, <3>4
    <2>2. \A p \in Puts : pc'[p] # "sync"
      BY <1>5
    <2> QED BY <1>a, <1>5, <1>11, <2>1, <2>2 DEF SpaceInv, h
  <1>17. \A t \in Fids : InTables(Base, t) => TableAt(h, Base, t) = TableAt(grid, Base, t)
    <2>1. TablesOK(grid, dirty, C, I, Base) /\ TablesFrom(grid, Base, Base)
      BY <1>11, TablesFromSelf DEF View, Current
    <2> QED BY <1>13, <2>1, CarriesTables
  <1>18. ~indexErr'
    BY <1>5
  <1> QED BY <1>4, <1>7, <1>9, <1>f, <1>13, <1>15, <1>16, <1>17, <1>18, <1>a DEF x, h, C, I

-----------------------------------------------------------------------------
(* Places in a container.                                                  *)

\* The sizes of the first candidates, summed up.
Sums(C, c) ==
    LET h[i \in Nat] == IF i = 0 THEN 0 ELSE h[i - 1] + C[c[i]].size
    IN  h

\* How the sum goes on.
LEMMA SumsStep ==
    ASSUME NEW C, NEW c
    PROVE  Sums(C, c)[0] = 0 /\ \A i \in Nat : Sums(C, c)[i + 1] = Sums(C, c)[i] + C[c[i + 1]].size
  <1> DEFINE Turn(v, i) == v + C[c[i]].size
             h == Sums(C, c)
  <1>1. NatInductiveDefHypothesis(h, 0, Turn)
    BY Zenon DEF NatInductiveDefHypothesis, Sums
  <1> HIDE DEF h
  <1>2. NatInductiveDefConclusion(h, 0, Turn)
    BY <1>1, NatInductiveDef
  <1>3. h = [i \in Nat |-> IF i = 0 THEN 0 ELSE Turn(h[i - 1], i)]
    BY <1>2, Zenon DEF NatInductiveDefConclusion
  <1>4. h[0] = 0
    BY <1>3
  <1>5. \A i \in Nat : h[i + 1] = h[i] + C[c[i + 1]].size
    <2> SUFFICES ASSUME NEW i \in Nat PROVE h[i + 1] = h[i] + C[c[i + 1]].size
      OBVIOUS
    <2>1. i + 1 \in Nat /\ i + 1 # 0 /\ (i + 1) - 1 = i
      OBVIOUS
    <2>2. h[i + 1] = Turn(h[(i + 1) - 1], i + 1)
      BY <1>3, <2>1
    <2> QED BY <2>1, <2>2
  <1> QED BY <1>4, <1>5 DEF h

\* An offset is such a sum.
LEMMA OffsetSum ==
    ASSUME NEW C, NEW c, NEW k \in Nat, k # 0
    PROVE  OffsetIn(C, c, k) = Sums(C, c)[k - 1]
  <1> DEFINE Turn(v, i) == v + C[c[i - 1]].size
             o == CHOOSE h : h = [i \in 1 .. k |-> IF i = 1 THEN 0 ELSE Turn(h[i - 1], i)]
             G == Sums(C, c)
             T == {i \in Nat : i + 1 <= k => o[i + 1] = G[i]}
  <1>1. OffsetIn(C, c, k) = o[k]
    BY Zenon DEF OffsetIn
  <1>2. FiniteNatInductiveDefHypothesis(o, 0, Turn, 1, k)
    BY Zenon DEF FiniteNatInductiveDefHypothesis
  <1> HIDE DEF o
  <1>3. FiniteNatInductiveDefConclusion(o, 0, Turn, 1, k)
    BY <1>2, FiniteNatInductiveDef
  <1>4. o = [i \in 1 .. k |-> IF i = 1 THEN 0 ELSE Turn(o[i - 1], i)]
    BY <1>3, Zenon DEF FiniteNatInductiveDefConclusion
  <1>5. G[0] = 0 /\ \A i \in Nat : G[i + 1] = G[i] + C[c[i + 1]].size
    BY SumsStep
  <1> HIDE DEF G
  <1>6. 0 \in T
    BY <1>4, <1>5
  <1>7. \A i \in Nat : i \in T => i + 1 \in T
    <2> SUFFICES ASSUME NEW i \in Nat, i \in T, (i + 1) + 1 <= k PROVE o[(i + 1) + 1] = G[i + 1]
      OBVIOUS
    <2>1. i + 1 <= k /\ i + 1 < k /\ (i + 1) + 1 \in 1 .. k /\ (i + 1) + 1 # 1 /\ ((i + 1) + 1) - 1 = i + 1
      OBVIOUS
    <2>2. o[i + 1] = G[i]
      BY <2>1
    <2>3. o[(i + 1) + 1] = Turn(o[((i + 1) + 1) - 1], (i + 1) + 1)
      BY <1>4, <2>1
    <2>4. o[(i + 1) + 1] = o[i + 1] + C[c[i + 1]].size
      BY <2>1, <2>3
    <2> QED BY <1>5, <2>2, <2>4
  <1> HIDE DEF T
  <1>8. k - 1 \in T
    BY <1>6, <1>7, NatInSet
  <1>9. o[k] = G[k - 1]
    <2>1. (k - 1) + 1 = k
      OBVIOUS
    <2> QED BY <1>8, <2>1 DEF T
  <1> QED BY <1>1, <1>9 DEF G

\* Parts that are not empty lie one behind the other.
LEMMA OffsetGrows ==
    ASSUME NEW C, NEW c, NEW m \in Nat, \A i \in 1 .. m : C[c[i]].size \in Nat /\ C[c[i]].size # 0,
           NEW i \in 1 .. m, NEW k \in 1 .. m, i # k
    PROVE  OffsetIn(C, c, i) # OffsetIn(C, c, k)
  <1> DEFINE G == Sums(C, c)
             T == {b \in Nat : b < m => G[b] \in Nat /\ \A a \in Nat : a < b => G[a] \in Nat /\ G[a] < G[b]}
  <1>1. G[0] = 0 /\ \A b \in Nat : G[b + 1] = G[b] + C[c[b + 1]].size
    BY SumsStep
  <1>2. OffsetIn(C, c, i) = G[i - 1] /\ OffsetIn(C, c, k) = G[k - 1]
    BY OffsetSum
  <1> HIDE DEF G
  <1>3. 0 \in T
    BY <1>1
  <1>4. \A b \in Nat : b \in T => b + 1 \in T
    <2> SUFFICES ASSUME NEW b \in Nat, b \in T, b + 1 < m
                 PROVE  G[b + 1] \in Nat /\ \A a \in Nat : a < b + 1 => G[a] \in Nat /\ G[a] < G[b + 1]
      OBVIOUS
    <2>1. b < m /\ b + 1 \in 1 .. m
      OBVIOUS
    <2>2. G[b] \in Nat /\ \A a \in Nat : a < b => G[a] \in Nat /\ G[a] < G[b]
      BY <2>1
    <2>3. G[b + 1] = G[b] + C[c[b + 1]].size /\ C[c[b + 1]].size \in Nat /\ C[c[b + 1]].size # 0
      BY <1>1, <2>1
    <2>4. G[b + 1] \in Nat /\ G[b] < G[b + 1]
      BY <2>2, <2>3
    <2>5. ASSUME NEW a \in Nat, a < b + 1 PROVE G[a] \in Nat /\ G[a] < G[b + 1]
      <3>1. a = b \/ a < b
        BY <2>5
      <3> QED BY <2>2, <2>4, <3>1
    <2> QED BY <2>4, <2>5
  <1> HIDE DEF T
  <1>5. i - 1 \in T /\ k - 1 \in T
    BY <1>3, <1>4, NatInSet
  <1>6. /\ i - 1 \in Nat /\ k - 1 \in Nat /\ i - 1 < m /\ k - 1 < m /\ (i - 1 < k - 1 \/ k - 1 < i - 1)
    OBVIOUS
  <1>7. /\ i - 1 < k - 1 => G[i - 1] < G[k - 1] /\ G[i - 1] \in Nat /\ G[k - 1] \in Nat
        /\ k - 1 < i - 1 => G[k - 1] < G[i - 1] /\ G[i - 1] \in Nat /\ G[k - 1] \in Nat
    BY <1>5, <1>6 DEF T
  <1>8. G[i - 1] # G[k - 1]
    BY <1>6, <1>7
  <1> QED BY <1>2, <1>8

\* The first m candidates have the same sizes in B and in C.
SameSizes(B, C, c, m) == \A i \in 1 .. m : B[c[i]].size = C[c[i]].size

\* Offsets depend on the sizes only.
LEMMA OffsetSame ==
    ASSUME NEW C, NEW B, NEW c, NEW m \in Nat, SameSizes(B, C, c, m), NEW k \in 1 .. m
    PROVE  OffsetIn(B, c, k) = OffsetIn(C, c, k)
  <1> DEFINE F == Sums(B, c)
             G == Sums(C, c)
             T == {b \in Nat : b < m => F[b] = G[b]}
  <1>1. /\ G[0] = 0 /\ \A b \in Nat : G[b + 1] = G[b] + C[c[b + 1]].size
        /\ F[0] = 0 /\ \A b \in Nat : F[b + 1] = F[b] + B[c[b + 1]].size
    BY SumsStep
  <1>2. OffsetIn(B, c, k) = F[k - 1] /\ OffsetIn(C, c, k) = G[k - 1]
    BY OffsetSum
  <1> HIDE DEF F, G
  <1>3. 0 \in T
    BY <1>1
  <1>4. \A b \in Nat : b \in T => b + 1 \in T
    <2> SUFFICES ASSUME NEW b \in Nat, b \in T, b + 1 < m PROVE F[b + 1] = G[b + 1]
      OBVIOUS
    <2>1. b < m /\ b + 1 \in 1 .. m
      OBVIOUS
    <2>2. F[b] = G[b] /\ B[c[b + 1]].size = C[c[b + 1]].size
      BY <2>1 DEF SameSizes
    <2> QED BY <1>1, <2>2
  <1> HIDE DEF T
  <1>5. k - 1 \in T
    BY <1>3, <1>4, NatInSet
  <1>6. k - 1 < m /\ k - 1 \in Nat
    OBVIOUS
  <1> QED BY <1>2, <1>5, <1>6 DEF T

\* The sizes of the candidates.
LEMMA CandidateSizes ==
    ASSUME TypeInv, LogInv, DataInv, tpc \notin {"idle", "copy"}
    PROVE  /\ job.cand \in Seq(Fids) /\ DOMAIN job.cand = 1 .. Len(job.cand) /\ Len(job.cand) \in Nat
           /\ \A k \in 1 .. Len(job.cand) :
                /\ job.cand[k] \in Fids /\ confirmed[job.cand[k]] # NoRef
                /\ RefExtent(confirmed[job.cand[k]]) \in intervals
                /\ confirmed[job.cand[k]].size \in Nat /\ confirmed[job.cand[k]].size # 0
  <1>1. up /\ job.cand \in Seq(Fids)
    BY TrimTail
  <1>2. Memory(confirmed, intervals)
    BY <1>1 DEF DataInv, ViewInv, View, ViewRefs, ViewExts
  <1>3. \A k \in DOMAIN job.cand : job.cand[k] \in Fids /\ confirmed[job.cand[k]] # NoRef
    BY CandidatesServed
  <1>4. confirmed \in [Fids -> Refs]
    BY DEF TypeInv, MemTypes
  <1>5. \A f \in Fids : confirmed[f].size \in Nat
    BY <1>4 DEF Refs
  <1>6. DOMAIN job.cand = 1 .. Len(job.cand) /\ Len(job.cand) \in Nat
    BY <1>1
  <1> QED BY <1>1, <1>2, <1>3, <1>5, <1>6 DEF Memory

\* The sizes of the objects that go into a container.
Sized(C, c, m) == m \in Nat /\ DOMAIN c = 1 .. m /\ \A i \in 1 .. m : C[c[i]].size \in Nat \ {0}

\* The parts are the candidates' bytes, one behind the other.
PartsOf(g, C, c, ps, m) ==
    /\ DOMAIN ps = 1 .. m
    /\ \A k \in 1 .. m : ps[k].offset = OffsetIn(C, c, k) /\ ps[k].data = Deliver(Disk, g, C[c[k]])

\* Only one part is at an offset.
LEMMA PartOffset ==
    ASSUME NEW g, NEW C, NEW c, NEW m, Sized(C, c, m), NEW ps, PartsOf(g, C, c, ps, m), NEW k \in 1 .. m
    PROVE  PartAt(Container(ps), OffsetIn(C, c, k), k)
  <1> DEFINE v == Container(ps)
             o == OffsetIn(C, c, k)
  <1>1. v.kind = "container" /\ v.parts = ps
    BY DEF Container
  <1>2. ASSUME NEW i \in 1 .. m, ps[i].offset = o PROVE i = k
    <2>1. OffsetIn(C, c, i) = o
      BY <1>2 DEF PartsOf
    <2>2. m \in Nat /\ \A l \in 1 .. m : C[c[l]].size \in Nat /\ C[c[l]].size # 0
      BY DEF Sized
    <2>3. i # k => OffsetIn(C, c, i) # OffsetIn(C, c, k)
      BY <2>2, OffsetGrows
    <2> QED BY <2>1, <2>3
  <1>3. DOMAIN ps = 1 .. m /\ ps[k].offset = o
    BY DEF PartsOf
  <1> HIDE DEF v, o
  <1>4. PartAt(v, o, k)
    BY <1>1, <1>2, <1>3 DEF PartAt
  <1> QED BY <1>4 DEF v, o

\* What the container has under the reference to a candidate.
LEMMA PartDelivered ==
    ASSUME NEW g, NEW C, NEW c, NEW m, Sized(C, c, m), NEW ps, PartsOf(g, C, c, ps, m), NEW k \in 1 .. m,
           NEW h, NEW j, j.cand = c, Holds(h, OwnContainer(j), Container(ps))
    PROVE  Deliver(Disk, h, PartRef(C, j, k)) = Deliver(Disk, g, C[c[k]])
  <1> DEFINE ref == PartRef(C, j, k)
             v == Container(ps)
  <1>1. ref.packed /\ ref.offset = OffsetIn(C, c, k) /\ ref.fid = j.container /\ ref.storedSize = j.containerSize
    BY DEF PartRef
  <1>2. RefExtent(ref) = RefExtent(OwnContainer(j))
    BY <1>1 DEF RefExtent, OwnContainer, Own
  <1>3. v.parts = ps
    BY DEF Container
  <1>4. PartAt(v, ref.offset, k)
    BY <1>1, PartOffset
  <1>5. ps[k].data = Deliver(Disk, g, C[c[k]])
    BY DEF PartsOf
  <1> HIDE DEF ref, v
  <1>6. Holds(h, ref, v)
    BY <1>2 DEF Holds, v
  <1>7. Deliver(Disk, h, ref) = v.parts[k].data
    BY <1>1, <1>4, <1>6, DeliverFilled
  <1> QED BY <1>3, <1>5, <1>7 DEF ref

\* The container is written.
LEMMA WriteContainerData ==
    ASSUME WholeWrites, TypeInv, LogInv, DataInv, WriteContainer
    PROVE  DataInv'
  <1> DEFINE C == confirmed
             c == job.cand
             m == Len(c)
  <1>p. /\ up /\ tpc = "container" /\ tpc' = "containerSync"
        /\ UNCHANGED <<confirmed, intervals, pendingIntervals, indexEnd, indexErr, pc, up>>
    BY DEF WriteContainer, memVars
  <1>q. PICK f \in TrimFids, o \in 0 .. MaxNonce :
            /\ StoreObject(f, TotalSize(job.cand) + 8 * o, Container(Parts(job.cand)))
            /\ job' = [job EXCEPT !.container = f, !.containerSize = TotalSize(job.cand) + 8 * o]
    BY Zenon DEF WriteContainer
  <1> DEFINE s == TotalSize(job.cand) + 8 * o
             x == Extent(Disk, f, s)
             ps == Parts(c)
  <1>0. job \in Jobs
    BY <1>p, TrimTail
  <1>1. /\ c \in Seq(Fids) /\ DOMAIN c = 1 .. m /\ m \in Nat
        /\ \A k \in 1 .. m : /\ c[k] \in Fids /\ C[c[k]] # NoRef /\ RefExtent(C[c[k]]) \in intervals
                             /\ C[c[k]].size \in Nat /\ C[c[k]].size # 0
    BY <1>p, CandidateSizes
  <1>2. f \in Fids /\ s \in Nat
    <2>1. TotalSize(job.cand) \in Nat
      BY <1>p, <1>1, TotalTyped DEF TypeInv, MemTypes, JobInv
    <2> QED BY <2>1, TrimAssumption
  <1>3. StoreObject(f, s, Container(ps))
    BY <1>q
  <1>4. /\ job'.container = f /\ job'.containerSize = s /\ job'.cand = c
    <2>1. job' = [job EXCEPT !.container = f, !.containerSize = s]
      BY <1>q
    <2> HIDE DEF s
    <2> QED BY <1>0, <2>1 DEF Jobs
  <1>5. PartsOf(grid, C, c, ps, m) /\ Sized(C, c, m)
    <2>1. Sized(C, c, m)
      BY <1>1 DEF Sized
    <2>2. \A k \in DOMAIN c : Offset(c, k) = OffsetIn(C, c, k)
      BY Zenon DEF Offset, OffsetIn
    <2> HIDE DEF c, m
    <2>3. DOMAIN ps = 1 .. m
      BY <1>1 DEF Parts
    <2>4. ASSUME NEW k \in 1 .. m
          PROVE  ps[k].offset = OffsetIn(C, c, k) /\ ps[k].data = Deliver(Disk, grid, C[c[k]])
      <3>1. k \in DOMAIN c
        BY <1>1
      <3>2. ps[k] = [fid |-> c[k], offset |-> Offset(c, k), size |-> C[c[k]].size,
                     data |-> Deliver(Disk, grid, C[c[k]])]
        BY <3>1, Zenon DEF Parts, Bytes
      <3> HIDE DEF ps
      <3> QED BY <2>2, <3>1, <3>2
    <2> QED BY <2>1, <2>3, <2>4 DEF PartsOf
  <1>u. Usable(f, s)
    BY <1>3, Zenon DEF StoreObject
  <1>y. C[f] = NoRef
    BY <1>u DEF Usable
  <1> HIDE DEF s, c, m, C, ps
  <1>6. /\ ~indexErr' /\ ViewInv' /\ SpaceInv' /\ Base' = Base /\ dirty' = {} /\ Extents' = Extents
        /\ Proper(x) /\ FreeIn(Extents, x)
        /\ Carries(grid, dirty, confirmed, intervals, grid', {}, confirmed, intervals)
        /\ \A i \in SlotsIn(x) : grid'[i] = Container(ps)
        /\ \A t \in Fids : InTables(Base, t) => TableAt(grid', Base, t) = TableAt(grid, Base, t)
    BY <1>p, <1>2, <1>3, StoreObjectData
  <1>7. RefExtent(OwnContainer(job')) = x
    BY <1>2, <1>4, OwnRefs, IndexAssumption DEF OwnContainer
  <1>8. Packed(grid', C, job')
    <2> SUFFICES ASSUME NEW k \in 1 .. m
                 PROVE  /\ job'.cand[k] # job'.container
                        /\ Deliver(Disk, grid', PartRef(C, job', k)) = Deliver(Disk, grid', C[job'.cand[k]])
      BY <1>1, <1>4 DEF Packed
    <2>1. job'.cand[k] = c[k] /\ c[k] # f
      BY <1>1, <1>4, <1>y
    <2> DEFINE j == job'
               h == grid'
    <2>3. j.cand = c
      BY <1>4
    <2>4. Holds(h, OwnContainer(j), Container(ps))
      BY <1>6, <1>7 DEF Holds
    <2>j. j = job' /\ h = grid'
      OBVIOUS
    <2> HIDE DEF j, h
    <2>5. Deliver(Disk, h, PartRef(C, j, k)) = Deliver(Disk, grid, C[c[k]])
      BY <1>5, <2>3, <2>4, PartDelivered
    <2>6. Deliver(Disk, grid', C[c[k]]) = Deliver(Disk, grid, C[c[k]])
      BY <1>1, <1>6 DEF Carries
    <2> QED BY <1>4, <2>1, <2>5, <2>6, <2>j
  <1>9. Away(grid', Base', job')
    <2>1. Away(grid, Base, job)
      BY <1>p DEF DataInv, WorkInv, Work
    <2> QED BY <1>4, <1>6, <2>1 DEF Away, c
  <1>10. WorkInv'
    <2>1. Work("containerSync", grid', dirty', C, Extents', job', Base', Finals')
      BY <1>6, <1>7, <1>8, <1>9 DEF Work
    <2> QED BY <1>p, <2>1 DEF WorkInv, C
  <1> QED BY <1>6, <1>10 DEF DataInv

\* The table is written.
LEMMA WriteTableData ==
    ASSUME WholeWrites, TypeInv, LogInv, DataInv, WriteTable
    PROVE  DataInv'
  <1> DEFINE C == confirmed
             c == job.cand
             s == TableBytes(Len(job.cand))
  <1>p. /\ up /\ tpc = "table" /\ tpc' = "tableSync"
        /\ UNCHANGED <<confirmed, intervals, pendingIntervals, indexEnd, indexErr, pc, up>>
    BY DEF WriteTable, memVars
  <1>q. PICK f \in TrimFids :
            /\ StoreObject(f, s, TableValue)
            /\ job' = [job EXCEPT !.table = f, !.tableSize = s]
    BY Zenon DEF WriteTable
  <1> DEFINE x == Extent(Disk, f, s)
  <1>0. job \in Jobs /\ \A k \in DOMAIN c : c[k] \in Fids /\ C[c[k]] # NoRef
    BY <1>p, TrimTail, CandidatesServed
  <1>1. f \in Fids /\ s \in Nat
    BY <1>p, TableValueTyped, TrimAssumption
  <1>2. TableValue = TableOf(C, job)
    <2> DEFINE es == [k \in DOMAIN c |-> [fid |-> c[k], offset |-> Parts(c)[k].offset,
                                          size |-> Parts(c)[k].size]]
               ez == [k \in DOMAIN c |-> [fid |-> c[k], offset |-> OffsetIn(C, c, k), size |-> C[c[k]].size]]
    <2>1. TableValue = Table(job.container, job.containerSize, es)
          /\ TableOf(C, job) = Table(job.container, job.containerSize, ez)
      BY Zenon DEF TableValue, TableOf
    <2>2. \A k \in DOMAIN c : Offset(c, k) = OffsetIn(C, c, k)
      BY Zenon DEF Offset, OffsetIn
    <2> HIDE DEF c
    <2>3. \A k \in DOMAIN c : Parts(c)[k].offset = OffsetIn(C, c, k) /\ Parts(c)[k].size = C[c[k]].size
      <3> SUFFICES ASSUME NEW k \in DOMAIN c
                   PROVE  Parts(c)[k].offset = OffsetIn(C, c, k) /\ Parts(c)[k].size = C[c[k]].size
        OBVIOUS
      <3>1. Parts(c)[k] = [fid |-> c[k], offset |-> Offset(c, k), size |-> C[c[k]].size,
                           data |-> Bytes(C[c[k]])]
        BY Zenon DEF Parts
      <3>2. Parts(c)[k].offset = Offset(c, k) /\ Parts(c)[k].size = C[c[k]].size
        BY <3>1
      <3> QED BY <2>2, <3>2
    <2>4. es = ez
      BY <2>3
    <2> HIDE DEF es, ez
    <2> QED BY <2>1, <2>4
  <1>3. /\ ContainerIn(dirty, C, Base, job) /\ Packed(grid, C, job) /\ Away(grid, Base, job)
    BY <1>p DEF DataInv, WorkInv, Work
  <1>u. Memory(C, intervals)
    BY <1>p DEF DataInv, ViewInv, View, ViewRefs, ViewExts
  <1>v. Placed(job.container, job.containerSize)
    BY <1>p DEF TypeInv, JobInv
  <1> HIDE DEF s
  <1>4. /\ job'.table = f /\ job'.tableSize = s /\ job'.cand = job.cand /\ job'.container = job.container
        /\ job'.containerSize = job.containerSize
    BY <1>q, <1>0 DEF Jobs
  <1>5. /\ ~indexErr' /\ ViewInv' /\ SpaceInv' /\ Base' = Base /\ dirty' = {} /\ Extents' = Extents
        /\ Proper(x) /\ FreeIn(Extents, x)
        /\ Carries(grid, dirty, confirmed, intervals, grid', {}, confirmed, intervals)
        /\ \A i \in SlotsIn(x) : grid'[i] = TableValue
        /\ \A t \in Fids : InTables(Base, t) => TableAt(grid', Base, t) = TableAt(grid, Base, t)
    BY <1>p, <1>q, <1>1, StoreObjectData
  <1> HIDE DEF C, c
  <1>6. OwnContainer(job') = OwnContainer(job) /\ OwnTable(job') = Own(f, s) /\ TableOf(C, job') = TableOf(C, job)
        /\ \A k : PartRef(C, job', k) = PartRef(C, job, k)
    BY <1>4, Zenon DEF OwnContainer, OwnTable, TableOf, PartRef
  <1>7. RefExtent(OwnTable(job')) = x /\ ~OwnTable(job').packed
    BY <1>1, <1>6, OwnRefs, IndexAssumption
  <1>8. TableIn(grid', C, job')
    <2> DEFINE ref == OwnTable(job')
               h == grid'
    <2>0. Holds(h, ref, TableValue) /\ ~ref.packed
      BY <1>5, <1>7 DEF Holds
    <2>1. Deliver(Disk, grid', OwnTable(job')) = TableValue
      <3> HIDE DEF ref, h
      <3>1. Deliver(Disk, h, ref) = TableValue
        BY <2>0, DeliverFilled
      <3> QED BY <3>1 DEF ref, h
    <2> QED BY <1>2, <1>6, <2>1 DEF TableIn
  <1>9. ContainerIn(dirty', C, Base', job')
    <2>1. \A ref : Clean({}, ref)
      BY DEF Clean, Dry
    <2> QED BY <1>3, <1>4, <1>5, <1>6, <2>1 DEF ContainerIn
  <1>10. Packed(grid', C, job')
    <2> SUFFICES ASSUME NEW k \in DOMAIN c
                 PROVE  /\ job'.cand[k] # job'.container
                        /\ Deliver(Disk, grid', PartRef(C, job', k)) = Deliver(Disk, grid', C[job'.cand[k]])
      BY <1>4 DEF Packed, c
    <2>1. /\ c[k] # job.container /\ job'.cand[k] = c[k]
          /\ Deliver(Disk, grid, PartRef(C, job, k)) = Deliver(Disk, grid, C[c[k]])
      BY <1>3, <1>4 DEF Packed, c
    <2>2. RefExtent(PartRef(C, job, k)) \in intervals
      <3>1. C[job.container] = OwnContainer(job) /\ job.container \in Fids /\ job.containerSize \in Nat
        BY <1>3, <1>v DEF ContainerIn, Placed
      <3>2. OwnContainer(job) # NoRef /\ RefExtent(OwnContainer(job)) = Extent(Disk, job.container, job.containerSize)
        <4>1. job.container \in Nat /\ job.container # 0
          BY <3>1, IndexAssumption
        <4> QED BY <3>1, <4>1, OwnRefs DEF OwnContainer
      <3>3. RefExtent(PartRef(C, job, k)) = Extent(Disk, job.container, job.containerSize)
        BY DEF RefExtent, PartRef
      <3> QED BY <1>u, <3>1, <3>2, <3>3 DEF Memory
    <2>3. RefExtent(C[c[k]]) \in intervals
      BY <1>0, <1>u DEF Memory, C, c
    <2> QED BY <1>4, <1>5, <1>6, <2>1, <2>2, <2>3 DEF Carries
  <1>11. Away(grid', Base', job')
    BY <1>3, <1>4, <1>5 DEF Away
  <1>12. FreeIn(Extents', RefExtent(OwnTable(job')))
    BY <1>5, <1>7
  <1>13. WorkInv'
    <2>1. Work("tableSync", grid', dirty', C, Extents', job', Base', Finals')
      BY <1>8, <1>9, <1>10, <1>11, <1>12 DEF Work
    <2> QED BY <1>p, <2>1 DEF WorkInv, C
  <1> QED BY <1>5, <1>13 DEF DataInv

-----------------------------------------------------------------------------
(* The objects of Trim are published.                                      *)

\* The references of the candidates stay, and what the container and the table
\* are about.
LEMMA SameParts ==
    ASSUME NEW C, NEW B, NEW j, NEW m \in Nat, DOMAIN j.cand = 1 .. m,
           \A k \in 1 .. m : B[j.cand[k]] = C[j.cand[k]]
    PROVE  /\ \A k \in DOMAIN j.cand : PartRef(B, j, k) = PartRef(C, j, k)
           /\ TableOf(B, j) = TableOf(C, j)
           /\ \A g : Packed(g, C, j) => Packed(g, B, j)
           /\ \A g : TableIn(g, C, j) => TableIn(g, B, j)
  <1>1. \A k \in 1 .. m : B[j.cand[k]].size = C[j.cand[k]].size
    OBVIOUS
  <1>2. \A k \in DOMAIN j.cand : OffsetIn(B, j.cand, k) = OffsetIn(C, j.cand, k)
    <2> DEFINE c == j.cand
    <2>1. SameSizes(B, C, c, m)
      BY <1>1 DEF SameSizes
    <2> HIDE DEF c
    <2>2. ASSUME NEW k \in 1 .. m PROVE OffsetIn(B, c, k) = OffsetIn(C, c, k)
      BY <2>1, OffsetSame
    <2> QED BY <2>2 DEF c
  <1>3. ASSUME NEW k \in DOMAIN j.cand PROVE PartRef(B, j, k) = PartRef(C, j, k)
    BY <1>1, <1>2 DEF PartRef
  <1>4. TableOf(B, j) = TableOf(C, j)
    <2> DEFINE es(X) == [k \in DOMAIN j.cand |-> [fid |-> j.cand[k], offset |-> OffsetIn(X, j.cand, k),
                                                  size |-> X[j.cand[k]].size]]
    <2>1. es(B) = es(C)
      BY <1>1, <1>2
    <2>2. TableOf(B, j) = Table(j.container, j.containerSize, es(B))
          /\ TableOf(C, j) = Table(j.container, j.containerSize, es(C))
      BY Zenon DEF TableOf
    <2> HIDE DEF es
    <2> QED BY <2>1, <2>2
  <1>5. ASSUME NEW g, Packed(g, C, j) PROVE Packed(g, B, j)
    BY <1>3, <1>5 DEF Packed
  <1>6. ASSUME NEW g, TableIn(g, C, j) PROVE TableIn(g, B, j)
    BY <1>4, <1>6 DEF TableIn
  <1> QED BY <1>3, <1>4, <1>5, <1>6, Zenon

\* An object of Trim's own is published.
LEMMA PublishObjectData ==
    ASSUME WholeWrites, TypeInv, LogInv, DataInv, tpc \in {"containerSync", "tableSync"},
           NEW f \in Fids, NEW s \in Nat, AddrOK(Disk, f, s), idx[indexEnd + 1] = Plain(f, s),
           End(idx) = indexEnd + 1, confirmed[f] = NoRef, FreeIn(Extents, Extent(Disk, f, s)),
           PublishObject(f, s), UNCHANGED <<pendingIntervals, indexErr, grid, pc, job, up>>,
           tpc' \in {"table", "anchor"}
    PROVE  /\ ~indexErr' /\ ViewInv' /\ SpaceInv' /\ dirty' = {}
           /\ Base'.refs[f] = Own(f, s) /\ confirmed'[f] = Own(f, s)
           /\ \A g \in Fids : confirmed[g] # NoRef =>
                confirmed'[g] = confirmed[g] /\ Base'.refs[g] = Base.refs[g]
           /\ \A t \in Fids : InTables(Base', t) =>
                InTables(Base, t) /\ TableAt(grid, Base', t) = TableAt(grid, Base, t)
  <1> DEFINE n == indexEnd
             x == Extent(Disk, f, s)
             C == confirmed
             B == confirmed'
             I == intervals
             J == I \cup {x}
             q == Final(idx)
  <1>1. Sync /\ B = [C EXCEPT ![f] = Own(f, s)] /\ indexEnd' = n + 1 /\ intervals' = J
    BY DEF PublishObject
  <1>2. /\ Sound(idx) /\ n \in Nat /\ ~Mid(At(idx, n)) /\ up /\ ~indexErr /\ IndexTypes
        /\ \A p \in Puts : pc[p] # "sync"
    BY TrimTail
  <1>3. idx' = idx /\ media'[0] = {idx} /\ dirty' = {} /\ C \in [Fids -> Refs]
    BY <1>1, <1>2, WriteFacts DEF TypeInv, IndexTypes, MemTypes, Sync
  <1>4. /\ Own(f, s) # NoRef /\ RefExtent(Own(f, s)) = x /\ Own(f, s).size = s /\ s # 0 /\ Proper(x)
    <2>1. f \in Nat /\ f # 0
      BY IndexAssumption
    <2> QED BY <2>1, OwnRefs, PlacedProper
  <1>5. Now = q /\ Base = At(idx, n) /\ Now' = q /\ Base' = q /\ Finals' = {q}
    <2>1. Now = q /\ Base = At(idx, n)
      BY <1>2 DEF Now, Base
    <2>2. Now' = q
      BY <1>2, <1>3 DEF Now
    <2>3. Base' = q
      BY <1>1, <1>2, <1>3 DEF Base, Final
    <2>4. Settled(idx) = q
      BY <1>2, WholeSettled DEF LogInv
    <2>5. Finals' = {q}
      BY <1>3, <2>4 DEF Finals
    <2> QED BY <2>1, <2>2, <2>3, <2>5
  <1>6. /\ Adds(At(idx, n), q, {f}, ExtentFor(Disk, Plain(f, s)))
        /\ q.refs[f] = Own(f, s)
    <2>1. Plain(f, s).kind = "plain" /\ Plain(f, s).fid = f /\ Plain(f, s).size = s
      BY DEF Plain, Entry
    <2>2. idx[n + 1].kind = "plain" /\ idx[n + 1].fid = f /\ idx[n + 1].size = s
      BY <2>1
    <2>3. /\ Adds(At(idx, n), q, {idx[n + 1].fid}, ExtentFor(Disk, idx[n + 1]))
          /\ q.refs[idx[n + 1].fid] = Own(idx[n + 1].fid, idx[n + 1].size)
      BY <1>2, <2>2, PlainAdds
    <2> QED BY <2>1, <2>3
  <1>x. ExtentFor(Disk, Plain(f, s)).iv = x /\ FreeIn(Extents, x)
    BY DEF ExtentFor, Plain, Entry
  <1>7. ViewRefs = C /\ ViewExts = I /\ ViewRefs' = B /\ ViewExts' = J
    BY <1>1, <1>2 DEF ViewRefs, ViewExts
  <1>a. Acked' = Acked /\ Holders' = Holders /\ C[f] = NoRef
    BY DEF Acked, Holders
  <1> HIDE DEF x, C, B, I, J, n, q
  <1>8. View(grid, dirty, C, I, Acked, Now, Base, Finals) /\ SpaceInv
    BY <1>7 DEF DataInv, ViewInv
  <1>9. FreeIn(I, x)
    BY <1>x DEF FreeIn, Extents, I
  <1>10. Takes(C, B, {f}, x)
    <2>1. B[f] = Own(f, s) /\ \A g \in Fids : g # f => B[g] = C[g]
      BY <1>1, <1>3
    <2> QED BY <1>4, <1>a, <2>1 DEF Takes
  <1>11. Memory(B, J) /\ Carries(grid, dirty, C, I, grid, {}, B, J)
    <2>1. Memory(C, I)
      BY <1>8 DEF View
    <2> QED BY <1>4, <1>9, <1>10, <2>1, TakesOver DEF J
  <1>12. B[f] = Own(f, s) /\ \A g \in Fids : C[g] # NoRef => B[g] = C[g] /\ q.refs[g] = Base.refs[g]
    BY <1>1, <1>3, <1>5, <1>6, <1>a DEF Adds
  <1>13. ViewInv'
    <2>1. Current(grid, dirty, C, I, q) /\ Serves(grid, B, Acked)
      BY <1>5, <1>8, <1>11, CarriesServes DEF View
    <2>2. \A g \in Fids : B[g] # NoRef => C[g] # NoRef \/ q.refs[g] = B[g]
      BY <1>6, <1>10, <1>12 DEF Takes
    <2>3. \A y \in q.exts : y.iv \in J
      <3>1. \A y \in Base.exts : y.iv \in I
        BY <1>8 DEF View
      <3>2. \A y \in q.exts : y \in Base.exts \/ y = ExtentFor(Disk, Plain(f, s))
        BY <1>5, <1>6 DEF Adds
      <3> QED BY <1>x, <3>1, <3>2 DEF J
    <2>4. View(grid, {}, B, J, Acked, q, q, {q})
      BY <1>11, <2>1, <2>2, <2>3, ViewSettle
    <2> QED BY <1>3, <1>5, <1>7, <1>a, <2>4 DEF ViewInv
  <1>14. SpaceInv'
    <2>1. Extents' = Extents \cup {x}
      BY <1>1 DEF Extents, J, I
    <2>2. x \notin Extents
      BY <1>4, <1>x, FreeIsNew
    <2>3. Apart(Extents')
      BY <1>x, <1>8, <2>1 DEF SpaceInv, Apart, FreeIn, Overlaps
    <2>4. intervals' \cap pendingIntervals' = {}
      BY <1>1, <1>8, <2>2 DEF SpaceInv, Extents, J, I
    <2>5. \A p \in Puts : pc'[p] # "sync"
      BY <1>2
    <2> QED BY <1>2, <1>8, <1>a, <2>3, <2>4, <2>5 DEF SpaceInv
  <1>15. \A t \in Fids : InTables(q, t) => InTables(Base, t) /\ TableAt(grid, q, t) = TableAt(grid, Base, t)
    <2>1. TablesOK(grid, dirty, C, I, Base) /\ ExtsOK(Base) /\ ExtsOK(q)
      BY <1>5, <1>8 DEF View, Current
    <2>2. Extends(C, Base, q) /\ Extends(C, Base, Base)
      BY <1>5, <1>6, <1>12, <2>1 DEF Extends, Adds
    <2> QED BY <2>1, <2>2, ExtendsTables
  <1>16. ~indexErr'
    BY <1>2
  <1> QED BY <1>3, <1>5, <1>6, <1>12, <1>13, <1>14, <1>15, <1>16 DEF B, C

\* The container is synced.
LEMMA ContainerSyncedData ==
    ASSUME WholeWrites, TypeInv, LogInv, DataInv, ContainerSynced
    PROVE  DataInv'
  <1> DEFINE f == job.container
             s == job.containerSize
             C == confirmed
             B == confirmed'
  <1>p. /\ up /\ tpc = "containerSync" /\ PublishObject(f, s) /\ tpc' = "table"
        /\ UNCHANGED <<pendingIntervals, indexErr, grid, pc, job, up>>
    BY DEF ContainerSynced
  <1>1. TailInv /\ Placed(f, s)
    BY <1>p, TrimTail DEF TypeInv, JobInv
  <1>2. /\ f \in Fids /\ s \in Nat /\ AddrOK(Disk, f, s)
        /\ idx[indexEnd + 1] = Plain(f, s) /\ End(idx) = indexEnd + 1 /\ C[f] = NoRef
    BY <1>p, <1>1 DEF TailInv, Placed
  <1>3. Away(grid, Base, job) /\ Packed(grid, C, job) /\ FreeIn(Extents, RefExtent(OwnContainer(job)))
    BY <1>p DEF DataInv, WorkInv, Work
  <1>4. RefExtent(OwnContainer(job)) = Extent(Disk, f, s)
    <2>1. f \in Nat /\ f # 0
      BY <1>2, IndexAssumption
    <2> QED BY <1>2, <2>1, OwnRefs DEF OwnContainer
  <1>5. /\ DOMAIN job.cand = 1 .. Len(job.cand) /\ Len(job.cand) \in Nat
        /\ \A k \in 1 .. Len(job.cand) : job.cand[k] \in Fids /\ C[job.cand[k]] # NoRef
    BY <1>p, CandidateSizes
  <1> HIDE DEF f, s
  <1>6. /\ ~indexErr' /\ ViewInv' /\ SpaceInv' /\ dirty' = {}
        /\ Base'.refs[f] = Own(f, s) /\ B[f] = Own(f, s)
        /\ \A g \in Fids : C[g] # NoRef => B[g] = C[g] /\ Base'.refs[g] = Base.refs[g]
        /\ \A t \in Fids : InTables(Base', t) =>
             InTables(Base, t) /\ TableAt(grid, Base', t) = TableAt(grid, Base, t)
    BY <1>p, <1>2, <1>3, <1>4, PublishObjectData
  <1> HIDE DEF C, B
  <1>7. Packed(grid, B, job)
    <2>1. \A k \in 1 .. Len(job.cand) : B[job.cand[k]] = C[job.cand[k]]
      BY <1>5, <1>6
    <2> QED BY <1>3, <1>5, <2>1, SameParts
  <1>8. Away(grid, Base', job)
    BY <1>3, <1>6 DEF Away
  <1>9. ContainerIn({}, B, Base', job)
    <2>1. \A ref : Clean({}, ref)
      BY DEF Clean, Dry
    <2> QED BY <1>6, <2>1 DEF ContainerIn, OwnContainer, f, s
  <1>10. WorkInv'
    <2>1. Work("table", grid, {}, B, Extents', job, Base', Finals')
      BY <1>7, <1>8, <1>9 DEF Work
    <2> QED BY <1>p, <1>6, <2>1 DEF WorkInv, B
  <1> QED BY <1>6, <1>10 DEF DataInv

\* The table is synced.
LEMMA TableSyncedData ==
    ASSUME WholeWrites, TypeInv, LogInv, DataInv, TableSynced
    PROVE  DataInv'
  <1> DEFINE f == job.table
             s == job.tableSize
             C == confirmed
             B == confirmed'
  <1>p. /\ up /\ tpc = "tableSync" /\ PublishObject(f, s) /\ tpc' = "anchor"
        /\ UNCHANGED <<pendingIntervals, indexErr, grid, pc, job, up>>
    BY DEF TableSynced
  <1>1. TailInv /\ Placed(f, s) /\ Placed(job.container, job.containerSize)
    BY <1>p, TrimTail DEF TypeInv, JobInv
  <1>2. /\ f \in Fids /\ s \in Nat /\ AddrOK(Disk, f, s)
        /\ idx[indexEnd + 1] = Plain(f, s) /\ End(idx) = indexEnd + 1 /\ C[f] = NoRef
        /\ job.container \in Fids /\ job.containerSize \in Nat
    BY <1>p, <1>1 DEF TailInv, Placed
  <1>3. /\ Away(grid, Base, job) /\ Packed(grid, C, job) /\ FreeIn(Extents, RefExtent(OwnTable(job)))
        /\ ContainerIn(dirty, C, Base, job) /\ TableIn(grid, C, job)
    BY <1>p DEF DataInv, WorkInv, Work
  <1>4. RefExtent(OwnTable(job)) = Extent(Disk, f, s) /\ OwnContainer(job) # NoRef
    <2>1. f \in Nat /\ f # 0 /\ job.container \in Nat /\ job.container # 0
      BY <1>2, IndexAssumption
    <2>2. OwnContainer(job) # NoRef
      BY <1>2, <2>1, OwnRefs DEF OwnContainer
    <2> QED BY <1>2, <2>1, <2>2, OwnRefs DEF OwnTable
  <1>5. /\ DOMAIN job.cand = 1 .. Len(job.cand) /\ Len(job.cand) \in Nat
        /\ \A k \in 1 .. Len(job.cand) : job.cand[k] \in Fids /\ C[job.cand[k]] # NoRef
    BY <1>p, CandidateSizes
  <1> HIDE DEF f, s
  <1>6. /\ ~indexErr' /\ ViewInv' /\ SpaceInv' /\ dirty' = {}
        /\ Base'.refs[f] = Own(f, s) /\ B[f] = Own(f, s)
        /\ \A g \in Fids : C[g] # NoRef => B[g] = C[g] /\ Base'.refs[g] = Base.refs[g]
        /\ \A t \in Fids : InTables(Base', t) =>
             InTables(Base, t) /\ TableAt(grid, Base', t) = TableAt(grid, Base, t)
    BY <1>p, <1>2, <1>3, <1>4, PublishObjectData
  <1> HIDE DEF C, B
  <1>7. Packed(grid, B, job) /\ TableIn(grid, B, job)
    <2>1. \A k \in 1 .. Len(job.cand) : B[job.cand[k]] = C[job.cand[k]]
      BY <1>5, <1>6
    <2> QED BY <1>3, <1>5, <2>1, SameParts
  <1>8. Away(grid, Base', job)
    BY <1>3, <1>6 DEF Away
  <1>c. \A ref : Clean({}, ref)
    BY DEF Clean, Dry
  <1>9. ContainerIn({}, B, Base', job)
    BY <1>2, <1>3, <1>4, <1>6, <1>c DEF ContainerIn
  <1>10. TableSafe({}, Base', job)
    BY <1>6, <1>c DEF TableSafe, OwnTable, f, s
  <1>11. WorkInv'
    <2>1. Work("anchor", grid, {}, B, Extents', job, Base', Finals')
      BY <1>7, <1>8, <1>9, <1>10 DEF Work
    <2> QED BY <1>p, <1>6, <2>1 DEF WorkInv, B
  <1> QED BY <1>6, <1>11 DEF DataInv

-----------------------------------------------------------------------------
(* The anchor.                                                             *)

\* Memory, the grid and the Puts stay.
LEMMA SameSpace ==
    ASSUME SpaceInv, UNCHANGED <<confirmed, intervals, pendingIntervals, grid, pc, up>>
    PROVE  SpaceInv' /\ Extents' = Extents /\ Acked' = Acked
  <1>1. Acked' = Acked /\ Holders' = Holders /\ Extents' = Extents
    BY DEF Acked, Holders, Extents
  <1> QED BY <1>1 DEF SpaceInv

\* The table that Trim has written is what the scan would find behind the
\* anchor.
LEMMA TableReady ==
    ASSUME NEW g, NEW D, NEW C, NEW I, Memory(C, I), NEW j,
           Placed(j.container, j.containerSize), Placed(j.table, j.tableSize),
           \A k \in DOMAIN j.cand : j.cand[k] \in Fids /\ C[j.cand[k]] # NoRef,
           NEW base, Packed(g, C, j), ContainerIn(D, C, base, j), TableIn(g, C, j), TableSafe(D, base, j),
           C[j.table] = OwnTable(j), NEW s, \A f \in Fids : s.refs[f] = base.refs[f]
    PROVE  /\ TableAt(g, s, j.table) = TableOf(C, j) /\ TableOK(g, D, C, I, s, j.table)
           /\ TableOf(C, j).container = j.container
           /\ \A k \in DOMAIN j.cand : Lists(TableOf(C, j), j.cand[k])
  <1> DEFINE v == TableOf(C, j)
             t == j.table
             c == j.container
             z == j.containerSize
             E == v.entries
  <1>1. /\ t \in Fids /\ t \in Nat /\ t # 0 /\ j.tableSize \in Nat
        /\ c \in Fids /\ c \in Nat /\ c # 0 /\ z \in Nat
    BY IndexAssumption DEF Placed
  <1>2. OwnTable(j) # NoRef /\ OwnContainer(j) # NoRef
    BY <1>1, OwnRefs DEF OwnTable, OwnContainer
  <1>3. /\ v.kind = "table" /\ v.container = c /\ v.size = z /\ DOMAIN E = DOMAIN j.cand
    BY DEF TableOf, Table
  <1>e. ASSUME NEW k \in DOMAIN j.cand
        PROVE  /\ E[k].fid = j.cand[k] /\ E[k].offset = OffsetIn(C, j.cand, k)
               /\ E[k].size = C[j.cand[k]].size
    <2>1. E[k] = [fid |-> j.cand[k], offset |-> OffsetIn(C, j.cand, k), size |-> C[j.cand[k]].size]
      BY DEF TableOf, Table
    <2> HIDE DEF E
    <2> QED BY <2>1
  <1>4. s.refs[t] = OwnTable(j) /\ s.refs[c] = OwnContainer(j) /\ C[c] = OwnContainer(j)
    BY <1>1 DEF TableSafe, ContainerIn
  <1>5. TableAt(g, s, t) = v
    BY <1>4 DEF TableAt, TableIn
  <1>6. RefExtent(OwnTable(j)) \in I /\ RefExtent(OwnContainer(j)) \in I
    BY <1>1, <1>2, <1>4 DEF Memory
  <1>7. /\ Match(g, I, OwnTable(j), OwnTable(j)) /\ Match(g, I, OwnContainer(j), OwnContainer(j))
        /\ Clean(D, OwnTable(j)) /\ Clean(D, OwnContainer(j))
    BY <1>2, <1>6 DEF Match, TableSafe, ContainerIn
  <1>8. \A k \in DOMAIN j.cand : Lists(v, j.cand[k])
    BY <1>3, <1>e DEF Lists
  <1>o. OwnContainer(j) = Own(v.container, v.size)
    BY <1>3, Zenon DEF OwnContainer
  <1> HIDE DEF v, E, t, c, z
  <1>9. ASSUME NEW f \in Fids, Lists(v, f)
        PROVE  C[f] # NoRef /\ Match(g, I, PackedRef(v, EntryFor(v, f)), C[f])
    <2>1. PICK k \in DOMAIN j.cand : E[k].fid = f /\ EntryFor(v, f) = E[k]
      <3>1. \E k \in DOMAIN E : E[k].fid = f
        BY <1>9, Zenon DEF Lists, E
      <3>2. EntryFor(v, f) = E[CHOOSE k \in DOMAIN E : E[k].fid = f]
        BY Zenon DEF EntryFor, E
      <3> QED BY <1>3, <3>1, <3>2, Zenon
    <2>2. f = j.cand[k] /\ E[k].offset = OffsetIn(C, j.cand, k) /\ E[k].size = C[f].size
      BY <1>e, <2>1
    <2>3. PackedRef(v, E[k]) = PartRef(C, j, k)
      BY <1>3, <2>2 DEF PackedRef, PartRef, c, z
    <2>4. Deliver(Disk, g, PartRef(C, j, k)) = Deliver(Disk, g, C[f])
      BY <2>2 DEF Packed
    <2>5. /\ PackedRef(v, E[k]) # NoRef /\ PackedRef(v, E[k]).size = E[k].size
          /\ RefExtent(PackedRef(v, E[k])) \in I
      BY <1>1, <1>3, <1>6, <1>o, PackedExtent
    <2> QED BY <2>1, <2>2, <2>3, <2>4, <2>5 DEF Match
  <1>10. TableIs(g, D, C, I, s, t, v)
    BY <1>1, <1>2, <1>3, <1>4, <1>7, <1>9, <1>o DEF TableIs, t
  <1> QED BY <1>3, <1>5, <1>8, <1>10 DEF TableOK, t, v, c

\* The work on the anchor goes on.
LEMMA AnchorWork ==
    ASSUME NEW l \in {"anchor", "anchorSecond", "anchorSync"}, NEW g, NEW D, NEW C, NEW X, NEW j, NEW base, NEW M,
           Work(l, g, D, C, X, j, base, M), NEW k \in {"anchor", "anchorSecond", "anchorSync"}, NEW N
    PROVE  Work(k, g, D, C, X, j, base, N)
  BY DEF Work

\* The first entry of the anchor is written.
LEMMA AnchorFirstData ==
    ASSUME WholeWrites, TypeInv, LogInv, DataInv, AnchorFirst
    PROVE  DataInv'
  <1> DEFINE n == indexEnd
             e == Anchor(job.table)
             ix == WriteAt(idx, n, <<e>>)
  <1>p. /\ up /\ tpc = "anchor" /\ n + 2 <= IndexCap /\ WriteIndex(ix) /\ tpc' = "anchorSecond"
        /\ UNCHANGED <<confirmed, intervals, pendingIntervals, indexEnd, indexErr, grid, dirty, pc, job, up>>
    BY DEF AnchorFirst, memVars, gridVars
  <1>0. /\ Sound(idx) /\ n \in Nat /\ n <= End(idx) /\ ~Mid(At(idx, n)) /\ TailInv /\ RetireInv /\ IndexTypes
    BY <1>p, TrimTail
  <1>1. /\ End(idx) = n /\ job.table \in Fids /\ Retirable(At(idx, n), job.table)
        /\ n < IndexCap /\ End(idx) <= n + 1
    <2>1. End(idx) = n /\ job.table \in Fids /\ Retirable(At(idx, n), job.table)
      BY <1>p, <1>0 DEF TailInv, RetireInv, TypeInv, JobInv, Placed
    <2> QED BY <1>p, <1>0, <2>1, IndexAssumption
  <1>n. n = indexEnd
    OBVIOUS
  <1> HIDE DEF n
  <1>2. At(ix, n) = At(idx, n) /\ Sound(ix) /\ ix \in Indexes /\ End(ix) = n + 1 /\ Mid(At(ix, n + 1))
    <2>1. e # Jump(job.table) /\ e.kind = "anchor"
      BY DEF Anchor, Jump, Entry
    <2>2. e \in {Jump(job.table), Anchor(job.table)}
      OBVIOUS
    <2> HIDE DEF e
    <2>3. Sound(ix) /\ End(ix) = n + 1 /\ At(ix, n) = At(idx, n) /\ Opened(At(idx, n), At(ix, n + 1), e)
      BY <1>0, <1>1, <2>1, <2>2, AppendHead
    <2> HIDE DEF ix
    <2>4. Mid(At(ix, n + 1))
      BY <2>1, <2>3 DEF Opened, Mid
    <2> QED BY <2>3, <2>4 DEF Sound
  <1> HIDE DEF ix, e
  <1>m. idx' = ix /\ media'[0] = media[0] \cup {ix}
    BY <1>p, <1>0, <1>2, WriteFacts
  <1>3. /\ Now = At(idx, n) /\ Base = At(idx, n) /\ Now' = At(idx, n) /\ Base' = At(idx, n)
        /\ Finals' = Finals \cup {Now}
    <2>1. Now = At(idx, n) /\ Base = At(idx, n)
      BY <1>p, <1>1, <1>n DEF Now, Base, Final
    <2>2. Now' = At(idx, n)
      BY <1>p, <1>m, <1>2, <1>n DEF Now
    <2>3. Base' = At(idx, n)
      BY <1>p, <1>m, <1>2, <1>n DEF Base
    <2>4. (n + 1) - 1 = n
      BY <1>0
    <2>5. Settled(ix) = At(idx, n)
      BY <1>2, <2>4 DEF Settled, Final
    <2>6. Finals' = Finals \cup {At(idx, n)}
      BY <1>m, <2>5 DEF Finals
    <2> QED BY <2>1, <2>2, <2>3, <2>6
  <1>4. ViewRefs' = ViewRefs /\ ViewExts' = ViewExts
    BY <1>p DEF ViewRefs, ViewExts
  <1>5. SpaceInv' /\ Extents' = Extents /\ Acked' = Acked
    BY <1>p, SameSpace DEF DataInv
  <1>6. ViewInv'
    <2>1. View(grid, dirty, ViewRefs, ViewExts, Acked, Now, Base, Finals \cup {Now})
      BY <1>3 DEF DataInv, ViewInv, View
    <2> QED BY <1>p, <1>3, <1>4, <1>5, <2>1 DEF ViewInv
  <1>7. WorkInv'
    <2>1. Work("anchor", grid, dirty, confirmed, Extents, job, Base, Finals)
      BY <1>p DEF DataInv, WorkInv
    <2>2. Work("anchorSecond", grid, dirty, confirmed, Extents, job, Base, Finals \cup {Now})
      BY <2>1, AnchorWork
    <2> QED BY <1>p, <1>3, <1>5, <2>2 DEF WorkInv
  <1> QED BY <1>p, <1>5, <1>6, <1>7 DEF DataInv

\* The second entry of the anchor is written.
LEMMA AnchorSecondData ==
    ASSUME WholeWrites, TypeInv, LogInv, DataInv, AnchorSecond
    PROVE  DataInv'
  <1> DEFINE n == indexEnd
             e == Plain(job.table, job.tableSize)
             ix == WriteAt(idx, n + 1, <<e>>)
             C == confirmed
             I == intervals
             s == Final(ix)
  <1>p. /\ up /\ tpc = "anchorSecond" /\ WriteIndex(ix) /\ tpc' = "anchorSync"
        /\ UNCHANGED <<confirmed, intervals, pendingIntervals, indexEnd, indexErr, grid, dirty, pc, job, up>>
    BY DEF AnchorSecond, memVars, gridVars
  <1>0. /\ Sound(idx) /\ n \in Nat /\ ~Mid(At(idx, n)) /\ IndexTypes /\ ~indexErr /\ TailInv
    BY <1>p, TrimTail
  <1>1. /\ End(idx) = n + 1 /\ idx[n + 1] = Anchor(job.table) /\ n + 1 < IndexCap
        /\ job.table \in Fids /\ job.tableSize \in Nat /\ AddrOK(Disk, job.table, job.tableSize)
        /\ Placed(job.table, job.tableSize) /\ Placed(job.container, job.containerSize)
        /\ C[job.table] = OwnTable(job)
    <2>1. /\ End(idx) = n + 1 /\ idx[n + 1] = Anchor(job.table) /\ n + 2 <= IndexCap
          /\ Placed(job.table, job.tableSize) /\ Placed(job.container, job.containerSize)
          /\ C[job.table] = OwnTable(job)
      BY <1>p, <1>0 DEF TailInv, TypeInv, JobInv, OwnTable
    <2>2. job.table \in Fids /\ job.tableSize \in Nat /\ AddrOK(Disk, job.table, job.tableSize)
      BY <2>1 DEF Placed
    <2> QED BY <1>0, <2>1, <2>2, IndexAssumption
  <1>k. \A k \in DOMAIN job.cand : job.cand[k] \in Fids /\ C[job.cand[k]] # NoRef
    BY <1>p, CandidatesServed
  <1>n. n = indexEnd
    OBVIOUS
  <1>7. ViewRefs = C /\ ViewExts = I /\ ViewRefs' = C /\ ViewExts' = I
    BY <1>p DEF ViewRefs, ViewExts
  <1> HIDE DEF n, C, I
  <1>2. idx[n + 1].kind = "anchor" /\ idx[n + 1].fid = job.table /\ IsHead(idx[n + 1])
    BY <1>1 DEF Anchor, Entry, IsHead
  <1>3. /\ Whole(ix) /\ End(ix) = n + 2 /\ At(ix, n) = At(idx, n) /\ ix[n + 1] = idx[n + 1]
        /\ ix[n + 2] = e
    BY <1>0, <1>1, <1>2, AppendSecond
  <1>e. e.fid = job.table /\ e.size = job.tableSize
    BY DEF Plain, Entry
  <1>4. ix \in Indexes /\ Sound(ix)
    BY <1>3 DEF Whole, Sound
  <1> HIDE DEF ix, e
  <1>5. idx' = ix /\ media'[0] = media[0] \cup {ix} /\ indexEnd' = n
    BY <1>p, <1>0, <1>4, <1>n, WriteFacts
  <1>6. Now = Base /\ Base = At(idx, n) /\ Now' = s /\ Base' = Base /\ Finals' = Finals \cup {s}
    <2>1. Now = At(idx, n) /\ Base = At(idx, n)
      BY <1>p, <1>n DEF Now, Base
    <2>2. Now' = s
      BY <1>p, <1>5 DEF Now
    <2>3. Base' = At(idx, n)
      BY <1>p, <1>3, <1>5 DEF Base
    <2>4. Settled(ix) = s
      BY <1>3, WholeSettled
    <2>5. Finals' = Finals \cup {s}
      BY <1>5, <2>4 DEF Finals
    <2> QED BY <2>1, <2>2, <2>3, <2>5
  <1>8. View(grid, dirty, C, I, Acked, Base, Base, Finals) /\ Regular(Base)
    BY <1>0, <1>6, <1>7, NowRegular DEF DataInv, ViewInv
  <1>9. AfterAnchor(Disk, Base, ix[n + 1], e, s)
    <2>1. n + 1 < End(ix) /\ ~Mid(At(ix, n)) /\ IsHead(ix[n + 1]) /\ ix[n + 1].kind = "anchor"
      BY <1>0, <1>2, <1>3
    <2>2. AfterAnchor(Disk, At(ix, n), ix[n + 1], ix[n + 2], At(ix, n + 2))
      BY <1>0, <1>4, <2>1, PairBehind
    <2> QED BY <1>3, <1>6, <2>2 DEF Final
  <1>w. Work("anchorSecond", grid, dirty, C, Extents, job, Base, Finals)
    BY <1>p DEF DataInv, WorkInv, C
  <1>10. /\ Packed(grid, C, job) /\ ContainerIn(dirty, C, Base, job) /\ TableIn(grid, C, job)
         /\ TableSafe(dirty, Base, job)
    BY <1>w DEF Work
  <1>11. Base.refs[e.fid] = Own(e.fid, e.size)
    BY <1>10, <1>e DEF TableSafe, OwnTable
  <1> HIDE DEF s
  <1>12. \A f \in Fids : s.refs[f] = Base.refs[f]
    BY <1>1, <1>8, <1>9, <1>11, <1>e, AnchorAdds
  <1>13. TableOK(grid, dirty, C, I, s, e.fid)
    <2>1. Memory(C, I)
      BY <1>8 DEF View
    <2> QED BY <1>1, <1>k, <1>10, <1>12, <1>e, <2>1, TableReady
  <1>14. View(grid, dirty, C, I, Acked, s, Base, Finals \cup {s})
    BY <1>1, <1>8, <1>9, <1>11, <1>13, <1>e, ViewAnchor
  <1>15. SpaceInv' /\ Extents' = Extents /\ Acked' = Acked
    BY <1>p, SameSpace DEF DataInv
  <1>16. ViewInv'
    BY <1>p, <1>6, <1>7, <1>14, <1>15 DEF ViewInv
  <1>17. WorkInv'
    <2>1. Work("anchorSync", grid, dirty, C, Extents, job, Base, Finals \cup {s})
      BY <1>w, AnchorWork
    <2> QED BY <1>p, <1>6, <1>15, <2>1 DEF WorkInv, C
  <1> QED BY <1>p, <1>0, <1>15, <1>16, <1>17 DEF DataInv

\* A sync with which memory has caught up: the view is what it was.
LEMMA ViewSynced ==
    ASSUME NEW g, NEW D, NEW C, NEW I, NEW P, NEW s, NEW base, NEW M, View(g, D, C, I, P, s, base, M),
           \A x \in s.exts : x.iv \in I
    PROVE  View(g, {}, C, I, P, s, s, {s})
  <1>1. Memory(C, I) /\ Serves(g, C, P) /\ Current(g, D, C, I, s)
    BY DEF View
  <1>2. Carries(g, D, C, I, g, {}, C, I)
    BY <1>1, CarriesSync
  <1>3. \A f \in Fids : C[f] # NoRef => C[f] # NoRef \/ s.refs[f] = C[f]
    OBVIOUS
  <1> QED BY <1>1, <1>2, <1>3, ViewSettle

\* The anchor is synced.
LEMMA AnchorSyncedData ==
    ASSUME WholeWrites, TypeInv, LogInv, DataInv, AnchorSynced
    PROVE  DataInv'
  <1> DEFINE n == indexEnd
             a == idx[n + 1]
             e == idx[n + 2]
             C == confirmed
             I == intervals
             s == Final(idx)
             t == job.table
  <1>p. /\ up /\ tpc = "anchorSync" /\ Sync /\ indexEnd' = n + 2 /\ tpc' = "load"
        /\ UNCHANGED <<confirmed, intervals, pendingIntervals, indexErr, grid, pc, job, up>>
    BY DEF AnchorSynced
  <1>0. Sound(idx) /\ n \in Nat /\ ~Mid(At(idx, n)) /\ IndexTypes /\ ~indexErr /\ TailInv
    BY <1>p, TrimTail
  <1>1. /\ End(idx) = n + 2 /\ a = Anchor(t) /\ e = Plain(t, job.tableSize)
        /\ Placed(t, job.tableSize) /\ Placed(job.container, job.containerSize) /\ C[t] = OwnTable(job)
    BY <1>p, <1>0 DEF TailInv, TypeInv, JobInv, OwnTable
  <1>k. \A k \in DOMAIN job.cand : job.cand[k] \in Fids /\ C[job.cand[k]] # NoRef
    BY <1>p, CandidatesServed
  <1>2. idx' = idx /\ media'[0] = {idx} /\ dirty' = {}
    BY <1>p, <1>0, WriteFacts DEF IndexTypes, Sync
  <1>3. /\ a.kind = "anchor" /\ IsHead(a) /\ e.fid = t /\ e.size = job.tableSize
        /\ t \in Fids /\ job.tableSize \in Nat
    <2>1. t \in Fids /\ job.tableSize \in Nat
      BY <1>1 DEF Placed
    <2> HIDE DEF a, e
    <2>2. a.kind = "anchor" /\ e.fid = t /\ e.size = job.tableSize
      BY <1>1 DEF Anchor, Plain, Entry
    <2> QED BY <2>1, <2>2 DEF IsHead
  <1>4. Now = s /\ Base = At(idx, n) /\ Now' = s /\ Base' = s /\ Finals' = {s}
    <2>1. Now = s /\ Base = At(idx, n)
      BY <1>p DEF Now, Base
    <2>2. Now' = s
      BY <1>p, <1>2 DEF Now
    <2>3. Base' = s
      BY <1>p, <1>1, <1>2 DEF Base, Final
    <2>4. Settled(idx) = s
      BY <1>p, WholeSettled DEF LogInv
    <2>5. Finals' = {s}
      BY <1>2, <2>4 DEF Finals
    <2> QED BY <2>1, <2>2, <2>3, <2>5
  <1>5. AfterAnchor(Disk, Base, a, e, s)
    <2>1. n + 1 < End(idx)
      BY <1>0, <1>1
    <2>2. AfterAnchor(Disk, At(idx, n), a, e, At(idx, n + 2))
      BY <1>0, <1>3, <2>1, PairBehind
    <2> QED BY <1>1, <1>4, <2>2 DEF Final
  <1>7. ViewRefs = C /\ ViewExts = I /\ ViewRefs' = C /\ ViewExts' = I
    BY <1>p DEF ViewRefs, ViewExts
  <1> HIDE DEF n, a, e, C, I, s, t
  <1>8. View(grid, dirty, C, I, Acked, s, Base, Finals) /\ Regular(Base)
    BY <1>0, <1>4, <1>7, NowRegular DEF DataInv, ViewInv
  <1>w. Work("anchorSync", grid, dirty, C, Extents, job, Base, Finals)
    BY <1>p DEF DataInv, WorkInv, C
  <1>9. /\ Packed(grid, C, job) /\ ContainerIn(dirty, C, Base, job) /\ TableIn(grid, C, job)
        /\ TableSafe(dirty, Base, job) /\ Away(grid, Base, job)
    BY <1>w DEF Work
  <1>10. Base.refs[e.fid] = Own(e.fid, e.size)
    BY <1>3, <1>9 DEF TableSafe, OwnTable, t
  <1>11. /\ \A f \in Fids : s.refs[f] = Base.refs[f]
         /\ \A f : InTables(s, f) <=> InTables(Base, f) \/ f = t
         /\ \A x \in s.exts : x \in Base.exts
    <2>1. /\ \A f \in Fids : s.refs[f] = Base.refs[f]
          /\ \A f : InTables(s, f) <=> InTables(Base, f) \/ f = e.fid
          /\ \A x \in s.exts : x \in Base.exts
      BY <1>3, <1>5, <1>8, <1>10, AnchorAdds
    <2> QED BY <1>3, <2>1
  <1>12. /\ TableAt(grid, s, t) = TableOf(C, job) /\ TableOf(C, job).container = job.container
         /\ \A k \in DOMAIN job.cand : Lists(TableOf(C, job), job.cand[k])
    <2>1. Memory(C, I)
      BY <1>8 DEF View
    <2> QED BY <1>1, <1>k, <1>9, <1>11, <2>1, TableReady DEF t
  <1>13. View(grid, {}, C, I, Acked, s, s, {s})
    <2>1. \A x \in s.exts : x.iv \in I
      BY <1>8, <1>11 DEF View
    <2> QED BY <1>8, <2>1, ViewSynced
  <1>15. SpaceInv' /\ Extents' = Extents /\ Acked' = Acked
    BY <1>p, SameSpace DEF DataInv
  <1>16. ViewInv'
    BY <1>p, <1>2, <1>4, <1>7, <1>13, <1>15 DEF ViewInv
  <1>17. Away(grid, s, job)
    <2> SUFFICES ASSUME NEW f \in Fids, InTables(s, f), NEW k \in DOMAIN job.cand
                 PROVE  TableAt(grid, s, f).container # job.cand[k]
      BY DEF Away
    <2>1. CASE f = t
      BY <1>9, <1>12, <2>1 DEF Packed
    <2>2. CASE f # t
      <3>1. TableAt(grid, s, f) = TableAt(grid, Base, f) /\ InTables(Base, f)
        BY <1>11, <2>2 DEF TableAt
      <3> QED BY <1>9, <3>1 DEF Away
    <2> QED BY <2>1, <2>2
  <1>18. InTables(s, t) /\ CandsListed(grid, s, {s}, job)
    <2>1. InTables(s, t)
      BY <1>11
    <2>2. \A k \in DOMAIN job.cand : Listed(grid, s, job.cand[k])
      BY <1>3, <1>12, <2>1, Zenon DEF Listed
    <2> QED BY <2>1, <2>2 DEF CandsListed
  <1>19. WorkInv'
    <2>1. Work("load", grid, {}, C, Extents, job, s, {s})
      BY <1>17, <1>18 DEF Work, t
    <2> QED BY <1>p, <1>2, <1>4, <1>15, <2>1 DEF WorkInv, C
  <1> QED BY <1>p, <1>0, <1>15, <1>16, <1>19 DEF DataInv

\* The table is loaded: the references of the candidates change, what they
\* deliver does not.
LEMMA LoadTableData ==
    ASSUME TypeInv, LogInv, DataInv, LoadTable
    PROVE  DataInv'
  <1> DEFINE v == Bytes(confirmed[job.table])
             C == confirmed
             B == confirmed'
             I == intervals
             g == grid
             D == dirty
  <1>p. /\ up /\ tpc = "load" /\ tpc' = "tombs" /\ v.kind = "table"
        /\ B = [f \in Fids |-> IF Lists(v, f) THEN PackedRef(v, EntryFor(v, f)) ELSE C[f]]
        /\ UNCHANGED <<intervals, pendingIntervals, indexEnd, indexErr, idx, media, grid, dirty, pc, job, up>>
    BY Zenon DEF LoadTable, idxVars, gridVars
  <1>0. ~indexErr /\ \A p \in Puts : pc[p] # "sync"
    BY <1>p, TrimTail
  <1>1. Now' = Now /\ Base' = Base /\ Finals' = Finals
    BY <1>p, SameScans
  <1>2. ViewRefs = C /\ ViewExts = I /\ ViewRefs' = B /\ ViewExts' = I
    BY <1>p DEF ViewRefs, ViewExts
  <1>3. v = Deliver(Disk, g, C[job.table])
    BY DEF Bytes
  <1>a. Acked' = Acked /\ Extents' = Extents /\ Holders' = Holders
    BY <1>p DEF Acked, Extents, Holders
  <1> HIDE DEF v, C, B, I, g, D
  <1>4. View(g, D, C, I, Acked, Now, Base, Finals)
    BY <1>2 DEF DataInv, ViewInv, g, D
  <1>5. Work("load", g, D, C, Extents, job, Base, Finals)
    BY <1>p DEF DataInv, WorkInv, g, D, C
  <1>6. InTables(Base, job.table) /\ CandsListed(g, Base, Finals, job) /\ Away(g, Base, job)
    BY <1>5 DEF Work
  <1>7. TableIs(g, D, C, I, Base, job.table, v)
    <2>1. job.table \in Fids
      BY <1>p DEF TypeInv, JobInv, Placed
    <2>2. TableOK(g, D, C, I, Base, job.table)
      BY <1>4, <1>6, <2>1 DEF View, Current, TablesOK
    <2>3. Match(g, I, Base.refs[job.table], C[job.table])
      BY <2>2, Zenon DEF TableOK, TableIs
    <2>4. TableAt(g, Base, job.table) = v
      BY <1>3, <2>3 DEF Match, TableAt
    <2> QED BY <2>2, <2>4 DEF TableOK
  <1>8. \A f \in Fids : Lists(v, f) =>
          C[f] # NoRef /\ Match(g, I, PackedRef(v, EntryFor(v, f)), C[f])
    BY <1>7, Zenon DEF TableIs
  <1>9. Memory(C, I)
    BY <1>4 DEF View
  <1>10. ASSUME NEW f \in Fids
         PROVE  /\ B[f] # NoRef <=> C[f] # NoRef
                /\ C[f] # NoRef => /\ B[f].size = C[f].size /\ Deliver(Disk, g, B[f]) = Deliver(Disk, g, C[f])
                                   /\ RefExtent(B[f]) \in I
    <2>1. CASE Lists(v, f)
      <3>1. B[f] = PackedRef(v, EntryFor(v, f))
        BY <1>p, <2>1
      <3>2. C[f] # NoRef /\ Match(g, I, B[f], C[f])
        BY <1>8, <2>1, <3>1
      <3> QED BY <3>2 DEF Match
    <2>2. CASE ~Lists(v, f)
      <3>1. B[f] = C[f]
        BY <1>p, <2>2
      <3> QED BY <1>9, <3>1 DEF Memory
    <2> QED BY <2>1, <2>2
  <1>11. Memory(B, I)
    BY <1>9, <1>10 DEF Memory
  <1>12. Carries(g, D, C, I, g, D, B, I)
    BY <1>10 DEF Carries
  <1>13. View(g, D, B, I, Acked, Now, Base, Finals)
    <2>1. \A f \in Fids : B[f] # NoRef => C[f] # NoRef
      BY <1>10
    <2> QED BY <1>4, <1>11, <1>12, <2>1, ViewCarries
  <1>14. ViewInv'
    BY <1>p, <1>1, <1>2, <1>a, <1>13 DEF ViewInv, g, D
  <1>15. SpaceInv'
    BY <1>p, <1>0, <1>a DEF DataInv, SpaceInv
  <1>16. WorkInv'
    <2>1. Work("tombs", g, D, B, Extents, job, Base, Finals)
      BY <1>6 DEF Work
    <2> QED BY <1>p, <1>1, <1>a, <2>1 DEF WorkInv, B, g, D
  <1> QED BY <1>p, <1>0, <1>14, <1>15, <1>16 DEF DataInv

-----------------------------------------------------------------------------
(* Tombstones and compaction.                                              *)

\* A tombstone is written: the entry of a candidate goes, its table lists it.
LEMMA AppendTombstoneData ==
    ASSUME WholeWrites, TypeInv, LogInv, DataInv, AppendTombstone
    PROVE  DataInv'
  <1> DEFINE n == indexEnd
             m == job.tombs + 1
             c == job.cand[m]
             ix == WriteAt(idx, n, <<Tomb(c)>>)
             C == confirmed
             I == intervals
             r == Final(idx)
             s == Final(ix)
  <1>p. /\ up /\ tpc = "tombs" /\ job.tombs < Len(job.cand) /\ n < IndexCap /\ WriteIndex(ix)
        /\ indexEnd' = n + 1 /\ job' = [job EXCEPT !.tombs = @ + 1]
        /\ UNCHANGED <<confirmed, intervals, pendingIntervals, indexErr, grid, dirty, pc, tpc, up>>
    BY DEF AppendTombstone, gridVars
  <1>0. /\ Sound(idx) /\ n \in Nat /\ n <= End(idx) /\ ~Mid(At(idx, n)) /\ IndexTypes
        /\ ~indexErr /\ TailInv /\ RetireInv /\ job \in Jobs /\ job.cand \in Seq(Fids)
        /\ \A k \in DOMAIN job.cand : job.cand[k] \in Fids
    BY <1>p, TrimTail
  <1>1. job.tombs \in Nat /\ job'.cand = job.cand
    BY <1>p, <1>0 DEF Jobs
  <1>2. m \in DOMAIN job.cand /\ job.tombs < m
    BY <1>p, <1>0, <1>1
  <1>3. c \in Fids /\ Retirable(At(idx, n), c)
    BY <1>p, <1>0, <1>2 DEF RetireInv
  <1>4. End(idx) = n /\ End(idx) <= n + 1
    <2>1. End(idx) = n
      BY <1>p, <1>0 DEF TailInv
    <2> QED BY <1>0, <2>1
  <1>n. n = indexEnd /\ c = job.cand[m]
    OBVIOUS
  <1>7. ViewRefs = C /\ ViewExts = I /\ ViewRefs' = C /\ ViewExts' = I
    BY <1>p DEF ViewRefs, ViewExts
  <1> HIDE DEF n, m, c
  <1>5. /\ Whole(ix) /\ End(ix) = n + 1 /\ At(ix, n) = At(idx, n) /\ ix[n + 1] = Tomb(c)
    BY <1>p, <1>0, <1>3, <1>4, AppendTomb
  <1>6. ix \in Indexes /\ Sound(ix)
    BY <1>5 DEF Whole, Sound
  <1> HIDE DEF ix
  <1>8. idx' = ix /\ media'[0] = media[0] \cup {ix} /\ indexEnd' = n + 1
    BY <1>p, <1>0, <1>6, WriteFacts
  <1>9. Now = r /\ Base = r /\ Now' = s /\ Base' = s /\ Finals' = Finals \cup {s} /\ r = At(idx, n)
    <2>1. Now = r /\ Base = r /\ r = At(idx, n)
      BY <1>p, <1>n, <1>4 DEF Now, Base, Final
    <2>2. Now' = s
      BY <1>p, <1>8 DEF Now
    <2>3. Base' = s
      BY <1>p, <1>5, <1>8 DEF Base, Final
    <2>4. Settled(ix) = s
      BY <1>5, WholeSettled
    <2>5. Finals' = Finals \cup {s}
      BY <1>8, <2>4 DEF Finals
    <2> QED BY <2>1, <2>2, <2>3, <2>5
  <1>10. AfterTomb(r, Tomb(c), s) /\ Tomb(c).fid = c
    <2>1. ix[n + 1].kind = "tomb"
      BY <1>5 DEF Tomb, Entry
    <2>2. ~Mid(At(ix, n)) /\ n < End(ix)
      BY <1>0, <1>5
    <2>3. AfterTomb(At(ix, n), ix[n + 1], At(ix, n + 1))
      BY <1>0, <1>6, <2>1, <2>2, Behind
    <2>4. Tomb(c).fid = c
      BY DEF Tomb, Entry
    <2> QED BY <1>5, <1>9, <2>3, <2>4 DEF Final
  <1> HIDE DEF r, s, C, I
  <1>11. View(grid, dirty, C, I, Acked, r, r, Finals)
    BY <1>7, <1>9 DEF DataInv, ViewInv
  <1>w. Work("tombs", grid, dirty, C, Extents, job, r, Finals)
    BY <1>p, <1>9 DEF DataInv, WorkInv, C
  <1>12. Away(grid, r, job) /\ CandsListed(grid, r, Finals, job)
    BY <1>w DEF Work
  <1>13. /\ Listed(grid, r, c) /\ \A f \in Finals : Listed(grid, f, c)
         /\ \A t \in Fids : InTables(r, t) => TableAt(grid, r, t).container # c
    BY <1>2, <1>12, <1>n DEF Away, CandsListed
  <1>14. ~InTables(r, c)
    BY <1>3, <1>9 DEF Retirable
  <1>15. /\ View(grid, dirty, C, I, Acked, s, s, Finals \cup {s})
         /\ \A f : Listed(grid, r, f) => Listed(grid, s, f)
         /\ \A t \in Fids : InTables(s, t) => InTables(r, t) /\ TableAt(grid, s, t) = TableAt(grid, r, t)
    <2> DEFINE e == Tomb(c)
    <2>1. AfterTomb(r, e, s) /\ e.fid = c
      BY <1>10
    <2> HIDE DEF e
    <2>2. Dispensable(grid, r, Finals, e.fid)
      BY <1>13, <1>14, <2>1 DEF Dispensable
    <2>3. View(grid, dirty, C, I, Acked, s, s, Finals \cup {s}) /\ ListsStay(grid, r, s)
      BY <1>11, <2>1, <2>2, ViewTomb
    <2> QED BY <2>3 DEF ListsStay
  <1>16. SpaceInv' /\ Extents' = Extents /\ Acked' = Acked
    BY <1>p, SameSpace DEF DataInv
  <1>17. ViewInv'
    BY <1>p, <1>7, <1>9, <1>15, <1>16 DEF ViewInv
  <1>18. WorkInv'
    <2> DEFINE j == job'
    <2>0. j = job' /\ j.cand = job.cand
      BY <1>1
    <2> HIDE DEF j
    <2>1. Away(grid, s, j)
      BY <1>12, <1>15, <2>0 DEF Away
    <2>2. CandsListed(grid, s, Finals \cup {s}, j)
      BY <1>12, <1>15, <2>0 DEF CandsListed
    <2>3. Work("tombs", grid, dirty, C, Extents, j, s, Finals \cup {s})
      BY <2>1, <2>2 DEF Work
    <2> QED BY <1>p, <1>9, <1>16, <2>0, <2>3 DEF WorkInv, C
  <1> QED BY <1>p, <1>0, <1>16, <1>17, <1>18 DEF DataInv

\* A sync while memory knows all of the index.
LEMMA TrimSynced ==
    ASSUME WholeWrites, TypeInv, LogInv, DataInv, Sync, tpc \in {"tombs", "compact"},
           tpc' \in {"compact", "copy"},
           UNCHANGED <<confirmed, intervals, pendingIntervals, indexEnd, indexErr, grid, pc, up>>
    PROVE  /\ ~indexErr' /\ ViewInv' /\ SpaceInv' /\ Extents' = Extents
           /\ idx' = idx /\ Now = Final(idx) /\ Base = Now /\ Base' = Now /\ Finals' = {Now} /\ dirty' = {}
  <1> DEFINE C == confirmed
             I == intervals
             s == Final(idx)
  <1>0. up /\ ~indexErr /\ TailInv /\ IndexTypes
    BY TrimTail
  <1>1. idx' = idx /\ media'[0] = {idx} /\ dirty' = {} /\ End(idx) = indexEnd
    BY <1>0, WriteFacts DEF IndexTypes, Sync, TailInv
  <1>2. Now = s /\ Base = s /\ Now' = s /\ Base' = s /\ Finals' = {s}
    <2>1. Now = s /\ Base = s
      BY <1>0, <1>1 DEF Now, Base, Final
    <2>2. Now' = s
      BY <1>0, <1>1 DEF Now
    <2>3. Base' = s
      BY <1>0, <1>1, <2>2 DEF Base, Final
    <2>4. Settled(idx) = s
      BY <1>0, WholeSettled DEF LogInv
    <2>5. Finals' = {s}
      BY <1>1, <2>4 DEF Finals
    <2> QED BY <2>1, <2>2, <2>3, <2>5
  <1>3. ViewRefs = C /\ ViewExts = I /\ ViewRefs' = C /\ ViewExts' = I
    BY <1>0 DEF ViewRefs, ViewExts
  <1> HIDE DEF C, I, s
  <1>4. View(grid, dirty, C, I, Acked, s, s, Finals)
    BY <1>2, <1>3 DEF DataInv, ViewInv
  <1>5. View(grid, {}, C, I, Acked, s, s, {s})
    <2>1. \A x \in s.exts : x.iv \in I
      BY <1>4 DEF View
    <2> QED BY <1>4, <2>1, ViewSynced
  <1>6. SpaceInv' /\ Extents' = Extents /\ Acked' = Acked
    BY SameSpace DEF DataInv
  <1>7. ViewInv'
    BY <1>1, <1>2, <1>3, <1>5, <1>6 DEF ViewInv
  <1> QED BY <1>0, <1>1, <1>2, <1>6, <1>7 DEF s

\* The tombstones are synced.
LEMMA TombstonesSyncedData ==
    ASSUME WholeWrites, TypeInv, LogInv, DataInv, TombstonesSynced
    PROVE  DataInv'
  <1>p. /\ up /\ tpc = "tombs" /\ Sync /\ tpc' = "compact"
        /\ UNCHANGED <<confirmed, intervals, pendingIntervals, indexEnd, indexErr, grid, pc, job, up>>
    BY DEF TombstonesSynced, memVars
  <1>1. /\ ~indexErr' /\ ViewInv' /\ SpaceInv' /\ Base' = Base /\ dirty' = {}
    BY <1>p, TrimSynced
  <1>2. Away(grid, Base, job)
    BY <1>p DEF DataInv, WorkInv, Work
  <1>3. WorkInv'
    <2> DEFINE X == Extents'
               M == Finals'
               C == confirmed'
    <2> HIDE DEF X, M, C
    <2>1. Work("compact", grid, {}, C, X, job, Base, M)
      BY <1>2 DEF Work
    <2> QED BY <1>p, <1>1, <2>1 DEF WorkInv, X, M, C
  <1> QED BY <1>1, <1>3 DEF DataInv

\* A compacted index scans to what the index scans to.
LEMMA CompactedFinal ==
    ASSUME NEW ix, Whole(ix)
    PROVE  Final(Compacted(ix)) = Final(ix)
  <1>1. /\ ix \in Indexes /\ Shaped(Disk, ix) /\ At(ix, End(ix)).ok /\ ~Mid(At(ix, End(ix)))
        /\ Disk \in Disks
    BY TrimAssumption DEF Whole, Sound
  <1>2. Scan(Disk, ix) = At(ix, End(ix)) /\ Scan(Disk, Compacted(ix)) = At(Compacted(ix), End(Compacted(ix)))
    BY ScanIsFold DEF At
  <1>3. Scan(Disk, Compacted(ix)) = Scan(Disk, ix)
    BY <1>1, <1>2, CompactionKeepsScan
  <1> QED BY <1>2, <1>3 DEF Final

\* The records are collected.
LEMMA CompactCollectData ==
    ASSUME WholeWrites, TypeInv, LogInv, DataInv, CompactCollect
    PROVE  DataInv'
  <1>p. /\ up /\ tpc = "compact" /\ Sync /\ tpc' = "copy"
        /\ job' = [job EXCEPT !.target = Collected, !.sector = 0]
        /\ UNCHANGED <<confirmed, intervals, pendingIntervals, indexEnd, indexErr, grid, pc, up>>
    BY DEF CompactCollect, memVars
  <1>0. Whole(idx) /\ job \in Jobs
    BY <1>p, TrimTail
  <1>1. /\ ~indexErr' /\ ViewInv' /\ SpaceInv' /\ Base' = Final(idx)
    BY <1>p, TrimSynced
  <1>2. job'.target = Compacted(idx)
    BY <1>p, <1>0 DEF Jobs, Collected
  <1>3. Final(job'.target) = Base'
    BY <1>0, <1>1, <1>2, CompactedFinal
  <1>4. WorkInv'
    BY <1>p, <1>3 DEF WorkInv, Work
  <1> QED BY <1>1, <1>4 DEF DataInv

\* A replay, in terms of the scan.
LEMMA ReplayFinal ==
    ASSUME NEW ix, NEW g
    PROVE  Replay(Disk, ix, g) = Finish(Disk, g, Final(ix)) /\ Finish(Disk, g, Final(ix)).exts = ExtsOf(Final(ix))
  <1>1. Replay(Disk, ix, g) = Finish(Disk, g, Scan(Disk, ix))
    BY DEF Replay, Once
  <1>2. Scan(Disk, ix) = Final(ix)
    BY ScanIsFold DEF Final, At
  <1>3. \A s : Finish(Disk, g, s).exts = ExtsOf(s)
    BY DEF Finish, ExtsOf
  <1> QED BY <1>1, <1>2, <1>3

\* The index is overwritten.
LEMMA CopySectorData ==
    ASSUME WholeWrites, TypeInv, LogInv, DataInv, CopySector
    PROVE  DataInv'
  <1> DEFINE first == job.sector * SectorLen
             ix == [i \in 1 .. IndexCap |-> IF i \in first + 1 .. first + SectorLen
                                            THEN job.target[i] ELSE idx[i]]
             C == confirmed
             I == intervals
  <1>p. /\ up /\ tpc = "copy" /\ job.sector \in Sectors /\ WriteIndex(ix)
        /\ job' = [job EXCEPT !.sector = @ + 1]
        /\ UNCHANGED <<confirmed, intervals, pendingIntervals, indexErr, grid, dirty, pc, tpc, up>>
    BY Zenon DEF CopySector, memVars, gridVars
  <1>0. IndexTypes /\ job \in Jobs /\ job.target \in Indexes /\ ~indexErr
    BY <1>p DEF TypeInv, JobInv, DataInv
  <1>1. ix = job.target
    <2>1. job.sector = 0 /\ SectorLen = IndexCap /\ IndexCap \in Nat
      BY <1>p, OneSector
    <2>2. first = 0
      BY <2>1
    <2> HIDE DEF first
    <2>3. \A i \in 1 .. IndexCap : i \in first + 1 .. first + SectorLen
      BY <2>1, <2>2
    <2>4. ix = [i \in 1 .. IndexCap |-> job.target[i]]
      BY <2>3, Zenon
    <2> QED BY <1>0, <2>4 DEF Indexes
  <1>2. ViewRefs = C /\ ViewExts = I /\ ViewRefs' = C /\ ViewExts' = I
    BY <1>p DEF ViewRefs, ViewExts
  <1> HIDE DEF ix, C, I
  <1>3. idx' = ix /\ media'[0] = media[0] \cup {ix}
    BY <1>p, <1>0, <1>1, WriteFacts
  <1>4. job'.target = job.target
    BY <1>p, <1>0 DEF Jobs
  <1>5. Final(ix) = Now /\ Base = Now
    BY <1>p, <1>1 DEF DataInv, WorkInv, Work, Base
  <1>6. Now' = Now /\ Base' = Now /\ Finals' = Finals \cup {Now}
    <2>1. Now' = Now
      BY <1>p, <1>3, <1>5 DEF Now
    <2>2. Base' = Now
      BY <1>p, <2>1 DEF Base
    <2>3. Settled(ix) = Final(ix)
      BY <1>p, <1>1, WholeSettled DEF LogInv
    <2>4. Finals' = Finals \cup {Final(ix)}
      BY <1>3, <2>3 DEF Finals
    <2> QED BY <1>5, <2>1, <2>2, <2>4
  <1>7. View(grid, dirty, C, I, Acked, Now, Base, Finals)
    BY <1>2 DEF DataInv, ViewInv
  <1>8. View(grid, dirty, C, I, Acked, Now, Now, Finals \cup {Now})
    BY <1>5, <1>7 DEF View
  <1>9. SpaceInv' /\ Acked' = Acked
    BY <1>p, SameSpace DEF DataInv
  <1>10. ViewInv'
    BY <1>p, <1>2, <1>6, <1>8, <1>9 DEF ViewInv
  <1>11. WorkInv'
    <2>1. Final(job'.target) = Base' /\ tpc' = "copy"
      BY <1>p, <1>1, <1>4, <1>5, <1>6
    <2> QED BY <2>1 DEF WorkInv, Work
  <1> QED BY <1>p, <1>0, <1>9, <1>10, <1>11 DEF DataInv

\* The compacted index is replayed.
LEMMA CompactDoneData ==
    ASSUME WholeWrites, TypeInv, LogInv, DataInv, CompactDone
    PROVE  DataInv'
  <1> DEFINE r == Replay(Disk, idx, grid)
             C == confirmed
             I == intervals
             s == Final(idx)
             L == Finish(Disk, grid, s).refs
             R == ExtsOf(s)
  <1>p. /\ up /\ tpc = "copy" /\ tpc' = "idle" /\ Sync
        /\ indexErr' = ~r.ok
        /\ confirmed' = (IF r.ok THEN r.refs ELSE confirmed)
        /\ intervals' = (IF r.ok THEN r.exts ELSE intervals)
        /\ indexEnd' = (IF r.ok THEN End(idx) ELSE indexEnd)
        /\ UNCHANGED <<pendingIntervals, grid, pc, up>>
    BY Zenon DEF CompactDone
  <1>0. IndexTypes /\ Whole(idx) /\ ~indexErr /\ \A p \in Puts : pc[p] # "sync"
    BY <1>p DEF TypeInv, LogInv, PutInv, DataInv
  <1>1. idx' = idx /\ media'[0] = {idx} /\ dirty' = {}
    BY <1>p, <1>0, WriteFacts DEF IndexTypes, Sync
  <1>2. Now = s /\ Base = s /\ Regular(s)
    BY <1>p, <1>0, FinalRegular DEF Now, Base
  <1>3. ViewRefs = C /\ ViewExts = I
    BY <1>p DEF ViewRefs, ViewExts
  <1>4. r = Finish(Disk, grid, s)
    BY ReplayFinal
  <1>n. s = Final(idx) /\ L = Finish(Disk, grid, s).refs /\ R = ExtsOf(s)
    OBVIOUS
  <1> HIDE DEF r, C, I, s, L, R
  <1>5. View(grid, dirty, C, I, Acked, s, s, Finals)
    BY <1>2, <1>3 DEF DataInv, ViewInv
  <1>6. /\ Finish(Disk, grid, s).ok /\ Finish(Disk, grid, s).exts = R
        /\ View(grid, {}, L, R, Acked, s, s, {s})
    <2>1. Past(grid, dirty, C, I, NamesOf(Acked), s, s)
      BY <1>5 DEF View
    <2>2. \A m \in {s} : Past(grid, dirty, C, I, NamesOf(Acked), m, s)
      BY <2>1
    <2>3. \A iv : Dry(dirty, iv) => Dry({}, iv)
      BY DEF Dry
    <2>4. \A ref : RefExtent(ref) \in I /\ Clean(dirty, ref) => Deliver(Disk, grid, ref) = Deliver(Disk, grid, ref)
      OBVIOUS
    <2> DEFINE N == {s}
    <2> HIDE DEF N
    <2>5. \A m \in N : Past(grid, dirty, C, I, NamesOf(Acked), m, s)
      BY <2>2 DEF N
    <2>6. /\ Finish(Disk, grid, s).ok /\ Finish(Disk, grid, s).exts = ExtsOf(s)
          /\ View(grid, {}, Finish(Disk, grid, s).refs, ExtsOf(s), Acked, s, s, N)
      BY <1>2, <1>5, <2>1, <2>3, <2>4, <2>5, ViewReload
    <2> QED BY <1>n, <2>6 DEF N
  <1>7. /\ ~indexErr' /\ confirmed' = L /\ intervals' = R /\ indexEnd' = End(idx)
    BY <1>p, <1>4, <1>6, <1>n
  <1>8. Now' = s /\ Base' = s /\ Finals' = {s} /\ ViewRefs' = L /\ ViewExts' = R
    <2>1. Now' = s
      BY <1>p, <1>1, <1>n DEF Now
    <2>2. Base' = s
      BY <1>p, <1>1, <1>7, <1>n DEF Base, Final
    <2>3. Settled(idx) = s
      BY <1>0, <1>n, WholeSettled
    <2>4. Finals' = {s}
      BY <1>1, <2>3 DEF Finals
    <2> QED BY <1>p, <1>7, <2>1, <2>2, <2>4 DEF ViewRefs, ViewExts
  <1>9. Acked' = Acked /\ Holders' = Holders
    BY <1>p DEF Acked, Holders
  <1>10. ViewInv'
    BY <1>p, <1>1, <1>6, <1>8, <1>9 DEF ViewInv
  <1>11. R \subseteq intervals
    <2>1. \A x \in s.exts : x.iv \in I
      BY <1>5 DEF View
    <2> QED BY <1>n, <2>1 DEF ExtsOf, I
  <1>12. SpaceInv'
    <2>1. SpaceInv
      BY DEF DataInv
    <2>2. Apart(Extents')
      BY <1>p, <1>7, <1>11, <2>1 DEF SpaceInv, Apart, Extents
    <2>3. intervals' \cap pendingIntervals' = {}
      BY <1>p, <1>7, <1>11, <2>1 DEF SpaceInv
    <2> QED BY <1>p, <1>0, <1>9, <2>1, <2>2, <2>3 DEF SpaceInv
  <1>13. WorkInv'
    BY <1>p, WorkIdle DEF WorkInv
  <1> QED BY <1>7, <1>10, <1>12, <1>13 DEF DataInv

\* Trim gives up.
LEMMA TrimFailData ==
    ASSUME WholeWrites, TypeInv, LogInv, DataInv, TrimFail
    PROVE  DataInv'
  <1>p. /\ up /\ tpc' = "idle" /\ UNCHANGED <<idx, media, indexEnd, up, grid, dirty, confirmed, intervals,
                                              pendingIntervals, indexErr, pc>>
        /\ tpc \in {"container", "containerSync", "table", "tableSync", "anchor", "load", "tombs", "compact"}
    <2>1. "anchor-write" \notin Faults /\ "anchor-sync" \notin Faults /\ "copy-io" \notin Faults
      BY DEF WholeWrites
    <2> QED BY <2>1 DEF TrimFail, FailPoints, memVars, idxVars, gridVars
  <1>1. SpaceInv' /\ Acked' = Acked
    BY <1>p, SameSpace DEF DataInv
  <1>2. ViewInv'
    <2>1. {tpc, tpc'} \cap {"anchorSecond", "copy"} = {}
      BY <1>p
    <2> QED BY <1>p, <1>1, <2>1, SameView DEF DataInv
  <1>3. WorkInv'
    BY <1>p, WorkIdle DEF WorkInv
  <1> QED BY <1>p, <1>1, <1>2, <1>3 DEF DataInv

-----------------------------------------------------------------------------
(* Stops and boots.                                                        *)

\* What is left when the process ends, given the view of the next boot.
LEMMA EndsData ==
    ASSUME DataInv, ProcessEnds, NEW s, s = Settled(idx'), NEW N, N = Finals',
           View(grid', dirty', Finish(Disk, grid', s).refs, ExtsOf(s), Acked, s, s, N)
    PROVE  DataInv'
  <1>p. /\ ~up' /\ tpc' = "idle" /\ ~indexErr' /\ intervals' = {} /\ pendingIntervals' = {}
        /\ pc' = [p \in Puts |-> IF pc[p] \in {"idle", "acked"} THEN pc[p] ELSE "failed"]
    BY DEF ProcessEnds
  <1>1. \A p \in Puts : pc'[p] \in {"idle", "acked", "failed"} /\ (pc'[p] = "acked" <=> pc[p] = "acked")
    BY <1>p
  <1>2. Acked' = Acked /\ Holders' = {}
    BY <1>1 DEF Acked, Holders
  <1>3. Now' = s /\ Base' = s
    <2>1. Now' = s
      BY <1>p DEF Now
    <2> QED BY <1>p, <2>1 DEF Base
  <1>4. ViewRefs' = Finish(Disk, grid', s).refs /\ ViewExts' = ExtsOf(s)
    BY <1>p, <1>3 DEF ViewRefs, ViewExts
  <1>5. ViewInv'
    BY <1>2, <1>3, <1>4 DEF ViewInv
  <1>6. SpaceInv'
    <2>1. Extents' = {}
      BY <1>p DEF Extents
    <2>2. Apart(Extents')
      BY <2>1 DEF Apart
    <2>3. \A p \in Puts : pc'[p] \notin {"commit", "sync"} /\ pc'[p] # "sync"
      BY <1>1
    <2>4. intervals' \cap pendingIntervals' = {} /\ \A iv \in pendingIntervals' : Proper(iv)
      BY <1>p
    <2> QED BY <1>p, <1>2, <2>2, <2>3, <2>4 DEF SpaceInv
  <1>7. WorkInv'
    BY <1>p, WorkIdle DEF WorkInv
  <1> QED BY <1>p, <1>5, <1>6, <1>7 DEF DataInv

\* The daemon stops.
LEMMA ShutdownData ==
    ASSUME WholeWrites, TypeInv, LogInv, DataInv, Shutdown
    PROVE  DataInv'
  <1> DEFINE C == confirmed
             I == intervals
             g == grid
             D == dirty
             s == Now
             N == Finals
  <1>p. up /\ ProcessEnds /\ UNCHANGED <<idx, media, grid, dirty>>
    BY DEF Shutdown, idxVars, gridVars
  <1>1. View(g, D, C, I, Acked, s, Base, N) /\ Regular(s)
    BY <1>p, NowRegular DEF DataInv, ViewInv, ViewRefs, ViewExts
  <1>2. s = Settled(idx') /\ N = Finals'
    <2>1. CASE tpc = "anchorSecond"
      <3>1. TailInv /\ indexEnd \in Nat /\ Sound(idx)
        BY <2>1, TrimTail
      <3>2. End(idx) = indexEnd + 1 /\ idx[indexEnd + 1] = Anchor(job.table)
        BY <2>1, <3>1 DEF TailInv
      <3>3. (indexEnd + 1) - 1 = indexEnd /\ End(idx) # 0 /\ idx[End(idx)].kind = "anchor"
        BY <3>1, <3>2 DEF Anchor, Entry
      <3>4. Mid(Final(idx))
        BY <3>1, <3>3, LastAnchor DEF Final
      <3> QED BY <1>p, <2>1, <3>2, <3>3, <3>4 DEF Now, Settled, Finals
    <2>2. CASE tpc # "anchorSecond"
      <3>1. Settled(idx) = Final(idx)
        BY <1>p, <2>2, WholeSettled DEF LogInv
      <3> QED BY <1>p, <2>2, <3>1 DEF Now, Finals
    <2> QED BY <2>1, <2>2
  <1>3. g = grid' /\ D = dirty'
    BY <1>p
  <1> HIDE DEF C, I, g, D, s, N
  <1>4. View(g, D, Finish(Disk, g, s).refs, ExtsOf(s), Acked, s, s, N)
    <2>1. Past(g, D, C, I, NamesOf(Acked), s, s) /\ \A m \in N : Past(g, D, C, I, NamesOf(Acked), m, s)
      BY <1>1 DEF View
    <2>3. \A iv : Dry(D, iv) => Dry(D, iv)
      OBVIOUS
    <2>4. \A ref : RefExtent(ref) \in I /\ Clean(D, ref) => Deliver(Disk, g, ref) = Deliver(Disk, g, ref)
      OBVIOUS
    <2> QED BY <1>1, <2>1, <2>3, <2>4, ViewReload
  <1> QED BY <1>p, <1>2, <1>3, <1>4, EndsData

\* The host crashes: what reaches the medium is one of the contents in doubt,
\* and slots that wait for a sync are whole or lost.
LEMMA CrashData ==
    ASSUME WholeWrites, TypeInv, LogInv, DataInv, Crash
    PROVE  DataInv'
  <1> DEFINE C == confirmed
             I == intervals
             g == grid
             D == dirty
             h == grid'
             s == Settled(idx')
             N == {s}
             A == NamesOf(Acked)
  <1>p. up /\ ProcessEnds /\ dirty' = {} /\ \A ix \in media[0] : Whole(ix) \/ Half(ix)
    BY DEF Crash, LogInv
  <1>1. idx' \in media[0] /\ media'[0] = {idx'}
    <2>1. PICK pick \in [Sectors -> UNION {media[j] : j \in Sectors}] :
            /\ \A j \in Sectors : pick[j] \in media[j]
            /\ idx' = [i \in 1 .. IndexCap |->
                         pick[(i - 1) \div SectorLen][((i - 1) % SectorLen) + 1]]
            /\ media' = [j \in Sectors |-> {pick[j]}]
      BY Zenon DEF Crash
    <2>2. Sectors = {0} /\ SectorLen = IndexCap /\ IndexCap \in Nat \ {0}
      BY OneSector
    <2>3. 0 \in Sectors
      BY <2>2
    <2>4. pick[0] \in media[0] /\ media'[0] = {pick[0]}
      BY <2>1, <2>3
    <2>5. Sound(pick[0])
      BY <1>p, <2>4 DEF Whole, Half
    <2>6. \A i \in 1 .. IndexCap : (i - 1) \div SectorLen = 0 /\ ((i - 1) % SectorLen) + 1 = i
      BY <2>2
    <2>7. idx' = [i \in 1 .. IndexCap |-> pick[0][i]]
      BY <2>1, <2>6
    <2>8. idx' = pick[0]
      BY <2>5, <2>7 DEF Sound, Indexes
    <2> QED BY <2>4, <2>8
  <1>2. s \in Finals /\ Finals' = N
    BY <1>1 DEF Finals
  <1>3. Regular(s)
    BY <1>p, <1>1, SettledRegular
  <1>4. \A x \in GridSlots(Disk) : x \notin D => h[x] = g[x]
    <2>1. PICK lost \in SUBSET dirty : h = [x \in DOMAIN g |-> IF x \in lost THEN Junk ELSE g[x]]
      BY Zenon DEF Crash
    <2>2. DOMAIN g = GridSlots(Disk)
      BY DEF TypeInv, GridTypes
    <2> QED BY <2>1, <2>2
  <1>5. View(g, D, C, I, Acked, Now, Base, Finals)
    BY <1>p DEF DataInv, ViewInv, ViewRefs, ViewExts
  <1>n. h = grid' /\ s = Settled(idx')
    OBVIOUS
  <1> HIDE DEF C, I, g, D, h, s
  <1>6. Past(g, D, C, I, A, s, Now) /\ Memory(C, I)
    BY <1>2, <1>5 DEF View
  <1>7. Past(g, D, C, I, A, s, s)
    <2>1. TablesFrom(g, s, s)
      BY TablesFromSelf
    <2> QED BY <1>6, <2>1 DEF Past
  <1>8. \A ref : RefExtent(ref) \in I /\ Clean(D, ref) => Deliver(Disk, h, ref) = Deliver(Disk, g, ref)
    <2> SUFFICES ASSUME NEW ref, RefExtent(ref) \in I, Clean(D, ref)
                 PROVE  Deliver(Disk, h, ref) = Deliver(Disk, g, ref)
      OBVIOUS
    <2>1. Proper(RefExtent(ref))
      BY <1>6 DEF Memory
    <2>2. \A x \in SlotsIn(RefExtent(ref)) : x \in GridSlots(Disk) /\ x \notin D
      BY <2>1 DEF Proper, Clean, Dry
    <2>3. \A x \in SlotsIn(RefExtent(ref)) : h[x] = g[x]
      BY <1>4, <2>2
    <2> QED BY <2>1, <2>3, DeliverSame
  <1>9. View(h, {}, Finish(Disk, h, s).refs, ExtsOf(s), Acked, s, s, N)
    <2>1. \A iv : Dry(D, iv) => Dry({}, iv)
      BY DEF Dry
    <2>2. \A m \in N : Past(g, D, C, I, A, m, s)
      BY <1>7
    <2> HIDE DEF N
    <2> QED BY <1>3, <1>5, <1>6, <1>8, <2>1, <2>2, ViewReload
  <1> HIDE DEF N
  <1>10. View(grid', dirty', Finish(Disk, grid', s).refs, ExtsOf(s), Acked, s, s, N)
    BY <1>p, <1>9, <1>n
  <1> QED BY <1>p, <1>2, <1>10, <1>n, EndsData

\* The disk is opened.
LEMMA BootData ==
    ASSUME TypeInv, LogInv, DataInv, Boot
    PROVE  DataInv'
  <1> DEFINE r == Replay(Disk, idx, grid)
             s == Final(idx)
  <1>p. /\ ~up /\ up' /\ r.ok /\ confirmed' = r.refs /\ intervals' = r.exts /\ indexEnd' = End(idx)
        /\ UNCHANGED <<pendingIntervals, indexErr, idx, media, grid, dirty, pc, tpc, job>>
    BY Zenon DEF Boot, idxVars, gridVars
  <1>0. tpc = "idle"
    BY <1>p DEF TypeInv, JobInv
  <1>1. r = Finish(Disk, grid, s) /\ r.exts = ExtsOf(s)
    BY ReplayFinal
  <1>2. Now = s /\ Base = s /\ Now' = s /\ Base' = s /\ Finals' = Finals
    <2>0. Settled(idx) = s
      BY <1>p, RefusesHalf, WholeSettled DEF LogInv
    <2>1. Now = s /\ Base = s
      BY <1>p, <1>0, <2>0 DEF Now, Base
    <2>2. Now' = s
      BY <1>p, <1>0 DEF Now
    <2>3. Base' = s
      BY <1>p, <1>0 DEF Base, Final
    <2>4. Finals' = Finals
      BY <1>p DEF Finals
    <2> QED BY <2>1, <2>2, <2>3, <2>4
  <1> HIDE DEF r, s
  <1>3. ViewRefs' = ViewRefs /\ ViewExts' = ViewExts /\ intervals' = ViewExts
    BY <1>p, <1>1, <1>2 DEF ViewRefs, ViewExts
  <1>4. Acked' = Acked /\ Holders' = Holders
    BY <1>p DEF Acked, Holders
  <1>5. ViewInv'
    BY <1>p, <1>2, <1>3, <1>4 DEF DataInv, ViewInv
  <1>6. SpaceInv'
    <2>1. SpaceInv /\ Memory(ViewRefs, ViewExts)
      BY DEF DataInv, ViewInv, View
    <2>2. pendingIntervals = {} /\ pendingIntervals' = {}
      BY <1>p, <2>1 DEF SpaceInv
    <2>3. Holders = {}
      BY <2>1, <2>2 DEF SpaceInv
    <2>4. \A p \in Puts : pc'[p] \notin {"commit", "sync"} /\ pc'[p] # "sync"
      BY <1>p, <2>3 DEF Holders
    <2>5. Extents' = ViewExts
      BY <1>3, <2>2 DEF Extents
    <2>6. Apart(Extents')
      BY <2>1, <2>5 DEF Memory
    <2> QED BY <1>p, <1>4, <2>2, <2>3, <2>4, <2>6 DEF SpaceInv
  <1>7. WorkInv'
    BY <1>p, <1>0, WorkIdle DEF WorkInv
  <1> QED BY <1>p, <1>5, <1>6, <1>7 DEF DataInv

\* A new disk.
LEMMA InitData ==
    ASSUME WholeWrites, Init
    PROVE  DataInv
  <1> DEFINE ix == EmptyIndex
             r == ReplayStart
  <1>p. /\ idx = ix /\ media = [j \in Sectors |-> {Sector(ix, j)}] /\ confirmed = [f \in Fids |-> NoRef]
        /\ indexEnd = 0 /\ indexErr = FALSE /\ pc = [p \in Puts |-> "idle"] /\ tpc = "idle" /\ up
        /\ intervals = {} /\ pendingIntervals = {} /\ dirty = {}
    BY DEF Init
  <1>1. ix \in Indexes /\ \A i \in 1 .. IndexCap : ix[i] = ZeroEntry
    BY EntryTypes DEF EmptyIndex, Indexes
  <1> HIDE DEF ix
  <1>2. End(ix) = 0
    <2>1. EndsAt(ix, 0)
      BY <1>1, IndexAssumption DEF EndsAt
    <2> QED BY <2>1, EndFacts
  <1>3. At(ix, 0) = r
    BY FoldDef, Zenon DEF At
  <1>4. media[0] = {ix}
    BY <1>p, <1>1, OneSector
  <1>5. Now = r /\ Base = r /\ Finals = {r}
    <2>1. Now = r /\ Base = r
      BY <1>p, <1>2, <1>3 DEF Now, Base, Final
    <2>2. Settled(ix) = r
      <3>1. ~Mid(r)
        BY DEF Mid, ReplayStart
      <3> HIDE DEF r
      <3> QED BY <1>2, <1>3, <3>1 DEF Settled, Final
    <2>3. Finals = {r}
      BY <1>4, <2>2 DEF Finals
    <2> QED BY <2>1, <2>3
  <1>6. Acked = {} /\ Holders = {} /\ NamesOf(Acked) = {} /\ Extents = {}
    BY <1>p DEF Acked, Holders, NamesOf, Extents
  <1>7. r.exts = {} /\ r.tables = <<>> /\ \A t : ~InTables(r, t)
    BY DEF ReplayStart, InTables
  <1>8. ViewRefs = confirmed /\ ViewExts = {} /\ \A f \in Fids : confirmed[f] = NoRef
    BY <1>p DEF ViewRefs, ViewExts
  <1> HIDE DEF r
  <1>9. Memory(confirmed, {}) /\ Serves(grid, confirmed, {})
    BY <1>8 DEF Memory, Apart, Serves
  <1>10. Current(grid, {}, confirmed, {}, r) /\ Past(grid, {}, confirmed, {}, {}, r, r)
    BY <1>7, <1>8 DEF Current, ExtsOK, TablesOK, NamesOK, Past, TablesFrom
  <1>11. ViewInv
    BY <1>p, <1>5, <1>6, <1>7, <1>8, <1>9, <1>10 DEF ViewInv, View
  <1>12. SpaceInv
    BY <1>p, <1>6 DEF SpaceInv, Apart
  <1>13. WorkInv
    BY <1>p, WorkIdle DEF WorkInv
  <1> QED BY <1>p, <1>11, <1>12, <1>13 DEF DataInv

-----------------------------------------------------------------------------
(* The invariant holds, and what follows from it.                          *)

\* Every step keeps what is served.
LEMMA NextData ==
    ASSUME WholeWrites, TypeInv, LogInv, DataInv, [Next]_vars
    PROVE  DataInv'
  <1>1. CASE \E p \in Puts : PutNext(p)
    <2>1. PICK p \in Puts : PutNext(p)
      BY <1>1
    <2>2. CASE PutPrepare(p)
      BY <2>2, PutPrepareData
    <2>3. CASE PutStream(p)
      BY <2>3, PutStreamData
    <2>4. CASE PutCommit(p)
      BY <2>4, PutCommitData
    <2>5. CASE PutPublish(p)
      BY <2>5, PutPublishData
    <2>6. CASE PutAbort(p)
      BY <2>6, PutAbortData
    <2>7. CASE PutRollback(p)
      BY <2>7, PutRollbackData
    <2> QED BY <2>1, <2>2, <2>3, <2>4, <2>5, <2>6, <2>7 DEF PutNext
  <1>2. CASE TrimStart
    BY <1>2, TrimStartData
  <1>3. CASE TrimStep
    BY <1>3, TrimFailData, WriteContainerData, ContainerSyncedData, WriteTableData, TableSyncedData,
       AnchorFirstData, AnchorSecondData, AnchorSyncedData, LoadTableData, AppendTombstoneData,
       TombstonesSyncedData, CompactCollectData, CopySectorData, CompactDoneData DEF TrimStep
  <1>4. CASE (\E f \in ReadNames : GetLookup(f)) \/ GetRead \/ UNCHANGED vars
    <2>1. UNCHANGED <<memVars, idxVars, gridVars, pc, tpc, job, up>>
      BY <1>4, Zenon DEF GetLookup, GetRead, vars
    <2> QED BY <2>1, ReadData
  <1>5. CASE Crash
    BY <1>5, CrashData
  <1>6. CASE Shutdown
    BY <1>6, ShutdownData
  <1>7. CASE Boot
    BY <1>7, BootData
  <1> QED BY <1>1, <1>2, <1>3, <1>4, <1>5, <1>6, <1>7 DEF Next, Running

\* The invariant of the specification.
LEMMA DataAlways ==
    ASSUME WholeWrites
    PROVE  Spec => [](TypeInv /\ LogInv /\ DataInv)
  <1>1. Init => TypeInv /\ LogInv /\ DataInv
    BY InitTyped, InitLog, InitData
  <1>2. TypeInv /\ LogInv /\ DataInv /\ [Next]_vars => (TypeInv /\ LogInv /\ DataInv)'
    BY NextTyped, NextLog, NextData
  <1> QED BY <1>1, <1>2, PTL DEF Spec

\* What a boot would get from the index, now.
LEMMA WouldOpen ==
    ASSUME TypeInv, LogInv, DataInv, up, tpc # "anchorSecond"
    PROVE  /\ Replay(Disk, idx, grid).ok
           /\ Reloads(grid, ViewRefs, grid, dirty, Now, Replay(Disk, idx, grid).refs, ExtsOf(Now))
           /\ NamesOK(grid, ViewRefs, ViewExts, Now)
  <1> DEFINE C == ViewRefs
             I == ViewExts
             g == grid
             D == dirty
             s == Now
  <1>1. Replay(Disk, idx, g) = Finish(Disk, g, s)
    BY ReplayFinal DEF Now
  <1>2. Regular(s) /\ View(g, D, C, I, Acked, s, Base, Finals)
    BY NowRegular DEF DataInv, ViewInv
  <1> HIDE DEF C, I, g, D, s
  <1>3. Memory(C, I) /\ ExtsOK(s) /\ TablesOK(g, D, C, I, s) /\ NamesOK(g, C, I, s)
    BY <1>2 DEF View, Current
  <1>4. \A ref : RefExtent(ref) \in I /\ Clean(D, ref) => Deliver(Disk, g, ref) = Deliver(Disk, g, ref)
    OBVIOUS
  <1>5. \A iv : Dry(D, iv) => Dry(D, iv)
    OBVIOUS
  <1>6. Finish(Disk, g, s).ok /\ Reloads(g, C, g, D, s, Finish(Disk, g, s).refs, ExtsOf(s))
    BY <1>2, <1>3, <1>4, <1>5, Reload
  <1> QED BY <1>1, <1>3, <1>6 DEF C, I, g, D, s

\* Under WholeWrites the in-place compaction never leaves the disk out of
\* service: the copy is replayed without an error, whatever Trim packed before.
THEOREM CompactionNeverFaults ==
    ASSUME WholeWrites
    PROVE  Spec => []NeverFaulted
  <1>1. TypeInv /\ LogInv /\ DataInv => NeverFaulted
    BY DEF DataInv, NeverFaulted
  <1> QED BY <1>1, DataAlways, PTL

\* Under WholeWrites what a reference in memory points to is covered by a
\* confirmed extent, and no two extents overlap: the compaction of Trim frees
\* no space somebody refers to, and reserveExtent gives out none that is taken.
THEOREM SpaceIsReserved ==
    ASSUME WholeWrites
    PROVE  Spec => []ReferencedIsReserved
  <1>1. TypeInv /\ LogInv /\ DataInv => ReferencedIsReserved
    <2> SUFFICES ASSUME DataInv, up PROVE ReferencedIsReserved
      BY DEF ReferencedIsReserved
    <2>1. Memory(confirmed, intervals) /\ SpaceInv
      BY DEF DataInv, ViewInv, View, ViewRefs, ViewExts
    <2> QED BY <2>1 DEF Memory, SpaceInv, Apart, RefExtent, ReferencedIsReserved
  <1> QED BY <1>1, DataAlways, PTL

\* Under WholeWrites an acknowledged object reads back, byte for byte, at every
\* moment that the disk is open: during a trim, after a failed one, and after a
\* crash in any of its steps.
THEOREM AckedAlwaysReadable ==
    ASSUME WholeWrites
    PROVE  Spec => []AckedReadable
  <1>1. TypeInv /\ LogInv /\ DataInv => AckedReadable
    <2> SUFFICES ASSUME DataInv, up PROVE AckedReadable
      BY DEF AckedReadable
    <2>1. Serves(grid, confirmed, Acked)
      BY DEF DataInv, ViewInv, View, ViewRefs
    <2> QED BY <2>1 DEF Serves, AckedReadable, Right, Bytes
  <1> QED BY <1>1, DataAlways, PTL

\* What a replay makes of the index without half an anchor.
LEMMA WithoutHalfReplay ==
    ASSUME NEW ix, Whole(ix) \/ Half(ix), NEW g
    PROVE  Replay(Disk, WithoutHalf(ix), g) = Finish(Disk, g, Settled(ix))
  <1>1. CASE Whole(ix)
    <2>1. ~(End(ix) # 0 /\ ix[End(ix)].kind = "anchor")
      BY <1>1, LastAnchor DEF Whole
    <2>2. WithoutHalf(ix) = ix
      BY <2>1 DEF WithoutHalf
    <2> QED BY <1>1, <2>2, WholeSettled, ReplayFinal
  <1>2. CASE Half(ix)
    <2> DEFINE n == End(ix) - 1
               iy == WriteAt(ix, n, <<ZeroEntry>>)
    <2>1. /\ Sound(ix) /\ ix \in Indexes /\ End(ix) # 0 /\ WithoutHalf(ix) = iy /\ Settled(ix) = At(ix, n)
      BY <1>2 DEF Half, Sound, Settled, Final, WithoutHalf
    <2>2. End(ix) \in Nat
      BY <2>1, EndFacts, IndexAssumption DEF EndsAt
    <2>3. n \in Nat /\ n <= End(ix) /\ End(ix) <= n + 1 /\ n \in 0 .. n
      BY <2>1, <2>2
    <2>4. <<ZeroEntry>> \in Seq({ZeroEntry}) /\ Len(<<ZeroEntry>>) = 1
      OBVIOUS
    <2> HIDE DEF n
    <2>5. End(iy) = n /\ At(iy, n) = At(ix, n)
      BY <2>1, <2>3, <2>4, Truncate
    <2> HIDE DEF iy
    <2>6. Final(iy) = Settled(ix)
      BY <2>1, <2>5 DEF Final
    <2> QED BY <2>1, <2>6, ReplayFinal
  <1> QED BY <1>1, <1>2

\* As long as each write of the index is whole or not there: where the process
\* has ended, in any step of Puts and of Trim, half an anchor is all that can be
\* wrong with the index.  Without it the next boot accepts the index and serves
\* every acknowledged object.
THEOREM BootRefusesOnlyHalfAnchor ==
    ASSUME WholeWrites
    PROVE  Spec => []HalfAnchorAtMost
  <1>1. TypeInv /\ LogInv /\ DataInv => HalfAnchorAtMost
    <2> SUFFICES ASSUME TypeInv, LogInv, DataInv, ~up PROVE BootServes(WithoutHalf(idx))
      BY DEF HalfAnchorAtMost
    <2> DEFINE s == Now
               C == ViewRefs
               I == ViewExts
               r == Replay(Disk, WithoutHalf(idx), grid)
    <2>1. s = Settled(idx) /\ C = Finish(Disk, grid, s).refs
      BY DEF TypeInv, JobInv, Now, ViewRefs
    <2>2. r = Finish(Disk, grid, s)
      BY <2>1, WithoutHalfReplay DEF LogInv
    <2>3. Regular(s) /\ View(grid, dirty, C, I, Acked, s, Base, Finals)
      BY NowRegular DEF DataInv, ViewInv
    <2> HIDE DEF s, C, I, r
    <2>4. Memory(C, I) /\ ExtsOK(s) /\ TablesOK(grid, dirty, C, I, s) /\ Serves(grid, C, Acked)
          /\ NamesOK(grid, C, I, s)
      BY <2>3 DEF View, Current
    <2>5. \A ref : RefExtent(ref) \in I /\ Clean(dirty, ref) => Deliver(Disk, grid, ref) = Deliver(Disk, grid, ref)
      OBVIOUS
    <2>6. \A iv : Dry(dirty, iv) => Dry(dirty, iv)
      OBVIOUS
    <2>7. Finish(Disk, grid, s).ok
      BY <2>3, <2>4, <2>5, <2>6, Reload
    <2>8. r.ok /\ \A p \in Acked : \A f \in Names(Header[p]) : Right(r.refs[f], p, f)
      BY <2>1, <2>2, <2>4, <2>7 DEF Serves, Right, Bytes
    <2> QED BY <2>8, Zenon DEF BootServes, r
  <1> QED BY <1>1, DataAlways, PTL

\* Under WholeWrites: whenever the disk is quiet, reopening it would succeed and
\* serve every name that memory serves, with the same bytes: memory and index
\* agree after every Put, every Trim and every failure that it admits.
THEOREM ReopenServes ==
    ASSUME WholeWrites
    PROVE  Spec => []ReopenServesTheSame
  <1>1. TypeInv /\ LogInv /\ DataInv => ReopenServesTheSame
    <2> SUFFICES ASSUME TypeInv, LogInv, DataInv, up, MuFree PROVE ReopenServesTheSame
      BY DEF ReopenServesTheSame
    <2> DEFINE r == Replay(Disk, idx, grid)
    <2>1. tpc # "anchorSecond" /\ ViewRefs = confirmed /\ ViewExts = intervals
      BY DEF MuFree, ViewRefs, ViewExts
    <2>2. /\ r.ok /\ Reloads(grid, confirmed, grid, dirty, Now, r.refs, ExtsOf(Now))
          /\ NamesOK(grid, confirmed, intervals, Now)
      BY <2>1, WouldOpen
    <2>3. ASSUME NEW f \in Fids, confirmed[f] # NoRef
          PROVE  /\ r.refs[f] # NoRef /\ r.refs[f].size = confirmed[f].size
                 /\ Bytes(r.refs[f]) = Bytes(confirmed[f])
      <3> HIDE DEF r
      <3>1. CASE Listed(grid, Now, f)
        BY <2>2, <2>3, <3>1 DEF Reloads, Bytes
      <3>2. CASE ~Listed(grid, Now, f)
        <4>1. r.refs[f] = Now.refs[f] /\ Match(grid, intervals, Now.refs[f], confirmed[f])
          BY <2>2, <2>3, <3>2 DEF Reloads, NamesOK
        <4> QED BY <4>1 DEF Match, Bytes
      <3> QED BY <3>1, <3>2
    <2> HIDE DEF r
    <2>4. \A q \in {r} :
            /\ q.ok
            /\ \A f \in Fids : \/ confirmed[f] \in {NoRef, q.refs[f]}
                               \/ /\ q.refs[f] # NoRef /\ q.refs[f].size = confirmed[f].size
                                  /\ Bytes(q.refs[f]) = Bytes(confirmed[f])
      BY <2>2, <2>3
    <2> QED BY <2>4, Zenon DEF ReopenServesTheSame, r
  <1> QED BY <1>1, DataAlways, PTL
=============================================================================
