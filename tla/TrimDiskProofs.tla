---------------------------- MODULE TrimDiskProofs ----------------------------
(***************************************************************************)
(* Proofs about Trim on one disk, for any number of Puts, any headers, any *)
(* index capacity and any grid.                                            *)
(***************************************************************************)
EXTENDS TrimDisk, IndexLogProofs

-----------------------------------------------------------------------------
(* Arithmetic of sectors.                                                  *)

\* Division with remainder.
LEMMA DivMod ==
    ASSUME NEW a \in Nat, NEW b \in Nat \ {0}
    PROVE  /\ a \div b \in Nat /\ a % b \in 0 .. b - 1
           /\ a = b * (a \div b) + (a % b)
  OBVIOUS

\* A multiple that is smaller is smaller by the factor.
LEMMA MulMono ==
    ASSUME NEW a \in Nat, NEW b \in Nat, NEW c \in Nat, a < b
    PROVE  c * a + c <= c * b
  OBVIOUS

\* Every entry lies in a sector.
LEMMA InSector ==
    ASSUME NEW a \in Nat, NEW b \in Nat \ {0}, a % b = 0, NEW i \in 1 .. a
    PROVE  /\ (i - 1) \div b \in 0 .. (a \div b) - 1
           /\ ((i - 1) % b) + 1 \in 1 .. b
  <1> DEFINE k == i - 1
             q == a \div b
             p == k \div b
             m == k % b
  <1>0. k \in Nat /\ k < a
    OBVIOUS
  <1>1. q \in Nat /\ a = b * q
    BY DivMod
  <1> HIDE DEF k
  <1>2. p \in Nat /\ m \in 0 .. b - 1 /\ k = b * p + m
    BY <1>0, DivMod
  <1> HIDE DEF q, p, m
  <1>3. m + 1 \in 1 .. b
    BY <1>2
  <1>4. p < q
    <2> SUFFICES ASSUME ~(p < q) PROVE FALSE
      OBVIOUS
    <2>1. b * q <= b * p
      BY <1>1, <1>2
    <2> QED BY <1>0, <1>1, <1>2, <2>1
  <1>5. p \in 0 .. q - 1
    BY <1>1, <1>2, <1>4
  <1> QED BY <1>3, <1>5 DEF k, p, q, m

\* Every place in a sector is an entry.
LEMMA SectorPart ==
    ASSUME NEW a \in Nat, NEW b \in Nat \ {0}, a % b = 0, NEW j \in 0 .. (a \div b) - 1, NEW i \in 1 .. b
    PROVE  j * b + i \in 1 .. a
  <1> DEFINE q == a \div b
  <1>1. q \in Nat /\ a = b * q
    BY DivMod
  <1> HIDE DEF q
  <1>2. q \in Nat /\ a = b * q /\ j \in Nat /\ j < q
    BY <1>1 DEF q
  <1>3. b * j + b <= b * q
    BY <1>2, MulMono
  <1>4. j * b = b * j /\ b * j \in Nat
    BY <1>2
  <1> QED BY <1>2, <1>3, <1>4

-----------------------------------------------------------------------------
(* Types of what is on the disk.                                           *)

SectorImages == [1 .. SectorLen -> Entries]

\* The sectors of an index image.
LEMMA SectorTyped ==
    ASSUME NEW ix \in Indexes, NEW j \in Sectors
    PROVE  Sector(ix, j) \in SectorImages
  <1>1. \A i \in 1 .. SectorLen : j * SectorLen + i \in 1 .. IndexCap
    BY SectorPart, IndexAssumption, TrimAssumption DEF Sectors
  <1>2. \A i \in 1 .. SectorLen : ix[j * SectorLen + i] \in Entries
    BY <1>1 DEF Indexes
  <1> QED BY <1>2 DEF Sector, SectorImages

\* A write of entries makes an index image of an index image.
LEMMA WriteAtTyped ==
    ASSUME NEW ix \in Indexes, NEW n \in Nat, NEW es \in Seq(Entries)
    PROVE  WriteAt(ix, n, es) \in Indexes
  <1>1. Len(es) \in Nat
    OBVIOUS
  <1>2. ASSUME NEW i \in 1 .. IndexCap, i \in n + 1 .. n + Len(es) PROVE es[i - n] \in Entries
    <2>1. i - n \in 1 .. Len(es)
      BY <1>1, <1>2
    <2> QED BY <2>1
  <1>3. \A i \in 1 .. IndexCap : ix[i] \in Entries
    BY DEF Indexes
  <1> QED BY <1>2, <1>3 DEF WriteAt, Indexes

\* The entries that the daemon writes are entries.
LEMMA EntryTypes ==
    /\ \A f \in Fids, s \in Nat : Plain(f, s) \in Entries /\ Plain(f, s) # ZeroEntry
    /\ \A f \in Fids : /\ Jump(f) \in Entries /\ Jump(f) # ZeroEntry
                       /\ Anchor(f) \in Entries /\ Anchor(f) # ZeroEntry
                       /\ Tomb(f) \in Entries /\ Tomb(f) # ZeroEntry
    /\ ZeroEntry \in Entries
  BY DEF Plain, Jump, Anchor, Tomb, Entry, Entries, ZeroEntry

\* The headers that the Puts send.
LEMMA HeaderFacts ==
    ASSUME NEW p \in Puts
    PROVE  /\ Header[p].fid \in Fids /\ Header[p].fid \in Nat /\ Header[p].fid # 0
           /\ Header[p].size \in Nat /\ Header[p].alias \in Nat
           /\ Header[p].alias # NoAlias =>
                /\ Header[p].alias \in Fids /\ Header[p].alias # Header[p].fid
                /\ Header[p].size >= 2
           /\ Names(Header[p]) \subseteq AllNames /\ Header[p] \in Headers
  <1>1. Header[p] \in Headers
    BY TrimAssumption
  <1>2. Header[p] \in [fid : Nat, size : Nat, alias : Nat]
    BY <1>1, HeadersAssumption
  <1>3. Names(Header[p]) \subseteq AllNames
    BY <1>1 DEF AllNames
  <1>4. AllNames \subseteq Fids
    BY TrimAssumption
  <1>5. Header[p].fid \in Names(Header[p])
    BY DEF Names
  <1>6. Header[p].alias # NoAlias => Header[p].alias \in Names(Header[p])
    BY DEF Names
  <1>7. Header[p].fid \in Fids /\ (Header[p].alias # NoAlias => Header[p].alias \in Fids)
    BY <1>3, <1>4, <1>5, <1>6
  <1>8. Header[p].fid \in Nat /\ Header[p].fid # 0
    BY <1>7, IndexAssumption
  <1>9. Header[p].alias # NoAlias => Header[p].alias # Header[p].fid /\ Header[p].size >= 2
    BY TrimAssumption
  <1> QED BY <1>1, <1>2, <1>3, <1>7, <1>8, <1>9

\* The entries of a Put.
LEMMA PutEntriesTyped ==
    ASSUME NEW p \in Puts
    PROVE  /\ PutEntries(p) \in Seq(Entries) /\ Len(PutEntries(p)) \in 1 .. 2
           /\ [i \in DOMAIN PutEntries(p) |-> ZeroEntry] \in Seq(Entries)
           /\ Len([i \in DOMAIN PutEntries(p) |-> ZeroEntry]) = Len(PutEntries(p))
  <1> DEFINE h == Header[p]
  <1>1. /\ h.fid \in Fids /\ h.size \in Nat /\ (h.alias # NoAlias => h.alias \in Fids)
    BY HeaderFacts
  <1>2. Plain(h.fid, h.size) \in Entries /\ (h.alias # NoAlias => Jump(h.alias) \in Entries)
    BY <1>1, EntryTypes
  <1>3. ZeroEntry \in Entries
    BY EntryTypes
  <1>4. CASE h.alias = NoAlias
    <2>1. PutEntries(p) = <<Plain(h.fid, h.size)>>
      BY <1>4 DEF PutEntries
    <2>2. PutEntries(p) \in Seq(Entries) /\ Len(PutEntries(p)) = 1
      BY <1>2, <2>1
    <2> QED BY <1>3, <2>2
  <1>5. CASE h.alias # NoAlias
    <2>1. PutEntries(p) = <<Jump(h.alias), Plain(h.fid, h.size)>>
      BY <1>5 DEF PutEntries
    <2>2. PutEntries(p) \in Seq(Entries) /\ Len(PutEntries(p)) = 2
      BY <1>2, <1>5, <2>1
    <2> QED BY <1>3, <2>2
  <1> QED BY <1>4, <1>5

-----------------------------------------------------------------------------
(* What a replay serves has its type.                                      *)

\* References of a scan: to an object of its own, at a place that exists.
PlacedRef(d, ref) ==
    ref # NoRef => /\ ~ref.packed /\ ref.fid \in Fids /\ AddrOK(d, ref.fid, ref.storedSize)
                   /\ ref.size # 0

PlacedRefs(d, r) == \A f \in Fids : PlacedRef(d, r.refs[f])

\* An accepted entry adds no other references.
LEMMA PlacedStep ==
    ASSUME NEW d \in Disks, NEW r \in ReplayStates, NEW e \in Entries, e # ZeroEntry, Accepts(d, r, e),
           PlacedRefs(d, r)
    PROVE  PlacedRefs(d, Apply(d, r, e))
  <1>0. e.fid \in Fids /\ e.fid \in Nat /\ e.fid # 0 /\ e.size \in Nat
        /\ e.kind \in {"plain", "jump", "anchor", "tomb"}
    BY EntryFacts
  <1>1. e.kind = "plain" =>
          /\ PlacedRef(d, Own(e.fid, e.size))
          /\ ~r.anchor /\ r.alias # 0 => PlacedRef(d, AliasOf(e.fid, e.size))
    <2>1. e.kind = "plain" => AddrOK(d, e.fid, e.size) /\ (~r.anchor /\ r.alias # 0 => e.size >= 2)
      BY DEF Accepts
    <2>2. e.kind = "plain" => e.size # 0
      BY <1>0, <2>1, ExtentFacts
    <2>3. /\ Own(e.fid, e.size).fid = e.fid /\ Own(e.fid, e.size).storedSize = e.size
          /\ ~Own(e.fid, e.size).packed /\ Own(e.fid, e.size).size = e.size
          /\ AliasOf(e.fid, e.size).fid = e.fid /\ AliasOf(e.fid, e.size).storedSize = e.size
          /\ ~AliasOf(e.fid, e.size).packed /\ AliasOf(e.fid, e.size).size = e.size - 1
      BY <1>0, RefTypes
    <2> QED BY <1>0, <2>1, <2>2, <2>3 DEF PlacedRef
  <1>2. PlacedRef(d, NoRef)
    BY DEF PlacedRef
  <1>3. CASE e.kind = "plain" /\ ~r.anchor
    <2>1. Apply(d, r, e).refs = [f \in Fids |-> IF f = r.alias THEN AliasOf(e.fid, e.size)
                                ELSE IF f = e.fid THEN Own(e.fid, e.size) ELSE r.refs[f]]
      BY <1>3, ApplyPlain DEF Same
    <2>2. \A f \in Fids : f = r.alias => r.alias # 0
      BY IndexAssumption
    <2> QED BY <1>1, <1>3, <2>1, <2>2 DEF PlacedRefs
  <1>4. CASE e.kind = "plain" /\ r.anchor
    <2>1. Apply(d, r, e).refs = [f \in Fids |-> IF f = e.fid THEN Own(e.fid, e.size) ELSE r.refs[f]]
      BY <1>4, ApplyTable DEF Same
    <2> QED BY <1>1, <1>4, <2>1 DEF PlacedRefs
  <1>5. CASE e.kind \in {"jump", "anchor"}
    <2>0. \/ Same(r, Apply(d, r, e), r.refs, r.exts, e.fid, r.anchor, r.tables)
          \/ Same(r, Apply(d, r, e), r.refs, r.exts, r.alias, TRUE, r.tables)
      BY <1>5, ApplyOther
    <2>1. Apply(d, r, e).refs = r.refs
      BY <2>0 DEF Same
    <2> QED BY <2>1 DEF PlacedRefs
  <1>6. CASE e.kind = "tomb"
    <2>0. Same(r, Apply(d, r, e), [f \in Fids |-> IF f = e.fid THEN NoRef ELSE r.refs[f]],
               {x \in r.exts : x.fid # e.fid}, r.alias, r.anchor, r.tables)
      BY <1>6, ApplyOther
    <2>1. Apply(d, r, e).refs = [f \in Fids |-> IF f = e.fid THEN NoRef ELSE r.refs[f]]
      BY <2>0 DEF Same
    <2> QED BY <1>2, <2>1 DEF PlacedRefs
  <1> QED BY <1>0, <1>3, <1>4, <1>5, <1>6

\* As long as the replay has not failed, its references are of this kind.
LEMMA FoldPlaced ==
    ASSUME NEW d \in Disks, NEW ix \in Indexes, NEW n \in Nat, n <= End(ix), Fold(d, ix)[n].ok
    PROVE  PlacedRefs(d, Fold(d, ix)[n])
  <1> DEFINE F == Fold(d, ix)
             T == {i \in Nat : i <= n => PlacedRefs(d, F[i])}
  <1>1. \A i \in Nat : i < n =>
                /\ ix[i + 1] \in Entries /\ ix[i + 1] # ZeroEntry
                /\ F[i] \in ReplayStates
                /\ Accepts(d, F[i], ix[i + 1])
                /\ F[i + 1] = Apply(d, F[i], ix[i + 1])
    BY OkBefore
  <1>2. F[0] = ReplayStart
    BY FoldDef, Zenon
  <1> HIDE DEF F
  <1>3. 0 \in T
    <2>1. \A f \in Fids : F[0].refs[f] = NoRef
      BY <1>2, StartFacts
    <2> QED BY <2>1 DEF PlacedRefs, PlacedRef
  <1>4. \A i \in Nat : i \in T => i + 1 \in T
    <2> SUFFICES ASSUME NEW i \in Nat, i \in T, i + 1 <= n PROVE PlacedRefs(d, F[i + 1])
      OBVIOUS
    <2>1. i < n /\ PlacedRefs(d, F[i])
      OBVIOUS
    <2> QED BY <1>1, <2>1, PlacedStep
  <1> HIDE DEF T
  <1>5. n \in T
    BY <1>3, <1>4, NatInSet
  <1> QED BY <1>5 DEF T, F

TableTyped(v) ==
    v.kind = "table" =>
        /\ v.container \in Nat /\ v.size \in Nat
        /\ \A k \in DOMAIN v.entries : v.entries[k].offset \in Nat /\ v.entries[k].size \in Nat

GridTyped(d, g) == \A s \in GridSlots(d) : TableTyped(g[s])

\* A table that is read through a reference of its own.
LEMMA DeliveredTable ==
    ASSUME NEW d \in Disks, NEW g, GridTyped(d, g), NEW ref \in ObjectRefs, ref # NoRef, PlacedRef(d, ref)
    PROVE  TableTyped(Deliver(d, g, ref))
  <1> DEFINE iv == Extent(d, ref.fid, ref.storedSize)
  <1>1. ref.fid \in Nat /\ ref.storedSize \in Nat /\ ~ref.packed /\ AddrOK(d, ref.fid, ref.storedSize)
    BY DEF PlacedRef, ObjectRefs
  <1>2. iv.start \in GridSlots(d)
    <2>1. iv \in Intervals /\ iv.start <= iv.end /\ iv.end < Slots[d]
      BY <1>1, ExtentFacts
    <2>2. Slots[d] \in Nat
      BY IndexAssumption
    <2> QED BY <2>1, <2>2 DEF Intervals, GridSlots
  <1>3. TableTyped(g[iv.start])
    BY <1>2 DEF GridTyped
  <1>4. Deliver(d, g, ref) = Junk \/ Deliver(d, g, ref) = g[iv.start]
    BY <1>1 DEF Deliver
  <1>5. TableTyped(Junk)
    BY DEF TableTyped, Junk
  <1> QED BY <1>3, <1>4, <1>5

\* A reference that a packed table gives.
LEMMA PackedTyped ==
    ASSUME NEW t, t.kind = "table", TableTyped(t), NEW f, Lists(t, f)
    PROVE  PackedRef(t, EntryFor(t, f)) \in ObjectRefs /\ PackedRef(t, EntryFor(t, f)) # NoRef
  <1>1. PICK k \in DOMAIN t.entries : EntryFor(t, f) = t.entries[k]
    BY DEF Lists, EntryFor
  <1>2. EntryFor(t, f).offset \in Nat /\ EntryFor(t, f).size \in Nat /\ t.container \in Nat /\ t.size \in Nat
    BY <1>1 DEF TableTyped
  <1>3. PackedRef(t, EntryFor(t, f)) \in ObjectRefs
    BY <1>2 DEF PackedRef, ObjectRefs
  <1>4. PackedRef(t, EntryFor(t, f)).packed = TRUE /\ NoRef.packed = FALSE
    BY DEF PackedRef, NoRef, Own
  <1> QED BY <1>3, <1>4

\* What replayIndex returns.
LEMMA ReplayTyped ==
    ASSUME NEW d \in Disks, NEW ix \in Indexes, NEW g, GridTyped(d, g), Replay(d, ix, g).ok
    PROVE  /\ Replay(d, ix, g).refs \in [Fids -> ObjectRefs]
           /\ Replay(d, ix, g).exts \subseteq Intervals
           /\ \A f \in Fids : Scan(d, ix).refs[f] # NoRef => Replay(d, ix, g).refs[f] # NoRef
           /\ Scan(d, ix) \in ReplayStates /\ Scan(d, ix).ok /\ ~Mid(Scan(d, ix))
  <1> DEFINE r == Scan(d, ix)
             q == Replay(d, ix, g)
             live    == {i \in DOMAIN r.tables : r.refs[r.tables[i]] # NoRef}
             tab(i)  == Deliver(d, g, r.refs[r.tables[i]])
             by(f)   == {i \in live : Lists(tab(i), f)}
             last(S) == CHOOSE i \in S : \A j \in S : j <= i
  <1>1. q = Finish(d, g, r)
    BY Zenon DEF Replay, Once
  <1>2. r = Fold(d, ix)[End(ix)] /\ End(ix) \in Nat
    BY ScanIsFold, EndFacts, IndexAssumption DEF EndsAt
  <1>f. /\ q.ok <=> /\ r.ok /\ r.alias = 0 /\ ~r.anchor /\ \A i \in live : tab(i).kind = "table"
                    /\ \A x, y \in r.exts : x # y => ~Overlaps(x.iv, y.iv)
        /\ q.refs = IF ~(\A i \in live : tab(i).kind = "table") THEN r.refs
                    ELSE [f \in Fids |-> IF by(f) = {} THEN r.refs[f]
                                   ELSE PackedRef(tab(last(by(f))), EntryFor(tab(last(by(f))), f))]
        /\ q.exts = {x.iv : x \in r.exts}
    <2> HIDE DEF r
    <2> DEFINE X == /\ r.ok /\ r.alias = 0 /\ ~r.anchor /\ \A i \in live : tab(i).kind = "table"
                    /\ \A x, y \in r.exts : x # y => ~Overlaps(x.iv, y.iv)
               Y == IF ~(\A i \in live : tab(i).kind = "table") THEN r.refs
                    ELSE [f \in Fids |-> IF by(f) = {} THEN r.refs[f]
                                   ELSE PackedRef(tab(last(by(f))), EntryFor(tab(last(by(f))), f))]
               Z == {x.iv : x \in r.exts}
    <2>1. q = [ok |-> X, refs |-> Y, exts |-> Z]
      BY <1>1, Zenon DEF Finish
    <2> HIDE DEF X, Y, Z, q
    <2>2. (q.ok <=> X) /\ q.refs = Y /\ q.exts = Z
      BY <2>1
    <2> QED BY <2>2, Zenon DEF X, Y, Z
  <1>3. r.ok /\ r.alias = 0 /\ ~r.anchor /\ \A i \in live : tab(i).kind = "table"
    BY <1>f, Zenon
  <1>4. r \in ReplayStates /\ PlacedRefs(d, r)
    BY <1>2, <1>3, FoldType, FoldPlaced
  <1>5. /\ r.refs \in [Fids -> ObjectRefs] /\ r.tables \in Seq(Fids)
        /\ r.exts \in SUBSET [fid : Fids, iv : Intervals]
    BY <1>4 DEF ReplayStates
  <1>6. q.refs = [f \in Fids |-> IF by(f) = {} THEN r.refs[f]
                                 ELSE PackedRef(tab(last(by(f))), EntryFor(tab(last(by(f))), f))]
    BY <1>3, <1>f, Zenon
  <1>7. q.exts = {x.iv : x \in r.exts}
    BY <1>f, Zenon
  <1>8. \A i \in live : TableTyped(tab(i)) /\ r.tables[i] \in Fids
    <2> SUFFICES ASSUME NEW i \in live PROVE TableTyped(tab(i)) /\ r.tables[i] \in Fids
      OBVIOUS
    <2>1. r.tables[i] \in Fids /\ r.refs[r.tables[i]] # NoRef
      BY <1>5
    <2>2. r.refs[r.tables[i]] \in ObjectRefs /\ PlacedRef(d, r.refs[r.tables[i]])
      BY <1>4, <1>5, <2>1 DEF PlacedRefs
    <2> QED BY <2>1, <2>2, DeliveredTable
  <1>9. \A f : by(f) # {} => last(by(f)) \in by(f)
    <2> SUFFICES ASSUME NEW f, by(f) # {} PROVE last(by(f)) \in by(f)
      OBVIOUS
    <2>1. Len(r.tables) \in Nat /\ \A i \in by(f) : i \in 1 .. Len(r.tables)
      BY <1>5
    <2>2. IsFiniteSet(by(f))
      <3>1. by(f) \subseteq 1 .. Len(r.tables)
        BY <2>1
      <3>2. IsFiniteSet(1 .. Len(r.tables))
        BY <2>1, FS_Interval
      <3> QED BY <3>1, <3>2, FS_Subset
    <2>3. \E i \in by(f) : \A j \in by(f) : j <= i
      <3> DEFINE S == by(f)
                 n == Len(r.tables)
                 M == {m \in Nat : \E i \in S : i + m = n}
      <3>1. n \in Nat /\ S # {} /\ \A i \in S : i \in 1 .. n
        BY <2>1
      <3> HIDE DEF S, n
      <3>2. PICK i0 \in S : TRUE
        BY <3>1
      <3>3. n - i0 \in M
        BY <3>1, <3>2
      <3>4. PICK m \in M : \A y \in M : m <= y
        <4>1. M \in SUBSET Nat /\ M # {}
          BY <3>3
        <4> HIDE DEF M
        <4> QED BY <4>1, NatMin
      <3>5. PICK i \in S : i + m = n
        BY <3>4
      <3>6. \A j \in S : j <= i
        <4> SUFFICES ASSUME NEW j \in S PROVE j <= i
          OBVIOUS
        <4>1. n - j \in M
          BY <3>1
        <4>2. m <= n - j /\ m \in Nat
          BY <3>4, <4>1
        <4> QED BY <3>1, <3>5, <4>2
      <3> QED BY <3>5, <3>6 DEF S
    <2> QED BY <2>3, Zenon
  <1>10. \A f \in Fids : q.refs[f] \in ObjectRefs /\ (r.refs[f] # NoRef => q.refs[f] # NoRef)
    <2> SUFFICES ASSUME NEW f \in Fids
                 PROVE  q.refs[f] \in ObjectRefs /\ (r.refs[f] # NoRef => q.refs[f] # NoRef)
      OBVIOUS
    <2>1. CASE by(f) = {}
      <3>1. q.refs[f] = r.refs[f]
        BY <1>6, <2>1
      <3> QED BY <1>5, <3>1
    <2>2. CASE by(f) # {}
      <3> DEFINE t == tab(last(by(f)))
      <3>1. last(by(f)) \in by(f)
        BY <1>9, <2>2
      <3>2. q.refs[f] = PackedRef(t, EntryFor(t, f))
        BY <1>6, <2>2
      <3> HIDE DEF last
      <3>3. t.kind = "table" /\ TableTyped(t) /\ Lists(t, f)
        BY <1>3, <1>8, <3>1
      <3> HIDE DEF t
      <3> QED BY <3>2, <3>3, PackedTyped
    <2> QED BY <2>1, <2>2
  <1>11. q.refs \in [Fids -> ObjectRefs]
    <2> HIDE DEF by, last, tab
    <2> QED BY <1>6, <1>10
  <1>12. q.exts \subseteq Intervals
    BY <1>5, <1>7
  <1>13. ~Mid(r)
    BY <1>3 DEF Mid
  <1> QED BY <1>3, <1>4, <1>10, <1>11, <1>12, <1>13

\* A compaction of any index is an index.
LEMMA CompactedTyped ==
    ASSUME NEW ix \in Indexes
    PROVE  Compacted(ix) \in Indexes
  <1> DEFINE n == End(ix)
             H == LatestHeads(ix)
             K == Kept(ix)
             S == {j \in H : ix[j].kind # "plain"}
  <1>0. n \in Nat /\ n <= IndexCap /\ IndexCap \in Nat /\ \A i \in 1 .. n : ix[i] # ZeroEntry
    BY EndFacts, IndexAssumption DEF EndsAt
  <1>1. \A i \in H : i \in 1 .. n /\ ix[i].kind # "tomb" /\ (IsHead(ix[i]) => i < n)
    BY DEF LatestHeads
  <1>2. K = H \cup {i + 1 : i \in S}
    BY Zenon DEF Kept
  <1> HIDE DEF n, H, K
  <1>3. \A i \in S : i + 1 \in 1 .. n
    <2> SUFFICES ASSUME NEW i \in H, ix[i].kind # "plain" PROVE i + 1 \in 1 .. n
      OBVIOUS
    <2>1. i \in 1 .. n /\ i \in 1 .. IndexCap
      BY <1>0, <1>1
    <2>2. ix[i] \in Entries /\ ix[i] # ZeroEntry
      BY <1>0, <2>1 DEF Indexes
    <2>3. IsHead(ix[i])
      BY <1>1, <2>2, EntryFacts DEF IsHead
    <2> QED BY <1>0, <1>1, <2>1, <2>3
  <1>4. Below(K, n)
    BY <1>1, <1>2, <1>3 DEF Below
  <1> QED BY <1>4, ImageFacts DEF Compacted, K, n

\* Places in a container.
LEMMA OffsetTyped ==
    ASSUME confirmed \in [Fids -> Refs], NEW c \in Seq(Fids), NEW k \in 1 .. Len(c)
    PROVE  Offset(c, k) \in Nat
  <1> DEFINE Turn(v, i) == v + confirmed[c[i - 1]].size
             o == CHOOSE h : h = [i \in 1 .. k |-> IF i = 1 THEN 0 ELSE Turn(h[i - 1], i)]
             T == {i \in Nat : i + 1 <= k => o[i + 1] \in Nat}
  <1>0. k \in Nat /\ 1 \in Nat /\ Len(c) \in Nat
    OBVIOUS
  <1>1. Offset(c, k) = o[k]
    BY Zenon DEF Offset
  <1>2. FiniteNatInductiveDefHypothesis(o, 0, Turn, 1, k)
    BY Zenon DEF FiniteNatInductiveDefHypothesis
  <1> HIDE DEF o
  <1>3. FiniteNatInductiveDefConclusion(o, 0, Turn, 1, k)
    BY <1>0, <1>2, FiniteNatInductiveDef
  <1>4. o = [i \in 1 .. k |-> IF i = 1 THEN 0 ELSE Turn(o[i - 1], i)]
    BY <1>3, Zenon DEF FiniteNatInductiveDefConclusion
  <1>5. \A i \in Nat : i + 1 < k => c[i + 1] \in Fids
    BY <1>0
  <1>6. \A f \in Fids : confirmed[f].size \in Nat
    BY DEF Refs
  <1>7. 0 \in T
    BY <1>0, <1>4
  <1>8. \A i \in Nat : i \in T => i + 1 \in T
    <2> SUFFICES ASSUME NEW i \in Nat, i \in T, (i + 1) + 1 <= k PROVE o[(i + 1) + 1] \in Nat
      OBVIOUS
    <2>1. i + 1 <= k /\ i + 1 < k /\ (i + 1) + 1 \in 1 .. k /\ (i + 1) + 1 # 1 /\ ((i + 1) + 1) - 1 = i + 1
      BY <1>0
    <2>2. o[i + 1] \in Nat /\ confirmed[c[i + 1]].size \in Nat
      BY <1>5, <1>6, <2>1
    <2>3. o[(i + 1) + 1] = Turn(o[((i + 1) + 1) - 1], (i + 1) + 1)
      BY <1>4, <2>1
    <2>4. o[(i + 1) + 1] = o[i + 1] + confirmed[c[i + 1]].size
      BY <2>1, <2>3
    <2> QED BY <2>2, <2>4
  <1> HIDE DEF T
  <1>9. k - 1 \in T
    BY <1>0, <1>7, <1>8, NatInSet
  <1>10. o[k] \in Nat
    <2>1. (k - 1) + 1 = k
      BY <1>0
    <2> QED BY <1>0, <1>9, <2>1 DEF T
  <1> QED BY <1>1, <1>10

\* The size of a container.
LEMMA TotalTyped ==
    ASSUME confirmed \in [Fids -> Refs], NEW c \in Seq(Fids), c # <<>>
    PROVE  TotalSize(c) \in Nat
  <1>1. Len(c) \in 1 .. Len(c) /\ c[Len(c)] \in Fids
    OBVIOUS
  <1>2. Offset(c, Len(c)) \in Nat
    BY <1>1, OffsetTyped
  <1>3. confirmed[c[Len(c)]].size \in Nat
    BY <1>1 DEF Refs
  <1> QED BY <1>2, <1>3 DEF TotalSize

-----------------------------------------------------------------------------
(* Types, and what the steps of Trim rely on.                              *)

Placed(f, s) == f \in Fids /\ s \in Nat /\ AddrOK(Disk, f, s)

Jobs == [cand : Seq(Fids), container : Nat, containerSize : Nat, table : Nat, tableSize : Nat,
         tombs : Nat, sector : Nat, target : Indexes \cup {<<>>}]

IndexTypes == idx \in Indexes /\ media \in [Sectors -> SUBSET SectorImages]

GridTypes ==
    /\ DOMAIN grid = GridSlots(Disk) /\ dirty \subseteq GridSlots(Disk)
    /\ GridTyped(Disk, grid)

MemTypes ==
    /\ confirmed \in [Fids -> Refs]
    /\ intervals \subseteq Intervals /\ pendingIntervals \subseteq Intervals
    /\ indexEnd \in 0 .. IndexCap

PutPCs == {"idle", "stream", "commit", "sync", "abort", "acked", "failed"}

\* The Put that is syncing holds mu, and its entries fit.
PutInv ==
    /\ pc \in [Puts -> PutPCs]
    /\ \A p \in Puts :
        /\ pc[p] \in {"stream", "commit", "sync"} => AddrOK(Disk, Header[p].fid, Header[p].size)
        /\ pc[p] = "sync" => /\ up /\ tpc = "idle" /\ indexEnd + Len(PutEntries(p)) <= IndexCap
                             /\ \A q \in Puts : pc[q] = "sync" => q = p

\* What maybeTrim knows at each of its steps.
JobInv ==
    /\ tpc \in TrimPCs /\ job \in Jobs
    /\ tpc # "idle" => up /\ job.cand # <<>>
    /\ tpc \notin {"idle", "container"} => Placed(job.container, job.containerSize)
    /\ tpc \in {"tableSync", "anchor", "anchorSecond", "anchorSync", "load"} =>
            Placed(job.table, job.tableSize)
    /\ tpc \in {"anchor", "anchorSecond", "anchorSync", "load"} =>
            confirmed[job.table] = Own(job.table, job.tableSize)
    /\ tpc \in {"containerSync", "tableSync"} => indexEnd < IndexCap
    /\ tpc \in {"anchorSecond", "anchorSync"} => indexEnd + 2 <= IndexCap
    /\ tpc = "copy" => job.target \in Indexes

ReadInv == read.fid \in AllNames \cup {0} /\ read.ref \in Refs

TypeInv == IndexTypes /\ GridTypes /\ MemTypes /\ PutInv /\ JobInv /\ ReadInv
-----------------------------------------------------------------------------
(* Writes and syncs keep the types of the index.                           *)

\* An index write.
LEMMA WriteIndexTyped ==
    ASSUME IndexTypes, NEW ix \in Indexes, WriteIndex(ix)
    PROVE  IndexTypes'
  <1>1. \A j \in Sectors : Sector(ix, j) \in SectorImages
    BY SectorTyped
  <1>2. \A j \in Sectors : media[j] \cup {Sector(ix, j)} \in SUBSET SectorImages
    BY <1>1 DEF IndexTypes
  <1> QED BY <1>2 DEF IndexTypes, WriteIndex

\* A sync, and a write behind it.
LEMMA SyncThenWriteTyped ==
    ASSUME IndexTypes, NEW ix \in Indexes, SyncThenWrite(ix)
    PROVE  IndexTypes' /\ dirty' = {}
  <1>1. \A j \in Sectors : Sector(ix, j) \in SectorImages /\ Sector(idx, j) \in SectorImages
    BY SectorTyped DEF IndexTypes
  <1>2. \A j \in Sectors : {Sector(idx, j), Sector(ix, j)} \in SUBSET SectorImages
    BY <1>1
  <1> QED BY <1>2 DEF IndexTypes, SyncThenWrite

\* A sync.
LEMMA SyncTyped ==
    ASSUME IndexTypes, Sync
    PROVE  IndexTypes' /\ dirty' = {} /\ idx' = idx
  <1>1. \A j \in Sectors : Sector(idx, j) \in SectorImages
    BY SectorTyped DEF IndexTypes
  <1>2. \A j \in Sectors : {Sector(idx, j)} \in SUBSET SectorImages
    BY <1>1
  <1> QED BY <1>2 DEF IndexTypes, Sync

\* Bytes written to an extent.
LEMMA FilledTyped ==
    ASSUME GridTypes, NEW iv, NEW v, TableTyped(v)
    PROVE  DOMAIN Filled(iv, v) = GridSlots(Disk) /\ GridTyped(Disk, Filled(iv, v))
  <1>1. \A s \in GridSlots(Disk) : TableTyped(grid[s])
    BY DEF GridTypes, GridTyped
  <1>2. Filled(iv, v) = [s \in GridSlots(Disk) |-> IF s \in iv.start .. iv.end THEN v ELSE grid[s]]
    BY DEF Filled, GridTypes
  <1>3. \A s \in GridSlots(Disk) : Filled(iv, v)[s] = v \/ Filled(iv, v)[s] = grid[s]
    BY <1>2
  <1> QED BY <1>1, <1>2, <1>3 DEF GridTyped

\* The extent of a placed object lies on the grid.
LEMMA PlacedExtent ==
    ASSUME NEW f \in Nat, NEW s \in Nat, AddrOK(Disk, f, s)
    PROVE  /\ Extent(Disk, f, s) \in Intervals
           /\ Extent(Disk, f, s).start .. Extent(Disk, f, s).end \subseteq GridSlots(Disk)
  <1>1. Disk \in Disks /\ Slots[Disk] \in Nat
    BY TrimAssumption, IndexAssumption
  <1>2. /\ Extent(Disk, f, s) \in Intervals /\ Extent(Disk, f, s).end < Slots[Disk]
    BY <1>1, ExtentFacts
  <1> QED BY <1>1, <1>2 DEF Intervals, GridSlots

-----------------------------------------------------------------------------
(* The steps of a Put.                                                     *)

\* A Put reserves its extent.
LEMMA PutPrepareTyped ==
    ASSUME TypeInv, NEW p \in Puts, PutPrepare(p)
    PROVE  TypeInv'
  <1>0. IndexTypes /\ GridTypes /\ MemTypes /\ PutInv /\ JobInv /\ ReadInv
    BY DEF TypeInv
  <1>1. IndexTypes'
    BY <1>0 DEF IndexTypes, PutPrepare, idxVars
  <1>2. GridTypes'
    BY <1>0 DEF GridTypes, PutPrepare, gridVars
  <1>3. MemTypes'
    <2>1. Header[p].fid \in Nat /\ Header[p].size \in Nat
      BY HeaderFacts
    <2>2. PutExtent(p) \in Intervals
      BY <2>1, PlacedExtent DEF PutPrepare, PutExtent, ExtentOf
    <2> QED BY <1>0, <2>2 DEF MemTypes, PutPrepare
  <1>4. PutInv'
    BY <1>0 DEF PutInv, PutPrepare, Goto, PutPCs
  <1>5. JobInv'
    BY <1>0 DEF JobInv, PutPrepare
  <1>6. ReadInv'
    BY <1>0 DEF ReadInv, PutPrepare
  <1> QED BY <1>1, <1>2, <1>3, <1>4, <1>5, <1>6 DEF TypeInv

\* It streams.
LEMMA PutStreamTyped ==
    ASSUME TypeInv, NEW p \in Puts, PutStream(p)
    PROVE  TypeInv'
  <1>0. IndexTypes /\ GridTypes /\ MemTypes /\ PutInv /\ JobInv /\ ReadInv
    BY DEF TypeInv
  <1>1. IndexTypes'
    BY <1>0 DEF IndexTypes, PutStream, idxVars
  <1>2. GridTypes'
    <2>1. Header[p].fid \in Nat /\ Header[p].size \in Nat /\ AddrOK(Disk, Header[p].fid, Header[p].size)
      BY <1>0, HeaderFacts DEF PutStream, PutInv
    <2>2. SlotsOf(Disk, Header[p]) \subseteq GridSlots(Disk)
      BY <2>1, PlacedExtent DEF SlotsOf, ExtentOf
    <2>3. TableTyped(Data(p))
      BY DEF TableTyped, Data
    <2>4. DOMAIN grid' = GridSlots(Disk) /\ GridTyped(Disk, grid')
      BY <1>0, <2>3, FilledTyped DEF PutStream
    <2>5. dirty' \subseteq GridSlots(Disk)
      BY <1>0, <2>2 DEF PutStream, GridTypes
    <2> QED BY <2>4, <2>5 DEF GridTypes
  <1>3. MemTypes'
    BY <1>0 DEF MemTypes, PutStream, memVars
  <1>4. PutInv'
    BY <1>0 DEF PutInv, PutStream, Goto, PutPCs, memVars
  <1>5. JobInv'
    BY <1>0 DEF JobInv, PutStream, memVars
  <1>6. ReadInv'
    BY <1>0 DEF ReadInv, PutStream
  <1> QED BY <1>1, <1>2, <1>3, <1>4, <1>5, <1>6 DEF TypeInv

\* It writes its entries.
LEMMA PutCommitTyped ==
    ASSUME TypeInv, NEW p \in Puts, PutCommit(p)
    PROVE  TypeInv'
  <1>0. IndexTypes /\ GridTypes /\ MemTypes /\ PutInv /\ JobInv /\ ReadInv
    BY DEF TypeInv
  <1>1. IndexTypes' /\ dirty' = {}
    <2>1. idx \in Indexes /\ indexEnd \in Nat
      BY <1>0, IndexAssumption DEF IndexTypes, MemTypes
    <2>2. PutEntries(p) \in Seq(Entries)
      BY PutEntriesTyped
    <2>3. WriteAt(idx, indexEnd, PutEntries(p)) \in Indexes
      BY <2>1, <2>2, WriteAtTyped
    <2> QED BY <1>0, <2>3, SyncThenWriteTyped DEF PutCommit
  <1>2. GridTypes'
    BY <1>0, <1>1 DEF GridTypes, PutCommit
  <1>3. MemTypes'
    BY <1>0 DEF MemTypes, PutCommit, memVars
  <1>4. PutInv'
    <2>1. up /\ pc[p] = "commit" /\ tpc = "idle" /\ \A q \in Puts : pc[q] # "sync"
      BY DEF PutCommit, MuFree
    <2>2. indexEnd + Len(PutEntries(p)) <= IndexCap
      BY DEF PutCommit
    <2>3. pc' = [pc EXCEPT ![p] = "sync"] /\ up' = up /\ tpc' = tpc /\ indexEnd' = indexEnd
      BY DEF PutCommit, Goto, memVars
    <2>4. \A q \in Puts : PutEntries(q)' = PutEntries(q)
      BY DEF PutEntries
    <2> QED BY <1>0, <2>1, <2>2, <2>3, <2>4 DEF PutInv, PutPCs
  <1>5. JobInv'
    BY <1>0 DEF JobInv, PutCommit, memVars
  <1>6. ReadInv'
    BY <1>0 DEF ReadInv, PutCommit
  <1> QED BY <1>1, <1>2, <1>3, <1>4, <1>5, <1>6 DEF TypeInv

\* It publishes them.
LEMMA PutPublishTyped ==
    ASSUME TypeInv, NEW p \in Puts, PutPublish(p)
    PROVE  TypeInv'
  <1>0. IndexTypes /\ GridTypes /\ MemTypes /\ PutInv /\ JobInv /\ ReadInv
    BY DEF TypeInv
  <1> DEFINE h == Header[p]
  <1>p. /\ up /\ pc[p] = "sync" /\ Sync
        /\ confirmed' = [f \in Fids |-> IF f = h.fid THEN Own(h.fid, h.size)
                                        ELSE IF f \in Names(h) THEN AliasOf(h.fid, h.size)
                                        ELSE confirmed[f]]
        /\ indexEnd' = indexEnd + Len(PutEntries(p))
        /\ pendingIntervals' = pendingIntervals \ {PutExtent(p)}
        /\ intervals' = intervals \cup {PutExtent(p)}
        /\ pc' = [pc EXCEPT ![p] = "acked"]
        /\ UNCHANGED <<indexErr, grid, tpc, job, read, up, crashes, trims>>
    BY Zenon DEF PutPublish, Goto
  <1>h. /\ h.fid \in Nat /\ h.size \in Nat /\ AddrOK(Disk, h.fid, h.size)
        /\ tpc = "idle" /\ indexEnd + Len(PutEntries(p)) <= IndexCap /\ Len(PutEntries(p)) \in Nat
        /\ \A q \in Puts : pc[q] = "sync" => q = p
    BY <1>0, <1>p, HeaderFacts, PutEntriesTyped DEF PutInv
  <1> HIDE DEF h
  <1>1. IndexTypes' /\ dirty' = {}
    BY <1>0, <1>p, SyncTyped
  <1>2. GridTypes'
    BY <1>0, <1>1, <1>p DEF GridTypes
  <1>3. MemTypes'
    <2>1. h.size # 0
      BY <1>h, ExtentFacts, TrimAssumption
    <2>2. Own(h.fid, h.size) \in Refs /\ AliasOf(h.fid, h.size) \in Refs
      BY <1>h, <2>1, RefTypes DEF Refs, ObjectRefs
    <2>3. confirmed' \in [Fids -> Refs]
      BY <1>0, <1>p, <2>2 DEF MemTypes
    <2>4. PutExtent(p) \in Intervals
      BY <1>h, PlacedExtent DEF PutExtent, ExtentOf, h
    <2>5. indexEnd' \in 0 .. IndexCap
      BY <1>0, <1>p, <1>h, IndexAssumption DEF MemTypes
    <2> QED BY <1>0, <1>p, <2>3, <2>4, <2>5 DEF MemTypes
  <1>4. PutInv'
    BY <1>0, <1>p, <1>h DEF PutInv, PutPCs
  <1>5. JobInv'
    BY <1>0, <1>p, <1>h DEF JobInv
  <1>6. ReadInv'
    BY <1>0, <1>p DEF ReadInv
  <1> QED BY <1>1, <1>2, <1>3, <1>4, <1>5, <1>6 DEF TypeInv

\* It gives its extent back.
LEMMA PutAbortTyped ==
    ASSUME TypeInv, NEW p \in Puts, PutAbort(p)
    PROVE  TypeInv'
  <1>0. IndexTypes /\ GridTypes /\ MemTypes /\ PutInv /\ JobInv /\ ReadInv
    BY DEF TypeInv
  <1>1. IndexTypes'
    BY <1>0 DEF IndexTypes, PutAbort, idxVars
  <1>2. GridTypes'
    BY <1>0 DEF GridTypes, PutAbort, gridVars
  <1>3. MemTypes'
    BY <1>0 DEF MemTypes, PutAbort
  <1>4. PutInv'
    BY <1>0 DEF PutInv, PutAbort, Goto, PutPCs
  <1>5. JobInv'
    BY <1>0 DEF JobInv, PutAbort
  <1>6. ReadInv'
    BY <1>0 DEF ReadInv, PutAbort
  <1> QED BY <1>1, <1>2, <1>3, <1>4, <1>5, <1>6 DEF TypeInv

\* It takes its entries back.
LEMMA PutRollbackTyped ==
    ASSUME TypeInv, NEW p \in Puts, PutRollback(p)
    PROVE  TypeInv'
  <1>0. IndexTypes /\ GridTypes /\ MemTypes /\ PutInv /\ JobInv /\ ReadInv
    BY DEF TypeInv
  <1> DEFINE zeros == [i \in DOMAIN PutEntries(p) |-> ZeroEntry]
             ix    == WriteAt(idx, indexEnd, zeros)
  <1>p. /\ up /\ pc[p] = "sync" /\ idx' = ix /\ media' = [j \in Sectors |-> {Sector(ix, j)}]
        /\ dirty' = {} /\ pc' = [pc EXCEPT ![p] = "abort"]
        /\ UNCHANGED <<memVars, grid, tpc, job, read, up, crashes, trims>>
    BY Zenon DEF PutRollback, Goto
  <1>1. IndexTypes'
    <2>1. idx \in Indexes /\ indexEnd \in Nat /\ zeros \in Seq(Entries)
      BY <1>0, IndexAssumption, PutEntriesTyped DEF IndexTypes, MemTypes
    <2>2. ix \in Indexes
      BY <2>1, WriteAtTyped
    <2> HIDE DEF ix
    <2>3. \A j \in Sectors : {Sector(ix, j)} \in SUBSET SectorImages
      BY <2>2, SectorTyped
    <2> QED BY <1>p, <2>2, <2>3 DEF IndexTypes
  <1> HIDE DEF ix
  <1>2. GridTypes'
    BY <1>0, <1>p DEF GridTypes
  <1>3. MemTypes'
    BY <1>0, <1>p DEF MemTypes, memVars
  <1>4. PutInv'
    BY <1>0, <1>p DEF PutInv, PutPCs, memVars
  <1>5. JobInv'
    BY <1>0, <1>p DEF JobInv, memVars
  <1>6. ReadInv'
    BY <1>0, <1>p DEF ReadInv
  <1> QED BY <1>1, <1>2, <1>3, <1>4, <1>5, <1>6 DEF TypeInv
-----------------------------------------------------------------------------
(* The steps of Trim.                                                      *)

\* The candidates are names.
LEMMA CandidatesTyped ==
    ASSUME TypeInv, NEW n \in 1 .. Cardinality(Small)
    PROVE  [k \in 1 .. n |-> idx[Nth(Small, k)].fid] \in Seq(Fids)
  <1> DEFINE S == Small
             e == End(idx)
  <1>0. e \in Nat /\ e <= IndexCap /\ IndexCap \in Nat /\ \A i \in 1 .. e : idx[i] # ZeroEntry
    BY EndFacts, IndexAssumption DEF EndsAt
  <1>1. \A i \in S : i \in 1 .. e
    BY DEF Small, Heads, LatestHeads
  <1>2. Below(S, e)
    BY <1>1 DEF Below
  <1> HIDE DEF S
  <1>3. \A k \in 1 .. Cardinality(S) : Nth(S, k) \in S
    BY <1>0, <1>2, NthFacts
  <1>4. Cardinality(S) \in Nat
    BY <1>0, <1>2, RankStep
  <1>5. n \in Nat /\ \A k \in 1 .. n : k \in 1 .. Cardinality(S)
    BY <1>4 DEF S
  <1>6. \A i \in 1 .. e : idx[i].fid \in Fids
    <2> SUFFICES ASSUME NEW i \in 1 .. e PROVE idx[i].fid \in Fids
      OBVIOUS
    <2>1. idx[i] \in Entries /\ idx[i] # ZeroEntry
      BY <1>0 DEF TypeInv, IndexTypes, Indexes
    <2> QED BY <2>1, EntryFacts
  <1>7. \A k \in 1 .. n : idx[Nth(S, k)].fid \in Fids
    BY <1>1, <1>3, <1>5, <1>6
  <1> QED BY <1>5, <1>7 DEF S

\* Candidates are listed.
LEMMA TrimStartTyped ==
    ASSUME TypeInv, TrimStart
    PROVE  TypeInv'
  <1>0. IndexTypes /\ GridTypes /\ MemTypes /\ PutInv /\ JobInv /\ ReadInv
    BY DEF TypeInv
  <1>p. /\ up /\ tpc = "idle" /\ \A p \in Puts : pc[p] # "sync"
        /\ tpc' = "container"
        /\ UNCHANGED <<memVars, idxVars, gridVars, pc, read, up, crashes>>
    BY DEF TrimStart, MuFree
  <1>q. PICK n \in 1 .. Cardinality(Small) :
            job' = [NoJob EXCEPT !.cand = [k \in 1 .. n |-> idx[Nth(Small, k)].fid]]
    BY Zenon DEF TrimStart
  <1> DEFINE c == [k \in 1 .. n |-> idx[Nth(Small, k)].fid]
  <1>c. c \in Seq(Fids) /\ c # <<>>
    <2>1. c \in Seq(Fids)
      BY CandidatesTyped
    <2>2. Cardinality(Small) \in Nat => 1 \in 1 .. n
      OBVIOUS
    <2>3. DOMAIN c = 1 .. n
      OBVIOUS
    <2>4. n \in Nat /\ n >= 1
      OBVIOUS
    <2> QED BY <2>1, <2>3, <2>4
  <1>1. IndexTypes'
    BY <1>0, <1>p DEF IndexTypes, idxVars
  <1>2. GridTypes'
    BY <1>0, <1>p DEF GridTypes, gridVars
  <1>3. MemTypes'
    BY <1>0, <1>p DEF MemTypes, memVars
  <1>4. PutInv'
    BY <1>0, <1>p DEF PutInv, memVars
  <1>5. JobInv'
    <2>1. job' = [NoJob EXCEPT !.cand = c]
      BY <1>q, Zenon
    <2> HIDE DEF c
    <2>2. job' \in Jobs /\ job'.cand = c
      BY <2>1, <1>c DEF NoJob, Jobs
    <2> QED BY <1>p, <1>c, <2>2 DEF JobInv, TrimPCs
  <1>6. ReadInv'
    BY <1>0, <1>p DEF ReadInv
  <1> QED BY <1>1, <1>2, <1>3, <1>4, <1>5, <1>6 DEF TypeInv

\* An object of Trim's own: payload and entry.
LEMMA StoreObjectTyped ==
    ASSUME IndexTypes, GridTypes, MemTypes, NEW f \in Fids, NEW s \in Nat, NEW v, TableTyped(v),
           StoreObject(f, s, v)
    PROVE  IndexTypes' /\ GridTypes' /\ Placed(f, s) /\ indexEnd < IndexCap
  <1>1. Placed(f, s) /\ indexEnd < IndexCap
    BY DEF StoreObject, Usable, Placed
  <1>2. WriteAt(idx, indexEnd, <<Plain(f, s)>>) \in Indexes
    <2>1. <<Plain(f, s)>> \in Seq(Entries)
      BY EntryTypes
    <2>2. idx \in Indexes /\ indexEnd \in Nat
      BY IndexAssumption DEF IndexTypes, MemTypes
    <2> QED BY <2>1, <2>2, WriteAtTyped
  <1>3. IndexTypes' /\ dirty' = {}
    BY <1>2, SyncThenWriteTyped DEF StoreObject
  <1>4. GridTypes'
    BY <1>3, FilledTyped DEF StoreObject, GridTypes
  <1> QED BY <1>1, <1>3, <1>4

\* The container is written.
LEMMA WriteContainerTyped ==
    ASSUME TypeInv, WriteContainer
    PROVE  TypeInv'
  <1>0. IndexTypes /\ GridTypes /\ MemTypes /\ PutInv /\ JobInv /\ ReadInv
    BY DEF TypeInv
  <1>p. /\ up /\ tpc = "container" /\ tpc' = "containerSync"
        /\ UNCHANGED <<memVars, pc, read, up, crashes, trims>>
    BY DEF WriteContainer
  <1>q. PICK f \in TrimFids, n \in 0 .. MaxNonce :
            /\ StoreObject(f, TotalSize(job.cand) + 8 * n, Container(Parts(job.cand)))
            /\ job' = [job EXCEPT !.container = f, !.containerSize = TotalSize(job.cand) + 8 * n]
    BY Zenon DEF WriteContainer
  <1> DEFINE s == TotalSize(job.cand) + 8 * n
  <1>s. s \in Nat /\ f \in Fids /\ f \in Nat
    <2>1. job.cand \in Seq(Fids) /\ job.cand # <<>> /\ confirmed \in [Fids -> Refs]
      BY <1>0, <1>p DEF JobInv, Jobs, MemTypes
    <2>2. TotalSize(job.cand) \in Nat
      BY <2>1, TotalTyped
    <2>3. n \in Nat
      BY TrimAssumption
    <2>4. f \in Fids /\ f \in Nat
      BY TrimAssumption, IndexAssumption
    <2> QED BY <2>2, <2>3, <2>4
  <1> HIDE DEF s
  <1>1. IndexTypes' /\ GridTypes' /\ Placed(f, s) /\ indexEnd < IndexCap
    <2>1. TableTyped(Container(Parts(job.cand)))
      BY DEF TableTyped, Container
    <2>2. StoreObject(f, s, Container(Parts(job.cand)))
      BY <1>q DEF s
    <2> QED BY <1>0, <1>s, <2>1, <2>2, StoreObjectTyped
  <1>3. MemTypes'
    BY <1>0, <1>p DEF MemTypes, memVars
  <1>4. PutInv'
    BY <1>0, <1>p DEF PutInv, memVars
  <1>5. JobInv'
    <2>1. job' = [job EXCEPT !.container = f, !.containerSize = s]
      BY <1>q DEF s
    <2>2. job \in Jobs /\ job.cand # <<>>
      BY <1>0, <1>p DEF JobInv
    <2>3. job' \in Jobs /\ job'.cand = job.cand /\ job'.container = f /\ job'.containerSize = s
      BY <1>s, <2>1, <2>2 DEF Jobs
    <2>4. indexEnd' = indexEnd
      BY <1>p DEF memVars
    <2> QED BY <1>1, <1>p, <2>2, <2>3, <2>4 DEF JobInv, TrimPCs, Placed
  <1>6. ReadInv'
    BY <1>0, <1>p DEF ReadInv
  <1> QED BY <1>1, <1>3, <1>4, <1>5, <1>6 DEF TypeInv

\* The table that Trim writes.
LEMMA TableValueTyped ==
    ASSUME TypeInv, tpc = "table"
    PROVE  TableTyped(TableValue) /\ TableBytes(Len(job.cand)) \in Nat
  <1>1. /\ job.cand \in Seq(Fids) /\ job.cand # <<>> /\ confirmed \in [Fids -> Refs]
        /\ job.container \in Nat /\ job.containerSize \in Nat
    BY DEF TypeInv, JobInv, Jobs, MemTypes
  <1> DEFINE c == job.cand
             es == [k \in DOMAIN c |-> [fid |-> c[k], offset |-> Parts(c)[k].offset,
                                        size |-> Parts(c)[k].size]]
  <1>2. TableValue = [kind |-> "table", container |-> job.container, size |-> job.containerSize,
                      entries |-> es]
    BY Zenon DEF TableValue, Table
  <1> HIDE DEF c
  <1>3. \A k \in DOMAIN c : Parts(c)[k].offset \in Nat /\ Parts(c)[k].size \in Nat
    <2> SUFFICES ASSUME NEW k \in DOMAIN c PROVE Parts(c)[k].offset \in Nat /\ Parts(c)[k].size \in Nat
      OBVIOUS
    <2>1. k \in 1 .. Len(c) /\ c[k] \in Fids
      BY <1>1 DEF c
    <2>2. Offset(c, k) \in Nat
      BY <1>1, <2>1, OffsetTyped DEF c
    <2>3. confirmed[c[k]].size \in Nat
      BY <1>1, <2>1 DEF Refs
    <2> HIDE DEF c
    <2>4. Parts(c)[k] = [fid |-> c[k], offset |-> Offset(c, k), size |-> confirmed[c[k]].size,
                         data |-> Bytes(confirmed[c[k]])]
      BY Zenon DEF Parts
    <2> QED BY <2>2, <2>3, <2>4
  <1>4. \A k \in DOMAIN es : es[k].offset \in Nat /\ es[k].size \in Nat
    BY <1>3
  <1> HIDE DEF es
  <1>5. TableTyped(TableValue)
    BY <1>1, <1>2, <1>4 DEF TableTyped
  <1>6. TableBytes(Len(job.cand)) \in Nat
    BY <1>1 DEF TableBytes
  <1> QED BY <1>5, <1>6

\* The table is written.
LEMMA WriteTableTyped ==
    ASSUME TypeInv, WriteTable
    PROVE  TypeInv'
  <1>0. IndexTypes /\ GridTypes /\ MemTypes /\ PutInv /\ JobInv /\ ReadInv
    BY DEF TypeInv
  <1>p. /\ up /\ tpc = "table" /\ tpc' = "tableSync"
        /\ UNCHANGED <<memVars, pc, read, up, crashes, trims>>
    BY DEF WriteTable
  <1> DEFINE s == TableBytes(Len(job.cand))
  <1>q. PICK f \in TrimFids :
            /\ StoreObject(f, s, TableValue)
            /\ job' = [job EXCEPT !.table = f, !.tableSize = s]
    BY Zenon DEF WriteTable
  <1>s. s \in Nat /\ TableTyped(TableValue) /\ f \in Fids /\ f \in Nat
    BY <1>p, TableValueTyped, TrimAssumption, IndexAssumption
  <1> HIDE DEF s
  <1>1. IndexTypes' /\ GridTypes' /\ Placed(f, s) /\ indexEnd < IndexCap
    BY <1>0, <1>s, <1>q, StoreObjectTyped
  <1>3. MemTypes'
    BY <1>0, <1>p DEF MemTypes, memVars
  <1>4. PutInv'
    BY <1>0, <1>p DEF PutInv, memVars
  <1>5. JobInv'
    <2>2. job \in Jobs /\ job.cand # <<>> /\ Placed(job.container, job.containerSize)
      BY <1>0, <1>p DEF JobInv
    <2>3. /\ job' \in Jobs /\ job'.cand = job.cand /\ job'.table = f /\ job'.tableSize = s
          /\ job'.container = job.container /\ job'.containerSize = job.containerSize
      BY <1>s, <1>q, <2>2 DEF Jobs
    <2>4. indexEnd' = indexEnd
      BY <1>p DEF memVars
    <2> QED BY <1>1, <1>p, <2>2, <2>3, <2>4 DEF JobInv, TrimPCs, Placed
  <1>6. ReadInv'
    BY <1>0, <1>p DEF ReadInv
  <1> QED BY <1>1, <1>3, <1>4, <1>5, <1>6 DEF TypeInv

\* The object is published.
LEMMA PublishObjectTyped ==
    ASSUME IndexTypes, GridTypes, MemTypes, NEW f, NEW s, Placed(f, s), indexEnd < IndexCap,
           PublishObject(f, s), UNCHANGED <<pendingIntervals, grid>>
    PROVE  IndexTypes' /\ GridTypes' /\ MemTypes' /\ confirmed'[f] = Own(f, s)
  <1>1. f \in Fids /\ f \in Nat /\ s \in Nat /\ AddrOK(Disk, f, s)
    BY IndexAssumption DEF Placed
  <1>2. IndexTypes' /\ dirty' = {}
    BY SyncTyped DEF PublishObject
  <1>3. GridTypes'
    BY <1>2 DEF GridTypes
  <1>4. Own(f, s) \in Refs /\ Extent(Disk, f, s) \in Intervals
    BY <1>1, RefTypes, PlacedExtent DEF Refs, ObjectRefs
  <1>5. confirmed' = [confirmed EXCEPT ![f] = Own(f, s)]
    BY DEF PublishObject
  <1>6. confirmed' \in [Fids -> Refs] /\ confirmed'[f] = Own(f, s)
    BY <1>1, <1>4, <1>5 DEF MemTypes
  <1>7. indexEnd' \in 0 .. IndexCap
    BY IndexAssumption DEF MemTypes, PublishObject
  <1>8. MemTypes'
    BY <1>4, <1>6, <1>7 DEF MemTypes, PublishObject
  <1> QED BY <1>2, <1>3, <1>6, <1>8

\* The container is published.
LEMMA ContainerSyncedTyped ==
    ASSUME TypeInv, ContainerSynced
    PROVE  TypeInv'
  <1>0. IndexTypes /\ GridTypes /\ MemTypes /\ PutInv /\ JobInv /\ ReadInv
    BY DEF TypeInv
  <1>p. /\ up /\ tpc = "containerSync" /\ tpc' = "table"
        /\ PublishObject(job.container, job.containerSize)
        /\ UNCHANGED <<pendingIntervals, indexErr, grid, pc, job, read, up, crashes, trims>>
    BY DEF ContainerSynced
  <1>1. IndexTypes' /\ GridTypes' /\ MemTypes'
    BY <1>0, <1>p, PublishObjectTyped DEF JobInv
  <1>4. PutInv'
    BY <1>0, <1>p DEF PutInv
  <1>5. JobInv'
    BY <1>0, <1>p DEF JobInv, TrimPCs
  <1>6. ReadInv'
    BY <1>0, <1>p DEF ReadInv
  <1> QED BY <1>1, <1>4, <1>5, <1>6 DEF TypeInv

\* The table is published.
LEMMA TableSyncedTyped ==
    ASSUME TypeInv, TableSynced
    PROVE  TypeInv'
  <1>0. IndexTypes /\ GridTypes /\ MemTypes /\ PutInv /\ JobInv /\ ReadInv
    BY DEF TypeInv
  <1>p. /\ up /\ tpc = "tableSync" /\ tpc' = "anchor"
        /\ PublishObject(job.table, job.tableSize)
        /\ UNCHANGED <<pendingIntervals, indexErr, grid, pc, job, read, up, crashes, trims>>
    BY DEF TableSynced
  <1>1. IndexTypes' /\ GridTypes' /\ MemTypes' /\ confirmed'[job.table] = Own(job.table, job.tableSize)
    BY <1>0, <1>p, PublishObjectTyped DEF JobInv
  <1>4. PutInv'
    BY <1>0, <1>p DEF PutInv
  <1>5. JobInv'
    BY <1>0, <1>1, <1>p DEF JobInv, TrimPCs
  <1>6. ReadInv'
    BY <1>0, <1>p DEF ReadInv
  <1> QED BY <1>1, <1>4, <1>5, <1>6 DEF TypeInv

\* The two writes of an anchor.
LEMMA AnchorFirstTyped ==
    ASSUME TypeInv, AnchorFirst
    PROVE  TypeInv'
  <1>0. IndexTypes /\ GridTypes /\ MemTypes /\ PutInv /\ JobInv /\ ReadInv
    BY DEF TypeInv
  <1> DEFINE ix == WriteAt(idx, indexEnd, <<Anchor(job.table)>>)
  <1>p. /\ up /\ tpc = "anchor" /\ indexEnd + 2 <= IndexCap /\ tpc' = "anchorSecond"
        /\ WriteIndex(ix)
        /\ UNCHANGED <<memVars, gridVars, pc, job, read, up, crashes, trims>>
    BY DEF AnchorFirst
  <1>1. IndexTypes'
    <2>1. <<Anchor(job.table)>> \in Seq(Entries)
      BY <1>0, <1>p, EntryTypes DEF JobInv, Placed
    <2>2. idx \in Indexes /\ indexEnd \in Nat
      BY <1>0, IndexAssumption DEF IndexTypes, MemTypes
    <2>3. ix \in Indexes
      BY <2>1, <2>2, WriteAtTyped
    <2> HIDE DEF ix
    <2> QED BY <1>0, <1>p, <2>3, WriteIndexTyped
  <1>2. GridTypes'
    BY <1>0, <1>p DEF GridTypes, gridVars
  <1>3. MemTypes'
    BY <1>0, <1>p DEF MemTypes, memVars
  <1>4. PutInv'
    BY <1>0, <1>p DEF PutInv, memVars
  <1>5. JobInv'
    BY <1>0, <1>p DEF JobInv, TrimPCs, memVars
  <1>6. ReadInv'
    BY <1>0, <1>p DEF ReadInv
  <1> QED BY <1>1, <1>2, <1>3, <1>4, <1>5, <1>6 DEF TypeInv

\* The second of them.
LEMMA AnchorSecondTyped ==
    ASSUME TypeInv, AnchorSecond
    PROVE  TypeInv'
  <1>0. IndexTypes /\ GridTypes /\ MemTypes /\ PutInv /\ JobInv /\ ReadInv
    BY DEF TypeInv
  <1> DEFINE ix == WriteAt(idx, indexEnd + 1, <<Plain(job.table, job.tableSize)>>)
  <1>p. /\ up /\ tpc = "anchorSecond" /\ tpc' = "anchorSync" /\ WriteIndex(ix)
        /\ UNCHANGED <<memVars, gridVars, pc, job, read, up, crashes, trims>>
    BY DEF AnchorSecond
  <1>1. IndexTypes'
    <2>1. <<Plain(job.table, job.tableSize)>> \in Seq(Entries)
      BY <1>0, <1>p, EntryTypes DEF JobInv, Placed
    <2>2. idx \in Indexes /\ indexEnd + 1 \in Nat
      BY <1>0, IndexAssumption DEF IndexTypes, MemTypes
    <2>3. ix \in Indexes
      BY <2>1, <2>2, WriteAtTyped
    <2> HIDE DEF ix
    <2> QED BY <1>0, <1>p, <2>3, WriteIndexTyped
  <1>2. GridTypes'
    BY <1>0, <1>p DEF GridTypes, gridVars
  <1>3. MemTypes'
    BY <1>0, <1>p DEF MemTypes, memVars
  <1>4. PutInv'
    BY <1>0, <1>p DEF PutInv, memVars
  <1>5. JobInv'
    BY <1>0, <1>p DEF JobInv, TrimPCs, memVars
  <1>6. ReadInv'
    BY <1>0, <1>p DEF ReadInv
  <1> QED BY <1>1, <1>2, <1>3, <1>4, <1>5, <1>6 DEF TypeInv

\* The sync behind the anchor.
LEMMA AnchorSyncedTyped ==
    ASSUME TypeInv, AnchorSynced
    PROVE  TypeInv'
  <1>0. IndexTypes /\ GridTypes /\ MemTypes /\ PutInv /\ JobInv /\ ReadInv
    BY DEF TypeInv
  <1>p. /\ up /\ tpc = "anchorSync" /\ tpc' = "load" /\ Sync /\ indexEnd' = indexEnd + 2
        /\ UNCHANGED <<confirmed, intervals, pendingIntervals, indexErr, grid, pc, job, read,
                       up, crashes, trims>>
    BY DEF AnchorSynced
  <1>1. IndexTypes' /\ dirty' = {}
    BY <1>0, <1>p, SyncTyped
  <1>2. GridTypes'
    BY <1>0, <1>1, <1>p DEF GridTypes
  <1>3. MemTypes'
    BY <1>0, <1>p, IndexAssumption DEF MemTypes, JobInv
  <1>4. PutInv'
    BY <1>0, <1>p DEF PutInv
  <1>5. JobInv'
    BY <1>0, <1>p DEF JobInv, TrimPCs
  <1>6. ReadInv'
    BY <1>0, <1>p DEF ReadInv
  <1> QED BY <1>1, <1>2, <1>3, <1>4, <1>5, <1>6 DEF TypeInv

\* What the table's reference delivers.
LEMMA LoadedTable ==
    ASSUME TypeInv, tpc = "load"
    PROVE  TableTyped(Bytes(confirmed[job.table]))
  <1> DEFINE ref == confirmed[job.table]
  <1>0. GridTypes /\ JobInv
    BY DEF TypeInv
  <1>1. ref = Own(job.table, job.tableSize) /\ Placed(job.table, job.tableSize)
    BY <1>0 DEF JobInv
  <1>2. job.table \in Nat /\ job.table # 0 /\ job.table \in Fids /\ job.tableSize \in Nat
        /\ AddrOK(Disk, job.table, job.tableSize)
    BY <1>1, IndexAssumption DEF Placed
  <1>3. /\ ref \in ObjectRefs /\ ref # NoRef /\ ~ref.packed /\ ref.fid = job.table
        /\ ref.storedSize = job.tableSize /\ ref.size = job.tableSize /\ job.tableSize # 0
    BY <1>1, <1>2, RefTypes, ExtentFacts, TrimAssumption
  <1> HIDE DEF ref
  <1>4. PlacedRef(Disk, ref)
    BY <1>2, <1>3 DEF PlacedRef
  <1>5. TableTyped(Deliver(Disk, grid, ref))
    BY <1>0, <1>3, <1>4, DeliveredTable, TrimAssumption DEF GridTypes
  <1> QED BY <1>5 DEF Bytes, ref

\* The table is loaded.
LEMMA LoadTableTyped ==
    ASSUME TypeInv, LoadTable
    PROVE  TypeInv'
  <1>0. IndexTypes /\ GridTypes /\ MemTypes /\ PutInv /\ JobInv /\ ReadInv
    BY DEF TypeInv
  <1> DEFINE t == Bytes(confirmed[job.table])
  <1>p. /\ up /\ tpc = "load" /\ tpc' = "tombs" /\ t.kind = "table"
        /\ confirmed' = [f \in Fids |-> IF Lists(t, f) THEN PackedRef(t, EntryFor(t, f))
                                        ELSE confirmed[f]]
        /\ UNCHANGED <<intervals, pendingIntervals, indexEnd, indexErr, idxVars, gridVars,
                       pc, job, read, up, crashes, trims>>
    BY Zenon DEF LoadTable
  <1>t. TableTyped(t)
    BY <1>p, LoadedTable
  <1> HIDE DEF t
  <1>1. IndexTypes'
    BY <1>0, <1>p DEF IndexTypes, idxVars
  <1>2. GridTypes'
    BY <1>0, <1>p DEF GridTypes, gridVars
  <1>3. MemTypes'
    <2>1. \A f \in Fids : Lists(t, f) => PackedRef(t, EntryFor(t, f)) \in ObjectRefs
      BY <1>p, <1>t, PackedTyped
    <2>2. Refs = ObjectRefs
      BY DEF Refs, ObjectRefs
    <2>3. \A f \in Fids : confirmed[f] \in ObjectRefs
      BY <1>0, <2>2 DEF MemTypes
    <2>4. confirmed' \in [Fids -> ObjectRefs]
      BY <1>p, <2>1, <2>3
    <2> QED BY <1>0, <1>p, <2>2, <2>4 DEF MemTypes
  <1>4. PutInv'
    BY <1>0, <1>p DEF PutInv
  <1>5. JobInv'
    BY <1>0, <1>p DEF JobInv, TrimPCs
  <1>6. ReadInv'
    BY <1>0, <1>p DEF ReadInv
  <1> QED BY <1>1, <1>2, <1>3, <1>4, <1>5, <1>6 DEF TypeInv

\* One tombstone.
LEMMA AppendTombstoneTyped ==
    ASSUME TypeInv, AppendTombstone
    PROVE  TypeInv'
  <1>0. IndexTypes /\ GridTypes /\ MemTypes /\ PutInv /\ JobInv /\ ReadInv
    BY DEF TypeInv
  <1> DEFINE ix == WriteAt(idx, indexEnd, <<Tomb(job.cand[job.tombs + 1])>>)
  <1>p. /\ up /\ tpc = "tombs" /\ job.tombs < Len(job.cand) /\ indexEnd < IndexCap
        /\ WriteIndex(ix) /\ indexEnd' = indexEnd + 1 /\ job' = [job EXCEPT !.tombs = @ + 1]
        /\ UNCHANGED <<confirmed, intervals, pendingIntervals, indexErr, gridVars, pc, tpc, read,
                       up, crashes, trims>>
    BY DEF AppendTombstone
  <1>j. job \in Jobs /\ job.cand \in Seq(Fids) /\ job.tombs \in Nat
    BY <1>0 DEF JobInv, Jobs
  <1>1. IndexTypes'
    <2>1. job.cand[job.tombs + 1] \in Fids
      BY <1>j, <1>p
    <2>2. <<Tomb(job.cand[job.tombs + 1])>> \in Seq(Entries)
      BY <2>1, EntryTypes
    <2>3. idx \in Indexes /\ indexEnd \in Nat
      BY <1>0, IndexAssumption DEF IndexTypes, MemTypes
    <2>4. ix \in Indexes
      BY <2>2, <2>3, WriteAtTyped
    <2> HIDE DEF ix
    <2> QED BY <1>0, <1>p, <2>4, WriteIndexTyped
  <1> HIDE DEF ix
  <1>2. GridTypes'
    BY <1>0, <1>p DEF GridTypes, gridVars
  <1>3. MemTypes'
    BY <1>0, <1>p, IndexAssumption DEF MemTypes
  <1>4. PutInv'
    BY <1>0, <1>p DEF PutInv
  <1>5. JobInv'
    <2>1. /\ job' \in Jobs /\ job'.cand = job.cand /\ job'.container = job.container
          /\ job'.containerSize = job.containerSize
      BY <1>j, <1>p DEF Jobs
    <2> QED BY <1>0, <1>p, <2>1 DEF JobInv, Placed
  <1>6. ReadInv'
    BY <1>0, <1>p DEF ReadInv
  <1> QED BY <1>1, <1>2, <1>3, <1>4, <1>5, <1>6 DEF TypeInv

\* The sync behind the tombstones.
LEMMA TombstonesSyncedTyped ==
    ASSUME TypeInv, TombstonesSynced
    PROVE  TypeInv'
  <1>0. IndexTypes /\ GridTypes /\ MemTypes /\ PutInv /\ JobInv /\ ReadInv
    BY DEF TypeInv
  <1>p. /\ up /\ tpc = "tombs" /\ tpc' = "compact" /\ Sync
        /\ UNCHANGED <<memVars, grid, pc, job, read, up, crashes, trims>>
    BY DEF TombstonesSynced
  <1>1. IndexTypes' /\ dirty' = {}
    BY <1>0, <1>p, SyncTyped
  <1>2. GridTypes'
    BY <1>0, <1>1, <1>p DEF GridTypes
  <1>3. MemTypes'
    BY <1>0, <1>p DEF MemTypes, memVars
  <1>4. PutInv'
    BY <1>0, <1>p DEF PutInv, memVars
  <1>5. JobInv'
    BY <1>0, <1>p DEF JobInv, TrimPCs, memVars
  <1>6. ReadInv'
    BY <1>0, <1>p DEF ReadInv
  <1> QED BY <1>1, <1>2, <1>3, <1>4, <1>5, <1>6 DEF TypeInv

\* The compaction collects.
LEMMA CompactCollectTyped ==
    ASSUME TypeInv, CompactCollect
    PROVE  TypeInv'
  <1>0. IndexTypes /\ GridTypes /\ MemTypes /\ PutInv /\ JobInv /\ ReadInv
    BY DEF TypeInv
  <1>p. /\ up /\ tpc = "compact" /\ tpc' = "copy" /\ Sync
        /\ job' = [job EXCEPT !.target = Collected, !.sector = 0]
        /\ UNCHANGED <<memVars, grid, pc, read, up, crashes, trims>>
    BY DEF CompactCollect
  <1>1. IndexTypes' /\ dirty' = {}
    BY <1>0, <1>p, SyncTyped
  <1>2. GridTypes'
    BY <1>0, <1>1, <1>p DEF GridTypes
  <1>3. MemTypes'
    BY <1>0, <1>p DEF MemTypes, memVars
  <1>4. PutInv'
    BY <1>0, <1>p DEF PutInv, memVars
  <1>5. JobInv'
    <2>1. Collected \in Indexes
      BY <1>0, CompactedTyped DEF Collected, IndexTypes
    <2>2. job \in Jobs /\ job.cand # <<>> /\ Placed(job.container, job.containerSize)
      BY <1>0, <1>p DEF JobInv
    <2>3. /\ job' \in Jobs /\ job'.cand = job.cand /\ job'.container = job.container
          /\ job'.containerSize = job.containerSize /\ job'.target \in Indexes
      BY <1>p, <2>1, <2>2 DEF Jobs
    <2> QED BY <1>p, <2>2, <2>3 DEF JobInv, TrimPCs, Placed
  <1>6. ReadInv'
    BY <1>0, <1>p DEF ReadInv
  <1> QED BY <1>1, <1>2, <1>3, <1>4, <1>5, <1>6 DEF TypeInv

\* One sector of the copy.
LEMMA CopySectorTyped ==
    ASSUME TypeInv, CopySector
    PROVE  TypeInv'
  <1>0. IndexTypes /\ GridTypes /\ MemTypes /\ PutInv /\ JobInv /\ ReadInv
    BY DEF TypeInv
  <1> DEFINE first == job.sector * SectorLen
             ix == [i \in 1 .. IndexCap |-> IF i \in first + 1 .. first + SectorLen
                                            THEN job.target[i] ELSE idx[i]]
  <1>p. /\ up /\ tpc = "copy" /\ job.sector \in Sectors /\ WriteIndex(ix)
        /\ job' = [job EXCEPT !.sector = @ + 1]
        /\ UNCHANGED <<memVars, gridVars, pc, tpc, read, up, crashes, trims>>
    BY DEF CopySector
  <1>j. job \in Jobs /\ job.target \in Indexes /\ job.sector \in Nat
    BY <1>0, <1>p DEF JobInv, Jobs
  <1>1. IndexTypes'
    <2>1. \A i \in 1 .. IndexCap : job.target[i] \in Entries /\ idx[i] \in Entries
      BY <1>0, <1>j DEF IndexTypes, Indexes
    <2> HIDE DEF first
    <2>2. ix \in Indexes
      BY <2>1 DEF Indexes
    <2> HIDE DEF ix
    <2> QED BY <1>0, <1>p, <2>2, WriteIndexTyped
  <1> HIDE DEF ix
  <1>2. GridTypes'
    BY <1>0, <1>p DEF GridTypes, gridVars
  <1>3. MemTypes'
    BY <1>0, <1>p DEF MemTypes, memVars
  <1>4. PutInv'
    BY <1>0, <1>p DEF PutInv, memVars
  <1>5. JobInv'
    <2>1. /\ job' \in Jobs /\ job'.cand = job.cand /\ job'.container = job.container
          /\ job'.containerSize = job.containerSize /\ job'.target = job.target
      BY <1>j, <1>p DEF Jobs
    <2> QED BY <1>0, <1>p, <2>1 DEF JobInv, Placed
  <1>6. ReadInv'
    BY <1>0, <1>p DEF ReadInv
  <1> QED BY <1>1, <1>2, <1>3, <1>4, <1>5, <1>6 DEF TypeInv

\* No job has its type.
LEMMA NoJobTyped == NoJob \in Jobs /\ NoJob.cand = <<>>
  BY DEF NoJob, Jobs

\* The compacted index is replayed.
LEMMA CompactDoneTyped ==
    ASSUME TypeInv, CompactDone
    PROVE  TypeInv'
  <1>0. IndexTypes /\ GridTypes /\ MemTypes /\ PutInv /\ JobInv /\ ReadInv
    BY DEF TypeInv
  <1> DEFINE r == Replay(Disk, idx, grid)
  <1>p. /\ up /\ tpc = "copy" /\ tpc' = "idle" /\ job' = NoJob /\ Sync
        /\ confirmed' = IF r.ok THEN r.refs ELSE confirmed
        /\ intervals' = IF r.ok THEN r.exts ELSE intervals
        /\ indexEnd' = IF r.ok THEN End(idx) ELSE indexEnd
        /\ UNCHANGED <<pendingIntervals, grid, pc, read, up, crashes, trims>>
    BY Zenon DEF CompactDone
  <1>1. IndexTypes' /\ dirty' = {}
    BY <1>0, <1>p, SyncTyped
  <1>2. GridTypes'
    BY <1>0, <1>1, <1>p DEF GridTypes
  <1>3. MemTypes'
    <2>1. r.ok => r.refs \in [Fids -> Refs] /\ r.exts \subseteq Intervals
      BY <1>0, ReplayTyped, TrimAssumption DEF IndexTypes, GridTypes, Refs, ObjectRefs
    <2>2. End(idx) \in 0 .. IndexCap
      BY EndFacts DEF EndsAt
    <2> HIDE DEF r
    <2> QED BY <1>0, <1>p, <2>1, <2>2 DEF MemTypes
  <1>4. PutInv'
    BY <1>0, <1>p DEF PutInv
  <1>5. JobInv'
    BY <1>p, NoJobTyped DEF JobInv, TrimPCs
  <1>6. ReadInv'
    BY <1>0, <1>p DEF ReadInv
  <1> QED BY <1>1, <1>2, <1>3, <1>4, <1>5, <1>6 DEF TypeInv

\* Trim gives up.
LEMMA TrimFailTyped ==
    ASSUME TypeInv, TrimFail
    PROVE  TypeInv'
  <1>0. IndexTypes /\ GridTypes /\ MemTypes /\ PutInv /\ JobInv /\ ReadInv
    BY DEF TypeInv
  <1>p. /\ up /\ tpc' = "idle" /\ job' = NoJob
        /\ UNCHANGED <<memVars, idxVars, gridVars, pc, read, up, crashes, trims>>
    BY DEF TrimFail
  <1>1. IndexTypes' /\ GridTypes'
    BY <1>0, <1>p DEF IndexTypes, GridTypes, idxVars, gridVars
  <1>3. MemTypes'
    BY <1>0, <1>p DEF MemTypes, memVars
  <1>4. PutInv'
    BY <1>0, <1>p DEF PutInv, memVars
  <1>5. JobInv'
    BY <1>p, NoJobTyped DEF JobInv, TrimPCs
  <1>6. ReadInv'
    BY <1>0, <1>p DEF ReadInv
  <1> QED BY <1>1, <1>3, <1>4, <1>5, <1>6 DEF TypeInv

-----------------------------------------------------------------------------
(* Reads, the end of the process, and the next one.                        *)

\* The two halves of a Get.
LEMMA GetTyped ==
    ASSUME TypeInv, (\E f \in ReadNames : GetLookup(f)) \/ GetRead
    PROVE  TypeInv'
  <1>0. IndexTypes /\ GridTypes /\ MemTypes /\ PutInv /\ JobInv /\ ReadInv
    BY DEF TypeInv
  <1>p. UNCHANGED <<memVars, idxVars, gridVars, pc, tpc, job, up, crashes, trims>>
    BY DEF GetLookup, GetRead
  <1>1. IndexTypes' /\ GridTypes'
    BY <1>0, <1>p DEF IndexTypes, GridTypes, idxVars, gridVars
  <1>3. MemTypes'
    BY <1>0, <1>p DEF MemTypes, memVars
  <1>4. PutInv'
    BY <1>0, <1>p DEF PutInv, memVars
  <1>5. JobInv'
    BY <1>0, <1>p DEF JobInv, memVars
  <1>6. ReadInv'
    <2>1. CASE GetRead
      <3>1. read' = NoRead
        BY <2>1 DEF GetRead
      <3>2. NoRef \in Refs
        BY RefTypes DEF Refs, ObjectRefs
      <3> QED BY <3>1, <3>2 DEF ReadInv, NoRead
    <2>2. CASE \E f \in ReadNames : GetLookup(f)
      <3>1. PICK f \in ReadNames : read' = [fid |-> f, ref |-> confirmed[f]]
        BY <2>2 DEF GetLookup
      <3>2. f \in AllNames /\ f \in Fids
        BY TrimAssumption
      <3>3. confirmed[f] \in Refs
        BY <1>0, <3>2 DEF MemTypes
      <3> QED BY <3>1, <3>2, <3>3 DEF ReadInv
    <2> QED BY <2>1, <2>2
  <1> QED BY <1>1, <1>3, <1>4, <1>5, <1>6 DEF TypeInv

\* What is left of the process.
LEMMA EndTyped ==
    ASSUME MemTypes, PutInv, ProcessEnds
    PROVE  MemTypes' /\ PutInv' /\ JobInv' /\ ReadInv'
  <1>1. NoRef \in Refs
    BY RefTypes DEF Refs, ObjectRefs
  <1>p. /\ confirmed' = [f \in Fids |-> NoRef]
        /\ intervals' = {} /\ pendingIntervals' = {} /\ indexEnd' = 0
        /\ pc' = [p \in Puts |-> IF pc[p] \in {"idle", "acked"} THEN pc[p] ELSE "failed"]
        /\ tpc' = "idle" /\ job' = NoJob /\ read' = NoRead
    BY DEF ProcessEnds
  <1>2. MemTypes'
    BY <1>1, <1>p, IndexAssumption DEF MemTypes
  <1>3. \A p \in Puts : pc'[p] \in {"idle", "acked", "failed"}
    BY <1>p
  <1>4. PutInv'
    <2>1. pc' \in [Puts -> PutPCs]
      BY <1>p DEF PutPCs
    <2> QED BY <1>3, <2>1 DEF PutInv
  <1>5. JobInv'
    BY <1>p, NoJobTyped DEF JobInv, TrimPCs
  <1>6. ReadInv'
    BY <1>1, <1>p DEF ReadInv, NoRead
  <1> QED BY <1>2, <1>4, <1>5, <1>6

\* A crash leaves an index made of what the sectors held.
LEMMA CrashTyped ==
    ASSUME TypeInv, Crash
    PROVE  TypeInv'
  <1>0. IndexTypes /\ GridTypes /\ MemTypes /\ PutInv /\ JobInv /\ ReadInv
    BY DEF TypeInv
  <1>p. ProcessEnds /\ dirty' = {}
    BY DEF Crash
  <1>q. PICK pick \in [Sectors -> UNION {media[j] : j \in Sectors}] :
            /\ \A j \in Sectors : pick[j] \in media[j]
            /\ idx' = [i \in 1 .. IndexCap |->
                         pick[(i - 1) \div SectorLen][((i - 1) % SectorLen) + 1]]
            /\ media' = [j \in Sectors |-> {pick[j]}]
    BY Zenon DEF Crash
  <1>r. PICK lost \in SUBSET dirty :
            grid' = [s \in DOMAIN grid |-> IF s \in lost THEN Junk ELSE grid[s]]
    BY Zenon DEF Crash
  <1>1. IndexTypes'
    <2>1. \A j \in Sectors : pick[j] \in SectorImages
      BY <1>0, <1>q DEF IndexTypes
    <2>2. \A i \in 1 .. IndexCap : /\ (i - 1) \div SectorLen \in Sectors
                                   /\ ((i - 1) % SectorLen) + 1 \in 1 .. SectorLen
      BY InSector, IndexAssumption, TrimAssumption DEF Sectors
    <2>3. \A i \in 1 .. IndexCap : pick[(i - 1) \div SectorLen][((i - 1) % SectorLen) + 1] \in Entries
      BY <2>1, <2>2 DEF SectorImages
    <2>4. idx' \in Indexes
      BY <1>q, <2>3 DEF Indexes
    <2>5. media' \in [Sectors -> SUBSET SectorImages]
      BY <1>q, <2>1
    <2> QED BY <2>4, <2>5 DEF IndexTypes
  <1>2. GridTypes'
    <2>1. TableTyped(Junk)
      BY DEF TableTyped, Junk
    <2>2. DOMAIN grid = GridSlots(Disk) /\ \A s \in GridSlots(Disk) : TableTyped(grid[s])
      BY <1>0 DEF GridTypes, GridTyped
    <2>3. \A s \in GridSlots(Disk) : grid'[s] = Junk \/ grid'[s] = grid[s]
      BY <1>r, <2>2
    <2>4. DOMAIN grid' = GridSlots(Disk) /\ GridTyped(Disk, grid')
      BY <1>r, <2>1, <2>2, <2>3 DEF GridTyped
    <2> QED BY <1>p, <2>4 DEF GridTypes
  <1> QED BY <1>0, <1>1, <1>2, <1>p, EndTyped DEF TypeInv

\* An orderly stop.
LEMMA ShutdownTyped ==
    ASSUME TypeInv, Shutdown
    PROVE  TypeInv'
  <1>0. IndexTypes /\ GridTypes /\ MemTypes /\ PutInv /\ JobInv /\ ReadInv
    BY DEF TypeInv
  <1>p. ProcessEnds /\ UNCHANGED <<idxVars, gridVars>>
    BY DEF Shutdown
  <1>1. IndexTypes' /\ GridTypes'
    BY <1>0, <1>p DEF IndexTypes, GridTypes, idxVars, gridVars
  <1> QED BY <1>0, <1>1, <1>p, EndTyped DEF TypeInv

\* The next boot.
LEMMA BootTyped ==
    ASSUME TypeInv, Boot
    PROVE  TypeInv'
  <1>0. IndexTypes /\ GridTypes /\ MemTypes /\ PutInv /\ JobInv /\ ReadInv
    BY DEF TypeInv
  <1> DEFINE r == Replay(Disk, idx, grid)
  <1>p. /\ ~up /\ r.ok /\ confirmed' = r.refs /\ intervals' = r.exts /\ indexEnd' = End(idx)
        /\ UNCHANGED <<pendingIntervals, indexErr, idxVars, gridVars, pc, tpc, job, read,
                       crashes, trims>>
    BY Zenon DEF Boot
  <1>1. IndexTypes' /\ GridTypes'
    BY <1>0, <1>p DEF IndexTypes, GridTypes, idxVars, gridVars
  <1>3. MemTypes'
    <2>1. r.refs \in [Fids -> Refs] /\ r.exts \subseteq Intervals
      BY <1>0, <1>p, ReplayTyped, TrimAssumption DEF IndexTypes, GridTypes, Refs, ObjectRefs
    <2>2. End(idx) \in 0 .. IndexCap
      BY EndFacts DEF EndsAt
    <2> HIDE DEF r
    <2> QED BY <1>0, <1>p, <2>1, <2>2 DEF MemTypes
  <1>4. PutInv'
    BY <1>0, <1>p DEF PutInv
  <1>5. JobInv'
    BY <1>0, <1>p DEF JobInv
  <1>6. ReadInv'
    BY <1>0, <1>p DEF ReadInv
  <1> QED BY <1>1, <1>3, <1>4, <1>5, <1>6 DEF TypeInv

\* A new disk.
LEMMA InitTyped == Init => TypeInv
  <1> SUFFICES ASSUME Init PROVE TypeInv
    OBVIOUS
  <1>e. ZeroEntry \in Entries /\ NoRef \in Refs
    BY EntryTypes, RefTypes DEF Refs, ObjectRefs
  <1>1. IndexTypes
    <2>1. EmptyIndex \in Indexes
      BY <1>e DEF EmptyIndex, Indexes
    <2>2. \A j \in Sectors : {Sector(EmptyIndex, j)} \in SUBSET SectorImages
      BY <2>1, SectorTyped
    <2> QED BY <2>1, <2>2 DEF IndexTypes, Init
  <1>2. GridTypes
    <2>1. TableTyped(Junk)
      BY DEF TableTyped, Junk
    <2> QED BY <2>1 DEF GridTypes, GridTyped, Init
  <1>3. MemTypes
    BY <1>e, IndexAssumption DEF MemTypes, Init
  <1>4. PutInv
    BY DEF PutInv, PutPCs, Init
  <1>5. JobInv
    BY NoJobTyped DEF JobInv, TrimPCs, Init
  <1>6. ReadInv
    BY <1>e DEF ReadInv, NoRead, Init
  <1> QED BY <1>1, <1>2, <1>3, <1>4, <1>5, <1>6 DEF TypeInv

\* A step that changes nothing.
LEMMA StutterTyped ==
    ASSUME TypeInv, UNCHANGED vars
    PROVE  TypeInv'
  <1>0. IndexTypes /\ GridTypes /\ MemTypes /\ PutInv /\ JobInv /\ ReadInv
    BY DEF TypeInv
  <1>1. IndexTypes' /\ GridTypes'
    BY <1>0 DEF IndexTypes, GridTypes, idxVars, gridVars, vars
  <1>3. MemTypes'
    BY <1>0 DEF MemTypes, memVars, vars
  <1>4. PutInv'
    BY <1>0 DEF PutInv, memVars, vars
  <1>5. JobInv'
    BY <1>0 DEF JobInv, memVars, vars
  <1>6. ReadInv'
    BY <1>0 DEF ReadInv, vars
  <1> QED BY <1>1, <1>3, <1>4, <1>5, <1>6 DEF TypeInv

\* Every step keeps the types.
LEMMA NextTyped == TypeInv /\ [Next]_vars => TypeInv'
  <1> SUFFICES ASSUME TypeInv, [Next]_vars PROVE TypeInv'
    OBVIOUS
  <1>1. CASE \E p \in Puts : PutNext(p)
    BY <1>1, PutPrepareTyped, PutStreamTyped, PutCommitTyped, PutPublishTyped, PutAbortTyped,
       PutRollbackTyped DEF PutNext
  <1>2. CASE TrimStart
    BY <1>2, TrimStartTyped
  <1>3. CASE TrimStep
    BY <1>3, TrimFailTyped, WriteContainerTyped, ContainerSyncedTyped, WriteTableTyped,
       TableSyncedTyped, AnchorFirstTyped, AnchorSecondTyped, AnchorSyncedTyped, LoadTableTyped,
       AppendTombstoneTyped, TombstonesSyncedTyped, CompactCollectTyped, CopySectorTyped,
       CompactDoneTyped DEF TrimStep
  <1>4. CASE (\E f \in ReadNames : GetLookup(f)) \/ GetRead
    BY <1>4, GetTyped
  <1>5. CASE Crash \/ Shutdown \/ Boot
    BY <1>5, CrashTyped, ShutdownTyped, BootTyped
  <1>6. CASE UNCHANGED vars
    BY <1>6, StutterTyped
  <1> QED BY <1>1, <1>2, <1>3, <1>4, <1>5, <1>6 DEF Next, Running

\* Types, for any headers, faults and sizes of sectors: RAM's end of the index
\* stays inside it although appends check for room only one by one, what
\* replays and packed tables put into the RAM index are references, and a
\* crash mixes sectors to an index.
THEOREM TrimTypeCorrect == Spec => []TrimTypeOK
  <1>1. TypeInv => TrimTypeOK
    BY DEF TypeInv, IndexTypes, GridTypes, MemTypes, PutInv, JobInv, ReadInv, TrimTypeOK, Indexes,
           PutPCs
  <1> QED BY <1>1, InitTyped, NextTyped, PTL DEF Spec
-----------------------------------------------------------------------------
(* The index as the daemon writes it.  From here on the second write of an  *)
(* anchor, the sync behind it and the copy of the compacted index do not    *)
(* fail, and that copy is one sector.  The run trim_interrupted is without  *)
(* these.  The process may still end between the two writes of an anchor.   *)

WholeWrites == Faults \subseteq {"crash"} /\ SectorLen = IndexCap

At(ix, n) == Fold(Disk, ix)[n]

\* Written by the daemon, accepted so far, and empty behind its end.
Sound(ix) ==
    /\ ix \in Indexes /\ Shaped(Disk, ix) /\ At(ix, End(ix)).ok
    /\ \A i \in 1 .. IndexCap : End(ix) < i => ix[i] = ZeroEntry

Whole(ix) == Sound(ix) /\ ~Mid(At(ix, End(ix)))

\* The last entry is an anchor whose second entry was not written.
Half(ix) ==
    /\ Sound(ix) /\ End(ix) # 0 /\ ix[End(ix)].kind = "anchor"
    /\ Mid(At(ix, End(ix))) /\ ~Mid(At(ix, End(ix) - 1))

\* What lies behind RAM's end of the index: nothing, or an append in progress
\* or in doubt.
TailInv ==
    LET n == indexEnd
    IN  /\ tpc \in {"idle", "container"} /\ (\A p \in Puts : pc[p] # "sync") =>
             \/ End(idx) = n
             \/ End(idx) = n + 1 /\ idx[n + 1].kind = "plain" /\ confirmed[idx[n + 1].fid] = NoRef
        /\ \A p \in Puts : pc[p] = "sync" =>
             /\ End(idx) = n + Len(PutEntries(p))
             /\ \A i \in 1 .. Len(PutEntries(p)) : idx[n + i] = PutEntries(p)[i]
        /\ tpc = "containerSync" =>
             /\ End(idx) = n + 1 /\ idx[n + 1] = Plain(job.container, job.containerSize)
             /\ confirmed[job.container] = NoRef
        /\ tpc = "tableSync" =>
             /\ End(idx) = n + 1 /\ idx[n + 1] = Plain(job.table, job.tableSize)
             /\ confirmed[job.table] = NoRef
        /\ tpc = "anchorSecond" => End(idx) = n + 1 /\ idx[n + 1] = Anchor(job.table)
        /\ tpc = "anchorSync" =>
             /\ End(idx) = n + 2 /\ idx[n + 1] = Anchor(job.table)
             /\ idx[n + 2] = Plain(job.table, job.tableSize)
        /\ tpc \in {"table", "anchor", "load", "tombs", "compact"} => End(idx) = n

\* A name whose record a tombstone or an anchor may follow.
Retirable(r, f) == Separate(r.refs, f) /\ ~InTables(r, f)

\* The names that the run of Trim will retire, and its table.
RetireInv ==
    tpc # "idle" =>
        /\ \A k \in DOMAIN job.cand :
             /\ confirmed[job.cand[k]] # NoRef
             /\ tpc # "compact" /\ job.tombs < k => Retirable(At(idx, indexEnd), job.cand[k])
        /\ tpc \in {"anchor", "anchorSecond", "anchorSync"} =>
             /\ \A k \in DOMAIN job.cand : job.cand[k] # job.table
             /\ Retirable(At(idx, indexEnd), job.table)

\* Memory and the index up to RAM's end of it.
RamInv ==
    up /\ ~indexErr /\ tpc # "copy" =>
        /\ indexEnd <= End(idx) /\ ~Mid(At(idx, indexEnd))
        /\ \A f \in Fids : At(idx, indexEnd).refs[f] # NoRef => confirmed[f] # NoRef
        /\ TailInv
        /\ RetireInv

LogInv ==
    /\ Sound(idx) /\ (up /\ tpc # "anchorSecond" => Whole(idx)) /\ (Whole(idx) \/ Half(idx))
    /\ \A ix \in media[0] : Whole(ix) \/ Half(ix)
    /\ tpc = "copy" => Whole(job.target)
    /\ indexErr => MuFree
    /\ RamInv

-----------------------------------------------------------------------------
(* Appends.                                                                *)

\* An entry that is accepted is no failure.
LEMMA ApplyKeepsOk ==
    ASSUME NEW d \in Disks, NEW r \in ReplayStates, NEW e \in Entries, e # ZeroEntry, Accepts(d, r, e), r.ok
    PROVE  Apply(d, r, e).ok
  <1>0. e.kind \in {"plain", "jump", "anchor", "tomb"}
    BY EntryFacts
  <1>1. CASE e.kind = "plain" /\ r.anchor
    BY <1>1, ApplyTable DEF Same
  <1>2. CASE e.kind = "plain" /\ ~r.anchor
    BY <1>2, ApplyPlain DEF Same
  <1>3. CASE e.kind # "plain"
    <2>1. \E refs, exts, alias, anchor, tables : Same(r, Apply(d, r, e), refs, exts, alias, anchor, tables)
      BY <1>0, <1>3, ApplyOther
    <2> QED BY <2>1 DEF Same
  <1> QED BY <1>1, <1>2, <1>3

\* One entry is written behind the first n, over at most one entry.
LEMMA AppendOne ==
    ASSUME NEW ix, Sound(ix), NEW n \in Nat, n < IndexCap, n <= End(ix), End(ix) <= n + 1,
           NEW e \in Entries, e # ZeroEntry, Accepts(Disk, At(ix, n), e), Fits(At(ix, n), ix[n], e)
    PROVE  /\ Sound(WriteAt(ix, n, <<e>>)) /\ End(WriteAt(ix, n, <<e>>)) = n + 1
           /\ \A i \in 0 .. n : At(WriteAt(ix, n, <<e>>), i) = At(ix, i)
           /\ At(WriteAt(ix, n, <<e>>), n + 1) = Apply(Disk, At(ix, n), e)
           /\ WriteAt(ix, n, <<e>>)[n + 1] = e
           /\ At(ix, n) \in ReplayStates /\ At(WriteAt(ix, n, <<e>>), n + 1) \in ReplayStates
  <1> DEFINE iy == WriteAt(ix, n, <<e>>)
  <1>0. /\ ix \in Indexes /\ End(ix) \in Nat /\ IndexCap \in Nat /\ Disk \in Disks
        /\ \A i \in 1 .. End(ix) : ix[i] # ZeroEntry
    BY EndFacts, IndexAssumption, TrimAssumption DEF EndsAt, Sound
  <1>1. iy \in Indexes
    <2>1. <<e>> \in Seq(Entries)
      OBVIOUS
    <2> QED BY <1>0, <2>1, WriteAtTyped
  <1>2. /\ \A i \in 1 .. IndexCap : i # n + 1 => iy[i] = ix[i]
        /\ iy[n + 1] = e
    <2>1. Len(<<e>>) = 1 /\ <<e>>[1] = e
      OBVIOUS
    <2>2. iy = [i \in 1 .. IndexCap |-> IF i \in n + 1 .. n + 1 THEN <<e>>[i - n] ELSE ix[i]]
      BY <2>1, Zenon DEF WriteAt
    <2>3. \A i \in Nat : (i \in n + 1 .. n + 1 <=> i = n + 1)
      OBVIOUS
    <2>4. \A i \in 1 .. IndexCap : i \in Nat
      OBVIOUS
    <2>5. n + 1 \in 1 .. IndexCap /\ (n + 1) - n = 1
      BY <1>0
    <2>6. \A i \in 1 .. IndexCap : iy[i] = IF i = n + 1 THEN <<e>>[i - n] ELSE ix[i]
      BY <2>2, <2>3, <2>4, Zenon
    <2> HIDE DEF iy
    <2>7. iy[n + 1] = <<e>>[(n + 1) - n]
      BY <2>5, <2>6
    <2> QED BY <2>1, <2>5, <2>6, <2>7
  <1> HIDE DEF iy
  <1>3. EndsAt(iy, n + 1)
    <2>1. n + 1 \in 0 .. IndexCap
      BY <1>0
    <2>2. \A i \in 1 .. n + 1 : iy[i] # ZeroEntry
      <3> SUFFICES ASSUME NEW i \in 1 .. n + 1 PROVE iy[i] # ZeroEntry
        OBVIOUS
      <3>1. CASE i = n + 1
        BY <1>2, <3>1
      <3>2. CASE i # n + 1
        <4>1. i \in 1 .. End(ix) /\ i \in 1 .. IndexCap
          BY <1>0, <3>2
        <4> QED BY <1>0, <1>2, <3>2, <4>1
      <3> QED BY <3>1, <3>2
    <2>3. ASSUME n + 1 < IndexCap PROVE iy[(n + 1) + 1] = ZeroEntry
      <3>1. (n + 1) + 1 \in 1 .. IndexCap /\ (n + 1) + 1 # n + 1 /\ End(ix) < (n + 1) + 1
        BY <1>0, <2>3
      <3> QED BY <1>2, <3>1 DEF Sound
    <2> QED BY <2>1, <2>2, <2>3 DEF EndsAt
  <1>4. End(iy) = n + 1
    BY <1>3, EndFacts
  <1>5. \A i \in 0 .. n : At(iy, i) = At(ix, i)
    <2>1. \A i \in 1 .. n : iy[i] = ix[i]
      BY <1>0, <1>2
    <2> QED BY <2>1, FoldPrefix DEF At
  <1>6. At(ix, n).ok /\ At(ix, n) \in ReplayStates
    <2>1. At(ix, End(ix)).ok
      BY DEF Sound
    <2>2. At(ix, n) \in ReplayStates
      BY <1>0, FoldType DEF At
    <2>3. CASE n = End(ix)
      BY <2>1, <2>2, <2>3
    <2>4. CASE n < End(ix)
      BY <1>0, <2>1, <2>2, <2>4, OkBefore DEF At
    <2> QED BY <1>0, <2>3, <2>4
  <1>7. At(iy, n + 1) = Apply(Disk, At(ix, n), e) /\ At(iy, n + 1).ok /\ At(iy, n + 1) \in ReplayStates
    <2>1. At(iy, n + 1) = ReplayEntry(Disk, At(iy, n), iy[n + 1])
      BY FoldDef, Zenon DEF At
    <2>2. At(iy, n) = At(ix, n)
      BY <1>5
    <2>3. At(iy, n + 1) = ReplayEntry(Disk, At(ix, n), e)
      BY <1>2, <2>1, <2>2
    <2>4. At(iy, n + 1) = Apply(Disk, At(ix, n), e)
      BY <1>6, <2>3 DEF ReplayEntry
    <2>5. At(iy, n + 1) \in ReplayStates
      BY <1>0, <1>6, <2>3, StepFacts
    <2>6. Apply(Disk, At(ix, n), e).ok
      BY <1>0, <1>6, ApplyKeepsOk
    <2> QED BY <2>4, <2>5, <2>6
  <1>8. Shaped(Disk, iy)
    <2> SUFFICES ASSUME NEW i \in Nat, i < n + 1 PROVE Fits(At(iy, i), iy[i], iy[i + 1])
      BY <1>4 DEF Shaped, At
    <2>1. At(iy, i) = At(ix, i)
      BY <1>5
    <2>2. CASE i = n
      <3>1. CASE n = 0
        <4>1. At(ix, 0) = ReplayStart
          BY FoldDef, Zenon DEF At
        <4>2. ~At(ix, 0).anchor
          BY <4>1 DEF ReplayStart
        <4>3. Fits(At(ix, 0), ix[0], e)
          BY <3>1
        <4>4. Fits(At(ix, 0), iy[0], e)
          BY <4>2, <4>3 DEF Fits
        <4> QED BY <1>2, <2>1, <2>2, <3>1, <4>4
      <3>2. CASE n # 0
        <4>1. iy[n] = ix[n]
          BY <1>0, <1>2, <3>2
        <4> QED BY <1>2, <2>1, <2>2, <4>1
      <3> QED BY <3>1, <3>2
    <2>3. CASE i # n
      <3>1. i < End(ix) /\ i + 1 \in 1 .. IndexCap /\ i + 1 # n + 1
        BY <1>0, <2>3
      <3>2. Fits(At(ix, i), ix[i], ix[i + 1]) /\ iy[i + 1] = ix[i + 1]
        BY <1>2, <3>1 DEF Sound, Shaped, At
      <3>3. CASE i = 0
        <4>1. At(ix, 0) = ReplayStart
          BY FoldDef, Zenon DEF At
        <4>2. ~At(ix, 0).anchor
          BY <4>1 DEF ReplayStart
        <4> QED BY <2>1, <3>2, <3>3, <4>2 DEF Fits
      <3>4. CASE i # 0
        <4>1. iy[i] = ix[i]
          BY <1>0, <1>2, <2>3, <3>1, <3>4
        <4> QED BY <2>1, <3>2, <4>1
      <3> QED BY <3>3, <3>4
    <2> QED BY <2>2, <2>3
  <1>9. \A i \in 1 .. IndexCap : End(iy) < i => iy[i] = ZeroEntry
    <2> SUFFICES ASSUME NEW i \in 1 .. IndexCap, n + 1 < i PROVE iy[i] = ZeroEntry
      BY <1>4
    <2>1. i # n + 1 /\ End(ix) < i
      BY <1>0
    <2> QED BY <1>2, <2>1 DEF Sound
  <1>10. Sound(iy)
    BY <1>1, <1>4, <1>7, <1>8, <1>9 DEF Sound
  <1> QED BY <1>2, <1>4, <1>5, <1>6, <1>7, <1>10 DEF iy

\* Zeros are written over what lies behind the first n entries.
LEMMA Truncate ==
    ASSUME NEW ix, Sound(ix), NEW n \in Nat, n <= End(ix), NEW zs \in Seq({ZeroEntry}),
           End(ix) <= n + Len(zs)
    PROVE  /\ Sound(WriteAt(ix, n, zs)) /\ End(WriteAt(ix, n, zs)) = n
           /\ \A i \in 0 .. n : At(WriteAt(ix, n, zs), i) = At(ix, i)
  <1> DEFINE iy == WriteAt(ix, n, zs)
             l == Len(zs)
  <1>0. /\ ix \in Indexes /\ End(ix) \in Nat /\ End(ix) <= IndexCap /\ IndexCap \in Nat /\ Disk \in Disks
        /\ \A i \in 1 .. End(ix) : ix[i] # ZeroEntry
    BY EndFacts, IndexAssumption, TrimAssumption DEF EndsAt, Sound
  <1>1. iy \in Indexes
    <2>1. zs \in Seq(Entries)
      BY EntryTypes
    <2> QED BY <1>0, <2>1, WriteAtTyped
  <1>2. l \in Nat /\ \A i \in 1 .. l : zs[i] = ZeroEntry
    OBVIOUS
  <1>3. iy = [i \in 1 .. IndexCap |-> IF i \in n + 1 .. n + l THEN zs[i - n] ELSE ix[i]]
    BY Zenon DEF WriteAt
  <1> HIDE DEF iy, l
  <1>4. /\ \A i \in 1 .. n : iy[i] = ix[i]
        /\ \A i \in 1 .. IndexCap : n < i => iy[i] = ZeroEntry
    <2>1. ASSUME NEW i \in 1 .. n PROVE iy[i] = ix[i]
      <3>1. i \in 1 .. IndexCap /\ ~(i \in n + 1 .. n + l)
        BY <1>0, <1>2
      <3> QED BY <1>3, <3>1
    <2>2. ASSUME NEW i \in 1 .. IndexCap, n < i PROVE iy[i] = ZeroEntry
      <3>1. CASE i \in n + 1 .. n + l
        <4>1. i - n \in 1 .. l
          BY <1>2, <3>1
        <4> QED BY <1>2, <1>3, <3>1, <4>1
      <3>2. CASE ~(i \in n + 1 .. n + l)
        <4>1. End(ix) < i
          BY <1>0, <1>2, <2>2, <3>2 DEF l
        <4> QED BY <1>3, <3>2, <4>1 DEF Sound
      <3> QED BY <3>1, <3>2
    <2> QED BY <2>1, <2>2
  <1>5. EndsAt(iy, n)
    <2>1. \A i \in 1 .. n : i \in 1 .. End(ix)
      BY <1>0
    <2>2. n < IndexCap => n + 1 \in 1 .. IndexCap /\ n < n + 1
      BY <1>0
    <2>3. n \in 0 .. IndexCap
      BY <1>0
    <2> QED BY <1>0, <1>4, <2>1, <2>2, <2>3 DEF EndsAt
  <1>6. End(iy) = n
    BY <1>5, EndFacts
  <1>7. \A i \in 0 .. n : At(iy, i) = At(ix, i)
    BY <1>4, FoldPrefix DEF At
  <1>8. At(ix, n).ok
    <2>1. At(ix, End(ix)).ok
      BY DEF Sound
    <2>2. CASE n = End(ix)
      BY <2>1, <2>2
    <2>3. CASE n < End(ix)
      BY <1>0, <2>1, <2>3, OkBefore DEF At
    <2> QED BY <1>0, <2>2, <2>3
  <1>9. Shaped(Disk, iy)
    <2> SUFFICES ASSUME NEW i \in Nat, i < n PROVE Fits(At(iy, i), iy[i], iy[i + 1])
      BY <1>6 DEF Shaped, At
    <2>1. At(iy, i) = At(ix, i) /\ i < End(ix) /\ i + 1 \in 1 .. n
      BY <1>0, <1>7
    <2>2. Fits(At(ix, i), ix[i], ix[i + 1]) /\ iy[i + 1] = ix[i + 1]
      BY <1>4, <2>1 DEF Sound, Shaped, At
    <2>3. CASE i = 0
      <3>1. At(ix, 0) = ReplayStart
        BY FoldDef, Zenon DEF At
      <3>2. ~At(ix, 0).anchor
        BY <3>1 DEF ReplayStart
      <3> QED BY <2>1, <2>2, <2>3, <3>2 DEF Fits
    <2>4. CASE i # 0
      <3>1. iy[i] = ix[i]
        BY <1>4, <2>4
      <3> QED BY <2>1, <2>2, <3>1
    <2> QED BY <2>3, <2>4
  <1>10. At(iy, n).ok
    BY <1>7, <1>8
  <1>11. Sound(iy)
    BY <1>1, <1>4, <1>6, <1>9, <1>10 DEF Sound
  <1> QED BY <1>6, <1>7, <1>11 DEF iy

-----------------------------------------------------------------------------
(* Names that may be retired.                                              *)

\* Between two records the live ones are what the replay has.
LEMMA GoodAt ==
    ASSUME NEW ix, Sound(ix), NEW n \in Nat, n <= End(ix), ~Mid(At(ix, n))
    PROVE  Good(Disk, ix, n) /\ At(ix, n) \in ReplayStates /\ At(ix, n).ok /\ PlacedRefs(Disk, At(ix, n))
  <1>0. /\ ix \in Indexes /\ End(ix) \in Nat /\ Disk \in Disks /\ Shaped(Disk, ix)
        /\ At(ix, End(ix)).ok
    BY EndFacts, IndexAssumption, TrimAssumption DEF EndsAt, Sound
  <1>1. n \in 0 .. End(ix)
    BY <1>0
  <1>2. Phase(Disk, ix, n)
    BY <1>0, <1>1, Phases DEF At
  <1>3. Good(Disk, ix, n)
    BY <1>2 DEF Phase, At
  <1>4. At(ix, n) \in ReplayStates
    BY <1>0, FoldType DEF At
  <1>5. At(ix, n).ok
    <2>1. CASE n = End(ix)
      BY <1>0, <2>1
    <2>2. CASE n < End(ix)
      BY <1>0, <2>2, OkBefore DEF At
    <2> QED BY <1>0, <2>1, <2>2
  <1>6. PlacedRefs(Disk, At(ix, n))
    BY <1>0, <1>5, FoldPlaced DEF At
  <1> QED BY <1>3, <1>4, <1>5, <1>6

\* A name that is not in use.
LEMMA FreshRetirable ==
    ASSUME NEW ix, Sound(ix), NEW n \in Nat, n <= End(ix), ~Mid(At(ix, n)),
           NEW f \in Fids, At(ix, n).refs[f] = NoRef
    PROVE  Retirable(At(ix, n), f)
  <1> DEFINE L == Live(Disk, ix, n)
             r == At(ix, n)
  <1>1. /\ Records(ix, L) /\ Describes(Disk, ix, L, r.refs, r.exts)
        /\ \A g : InTables(r, g) => \E j \in L : ix[j].kind = "anchor" /\ ix[j].fid = g
    BY GoodAt DEF Good, At
  <1> HIDE DEF L, r
  <1>2. ASSUME NEW j \in L, f \in Named(ix, j) PROVE FALSE
    <2> DEFINE o == Obj(ix, j)
    <2>1. /\ o \in Entries /\ o.kind = "plain" /\ ix[j].kind \in {"plain", "jump", "anchor"}
          /\ ix[j].kind # "jump" => o.fid = ix[j].fid
      BY <1>1 DEF Records
    <2>2. o.fid \in Nat /\ o.fid # 0 /\ o.size \in Nat
      BY <2>1, EntryFacts
    <2>3. Own(o.fid, o.size) # NoRef /\ AliasOf(o.fid, o.size) # NoRef
      BY <2>2, RefTypes
    <2>4. r.refs[f] = Own(o.fid, o.size) \/ r.refs[f] = AliasOf(o.fid, o.size)
      BY <1>1, <1>2, <2>1 DEF Named, Describes
    <2> QED BY <2>3, <2>4 DEF r
  <1>3. Separate(r.refs, f)
    BY <1>1, <1>2, FreshSeparate
  <1>4. ~InTables(r, f)
    BY <1>1, <1>2 DEF Named
  <1> QED BY <1>3, <1>4 DEF Retirable, r

\* A plain record that is live.
LEMMA LiveRetirable ==
    ASSUME NEW ix, Sound(ix), NEW n \in Nat, n <= End(ix), ~Mid(At(ix, n)),
           NEW j \in Live(Disk, ix, n), ix[j].kind = "plain"
    PROVE  Retirable(At(ix, n), ix[j].fid)
  <1> DEFINE L == Live(Disk, ix, n)
             r == At(ix, n)
             c == ix[j].fid
  <1>1. /\ Records(ix, L) /\ Describes(Disk, ix, L, r.refs, r.exts) /\ j \in L
        /\ \A g : InTables(r, g) => \E k \in L : ix[k].kind = "anchor" /\ ix[k].fid = g
    BY GoodAt DEF Good, At
  <1> HIDE DEF L, r
  <1>2. \A k \in L : c \in Named(ix, k) => k = j
    <2>1. c \in Named(ix, j)
      BY DEF Named
    <2> QED BY <1>1, <2>1 DEF Records
  <1>3. ~InTables(r, c)
    <2> SUFFICES ASSUME NEW k \in L, ix[k].kind = "anchor", ix[k].fid = c PROVE FALSE
      BY <1>1
    <2>1. c \in Named(ix, k)
      BY DEF Named
    <2>2. ix[j].kind = "plain"
      OBVIOUS
    <2> QED BY <1>2, <2>1, <2>2
  <1>4. Obj(ix, j) = ix[j] /\ ix[j] \in Entries /\ c \in Fids
    <2>1. Obj(ix, j) = ix[j]
      BY DEF Obj
    <2> QED BY <1>1, <2>1 DEF Records
  <1>5. Separate(r.refs, c)
    <2> SUFFICES ASSUME NEW g \in Fids, r.refs[g] # NoRef
                 PROVE  g = c <=> r.refs[g].fid = c
      BY DEF Separate
    <2>1. PICK k \in L : g \in Named(ix, k)
      BY <1>1 DEF Describes
    <2> DEFINE o == Obj(ix, k)
    <2>2. /\ o \in Entries /\ o.kind = "plain"
          /\ ix[k].kind # "jump" => o.fid = ix[k].fid
      BY <1>1 DEF Records
    <2>3. o.fid \in Nat /\ o.size \in Nat
      BY <2>2, EntryFacts
    <2>4. Own(o.fid, o.size).fid = o.fid /\ AliasOf(o.fid, o.size).fid = o.fid
      BY <2>3, RefTypes
    <2>5. r.refs[g] = Own(o.fid, o.size) \/ r.refs[g] = AliasOf(o.fid, o.size)
      BY <1>1, <2>1, <2>2 DEF Named, Describes
    <2>6. r.refs[g].fid = o.fid
      BY <2>4, <2>5
    <2>7. CASE k = j
      <3>1. o = ix[j] /\ g = c
        BY <1>4, <2>1, <2>7 DEF Named
      <3> QED BY <2>6, <3>1
    <2>8. CASE k # j
      <3>1. c # g /\ c # o.fid
        BY <1>2, <2>1, <2>8 DEF Named
      <3> QED BY <2>6, <3>1
    <2> QED BY <2>7, <2>8
  <1> QED BY <1>3, <1>5 DEF Retirable, r

\* What the steps behind it leave retirable.
LEMMA RetirableAfter ==
    ASSUME NEW r \in ReplayStates, NEW s, NEW c \in Fids, Retirable(r, c), NEW h, NEW e, e.fid \in Nat,
           e.size \in Nat
    PROVE  /\ AfterPlain(Disk, r, e, s) /\ c # e.fid => Retirable(s, c)
           /\ AfterTomb(r, e, s) => Retirable(s, c)
           /\ AfterAnchor(Disk, r, h, e, s) /\ c # e.fid => Retirable(s, c)
  <1>1. Separate(r.refs, c) /\ ~InTables(r, c) /\ r.tables \in Seq(Fids)
    BY DEF Retirable, ReplayStates
  <1>2. Own(e.fid, e.size).fid = e.fid
    BY RefTypes
  <1>3. ASSUME AfterPlain(Disk, r, e, s), c # e.fid PROVE Retirable(s, c)
    <2>1. s.refs = [f \in Fids |-> IF f = e.fid THEN Own(e.fid, e.size) ELSE r.refs[f]] /\ s.tables = r.tables
      BY <1>3 DEF AfterPlain
    <2>2. Separate(s.refs, c)
      BY <1>1, <1>2, <1>3, <2>1 DEF Separate
    <2> QED BY <1>1, <2>1, <2>2 DEF Retirable, InTables
  <1>4. ASSUME AfterTomb(r, e, s) PROVE Retirable(s, c)
    <2>1. s.refs = [f \in Fids |-> IF f = e.fid THEN NoRef ELSE r.refs[f]] /\ s.tables = r.tables
      BY <1>4 DEF AfterTomb
    <2>2. Separate(s.refs, c)
      BY <1>1, <2>1 DEF Separate
    <2> QED BY <1>1, <2>1, <2>2 DEF Retirable, InTables
  <1>5. ASSUME AfterAnchor(Disk, r, h, e, s), c # e.fid PROVE Retirable(s, c)
    <2>1. /\ s.refs = [f \in Fids |-> IF f = e.fid THEN Own(e.fid, e.size) ELSE r.refs[f]]
          /\ s.tables = Append(r.tables, e.fid)
      BY <1>5 DEF AfterAnchor
    <2>2. Separate(s.refs, c)
      BY <1>1, <1>2, <1>5, <2>1 DEF Separate
    <2>3. ~InTables(s, c)
      <3>1. \A k \in DOMAIN s.tables :
              s.tables[k] = e.fid \/ (k \in DOMAIN r.tables /\ s.tables[k] = r.tables[k])
        BY <1>1, <2>1
      <3> QED BY <1>1, <1>5, <3>1 DEF InTables
    <2> QED BY <2>2, <2>3 DEF Retirable
  <1> QED BY <1>3, <1>4, <1>5

\* The name of a plain entry itself.
LEMMA PlainRetirable ==
    ASSUME NEW r, NEW s, NEW e, e.fid \in Nat, e.size \in Nat, Retirable(r, e.fid),
           AfterPlain(Disk, r, e, s)
    PROVE  Retirable(s, e.fid)
  <1>1. Separate(r.refs, e.fid) /\ ~InTables(r, e.fid)
    BY DEF Retirable
  <1>2. Own(e.fid, e.size).fid = e.fid
    BY RefTypes
  <1>3. s.refs = [f \in Fids |-> IF f = e.fid THEN Own(e.fid, e.size) ELSE r.refs[f]] /\ s.tables = r.tables
    BY DEF AfterPlain
  <1>4. Separate(s.refs, e.fid)
    BY <1>1, <1>2, <1>3 DEF Separate
  <1> QED BY <1>1, <1>3, <1>4 DEF Retirable, InTables

-----------------------------------------------------------------------------
(* Entries behind a closed record.                                         *)

\* What is behind position n, once it was accepted.
LEMMA Behind ==
    ASSUME NEW ix, Sound(ix), NEW n \in Nat, n < End(ix), ~Mid(At(ix, n))
    PROVE  /\ ix[n + 1] \in Entries /\ ix[n + 1] # ZeroEntry /\ ix[n + 1].fid \in Fids
           /\ At(ix, n + 1) \in ReplayStates
           /\ ix[n + 1].kind = "plain" => AfterPlain(Disk, At(ix, n), ix[n + 1], At(ix, n + 1))
           /\ ix[n + 1].kind = "tomb" => AfterTomb(At(ix, n), ix[n + 1], At(ix, n + 1))
           /\ IsHead(ix[n + 1]) => Opened(At(ix, n), At(ix, n + 1), ix[n + 1]) /\ Mid(At(ix, n + 1))
           /\ ix[n + 1].kind = "jump" => At(ix, n).refs[ix[n + 1].fid] = NoRef
  <1>0. /\ ix \in Indexes /\ End(ix) \in Nat /\ Disk \in Disks /\ At(ix, End(ix)).ok
    BY EndFacts, IndexAssumption, TrimAssumption DEF EndsAt, Sound
  <1>1. /\ ix[n + 1] \in Entries /\ ix[n + 1] # ZeroEntry
        /\ At(ix, n) \in ReplayStates /\ At(ix, n + 1) \in ReplayStates
        /\ Accepts(Disk, At(ix, n), ix[n + 1])
        /\ At(ix, n + 1) = Apply(Disk, At(ix, n), ix[n + 1])
    BY <1>0, OkBefore DEF At
  <1> DEFINE r == At(ix, n)
             e == ix[n + 1]
             s == At(ix, n + 1)
  <1> HIDE DEF r, e, s
  <1>2. /\ e.fid \in Fids
        /\ e.kind = "plain" => AfterPlain(Disk, r, e, s)
        /\ e.kind = "tomb" => AfterTomb(r, e, s)
        /\ IsHead(e) => Opened(r, s, e) /\ Mid(s)
        /\ e.kind = "jump" => r.refs[e.fid] = NoRef
    <2>1. /\ e \in Entries /\ e # ZeroEntry /\ r \in ReplayStates /\ ~Mid(r) /\ Accepts(Disk, r, e)
          /\ s = Apply(Disk, r, e)
      BY <1>1 DEF r, e, s
    <2> QED BY <1>0, <2>1, TurnClosed
  <1> QED BY <1>1, <1>2 DEF r, e, s

\* A pair behind position n.
LEMMA PairBehind ==
    ASSUME NEW ix, Sound(ix), NEW n \in Nat, n + 1 < End(ix), ~Mid(At(ix, n)), IsHead(ix[n + 1])
    PROVE  /\ ix[n + 2] \in Entries /\ ix[n + 2].kind = "plain" /\ ix[n + 2].fid \in Fids
           /\ At(ix, n + 2) \in ReplayStates
           /\ ix[n + 1].kind = "jump" =>
                AfterJump(Disk, At(ix, n), ix[n + 1], ix[n + 2], At(ix, n + 2))
           /\ ix[n + 1].kind = "anchor" =>
                AfterAnchor(Disk, At(ix, n), ix[n + 1], ix[n + 2], At(ix, n + 2))
  <1>0. /\ ix \in Indexes /\ End(ix) \in Nat /\ Disk \in Disks /\ At(ix, End(ix)).ok
        /\ n < End(ix) /\ n + 1 \in Nat /\ (n + 1) + 1 = n + 2
    BY EndFacts, IndexAssumption, TrimAssumption DEF EndsAt, Sound
  <1>1. /\ ix[n + 2] \in Entries /\ ix[n + 2] # ZeroEntry
        /\ At(ix, n + 1) \in ReplayStates /\ At(ix, n + 2) \in ReplayStates
        /\ Accepts(Disk, At(ix, n + 1), ix[n + 2])
        /\ At(ix, n + 2) = Apply(Disk, At(ix, n + 1), ix[n + 2])
    BY <1>0, OkBefore DEF At
  <1>2. /\ Fits(At(ix, n + 1), ix[n + 1], ix[n + 2])
    BY <1>0 DEF Sound, Shaped, At
  <1>3. ix[n + 1] \in Entries /\ ix[n + 1] # ZeroEntry /\ Opened(At(ix, n), At(ix, n + 1), ix[n + 1])
    BY <1>0, Behind
  <1> DEFINE r == At(ix, n)
             h == ix[n + 1]
             s == At(ix, n + 1)
             e == ix[n + 2]
             t == At(ix, n + 2)
  <1> HIDE DEF r, h, s, e, t
  <1>4. /\ e.kind = "plain" /\ e.fid \in Fids
        /\ h.kind = "jump" => AfterJump(Disk, r, h, e, t)
        /\ h.kind = "anchor" => AfterAnchor(Disk, r, h, e, t)
    <2>1. /\ h \in Entries /\ h # ZeroEntry /\ s \in ReplayStates /\ Opened(r, s, h) /\ e \in Entries
          /\ e # ZeroEntry /\ Accepts(Disk, s, e) /\ Fits(s, h, e) /\ t = Apply(Disk, s, e)
      BY <1>1, <1>2, <1>3 DEF r, h, s, e, t
    <2> QED BY <1>0, <2>1, TurnOpen
  <1> QED BY <1>1, <1>4 DEF r, h, s, e, t

-----------------------------------------------------------------------------
(* What is written, when a sector is the whole index.                      *)

\* The one sector.
LEMMA OneSector ==
    ASSUME WholeWrites
    PROVE  /\ Sectors = {0} /\ \A ix \in Indexes : Sector(ix, 0) = ix
           /\ IndexCap \in Nat \ {0} /\ SectorLen = IndexCap
           /\ Faults \cap {"anchor-write", "anchor-sync", "copy-io"} = {}
  <1>0. IndexCap \in Nat \ {0} /\ SectorLen = IndexCap
    BY TrimAssumption, IndexAssumption DEF WholeWrites
  <1>1. Sectors = {0}
    <2>1. IndexCap \div IndexCap = 1
      BY <1>0
    <2>2. Sectors = 0 .. 0
      BY <1>0, <2>1 DEF Sectors
    <2> QED BY <2>2
  <1>2. ASSUME NEW ix \in Indexes PROVE Sector(ix, 0) = ix
    <2>1. \A i \in 1 .. IndexCap : 0 * IndexCap + i = i
      BY <1>0
    <2>2. Sector(ix, 0) = [i \in 1 .. IndexCap |-> ix[0 * IndexCap + i]]
      BY <1>0, Zenon DEF Sector
    <2>3. Sector(ix, 0) = [i \in 1 .. IndexCap |-> ix[i]]
      BY <2>1, <2>2
    <2> QED BY <2>3 DEF Indexes
  <1>3. Faults \cap {"anchor-write", "anchor-sync", "copy-io"} = {}
    BY DEF WholeWrites
  <1> QED BY <1>0, <1>1, <1>2, <1>3

\* What an index write, and a sync, make of the medium.
LEMMA WriteFacts ==
    ASSUME WholeWrites, IndexTypes, NEW ix \in Indexes
    PROVE  /\ WriteIndex(ix) => idx' = ix /\ media'[0] = media[0] \cup {ix}
           /\ SyncThenWrite(ix) => idx' = ix /\ media'[0] = {idx, ix}
           /\ Sync => idx' = idx /\ media'[0] = {idx}
  <1>1. Sectors = {0} /\ Sector(ix, 0) = ix /\ Sector(idx, 0) = idx
    BY OneSector DEF IndexTypes
  <1>2. 0 \in Sectors
    BY <1>1
  <1>3. ASSUME WriteIndex(ix) PROVE idx' = ix /\ media'[0] = media[0] \cup {ix}
    BY <1>1, <1>2, <1>3 DEF WriteIndex
  <1>4. ASSUME SyncThenWrite(ix) PROVE idx' = ix /\ media'[0] = {idx, ix}
    BY <1>1, <1>2, <1>4 DEF SyncThenWrite
  <1>5. ASSUME Sync PROVE idx' = idx /\ media'[0] = {idx}
    BY <1>1, <1>2, <1>5 DEF Sync
  <1> QED BY <1>3, <1>4, <1>5

\* A plain entry is appended.
LEMMA AppendPlain ==
    ASSUME NEW ix, Sound(ix), NEW n \in Nat, n < IndexCap, n <= End(ix), End(ix) <= n + 1,
           ~Mid(At(ix, n)), NEW f \in Fids, NEW s \in Nat, AddrOK(Disk, f, s), At(ix, n).refs[f] = NoRef
    PROVE  /\ Whole(WriteAt(ix, n, <<Plain(f, s)>>)) /\ End(WriteAt(ix, n, <<Plain(f, s)>>)) = n + 1
           /\ At(WriteAt(ix, n, <<Plain(f, s)>>), n) = At(ix, n)
           /\ WriteAt(ix, n, <<Plain(f, s)>>)[n + 1] = Plain(f, s)
  <1> DEFINE e == Plain(f, s)
             iy == WriteAt(ix, n, <<e>>)
             r == At(ix, n)
  <1>0. /\ e \in Entries /\ e # ZeroEntry /\ e.kind = "plain" /\ e.fid = f /\ e.size = s
    <2>1. e \in Entries /\ e # ZeroEntry
      BY EntryTypes
    <2> QED BY <2>1 DEF Plain, Entry
  <1>1. r.alias = 0 /\ ~r.anchor /\ r.refs[f] = NoRef /\ Disk \in Disks
    BY TrimAssumption DEF Mid
  <1> HIDE DEF e, r
  <1>2. Accepts(Disk, r, e) /\ Fits(r, ix[n], e)
    BY <1>0, <1>1 DEF Accepts, Fits
  <1>3. /\ Sound(iy) /\ End(iy) = n + 1
        /\ \A i \in 0 .. n : At(iy, i) = At(ix, i)
        /\ At(iy, n + 1) = Apply(Disk, r, e) /\ iy[n + 1] = e /\ r \in ReplayStates
    BY <1>0, <1>2, AppendOne DEF r
  <1>4. AfterPlain(Disk, r, e, Apply(Disk, r, e))
    BY <1>0, <1>1, <1>2, <1>3, TurnClosed DEF Mid
  <1>5. ~Mid(At(iy, End(iy)))
    BY <1>3, <1>4 DEF AfterPlain
  <1>6. At(iy, n) = At(ix, n)
    BY <1>3
  <1> QED BY <1>3, <1>5, <1>6 DEF Whole, e

\* A tombstone is appended.
LEMMA AppendTomb ==
    ASSUME NEW ix, Sound(ix), NEW n \in Nat, n < IndexCap, n <= End(ix), End(ix) <= n + 1,
           ~Mid(At(ix, n)), NEW f \in Fids, Retirable(At(ix, n), f)
    PROVE  /\ Whole(WriteAt(ix, n, <<Tomb(f)>>)) /\ End(WriteAt(ix, n, <<Tomb(f)>>)) = n + 1
           /\ At(WriteAt(ix, n, <<Tomb(f)>>), n) = At(ix, n)
           /\ WriteAt(ix, n, <<Tomb(f)>>)[n + 1] = Tomb(f)
  <1> DEFINE e == Tomb(f)
             iy == WriteAt(ix, n, <<e>>)
             r == At(ix, n)
  <1>0. /\ e \in Entries /\ e # ZeroEntry /\ e.kind = "tomb" /\ e.fid = f
    <2>1. e \in Entries /\ e # ZeroEntry
      BY EntryTypes
    <2> QED BY <2>1 DEF Tomb, Entry
  <1>1. r.alias = 0 /\ ~r.anchor /\ Disk \in Disks /\ Separate(r.refs, f) /\ ~InTables(r, f)
    BY TrimAssumption DEF Mid, Retirable
  <1> HIDE DEF e, r
  <1>2. Accepts(Disk, r, e) /\ Fits(r, ix[n], e)
    BY <1>0, <1>1 DEF Accepts, Fits
  <1>3. /\ Sound(iy) /\ End(iy) = n + 1
        /\ \A i \in 0 .. n : At(iy, i) = At(ix, i)
        /\ At(iy, n + 1) = Apply(Disk, r, e) /\ iy[n + 1] = e /\ r \in ReplayStates
    BY <1>0, <1>2, AppendOne DEF r
  <1>4. AfterTomb(r, e, Apply(Disk, r, e))
    BY <1>0, <1>1, <1>2, <1>3, TurnClosed DEF Mid
  <1>5. ~Mid(At(iy, End(iy)))
    BY <1>3, <1>4 DEF AfterTomb
  <1>6. At(iy, n) = At(ix, n)
    BY <1>3
  <1> QED BY <1>3, <1>5, <1>6 DEF Whole, e

\* A head is appended.
LEMMA AppendHead ==
    ASSUME NEW ix, Sound(ix), NEW n \in Nat, n < IndexCap, n <= End(ix), End(ix) <= n + 1,
           ~Mid(At(ix, n)), NEW f \in Fids, NEW e, e \in {Jump(f), Anchor(f)},
           e = Jump(f) => At(ix, n).refs[f] = NoRef,
           e = Anchor(f) => Retirable(At(ix, n), f)
    PROVE  /\ Sound(WriteAt(ix, n, <<e>>)) /\ End(WriteAt(ix, n, <<e>>)) = n + 1
           /\ At(WriteAt(ix, n, <<e>>), n) = At(ix, n)
           /\ WriteAt(ix, n, <<e>>)[n + 1] = e
           /\ Opened(At(ix, n), At(WriteAt(ix, n, <<e>>), n + 1), e)
  <1> DEFINE iy == WriteAt(ix, n, <<e>>)
             r == At(ix, n)
  <1>0. /\ e \in Entries /\ e # ZeroEntry /\ IsHead(e) /\ e.fid = f
        /\ e.kind = "jump" => e = Jump(f)
        /\ e.kind = "anchor" => e = Anchor(f)
    <2>1. e \in Entries /\ e # ZeroEntry
      BY EntryTypes
    <2> QED BY <2>1 DEF Jump, Anchor, Entry, IsHead
  <1>1. /\ r.alias = 0 /\ ~r.anchor /\ Disk \in Disks
        /\ e.kind = "jump" => r.refs[f] = NoRef
        /\ e.kind = "anchor" => Separate(r.refs, f) /\ ~InTables(r, f)
    BY <1>0, TrimAssumption DEF Mid, Retirable
  <1> HIDE DEF r
  <1>2. Accepts(Disk, r, e) /\ Fits(r, ix[n], e)
    BY <1>0, <1>1 DEF Accepts, Fits, IsHead
  <1>3. /\ Sound(iy) /\ End(iy) = n + 1
        /\ \A i \in 0 .. n : At(iy, i) = At(ix, i)
        /\ At(iy, n + 1) = Apply(Disk, r, e) /\ iy[n + 1] = e /\ r \in ReplayStates
    BY <1>0, <1>2, AppendOne DEF r
  <1>4. Opened(r, Apply(Disk, r, e), e)
    BY <1>0, <1>1, <1>2, <1>3, TurnClosed DEF Mid
  <1>6. At(iy, n) = At(ix, n)
    BY <1>3
  <1> QED BY <1>3, <1>4, <1>6 DEF r

\* The second entry of a pair is appended.
LEMMA AppendSecond ==
    ASSUME NEW ix, Sound(ix), NEW n \in Nat, n + 1 < IndexCap, End(ix) = n + 1, ~Mid(At(ix, n)),
           NEW h, h = ix[n + 1], IsHead(h), h.fid \in Fids,
           NEW f \in Fids, NEW s \in Nat, AddrOK(Disk, f, s),
           h.kind = "anchor" => f = h.fid,
           h.kind = "jump" => f # h.fid /\ s >= 2 /\ At(ix, n).refs[f] = NoRef
    PROVE  /\ Whole(WriteAt(ix, n + 1, <<Plain(f, s)>>)) /\ End(WriteAt(ix, n + 1, <<Plain(f, s)>>)) = n + 2
           /\ At(WriteAt(ix, n + 1, <<Plain(f, s)>>), n) = At(ix, n)
           /\ WriteAt(ix, n + 1, <<Plain(f, s)>>)[n + 1] = h
           /\ WriteAt(ix, n + 1, <<Plain(f, s)>>)[n + 2] = Plain(f, s)
  <1> DEFINE e == Plain(f, s)
             iy == WriteAt(ix, n + 1, <<e>>)
             r == At(ix, n)
             q == At(ix, n + 1)
  <1>0. /\ e \in Entries /\ e # ZeroEntry /\ e.kind = "plain" /\ e.fid = f /\ e.size = s
    <2>1. e \in Entries /\ e # ZeroEntry
      BY EntryTypes
    <2> QED BY <2>1 DEF Plain, Entry
  <1>1. n + 1 \in Nat /\ n + 1 <= End(ix) /\ End(ix) <= (n + 1) + 1 /\ n < End(ix) /\ (n + 1) + 1 = n + 2
    OBVIOUS
  <1>2. Opened(r, q, h) /\ Disk \in Disks /\ q \in ReplayStates /\ h \in Entries /\ h # ZeroEntry
    BY <1>1, Behind, TrimAssumption
  <1>3. /\ q.refs = r.refs /\ q.alias = (IF h.kind = "jump" THEN h.fid ELSE 0)
        /\ q.anchor = (h.kind = "anchor")
    BY <1>2 DEF Opened
  <1> HIDE DEF e, r, q
  <1>4. h.kind \in {"jump", "anchor"} /\ h.fid \in Nat /\ h.fid # 0
    BY IndexAssumption DEF IsHead
  <1>5. Accepts(Disk, q, e)
    <2>1. CASE h.kind = "jump"
      BY <1>0, <1>3, <1>4, <2>1 DEF Accepts, r
    <2>2. CASE h.kind = "anchor"
      BY <1>0, <1>3, <1>4, <2>2 DEF Accepts
    <2> QED BY <1>4, <2>1, <2>2
  <1>6. Fits(q, h, e)
    BY <1>0, <1>3, <1>4 DEF Fits
  <1>7. /\ Sound(iy) /\ End(iy) = n + 2
        /\ \A i \in 0 .. n + 1 : At(iy, i) = At(ix, i)
        /\ At(iy, n + 2) = Apply(Disk, q, e) /\ iy[n + 2] = e
    BY <1>0, <1>1, <1>5, <1>6, AppendOne DEF q
  <1>8. ~Mid(Apply(Disk, q, e))
    <2>1. /\ h.kind = "jump" => AfterJump(Disk, r, h, e, Apply(Disk, q, e))
          /\ h.kind = "anchor" => AfterAnchor(Disk, r, h, e, Apply(Disk, q, e))
      BY <1>0, <1>2, <1>5, <1>6, TurnOpen
    <2> QED BY <1>4, <2>1 DEF AfterJump, AfterAnchor
  <1>9. iy[n + 1] = h
    <2>1. n + 1 \in 1 .. IndexCap /\ ~(n + 1 \in (n + 1) + 1 .. (n + 1) + Len(<<e>>))
      BY IndexAssumption
    <2>2. iy = [i \in 1 .. IndexCap |-> IF i \in (n + 1) + 1 .. (n + 1) + Len(<<e>>)
                                        THEN <<e>>[i - (n + 1)] ELSE ix[i]]
      BY Zenon DEF WriteAt
    <2> QED BY <2>1, <2>2
  <1>10. At(iy, n) = At(ix, n)
    BY <1>7
  <1> QED BY <1>7, <1>8, <1>9, <1>10 DEF Whole, e

\* Two entries are written one after the other.
LEMMA WriteTwo ==
    ASSUME NEW ix \in Indexes, NEW n \in Nat, NEW a, NEW b
    PROVE  WriteAt(ix, n, <<a, b>>) = WriteAt(WriteAt(ix, n, <<a>>), n + 1, <<b>>)
  <1> DEFINE iy == WriteAt(ix, n, <<a>>)
             iz == WriteAt(iy, n + 1, <<b>>)
             iw == WriteAt(ix, n, <<a, b>>)
  <1>1. iy = [i \in 1 .. IndexCap |-> IF i \in n + 1 .. n + Len(<<a>>) THEN <<a>>[i - n] ELSE ix[i]]
    BY Zenon DEF WriteAt
  <1>2. iz = [i \in 1 .. IndexCap |-> IF i \in (n + 1) + 1 .. (n + 1) + Len(<<b>>)
                                      THEN <<b>>[i - (n + 1)] ELSE iy[i]]
    BY Zenon DEF WriteAt
  <1>3. iw = [i \in 1 .. IndexCap |-> IF i \in n + 1 .. n + Len(<<a, b>>) THEN <<a, b>>[i - n] ELSE ix[i]]
    BY Zenon DEF WriteAt
  <1> HIDE DEF iy, iz, iw
  <1>4. Len(<<a>>) = 1 /\ Len(<<b>>) = 1 /\ Len(<<a, b>>) = 2 /\ IndexCap \in Nat
    BY IndexAssumption
  <1>5. ASSUME NEW i \in 1 .. IndexCap PROVE iw[i] = iz[i]
    <2>1. CASE i = n + 1
      <3>1. iw[i] = a
        BY <1>3, <1>4, <2>1
      <3>2. iz[i] = iy[i]
        BY <1>2, <1>4, <2>1
      <3>3. iy[i] = a
        BY <1>1, <1>4, <2>1
      <3> QED BY <3>1, <3>2, <3>3
    <2>2. CASE i = n + 2
      <3>1. iw[i] = b
        BY <1>3, <1>4, <2>2
      <3>2. iz[i] = b
        BY <1>2, <1>4, <2>2
      <3> QED BY <3>1, <3>2
    <2>3. CASE i # n + 1 /\ i # n + 2
      <3>1. iw[i] = ix[i]
        BY <1>3, <1>4, <2>3
      <3>2. iz[i] = iy[i]
        BY <1>2, <1>4, <2>3
      <3>3. iy[i] = ix[i]
        BY <1>1, <1>4, <2>3
      <3> QED BY <3>1, <3>2, <3>3
    <2> QED BY <2>1, <2>2, <2>3
  <1>6. /\ iw = [i \in 1 .. IndexCap |-> iw[i]]
        /\ iz = [i \in 1 .. IndexCap |-> iz[i]]
    BY <1>2, <1>3
  <1>7. iw = iz
    BY <1>5, <1>6
  <1> QED BY <1>7 DEF iz, iw, iy

-----------------------------------------------------------------------------
(* The entries of a Put.                                                   *)

\* They are appended.
LEMMA AppendPut ==
    ASSUME NEW p \in Puts, NEW ix, Sound(ix), NEW n \in Nat, n + Len(PutEntries(p)) <= IndexCap,
           n <= End(ix), End(ix) <= n + 1, ~Mid(At(ix, n)),
           AddrOK(Disk, Header[p].fid, Header[p].size),
           \A f \in Names(Header[p]) : At(ix, n).refs[f] = NoRef
    PROVE  /\ Whole(WriteAt(ix, n, PutEntries(p)))
           /\ End(WriteAt(ix, n, PutEntries(p))) = n + Len(PutEntries(p))
           /\ At(WriteAt(ix, n, PutEntries(p)), n) = At(ix, n)
           /\ \A i \in 1 .. Len(PutEntries(p)) : WriteAt(ix, n, PutEntries(p))[n + i] = PutEntries(p)[i]
  <1> DEFINE f == Header[p].fid
             s == Header[p].size
             a == Header[p].alias
             e == Plain(f, s)
             h == Jump(a)
  <1>0. /\ f \in Fids /\ s \in Nat /\ IndexCap \in Nat /\ ix \in Indexes
        /\ a # NoAlias => a \in Fids /\ a # f /\ s >= 2
    BY HeaderFacts, IndexAssumption DEF Sound
  <1>1. /\ At(ix, n).refs[f] = NoRef /\ (a # NoAlias => At(ix, n).refs[a] = NoRef)
    BY DEF Names
  <1>2. AddrOK(Disk, f, s)
    OBVIOUS
  <1>3. CASE a = NoAlias
    <2>1. PutEntries(p) = <<e>>
      BY <1>3 DEF PutEntries
    <2> HIDE DEF f, s, a, e
    <2>2. Len(<<e>>) = 1 /\ <<e>>[1] = e /\ n < IndexCap
      BY <1>0, <2>1
    <2>3. /\ Whole(WriteAt(ix, n, <<e>>)) /\ End(WriteAt(ix, n, <<e>>)) = n + 1
          /\ At(WriteAt(ix, n, <<e>>), n) = At(ix, n)
          /\ WriteAt(ix, n, <<e>>)[n + 1] = e
      BY <1>0, <1>1, <1>2, <2>2, AppendPlain DEF e
    <2>4. \A i \in 1 .. 1 : i = 1
      OBVIOUS
    <2> QED BY <2>1, <2>2, <2>3, <2>4
  <1>4. CASE a # NoAlias
    <2>1. PutEntries(p) = <<h, e>>
      BY <1>4 DEF PutEntries
    <2> HIDE DEF f, s, a
    <2>2. Len(<<h, e>>) = 2 /\ <<h, e>>[1] = h /\ <<h, e>>[2] = e /\ n < IndexCap /\ n + 1 < IndexCap
      BY <1>0, <2>1
    <2> DEFINE iy == WriteAt(ix, n, <<h>>)
    <2>3. /\ Sound(iy) /\ End(iy) = n + 1 /\ At(iy, n) = At(ix, n) /\ iy[n + 1] = h
      <3>1. h # Anchor(a)
        BY DEF Jump, Anchor, Entry
      <3> QED BY <1>0, <1>1, <1>4, <2>2, <3>1, AppendHead
    <2>4. h.kind = "jump" /\ h.fid = a /\ IsHead(h)
      BY DEF Jump, Entry, IsHead
    <2>5. WriteAt(ix, n, <<h, e>>) = WriteAt(iy, n + 1, <<e>>)
      BY <1>0, WriteTwo
    <2> HIDE DEF iy, h, e
    <2>6. /\ Whole(WriteAt(iy, n + 1, <<e>>)) /\ End(WriteAt(iy, n + 1, <<e>>)) = n + 2
          /\ At(WriteAt(iy, n + 1, <<e>>), n) = At(iy, n)
          /\ WriteAt(iy, n + 1, <<e>>)[n + 1] = h /\ WriteAt(iy, n + 1, <<e>>)[n + 2] = e
      BY <1>0, <1>1, <1>2, <1>4, <2>2, <2>3, <2>4, AppendSecond DEF e
    <2>7. \A i \in 1 .. 2 : i = 1 \/ i = 2
      OBVIOUS
    <2> QED BY <2>1, <2>2, <2>3, <2>5, <2>6, <2>7
  <1> QED BY <1>3, <1>4

\* The names in use behind them.
LEMMA PutBehind ==
    ASSUME NEW p \in Puts, NEW ix, Sound(ix), NEW n \in Nat, End(ix) = n + Len(PutEntries(p)),
           ~Mid(At(ix, n)), \A i \in 1 .. Len(PutEntries(p)) : ix[n + i] = PutEntries(p)[i],
           NEW f \in Fids, At(ix, End(ix)).refs[f] # NoRef
    PROVE  At(ix, n).refs[f] # NoRef \/ f \in Names(Header[p])
  <1> DEFINE e == Plain(Header[p].fid, Header[p].size)
             h == Jump(Header[p].alias)
  <1>1. CASE Header[p].alias = NoAlias
    <2>1. PutEntries(p) = <<e>>
      BY <1>1 DEF PutEntries
    <2>2. End(ix) = n + 1 /\ ix[n + 1] = e
      BY <2>1
    <2>3. e.kind = "plain" /\ e.fid = Header[p].fid
      BY DEF Plain, Entry
    <2> HIDE DEF e
    <2>4. AfterPlain(Disk, At(ix, n), e, At(ix, End(ix)))
      BY <2>2, <2>3, Behind
    <2>5. f # e.fid => At(ix, End(ix)).refs[f] = At(ix, n).refs[f]
      BY <2>4 DEF AfterPlain
    <2> QED BY <2>3, <2>5 DEF Names
  <1>2. CASE Header[p].alias # NoAlias
    <2>1. PutEntries(p) = <<h, e>>
      BY <1>2 DEF PutEntries
    <2>2. End(ix) = n + 2 /\ ix[n + 1] = h /\ ix[n + 2] = e /\ n + 1 < End(ix)
      BY <2>1
    <2>3. e.kind = "plain" /\ e.fid = Header[p].fid /\ h.kind = "jump" /\ h.fid = Header[p].alias /\ IsHead(h)
      BY DEF Plain, Jump, Entry, IsHead
    <2> HIDE DEF e, h
    <2>4. AfterJump(Disk, At(ix, n), h, e, At(ix, End(ix)))
      BY <2>2, <2>3, PairBehind
    <2>5. f # e.fid /\ f # h.fid => At(ix, End(ix)).refs[f] = At(ix, n).refs[f]
      BY <2>4 DEF AfterJump
    <2> QED BY <1>2, <2>3, <2>5 DEF Names
  <1> QED BY <1>1, <1>2

-----------------------------------------------------------------------------
(* Steps that leave the index alone.                                       *)

\* They keep what LogInv says, whatever they do to the grid, to the tables of
\* extents and to Puts that are not syncing.
LEMMA QuietLog ==
    ASSUME LogInv, UNCHANGED <<idx, media, confirmed, indexEnd, indexErr, tpc, job, up>>,
           \A p \in Puts : pc'[p] = "sync" <=> pc[p] = "sync"
    PROVE  LogInv'
  <1>1. TailInv => TailInv'
    BY DEF TailInv
  <1>2. RetireInv => RetireInv'
    BY DEF RetireInv
  <1>3. RamInv'
    BY <1>1, <1>2 DEF LogInv, RamInv
  <1>4. MuFree => MuFree'
    BY DEF MuFree
  <1> QED BY <1>3, <1>4 DEF LogInv

\* A Put prepares, streams or gives up; a Get; nothing.
LEMMA QuietSteps ==
    ASSUME TypeInv, LogInv,
           \/ \E p \in Puts : PutPrepare(p) \/ PutStream(p) \/ PutAbort(p)
           \/ (\E f \in ReadNames : GetLookup(f)) \/ GetRead
           \/ UNCHANGED vars
    PROVE  LogInv'
  <1>0. pc \in [Puts -> PutPCs]
    BY DEF TypeInv, PutInv
  <1>1. CASE \E p \in Puts : PutPrepare(p) \/ PutStream(p) \/ PutAbort(p)
    <2>1. PICK p \in Puts : PutPrepare(p) \/ PutStream(p) \/ PutAbort(p)
      BY <1>1
    <2>2. UNCHANGED <<idx, media, confirmed, indexEnd, indexErr, tpc, job, up>>
      BY <2>1 DEF PutPrepare, PutStream, PutAbort, idxVars, memVars
    <2>3. \A q \in Puts : pc'[q] = "sync" <=> pc[q] = "sync"
      BY <1>0, <2>1 DEF PutPrepare, PutStream, PutAbort, Goto
    <2> QED BY <2>2, <2>3, QuietLog
  <1>2. CASE (\E f \in ReadNames : GetLookup(f)) \/ GetRead \/ UNCHANGED vars
    <2>1. UNCHANGED <<idx, media, confirmed, indexEnd, indexErr, tpc, job, up, pc>>
      BY <1>2 DEF GetLookup, GetRead, vars, idxVars, memVars
    <2> QED BY <2>1, QuietLog
  <1> QED BY <1>1, <1>2

-----------------------------------------------------------------------------
(* The steps of a Put that write the index.                                *)

\* What TypeInv and LogInv say while Puts may commit.
LEMMA QuietTail ==
    ASSUME TypeInv, LogInv, up, ~indexErr, tpc \in {"idle", "container"}, \A p \in Puts : pc[p] # "sync"
    PROVE  /\ Whole(idx) /\ Sound(idx) /\ indexEnd \in Nat /\ indexEnd <= End(idx)
           /\ End(idx) <= indexEnd + 1
           /\ ~Mid(At(idx, indexEnd))
           /\ \A f \in Fids : At(idx, indexEnd).refs[f] # NoRef => confirmed[f] # NoRef
           /\ \/ End(idx) = indexEnd
              \/ /\ End(idx) = indexEnd + 1 /\ idx[indexEnd + 1].kind = "plain"
                 /\ confirmed[idx[indexEnd + 1].fid] = NoRef
  <1>1. indexEnd \in Nat
    BY IndexAssumption DEF TypeInv, MemTypes
  <1>2. RamInv /\ Whole(idx) /\ Sound(idx)
    BY DEF LogInv
  <1>3. /\ indexEnd <= End(idx) /\ ~Mid(At(idx, indexEnd)) /\ TailInv
        /\ \A f \in Fids : At(idx, indexEnd).refs[f] # NoRef => confirmed[f] # NoRef
    BY <1>2 DEF RamInv
  <1>4. \/ End(idx) = indexEnd
        \/ /\ End(idx) = indexEnd + 1 /\ idx[indexEnd + 1].kind = "plain"
           /\ confirmed[idx[indexEnd + 1].fid] = NoRef
    BY <1>3 DEF TailInv
  <1>5. End(idx) <= indexEnd + 1
    BY <1>1, <1>4
  <1> QED BY <1>1, <1>2, <1>3, <1>4, <1>5

\* The entries are written.
LEMMA PutCommitLog ==
    ASSUME WholeWrites, TypeInv, LogInv, NEW p \in Puts, PutCommit(p)
    PROVE  LogInv'
  <1> DEFINE n == indexEnd
             ix == WriteAt(idx, n, PutEntries(p))
  <1>p. /\ up /\ pc[p] = "commit" /\ MuFree /\ ~indexErr /\ Unregistered(p)
        /\ n + Len(PutEntries(p)) <= IndexCap /\ SyncThenWrite(ix)
        /\ pc' = [pc EXCEPT ![p] = "sync"]
        /\ UNCHANGED <<confirmed, indexEnd, indexErr, tpc, job, up>>
    BY DEF PutCommit, Goto, memVars
  <1>0. tpc = "idle" /\ \A q \in Puts : pc[q] # "sync"
    BY <1>p DEF MuFree
  <1>1. /\ Whole(idx) /\ Sound(idx) /\ n \in Nat /\ n <= End(idx) /\ End(idx) <= n + 1 /\ ~Mid(At(idx, n))
        /\ \A f \in Fids : At(idx, n).refs[f] # NoRef => confirmed[f] # NoRef
    BY <1>p, <1>0, QuietTail
  <1>2. \A f \in Names(Header[p]) : At(idx, n).refs[f] = NoRef
    <2>1. Names(Header[p]) \subseteq Fids
      BY HeaderFacts, TrimAssumption
    <2> QED BY <1>p, <1>1, <2>1 DEF Unregistered
  <1>3. AddrOK(Disk, Header[p].fid, Header[p].size) /\ IndexTypes /\ pc \in [Puts -> PutPCs]
    BY <1>p DEF TypeInv, PutInv
  <1> HIDE DEF n
  <1>4. /\ Whole(ix) /\ End(ix) = n + Len(PutEntries(p)) /\ At(ix, n) = At(idx, n)
        /\ \A i \in 1 .. Len(PutEntries(p)) : ix[n + i] = PutEntries(p)[i]
    BY <1>p, <1>1, <1>2, <1>3, AppendPut
  <1> HIDE DEF ix
  <1>5. idx' = ix /\ media'[0] = {idx, ix}
    <2>1. ix \in Indexes
      BY <1>4 DEF Whole, Sound
    <2> QED BY <1>p, <1>3, <2>1, WriteFacts
  <1>6. \A q \in Puts : pc'[q] = "sync" => q = p
    BY <1>p, <1>0, <1>3
  <1>7. TailInv'
    <2>1. tpc' = "idle" /\ pc'[p] = "sync" /\ indexEnd' = n
      BY <1>p, <1>0, <1>3 DEF n
    <2>2. \A q \in Puts : pc'[q] = "sync" =>
             /\ End(ix) = n + Len(PutEntries(q))
             /\ \A i \in 1 .. Len(PutEntries(q)) : ix[n + i] = PutEntries(q)[i]
      BY <1>4, <1>6
    <2> QED BY <1>5, <2>1, <2>2 DEF TailInv
  <1>8. RamInv'
    <2>1. RetireInv'
      BY <1>p, <1>0 DEF RetireInv
    <2>2. n <= End(ix)
      BY <1>1, <1>4, PutEntriesTyped
    <2>3. indexEnd' = n
      BY <1>p DEF n
    <2> QED BY <1>p, <1>1, <1>4, <1>5, <1>7, <2>1, <2>2, <2>3 DEF RamInv
  <1> QED BY <1>p, <1>0, <1>1, <1>4, <1>5, <1>8 DEF LogInv, Whole

\* What the two invariants say while a Put is syncing.
LEMMA SyncTail ==
    ASSUME TypeInv, LogInv, NEW p \in Puts, pc[p] = "sync", up
    PROVE  /\ Whole(idx) /\ Sound(idx) /\ indexEnd \in Nat /\ tpc = "idle" /\ ~indexErr
           /\ \A q \in Puts : pc[q] = "sync" => q = p
           /\ indexEnd <= End(idx)
           /\ End(idx) = indexEnd + Len(PutEntries(p)) /\ ~Mid(At(idx, indexEnd))
           /\ \A f \in Fids : At(idx, indexEnd).refs[f] # NoRef => confirmed[f] # NoRef
           /\ \A i \in 1 .. Len(PutEntries(p)) : idx[indexEnd + i] = PutEntries(p)[i]
  <1>1. indexEnd \in Nat /\ tpc = "idle" /\ \A q \in Puts : pc[q] = "sync" => q = p
    BY IndexAssumption DEF TypeInv, MemTypes, PutInv
  <1>2. RamInv /\ Whole(idx) /\ Sound(idx) /\ ~indexErr
    BY <1>1 DEF LogInv, MuFree
  <1>3. /\ indexEnd <= End(idx) /\ ~Mid(At(idx, indexEnd)) /\ TailInv
        /\ \A f \in Fids : At(idx, indexEnd).refs[f] # NoRef => confirmed[f] # NoRef
    BY <1>1, <1>2 DEF RamInv
  <1>4. /\ End(idx) = indexEnd + Len(PutEntries(p))
        /\ \A i \in 1 .. Len(PutEntries(p)) : idx[indexEnd + i] = PutEntries(p)[i]
    BY <1>3 DEF TailInv
  <1> QED BY <1>1, <1>2, <1>3, <1>4

\* The entries are synced and published.
LEMMA PutPublishLog ==
    ASSUME WholeWrites, TypeInv, LogInv, NEW p \in Puts, PutPublish(p)
    PROVE  LogInv'
  <1> DEFINE n == indexEnd
             h == Header[p]
  <1>p. /\ up /\ pc[p] = "sync" /\ Sync
        /\ confirmed' = [f \in Fids |-> IF f = h.fid THEN Own(h.fid, h.size)
                                        ELSE IF f \in Names(h) THEN AliasOf(h.fid, h.size)
                                        ELSE confirmed[f]]
        /\ indexEnd' = indexEnd + Len(PutEntries(p))
        /\ pc' = [pc EXCEPT ![p] = "acked"]
        /\ UNCHANGED <<indexErr, tpc, job, up>>
    BY Zenon DEF PutPublish, Goto
  <1>1. /\ Whole(idx) /\ Sound(idx) /\ n \in Nat /\ tpc = "idle" /\ ~indexErr
        /\ \A q \in Puts : pc[q] = "sync" => q = p
        /\ End(idx) = n + Len(PutEntries(p)) /\ ~Mid(At(idx, n))
        /\ \A f \in Fids : At(idx, n).refs[f] # NoRef => confirmed[f] # NoRef
        /\ \A i \in 1 .. Len(PutEntries(p)) : idx[n + i] = PutEntries(p)[i]
    BY <1>p, SyncTail
  <1>2. idx' = idx /\ media'[0] = {idx} /\ pc \in [Puts -> PutPCs]
    BY <1>p, <1>1, WriteFacts DEF TypeInv, IndexTypes, PutInv
  <1>3. \A q \in Puts : pc'[q] # "sync"
    BY <1>p, <1>1, <1>2
  <1>4. RamInv'
    <2>1. indexEnd' = End(idx) /\ End(idx) \in Nat
      BY <1>p, <1>1, EndFacts, IndexAssumption DEF EndsAt
    <2>2. ASSUME NEW f \in Fids, At(idx, End(idx)).refs[f] # NoRef PROVE confirmed'[f] # NoRef
      <3>1. At(idx, n).refs[f] # NoRef \/ f \in Names(h)
        BY <1>1, <2>2, PutBehind
      <3>2. h.fid \in Nat /\ h.fid # 0 /\ h.size \in Nat
        BY HeaderFacts
      <3>3. Own(h.fid, h.size) # NoRef /\ AliasOf(h.fid, h.size) # NoRef
        BY <3>2, RefTypes
      <3>4. f \notin Names(h) => confirmed[f] # NoRef
        BY <1>1, <3>1
      <3> HIDE DEF h
      <3> QED BY <1>p, <3>3, <3>4
    <2>3. TailInv'
      BY <1>p, <1>1, <1>2, <1>3, <2>1 DEF TailInv
    <2>4. RetireInv'
      BY <1>p, <1>1 DEF RetireInv
    <2>5. ~Mid(At(idx, End(idx))) /\ End(idx) <= End(idx)
      BY <1>1, <2>1 DEF Whole
    <2> QED BY <1>2, <2>1, <2>2, <2>3, <2>4, <2>5 DEF RamInv
  <1> QED BY <1>p, <1>1, <1>2, <1>4 DEF LogInv, Whole

\* The entries are taken back.
LEMMA PutRollbackLog ==
    ASSUME WholeWrites, TypeInv, LogInv, NEW p \in Puts, PutRollback(p)
    PROVE  LogInv'
  <1> DEFINE n == indexEnd
             zs == [i \in DOMAIN PutEntries(p) |-> ZeroEntry]
             ix == WriteAt(idx, n, zs)
  <1>p. /\ up /\ pc[p] = "sync" /\ idx' = ix
        /\ media' = [j \in Sectors |-> {Sector(ix, j)}]
        /\ pc' = [pc EXCEPT ![p] = "abort"]
        /\ UNCHANGED <<confirmed, indexEnd, indexErr, tpc, job, up>>
    BY DEF PutRollback, Goto, memVars
  <1>1. /\ Whole(idx) /\ Sound(idx) /\ n \in Nat /\ tpc = "idle" /\ ~indexErr /\ n <= End(idx)
        /\ \A q \in Puts : pc[q] = "sync" => q = p
        /\ End(idx) = n + Len(PutEntries(p)) /\ ~Mid(At(idx, n))
        /\ \A f \in Fids : At(idx, n).refs[f] # NoRef => confirmed[f] # NoRef
    BY <1>p, SyncTail
  <1>2. zs \in Seq({ZeroEntry}) /\ Len(zs) = Len(PutEntries(p))
    <2>1. PutEntries(p) \in Seq(Entries)
      BY PutEntriesTyped
    <2>2. DOMAIN PutEntries(p) = 1 .. Len(PutEntries(p)) /\ Len(PutEntries(p)) \in Nat
      BY <2>1
    <2> HIDE DEF zs
    <2>3. zs = [i \in 1 .. Len(PutEntries(p)) |-> ZeroEntry]
      BY <2>2 DEF zs
    <2> QED BY <2>2, <2>3
  <1> HIDE DEF n, zs
  <1>3. Sound(ix) /\ End(ix) = n /\ \A i \in 0 .. n : At(ix, i) = At(idx, i)
    BY <1>1, <1>2, Truncate
  <1> HIDE DEF ix
  <1>4. At(ix, n) = At(idx, n) /\ Whole(ix) /\ ix \in Indexes
    <2>1. At(ix, n) = At(idx, n)
      BY <1>1, <1>3
    <2> QED BY <1>1, <1>3, <2>1 DEF Whole, Sound
  <1>5. media'[0] = {ix}
    BY <1>p, <1>4, OneSector
  <1>6. \A q \in Puts : pc'[q] # "sync"
    <2>1. pc \in [Puts -> PutPCs]
      BY DEF TypeInv, PutInv
    <2> QED BY <1>p, <1>1, <2>1
  <1>7. RamInv'
    <2>1. indexEnd' = n /\ n <= n
      BY <1>p, <1>1 DEF n
    <2>2. TailInv'
      BY <1>p, <1>1, <1>3, <1>6, <2>1 DEF TailInv
    <2>3. RetireInv'
      BY <1>p, <1>1 DEF RetireInv
    <2> QED BY <1>p, <1>1, <1>3, <1>4, <2>1, <2>2, <2>3 DEF RamInv
  <1> QED BY <1>p, <1>1, <1>3, <1>4, <1>5, <1>7 DEF LogInv

-----------------------------------------------------------------------------
(* The steps of Trim that write objects.                                   *)

\* Live records stay live when the end is moved to the front of them.
LEMMA LiveBefore ==
    ASSUME NEW ix, NEW n \in Nat, NEW j \in Live(Disk, ix, n + 1), j # n + 1
    PROVE  j \in Live(Disk, ix, n)
  <1>1. /\ j \in 1 .. n + 1 /\ Begins(Disk, ix, j) /\ ix[j].kind # "tomb"
        /\ \A k \in 1 .. n + 1 : Begins(Disk, ix, k) /\ ix[k].fid = ix[j].fid => k <= j
    BY DEF Live
  <1>2. j \in 1 .. n /\ \A k \in 1 .. n : k \in 1 .. n + 1
    BY <1>1
  <1> QED BY <1>1, <1>2 DEF Live

\* What Trim takes for candidates may be retired.
LEMMA CandidatesRetirable ==
    ASSUME TypeInv, LogInv, up, ~indexErr, MuFree, NEW i \in Small, confirmed[idx[i].fid] # NoRef
    PROVE  Retirable(At(idx, indexEnd), idx[i].fid)
  <1> DEFINE n == indexEnd
  <1>0. tpc = "idle" /\ \A p \in Puts : pc[p] # "sync"
    BY DEF MuFree
  <1>1. /\ Whole(idx) /\ Sound(idx) /\ n \in Nat /\ n <= End(idx) /\ End(idx) <= n + 1 /\ ~Mid(At(idx, n))
        /\ \/ End(idx) = n
           \/ End(idx) = n + 1 /\ confirmed[idx[n + 1].fid] = NoRef
    BY <1>0, QuietTail
  <1>2. i \in LatestHeads(idx) /\ idx[i].kind = "plain"
    BY DEF Small, Heads
  <1> HIDE DEF n
  <1>3. LatestHeads(idx) = Live(Disk, idx, End(idx))
    BY <1>1, HeadsAreLive, TrimAssumption DEF Whole, Sound, At
  <1>4. i \in Live(Disk, idx, End(idx))
    BY <1>2, <1>3
  <1>5. i \in Live(Disk, idx, n)
    <2>1. CASE End(idx) = n
      BY <1>4, <2>1
    <2>2. CASE End(idx) = n + 1 /\ confirmed[idx[n + 1].fid] = NoRef
      <3>1. i # n + 1
        BY <2>2
      <3>2. i \in Live(Disk, idx, n + 1)
        BY <1>4, <2>2
      <3> QED BY <1>1, <3>1, <3>2, LiveBefore
    <2> QED BY <1>1, <2>1, <2>2
  <1> QED BY <1>1, <1>2, <1>5, LiveRetirable DEF n

\* Candidates are listed.
LEMMA TrimStartLog ==
    ASSUME TypeInv, LogInv, TrimStart
    PROVE  LogInv'
  <1>p. /\ up /\ MuFree /\ ~indexErr /\ tpc' = "container"
        /\ UNCHANGED <<idx, media, confirmed, indexEnd, indexErr, pc, up>>
    BY DEF TrimStart, memVars, idxVars
  <1>q. PICK n \in 1 .. Cardinality(Small) :
            /\ \A k \in 1 .. n : confirmed[[l \in 1 .. n |-> idx[Nth(Small, l)].fid][k]] # NoRef
            /\ job' = [NoJob EXCEPT !.cand = [k \in 1 .. n |-> idx[Nth(Small, k)].fid]]
    BY Zenon DEF TrimStart
  <1> DEFINE c == [k \in 1 .. n |-> idx[Nth(Small, k)].fid]
             S == Small
  <1>0. tpc = "idle" /\ \A p \in Puts : pc[p] # "sync"
    BY <1>p DEF MuFree
  <1>1. job'.cand = c /\ job'.tombs = 0
    <2>1. job' = [NoJob EXCEPT !.cand = c]
      BY <1>q, Zenon
    <2> HIDE DEF c
    <2> QED BY <2>1 DEF NoJob
  <1>2. ASSUME NEW k \in 1 .. n PROVE Nth(S, k) \in S
    <2>1. End(idx) \in Nat /\ Below(S, End(idx))
      BY EndFacts, IndexAssumption DEF EndsAt, Below, Small, Heads, LatestHeads
    <2>2. n \in 1 .. Cardinality(S)
      BY <1>q
    <2> HIDE DEF S
    <2>3. Cardinality(S) \in Nat
      BY <2>1, RankStep
    <2>4. k \in 1 .. Cardinality(S)
      BY <2>2, <2>3
    <2> QED BY <2>1, <2>4, NthFacts
  <1>3. ASSUME NEW k \in 1 .. n PROVE confirmed[c[k]] # NoRef /\ Retirable(At(idx, indexEnd), c[k])
    <2>1. c[k] = idx[Nth(S, k)].fid /\ confirmed[c[k]] # NoRef
      BY <1>q
    <2> HIDE DEF c, S
    <2>2. Nth(S, k) \in Small
      BY <1>2 DEF S
    <2> QED BY <1>p, <2>1, <2>2, CandidatesRetirable
  <1>4. DOMAIN c = 1 .. n
    OBVIOUS
  <1> HIDE DEF c
  <1>5. RetireInv'
    BY <1>p, <1>1, <1>3, <1>4 DEF RetireInv
  <1>6. TailInv'
    <2>1. \/ End(idx) = indexEnd
          \/ /\ End(idx) = indexEnd + 1 /\ idx[indexEnd + 1].kind = "plain"
             /\ confirmed[idx[indexEnd + 1].fid] = NoRef
      BY <1>p, <1>0, QuietTail
    <2> QED BY <1>p, <1>0, <2>1 DEF TailInv
  <1>7. RamInv'
    BY <1>p, <1>0, <1>5, <1>6 DEF LogInv, RamInv
  <1> QED BY <1>p, <1>0, <1>7 DEF LogInv

\* What the invariants say while Trim runs.
LEMMA TrimTail ==
    ASSUME TypeInv, LogInv, tpc \notin {"idle", "copy"}
    PROVE  /\ Sound(idx) /\ (tpc # "anchorSecond" => Whole(idx))
           /\ indexEnd \in Nat /\ indexEnd <= End(idx) /\ ~Mid(At(idx, indexEnd))
           /\ ~indexErr /\ up /\ TailInv /\ RetireInv /\ IndexTypes
           /\ \A f \in Fids : At(idx, indexEnd).refs[f] # NoRef => confirmed[f] # NoRef
           /\ \A p \in Puts : pc[p] # "sync"
           /\ job \in Jobs /\ job.cand \in Seq(Fids)
           /\ \A k \in DOMAIN job.cand : job.cand[k] \in Fids
  <1>1. indexEnd \in Nat /\ IndexTypes
    BY IndexAssumption DEF TypeInv, MemTypes
  <1>2. up /\ job \in Jobs /\ \A p \in Puts : pc[p] # "sync"
    BY DEF TypeInv, JobInv, PutInv
  <1>3. job.cand \in Seq(Fids)
    BY <1>2 DEF Jobs
  <1>4. \A k \in DOMAIN job.cand : job.cand[k] \in Fids
    BY <1>3
  <1>5. Sound(idx) /\ (tpc # "anchorSecond" => Whole(idx)) /\ ~indexErr /\ RamInv
    BY <1>2 DEF LogInv, MuFree
  <1>6. /\ indexEnd <= End(idx) /\ ~Mid(At(idx, indexEnd)) /\ TailInv /\ RetireInv
        /\ \A f \in Fids : At(idx, indexEnd).refs[f] # NoRef => confirmed[f] # NoRef
    BY <1>2, <1>5 DEF RamInv
  <1> QED BY <1>1, <1>2, <1>3, <1>4, <1>5, <1>6

\* An object of Trim's own is written.
LEMMA StoreObjectLog ==
    ASSUME WholeWrites, TypeInv, LogInv, tpc \in {"container", "table"},
           NEW f \in Fids, NEW s \in Nat, NEW v, StoreObject(f, s, v)
    PROVE  /\ Whole(idx') /\ End(idx') = indexEnd + 1 /\ At(idx', indexEnd) = At(idx, indexEnd)
           /\ idx'[indexEnd + 1] = Plain(f, s) /\ confirmed[f] = NoRef
           /\ \A ix \in media'[0] : Whole(ix)
  <1> DEFINE n == indexEnd
             ix == WriteAt(idx, n, <<Plain(f, s)>>)
  <1>1. /\ confirmed[f] = NoRef /\ AddrOK(Disk, f, s) /\ n < IndexCap /\ SyncThenWrite(ix)
    BY DEF StoreObject, Usable
  <1>2. /\ Whole(idx) /\ Sound(idx) /\ n \in Nat /\ n <= End(idx) /\ ~Mid(At(idx, n)) /\ IndexTypes
        /\ ~indexErr /\ up /\ TailInv
        /\ \A g \in Fids : At(idx, n).refs[g] # NoRef => confirmed[g] # NoRef
        /\ \A p \in Puts : pc[p] # "sync"
    BY TrimTail
  <1>3. End(idx) <= n + 1
    <2>1. End(idx) = n \/ End(idx) = n + 1
      BY <1>2 DEF TailInv
    <2> QED BY <1>2, <2>1
  <1> HIDE DEF n
  <1>4. /\ Whole(ix) /\ End(ix) = n + 1 /\ At(ix, n) = At(idx, n) /\ ix[n + 1] = Plain(f, s)
    BY <1>1, <1>2, <1>3, AppendPlain
  <1>5. ix \in Indexes
    BY <1>4 DEF Whole, Sound
  <1> HIDE DEF ix
  <1>6. idx' = ix /\ media'[0] = {idx, ix}
    BY <1>1, <1>2, <1>5, WriteFacts
  <1> QED BY <1>1, <1>2, <1>4, <1>6 DEF n

\* The container is written.
LEMMA WriteContainerLog ==
    ASSUME WholeWrites, TypeInv, LogInv, WriteContainer
    PROVE  LogInv'
  <1>p. /\ up /\ tpc = "container" /\ tpc' = "containerSync"
        /\ UNCHANGED <<confirmed, indexEnd, indexErr, pc, up>>
    BY DEF WriteContainer, memVars
  <1>q. PICK f \in TrimFids, m \in 0 .. MaxNonce :
            /\ StoreObject(f, TotalSize(job.cand) + 8 * m, Container(Parts(job.cand)))
            /\ job' = [job EXCEPT !.container = f, !.containerSize = TotalSize(job.cand) + 8 * m]
    BY Zenon DEF WriteContainer
  <1> DEFINE s == TotalSize(job.cand) + 8 * m
  <1>0. /\ Sound(idx) /\ indexEnd \in Nat /\ ~Mid(At(idx, indexEnd)) /\ ~indexErr /\ RetireInv
        /\ \A g \in Fids : At(idx, indexEnd).refs[g] # NoRef => confirmed[g] # NoRef
        /\ \A p \in Puts : pc[p] # "sync"
        /\ job \in Jobs /\ job.cand \in Seq(Fids)
    BY <1>p, TrimTail
  <1>1. f \in Fids /\ s \in Nat
    <2>1. TotalSize(job.cand) \in Nat
      BY <1>p, <1>0, TotalTyped DEF TypeInv, MemTypes, JobInv
    <2> QED BY <2>1, TrimAssumption
  <1>2. StoreObject(f, s, Container(Parts(job.cand)))
    BY <1>q
  <1>3. /\ job'.container = f /\ job'.containerSize = s /\ job'.cand = job.cand /\ job'.tombs = job.tombs
    <2>1. job' = [job EXCEPT !.container = f, !.containerSize = s]
      BY <1>q
    <2> HIDE DEF s
    <2> QED BY <1>0, <2>1 DEF Jobs
  <1> HIDE DEF s
  <1>4. /\ Whole(idx') /\ End(idx') = indexEnd + 1 /\ At(idx', indexEnd) = At(idx, indexEnd)
        /\ idx'[indexEnd + 1] = Plain(f, s) /\ confirmed[f] = NoRef
        /\ \A ix \in media'[0] : Whole(ix)
    BY <1>p, <1>1, <1>2, StoreObjectLog
  <1>5. TailInv'
    BY <1>p, <1>0, <1>3, <1>4 DEF TailInv
  <1>6. RetireInv'
    BY <1>p, <1>0, <1>3, <1>4 DEF RetireInv
  <1>7. RamInv'
    <2>1. indexEnd <= End(idx')
      BY <1>0, <1>4
    <2> QED BY <1>p, <1>0, <1>4, <1>5, <1>6, <2>1 DEF RamInv
  <1> QED BY <1>p, <1>0, <1>4, <1>7 DEF LogInv, Whole

\* The table is written.
LEMMA WriteTableLog ==
    ASSUME WholeWrites, TypeInv, LogInv, WriteTable
    PROVE  LogInv'
  <1>p. /\ up /\ tpc = "table" /\ tpc' = "tableSync"
        /\ UNCHANGED <<confirmed, indexEnd, indexErr, pc, up>>
    BY DEF WriteTable, memVars
  <1> DEFINE s == TableBytes(Len(job.cand))
  <1>q. PICK f \in TrimFids :
            /\ StoreObject(f, s, TableValue)
            /\ job' = [job EXCEPT !.table = f, !.tableSize = s]
    BY Zenon DEF WriteTable
  <1>0. /\ Sound(idx) /\ indexEnd \in Nat /\ ~Mid(At(idx, indexEnd)) /\ ~indexErr /\ RetireInv
        /\ \A g \in Fids : At(idx, indexEnd).refs[g] # NoRef => confirmed[g] # NoRef
        /\ \A p \in Puts : pc[p] # "sync"
        /\ job \in Jobs /\ job.cand \in Seq(Fids)
    BY <1>p, TrimTail
  <1>1. f \in Fids /\ s \in Nat
    BY <1>p, TableValueTyped, TrimAssumption
  <1> HIDE DEF s
  <1>3. /\ job'.table = f /\ job'.tableSize = s /\ job'.cand = job.cand /\ job'.tombs = job.tombs
    BY <1>q, <1>0 DEF Jobs
  <1>4. /\ Whole(idx') /\ End(idx') = indexEnd + 1 /\ At(idx', indexEnd) = At(idx, indexEnd)
        /\ idx'[indexEnd + 1] = Plain(f, s) /\ confirmed[f] = NoRef
        /\ \A ix \in media'[0] : Whole(ix)
    BY <1>p, <1>q, <1>1, StoreObjectLog
  <1>5. TailInv'
    BY <1>p, <1>0, <1>3, <1>4 DEF TailInv
  <1>6. RetireInv'
    BY <1>p, <1>0, <1>3, <1>4 DEF RetireInv
  <1>7. RamInv'
    <2>1. indexEnd <= End(idx')
      BY <1>0, <1>4
    <2> QED BY <1>p, <1>0, <1>4, <1>5, <1>6, <2>1 DEF RamInv
  <1> QED BY <1>p, <1>0, <1>4, <1>7 DEF LogInv, Whole

-----------------------------------------------------------------------------
(* The steps of Trim behind a sync, and its anchor and tombstones.         *)

\* An object of Trim's own is published.
LEMMA PublishObjectLog ==
    ASSUME WholeWrites, TypeInv, LogInv, tpc \in {"containerSync", "tableSync"},
           NEW f \in Fids, NEW s \in Nat, idx[indexEnd + 1] = Plain(f, s), End(idx) = indexEnd + 1,
           confirmed[f] = NoRef, PublishObject(f, s)
    PROVE  /\ idx' = idx /\ media'[0] = {idx} /\ indexEnd' = End(idx) /\ Whole(idx) /\ ~Mid(At(idx, End(idx)))
           /\ \A g \in Fids : At(idx, End(idx)).refs[g] # NoRef => confirmed'[g] # NoRef
           /\ \A k \in DOMAIN job.cand :
                /\ job.cand[k] # f /\ confirmed'[job.cand[k]] # NoRef
                /\ job.tombs < k => Retirable(At(idx, End(idx)), job.cand[k])
           /\ Retirable(At(idx, End(idx)), f)
  <1> DEFINE n == indexEnd
             e == idx[n + 1]
             r == At(idx, n)
             q == At(idx, End(idx))
  <1>0. /\ Whole(idx) /\ Sound(idx) /\ n \in Nat /\ ~Mid(r) /\ RetireInv /\ IndexTypes
        /\ \A g \in Fids : r.refs[g] # NoRef => confirmed[g] # NoRef
        /\ \A k \in DOMAIN job.cand : job.cand[k] \in Fids
    BY TrimTail
  <1>1. Sync /\ confirmed' = [confirmed EXCEPT ![f] = Own(f, s)] /\ indexEnd' = n + 1
    BY DEF PublishObject
  <1>2. idx' = idx /\ media'[0] = {idx} /\ confirmed \in [Fids -> Refs]
    BY <1>0, <1>1, WriteFacts DEF TypeInv, IndexTypes, MemTypes
  <1>3. e.kind = "plain" /\ e.fid = f /\ e.size = s /\ f \in Nat /\ f # 0
    BY IndexAssumption DEF Plain, Entry
  <1>4. AfterPlain(Disk, r, e, q)
    <2>1. n < End(idx)
      BY <1>0
    <2> QED BY <1>0, <1>3, <2>1, Behind
  <1>5. r \in ReplayStates
    <2>1. n <= End(idx)
      BY <1>0
    <2> QED BY <1>0, <2>1, GoodAt
  <1>6. Own(f, s) # NoRef
    BY <1>3, RefTypes
  <1>7. ~Mid(q) /\ \A g \in Fids : g # f => q.refs[g] = r.refs[g]
    BY <1>3, <1>4 DEF AfterPlain
  <1>8. Retirable(q, f)
    <2>1. r.refs[f] = NoRef /\ n <= End(idx)
      BY <1>0
    <2>2. Retirable(r, f)
      BY <1>0, <2>1, FreshRetirable
    <2> HIDE DEF r, e, q
    <2> QED BY <1>3, <1>4, <2>2, PlainRetirable
  <1> HIDE DEF r, e, q
  <1>9. ASSUME NEW g \in Fids, q.refs[g] # NoRef PROVE confirmed'[g] # NoRef
    BY <1>0, <1>1, <1>2, <1>6, <1>7, <1>9
  <1>10. ASSUME NEW k \in DOMAIN job.cand
         PROVE  /\ job.cand[k] # f /\ confirmed'[job.cand[k]] # NoRef
                /\ job.tombs < k => Retirable(q, job.cand[k])
    <2> DEFINE c == job.cand[k]
    <2>1. c \in Fids /\ confirmed[c] # NoRef /\ (job.tombs < k => Retirable(r, c))
      BY <1>0 DEF RetireInv, r
    <2>2. c # f
      BY <2>1
    <2> HIDE DEF c
    <2>3. confirmed'[c] # NoRef
      BY <1>1, <1>2, <2>1, <2>2
    <2>4. Retirable(r, c) => Retirable(q, c)
      BY <1>3, <1>4, <1>5, <2>1, <2>2, RetirableAfter
    <2> QED BY <2>1, <2>2, <2>3, <2>4 DEF c
  <1> QED BY <1>0, <1>1, <1>2, <1>7, <1>8, <1>9, <1>10 DEF q

\* The container is synced.
LEMMA ContainerSyncedLog ==
    ASSUME WholeWrites, TypeInv, LogInv, ContainerSynced
    PROVE  LogInv'
  <1>p. /\ up /\ tpc = "containerSync" /\ PublishObject(job.container, job.containerSize)
        /\ tpc' = "table" /\ UNCHANGED <<indexErr, pc, job, up>>
    BY DEF ContainerSynced
  <1>0. ~indexErr /\ TailInv /\ \A p \in Puts : pc[p] # "sync"
    BY <1>p, TrimTail
  <1>1. /\ End(idx) = indexEnd + 1 /\ idx[indexEnd + 1] = Plain(job.container, job.containerSize)
        /\ confirmed[job.container] = NoRef
        /\ job.container \in Fids /\ job.containerSize \in Nat
    BY <1>p, <1>0 DEF TailInv, TypeInv, JobInv, Placed
  <1>2. /\ idx' = idx /\ media'[0] = {idx} /\ indexEnd' = End(idx) /\ Whole(idx) /\ ~Mid(At(idx, End(idx)))
        /\ \A g \in Fids : At(idx, End(idx)).refs[g] # NoRef => confirmed'[g] # NoRef
        /\ \A k \in DOMAIN job.cand :
             /\ confirmed'[job.cand[k]] # NoRef
             /\ job.tombs < k => Retirable(At(idx, End(idx)), job.cand[k])
    BY <1>p, <1>1, PublishObjectLog
  <1>3. TailInv'
    BY <1>p, <1>0, <1>2 DEF TailInv
  <1>4. RetireInv'
    BY <1>p, <1>2 DEF RetireInv
  <1>5. RamInv'
    <2>1. End(idx) <= End(idx)
      BY EndFacts, IndexAssumption DEF EndsAt
    <2> QED BY <1>p, <1>2, <1>3, <1>4, <2>1 DEF RamInv
  <1> QED BY <1>p, <1>0, <1>2, <1>5 DEF LogInv, Whole

\* The table is synced.
LEMMA TableSyncedLog ==
    ASSUME WholeWrites, TypeInv, LogInv, TableSynced
    PROVE  LogInv'
  <1>p. /\ up /\ tpc = "tableSync" /\ PublishObject(job.table, job.tableSize)
        /\ tpc' = "anchor" /\ UNCHANGED <<indexErr, pc, job, up>>
    BY DEF TableSynced
  <1>0. ~indexErr /\ TailInv /\ \A p \in Puts : pc[p] # "sync"
    BY <1>p, TrimTail
  <1>1. /\ End(idx) = indexEnd + 1 /\ idx[indexEnd + 1] = Plain(job.table, job.tableSize)
        /\ confirmed[job.table] = NoRef
        /\ job.table \in Fids /\ job.tableSize \in Nat
    BY <1>p, <1>0 DEF TailInv, TypeInv, JobInv, Placed
  <1>2. /\ idx' = idx /\ media'[0] = {idx} /\ indexEnd' = End(idx) /\ Whole(idx) /\ ~Mid(At(idx, End(idx)))
        /\ \A g \in Fids : At(idx, End(idx)).refs[g] # NoRef => confirmed'[g] # NoRef
        /\ \A k \in DOMAIN job.cand :
             /\ job.cand[k] # job.table /\ confirmed'[job.cand[k]] # NoRef
             /\ job.tombs < k => Retirable(At(idx, End(idx)), job.cand[k])
        /\ Retirable(At(idx, End(idx)), job.table)
    BY <1>p, <1>1, PublishObjectLog
  <1>3. TailInv'
    BY <1>p, <1>0, <1>2 DEF TailInv
  <1>4. RetireInv'
    BY <1>p, <1>2 DEF RetireInv
  <1>5. RamInv'
    <2>1. End(idx) <= End(idx)
      BY EndFacts, IndexAssumption DEF EndsAt
    <2> QED BY <1>p, <1>2, <1>3, <1>4, <2>1 DEF RamInv
  <1> QED BY <1>p, <1>0, <1>2, <1>5 DEF LogInv, Whole

\* The anchor is written.
LEMMA AnchorFirstLog ==
    ASSUME WholeWrites, TypeInv, LogInv, AnchorFirst
    PROVE  LogInv'
  <1> DEFINE n == indexEnd
             e == Anchor(job.table)
             ix == WriteAt(idx, n, <<e>>)
  <1>p. /\ up /\ tpc = "anchor" /\ n + 2 <= IndexCap /\ WriteIndex(ix)
        /\ tpc' = "anchorSecond" /\ UNCHANGED <<confirmed, indexEnd, indexErr, pc, job, up>>
    BY DEF AnchorFirst, memVars
  <1>0. /\ Sound(idx) /\ n \in Nat /\ n <= End(idx) /\ ~Mid(At(idx, n)) /\ IndexTypes
        /\ ~indexErr /\ TailInv /\ RetireInv
        /\ \A f \in Fids : At(idx, n).refs[f] # NoRef => confirmed[f] # NoRef
        /\ \A p \in Puts : pc[p] # "sync"
    BY <1>p, TrimTail
  <1>1. /\ End(idx) = n /\ job.table \in Fids /\ Retirable(At(idx, n), job.table)
        /\ n < IndexCap /\ End(idx) <= n + 1
    <2>1. End(idx) = n /\ job.table \in Fids /\ Retirable(At(idx, n), job.table)
      BY <1>p, <1>0 DEF TailInv, RetireInv, TypeInv, JobInv, Placed
    <2> QED BY <1>p, <1>0, <2>1, IndexAssumption
  <1> HIDE DEF n
  <1>2. /\ Sound(ix) /\ End(ix) = n + 1 /\ At(ix, n) = At(idx, n) /\ ix[n + 1] = e
        /\ Opened(At(idx, n), At(ix, n + 1), e)
    <2>1. e # Jump(job.table)
      BY DEF Anchor, Jump, Entry
    <2>2. e \in {Jump(job.table), Anchor(job.table)}
      OBVIOUS
    <2> HIDE DEF e
    <2> QED BY <1>0, <1>1, <2>1, <2>2, AppendHead
  <1>e. e.kind = "anchor"
    BY DEF Anchor, Entry
  <1> HIDE DEF ix, e
  <1>h. Half(ix)
    <2>1. Mid(At(ix, n + 1))
      BY <1>2, <1>e DEF Opened, Mid
    <2>2. End(ix) # 0 /\ End(ix) - 1 = n
      BY <1>0, <1>2
    <2> QED BY <1>0, <1>2, <1>e, <2>1, <2>2 DEF Half
  <1>3. indexEnd' = n /\ idx' = ix /\ media'[0] = media[0] \cup {ix}
    <2>1. ix \in Indexes
      BY <1>2 DEF Sound
    <2>2. idx' = ix /\ media'[0] = media[0] \cup {ix}
      BY <1>p, <1>0, <2>1, WriteFacts
    <2> QED BY <1>p, <2>2 DEF n
  <1>4. TailInv'
    BY <1>p, <1>0, <1>2, <1>3 DEF TailInv, e
  <1>5. RetireInv'
    BY <1>p, <1>0, <1>2, <1>3 DEF RetireInv, n
  <1>6. RamInv'
    <2>1. n <= End(ix)
      BY <1>0, <1>2
    <2> QED BY <1>p, <1>0, <1>2, <1>3, <1>4, <1>5, <2>1 DEF RamInv
  <1> QED BY <1>p, <1>0, <1>2, <1>3, <1>h, <1>6 DEF LogInv

\* The second entry of the anchor is written.
LEMMA AnchorSecondLog ==
    ASSUME WholeWrites, TypeInv, LogInv, AnchorSecond
    PROVE  LogInv'
  <1> DEFINE n == indexEnd
             e == Plain(job.table, job.tableSize)
             ix == WriteAt(idx, n + 1, <<e>>)
  <1>p. /\ up /\ tpc = "anchorSecond" /\ WriteIndex(ix)
        /\ tpc' = "anchorSync" /\ UNCHANGED <<confirmed, indexEnd, indexErr, pc, job, up>>
    BY DEF AnchorSecond, memVars
  <1>0. /\ Sound(idx) /\ n \in Nat /\ n <= End(idx) /\ ~Mid(At(idx, n)) /\ IndexTypes
        /\ ~indexErr /\ TailInv /\ RetireInv
        /\ \A f \in Fids : At(idx, n).refs[f] # NoRef => confirmed[f] # NoRef
        /\ \A p \in Puts : pc[p] # "sync"
    BY <1>p, TrimTail
  <1>1. /\ End(idx) = n + 1 /\ idx[n + 1] = Anchor(job.table) /\ n + 1 < IndexCap
        /\ job.table \in Fids /\ job.tableSize \in Nat /\ AddrOK(Disk, job.table, job.tableSize)
    <2>1. /\ End(idx) = n + 1 /\ idx[n + 1] = Anchor(job.table) /\ n + 2 <= IndexCap
          /\ job.table \in Fids /\ job.tableSize \in Nat /\ AddrOK(Disk, job.table, job.tableSize)
      BY <1>p, <1>0 DEF TailInv, TypeInv, JobInv, Placed
    <2> QED BY <1>0, <2>1, IndexAssumption
  <1> HIDE DEF n
  <1>2. idx[n + 1].kind = "anchor" /\ idx[n + 1].fid = job.table /\ IsHead(idx[n + 1])
    BY <1>1 DEF Anchor, Entry, IsHead
  <1>3. /\ Whole(ix) /\ End(ix) = n + 2 /\ At(ix, n) = At(idx, n) /\ ix[n + 1] = idx[n + 1]
        /\ ix[n + 2] = e
    BY <1>0, <1>1, <1>2, AppendSecond
  <1>4. ix \in Indexes
    BY <1>3 DEF Whole, Sound
  <1> HIDE DEF ix, e
  <1>5. idx' = ix /\ media'[0] = media[0] \cup {ix} /\ indexEnd' = n
    BY <1>p, <1>0, <1>4, WriteFacts DEF n
  <1>6. TailInv'
    BY <1>p, <1>0, <1>1, <1>3, <1>5 DEF TailInv, e
  <1>7. RetireInv'
    BY <1>p, <1>0, <1>3, <1>5 DEF RetireInv, n
  <1>8. RamInv'
    <2>1. n <= End(ix)
      BY <1>0, <1>3
    <2> QED BY <1>p, <1>0, <1>3, <1>5, <1>6, <1>7, <2>1 DEF RamInv
  <1>9. \A iy \in media'[0] : Whole(iy) \/ Half(iy)
    BY <1>3, <1>5 DEF LogInv
  <1> QED BY <1>p, <1>0, <1>3, <1>5, <1>8, <1>9 DEF LogInv, Whole

\* The anchor is synced.
LEMMA AnchorSyncedLog ==
    ASSUME WholeWrites, TypeInv, LogInv, AnchorSynced
    PROVE  LogInv'
  <1> DEFINE n == indexEnd
             h == idx[n + 1]
             e == idx[n + 2]
             r == At(idx, n)
             q == At(idx, End(idx))
  <1>p. /\ up /\ tpc = "anchorSync" /\ Sync /\ indexEnd' = n + 2 /\ tpc' = "load"
        /\ UNCHANGED <<confirmed, indexErr, pc, job, up>>
    BY DEF AnchorSynced
  <1>0. /\ Whole(idx) /\ Sound(idx) /\ n \in Nat /\ n <= End(idx) /\ ~Mid(r) /\ IndexTypes
        /\ ~indexErr /\ TailInv /\ RetireInv
        /\ \A f \in Fids : r.refs[f] # NoRef => confirmed[f] # NoRef
        /\ \A p \in Puts : pc[p] # "sync"
        /\ \A k \in DOMAIN job.cand : job.cand[k] \in Fids
    BY <1>p, TrimTail
  <1>1. /\ End(idx) = n + 2 /\ h = Anchor(job.table) /\ e = Plain(job.table, job.tableSize)
        /\ Placed(job.table, job.tableSize)
        /\ confirmed[job.table] = Own(job.table, job.tableSize)
    BY <1>p, <1>0 DEF TailInv, TypeInv, JobInv
  <1>2. /\ idx' = idx /\ media'[0] = {idx}
    BY <1>p, <1>0, WriteFacts DEF IndexTypes
  <1>3. /\ h.kind = "anchor" /\ IsHead(h) /\ e.fid = job.table /\ e.size = job.tableSize
        /\ job.table \in Fids /\ job.table \in Nat /\ job.table # 0 /\ job.tableSize \in Nat
    <2>1. job.table \in Fids /\ job.table \in Nat /\ job.table # 0 /\ job.tableSize \in Nat
      BY <1>1, IndexAssumption DEF Placed
    <2> HIDE DEF h, e
    <2>2. h.kind = "anchor" /\ e.fid = job.table /\ e.size = job.tableSize
      BY <1>1 DEF Anchor, Plain, Entry
    <2> QED BY <2>1, <2>2 DEF IsHead
  <1>4. AfterAnchor(Disk, r, h, e, q) /\ r \in ReplayStates
    <2>1. n + 1 < End(idx) /\ n <= End(idx)
      BY <1>0, <1>1
    <2> QED BY <1>0, <1>1, <1>3, <2>1, PairBehind, GoodAt
  <1>5. ~Mid(q) /\ \A f \in Fids : f # job.table => q.refs[f] = r.refs[f]
    BY <1>0, <1>3, <1>4 DEF AfterAnchor, Whole
  <1>6. confirmed[job.table] # NoRef
    BY <1>1, <1>3, RefTypes
  <1> HIDE DEF h, e, r, q
  <1>7. ASSUME NEW k \in DOMAIN job.cand, job.tombs < k PROVE Retirable(q, job.cand[k])
    <2>1. job.cand[k] \in Fids /\ Retirable(r, job.cand[k]) /\ job.cand[k] # job.table
      BY <1>p, <1>0, <1>7 DEF RetireInv, r
    <2> QED BY <1>3, <1>4, <2>1, RetirableAfter
  <1>8. \A f \in Fids : q.refs[f] # NoRef => confirmed[f] # NoRef
    BY <1>0, <1>5, <1>6
  <1>9. \A k \in DOMAIN job.cand : confirmed[job.cand[k]] # NoRef
    BY <1>p, <1>0 DEF RetireInv
  <1>10. TailInv'
    BY <1>p, <1>0, <1>1, <1>2 DEF TailInv
  <1>11. RetireInv'
    BY <1>p, <1>1, <1>2, <1>7, <1>9 DEF RetireInv, q
  <1>12. RamInv'
    <2>1. indexEnd' = End(idx) /\ End(idx) <= End(idx)
      BY <1>p, <1>0, <1>1
    <2> QED BY <1>p, <1>2, <1>5, <1>8, <1>10, <1>11, <2>1 DEF RamInv, q
  <1> QED BY <1>p, <1>0, <1>2, <1>12 DEF LogInv

\* The table is loaded.
LEMMA LoadTableLog ==
    ASSUME TypeInv, LogInv, LoadTable
    PROVE  LogInv'
  <1> DEFINE t == Bytes(confirmed[job.table])
  <1>p. /\ up /\ tpc = "load" /\ tpc' = "tombs" /\ t.kind = "table"
        /\ confirmed' = [f \in Fids |-> IF Lists(t, f) THEN PackedRef(t, EntryFor(t, f))
                                        ELSE confirmed[f]]
        /\ UNCHANGED <<indexEnd, indexErr, idx, media, pc, job, up>>
    BY Zenon DEF LoadTable, idxVars
  <1>0. /\ Whole(idx) /\ Sound(idx) /\ ~indexErr /\ TailInv /\ RetireInv
        /\ \A f \in Fids : At(idx, indexEnd).refs[f] # NoRef => confirmed[f] # NoRef
        /\ \A p \in Puts : pc[p] # "sync"
        /\ \A k \in DOMAIN job.cand : job.cand[k] \in Fids
        /\ indexEnd <= End(idx) /\ ~Mid(At(idx, indexEnd))
    BY <1>p, TrimTail
  <1>1. TableTyped(t)
    BY <1>p, LoadedTable
  <1> HIDE DEF t
  <1>2. ASSUME NEW f \in Fids, confirmed[f] # NoRef PROVE confirmed'[f] # NoRef
    <2>1. Lists(t, f) => PackedRef(t, EntryFor(t, f)) # NoRef
      BY <1>p, <1>1, PackedTyped
    <2> QED BY <1>p, <1>2, <2>1
  <1>3. TailInv'
    BY <1>p, <1>0 DEF TailInv
  <1>4. RetireInv'
    BY <1>p, <1>0, <1>2 DEF RetireInv
  <1>5. RamInv'
    BY <1>p, <1>0, <1>2, <1>3, <1>4 DEF RamInv
  <1> QED BY <1>p, <1>0, <1>5 DEF LogInv

\* A tombstone is written.
LEMMA AppendTombstoneLog ==
    ASSUME WholeWrites, TypeInv, LogInv, AppendTombstone
    PROVE  LogInv'
  <1> DEFINE n == indexEnd
             m == job.tombs + 1
             c == job.cand[m]
             ix == WriteAt(idx, n, <<Tomb(c)>>)
             r == At(idx, n)
             q == At(ix, n + 1)
  <1>p. /\ up /\ tpc = "tombs" /\ job.tombs < Len(job.cand) /\ n < IndexCap /\ WriteIndex(ix)
        /\ indexEnd' = n + 1 /\ job' = [job EXCEPT !.tombs = @ + 1]
        /\ UNCHANGED <<confirmed, indexErr, pc, tpc, up>>
    BY DEF AppendTombstone
  <1>0. /\ Sound(idx) /\ n \in Nat /\ n <= End(idx) /\ ~Mid(r) /\ IndexTypes
        /\ ~indexErr /\ TailInv /\ RetireInv
        /\ \A f \in Fids : r.refs[f] # NoRef => confirmed[f] # NoRef
        /\ \A p \in Puts : pc[p] # "sync"
        /\ \A k \in DOMAIN job.cand : job.cand[k] \in Fids
        /\ job \in Jobs /\ job.cand \in Seq(Fids)
    BY <1>p, TrimTail
  <1>1. job.tombs \in Nat /\ job'.cand = job.cand /\ job'.tombs = m
    BY <1>p, <1>0 DEF Jobs
  <1>2. m \in DOMAIN job.cand /\ job.tombs < m /\ Len(job.cand) \in Nat
    BY <1>p, <1>0, <1>1
  <1>3. c \in Fids /\ Retirable(r, c)
    BY <1>p, <1>0, <1>2 DEF RetireInv
  <1>4. End(idx) = n /\ End(idx) <= n + 1
    <2>1. End(idx) = n
      BY <1>p, <1>0 DEF TailInv
    <2> QED BY <1>0, <2>1
  <1> HIDE DEF n, m, c
  <1>5. /\ Whole(ix) /\ End(ix) = n + 1 /\ At(ix, n) = r /\ ix[n + 1] = Tomb(c)
    BY <1>p, <1>0, <1>3, <1>4, AppendTomb
  <1>6. ix \in Indexes /\ Sound(ix) /\ ~Mid(q)
    BY <1>5 DEF Whole, Sound
  <1> HIDE DEF ix
  <1>7. AfterTomb(r, Tomb(c), q)
    <2>1. ix[n + 1].kind = "tomb"
      BY <1>5 DEF Tomb, Entry
    <2>2. ~Mid(At(ix, n)) /\ n < End(ix)
      BY <1>0, <1>5
    <2>3. AfterTomb(At(ix, n), ix[n + 1], At(ix, n + 1))
      BY <1>0, <1>6, <2>1, <2>2, Behind
    <2> QED BY <1>5, <2>3
  <1>8. idx' = ix /\ media'[0] = media[0] \cup {ix} /\ indexEnd' = n + 1
    BY <1>p, <1>0, <1>6, WriteFacts
  <1>9. r \in ReplayStates /\ Tomb(c).fid \in Nat /\ Tomb(c).size \in Nat /\ Tomb(c).fid = c
    <2>1. r \in ReplayStates
      BY <1>0, GoodAt
    <2> QED BY <1>3, <2>1, IndexAssumption DEF Tomb, Entry
  <1> HIDE DEF r, q
  <1>10. \A f \in Fids : q.refs[f] # NoRef => confirmed[f] # NoRef
    BY <1>0, <1>7 DEF AfterTomb
  <1>11. ASSUME NEW k \in DOMAIN job.cand, m < k PROVE Retirable(q, job.cand[k])
    <2>1. job.tombs < k /\ job.cand[k] \in Fids
      BY <1>0, <1>1, <1>11 DEF m
    <2>2. Retirable(r, job.cand[k])
      BY <1>p, <1>0, <2>1 DEF RetireInv, r, n
    <2> QED BY <1>7, <1>9, <2>1, <2>2, RetirableAfter
  <1>12. \A k \in DOMAIN job.cand : confirmed[job.cand[k]] # NoRef
    BY <1>p, <1>0 DEF RetireInv
  <1>13. TailInv'
    BY <1>p, <1>0, <1>5, <1>8 DEF TailInv
  <1>14. RetireInv'
    BY <1>p, <1>1, <1>8, <1>11, <1>12 DEF RetireInv, q
  <1>15. RamInv'
    <2>1. n + 1 <= End(ix)
      BY <1>0, <1>5
    <2> QED BY <1>p, <1>6, <1>8, <1>10, <1>13, <1>14, <2>1 DEF RamInv, q
  <1>16. \A iy \in media'[0] : Whole(iy) \/ Half(iy)
    BY <1>5, <1>8 DEF LogInv
  <1> QED BY <1>p, <1>0, <1>5, <1>6, <1>8, <1>15, <1>16 DEF LogInv

\* The tombstones are synced.
LEMMA TombstonesSyncedLog ==
    ASSUME WholeWrites, TypeInv, LogInv, TombstonesSynced
    PROVE  LogInv'
  <1>p. /\ up /\ tpc = "tombs" /\ Sync /\ tpc' = "compact"
        /\ UNCHANGED <<confirmed, indexEnd, indexErr, pc, job, up>>
    BY DEF TombstonesSynced, memVars
  <1>0. /\ Whole(idx) /\ Sound(idx) /\ ~indexErr /\ TailInv /\ RetireInv /\ IndexTypes
        /\ \A f \in Fids : At(idx, indexEnd).refs[f] # NoRef => confirmed[f] # NoRef
        /\ \A p \in Puts : pc[p] # "sync"
        /\ indexEnd <= End(idx) /\ ~Mid(At(idx, indexEnd))
    BY <1>p, TrimTail
  <1>1. idx' = idx /\ media'[0] = {idx}
    BY <1>p, <1>0, WriteFacts DEF IndexTypes
  <1>2. TailInv'
    BY <1>p, <1>0, <1>1 DEF TailInv
  <1>3. RetireInv'
    BY <1>p, <1>0, <1>1 DEF RetireInv
  <1>4. RamInv'
    BY <1>p, <1>0, <1>1, <1>2, <1>3 DEF RamInv
  <1> QED BY <1>p, <1>0, <1>1, <1>4 DEF LogInv

-----------------------------------------------------------------------------
(* Compaction, failures and boots.                                         *)

\* A compacted index is as whole as the one it was made from.
LEMMA CompactedWhole ==
    ASSUME NEW ix, Whole(ix)
    PROVE  Whole(Compacted(ix))
  <1> DEFINE iy == Compacted(ix)
             K == Kept(ix)
  <1>1. /\ ix \in Indexes /\ Shaped(Disk, ix) /\ At(ix, End(ix)).ok /\ ~Mid(At(ix, End(ix)))
        /\ Disk \in Disks
    BY TrimAssumption DEF Whole, Sound
  <1>2. Scan(Disk, ix) = At(ix, End(ix)) /\ Scan(Disk, iy) = At(iy, End(iy))
    BY ScanIsFold DEF At
  <1>3. Scan(Disk, iy) = Scan(Disk, ix)
    BY <1>1, <1>2, CompactionKeepsScan
  <1>4. iy \in Indexes /\ Shaped(Disk, iy)
    BY <1>1, <1>2, CompactedShaped
  <1>5. Below(K, End(ix))
    BY <1>1, KeptFacts DEF At
  <1>6. End(iy) = Cardinality(K)
    BY <1>1, <1>5, ImageFacts DEF Compacted
  <1>7. iy = [n \in 1 .. IndexCap |-> IF n <= Cardinality(K) THEN ix[Nth(K, n)] ELSE ZeroEntry]
    BY DEF Compacted, Image
  <1> HIDE DEF iy, K
  <1>8. ASSUME NEW i \in 1 .. IndexCap, End(iy) < i PROVE iy[i] = ZeroEntry
    <2>1. Cardinality(K) \in Nat
      <3>1. End(ix) \in Nat
        BY EndFacts, IndexAssumption DEF EndsAt
      <3> QED BY <1>5, <3>1, RankStep
    <2>2. i \in Nat /\ ~(i <= Cardinality(K))
      BY <1>6, <1>8, <2>1, IndexAssumption
    <2> QED BY <1>7, <2>2
  <1> QED BY <1>1, <1>2, <1>3, <1>4, <1>8 DEF Whole, Sound, iy

\* The records are collected.
LEMMA CompactCollectLog ==
    ASSUME WholeWrites, TypeInv, LogInv, CompactCollect
    PROVE  LogInv'
  <1>p. /\ up /\ tpc = "compact" /\ Sync /\ tpc' = "copy"
        /\ job' = [job EXCEPT !.target = Collected, !.sector = 0]
        /\ UNCHANGED <<confirmed, indexEnd, indexErr, pc, up>>
    BY DEF CompactCollect, memVars
  <1>0. Whole(idx) /\ Sound(idx) /\ ~indexErr /\ IndexTypes /\ job \in Jobs
    BY <1>p, TrimTail
  <1>1. idx' = idx /\ media'[0] = {idx}
    BY <1>p, <1>0, WriteFacts DEF IndexTypes
  <1>2. job'.target = Compacted(idx)
    BY <1>p, <1>0 DEF Jobs, Collected
  <1>3. Whole(job'.target)
    BY <1>0, <1>2, CompactedWhole
  <1>4. RamInv'
    BY <1>p DEF RamInv
  <1> QED BY <1>p, <1>0, <1>1, <1>3, <1>4 DEF LogInv

\* The index is overwritten.
LEMMA CopySectorLog ==
    ASSUME WholeWrites, TypeInv, LogInv, CopySector
    PROVE  LogInv'
  <1> DEFINE first == job.sector * SectorLen
             ix == [i \in 1 .. IndexCap |-> IF i \in first + 1 .. first + SectorLen
                                            THEN job.target[i] ELSE idx[i]]
  <1>p. /\ up /\ tpc = "copy" /\ job.sector \in Sectors /\ WriteIndex(ix)
        /\ job' = [job EXCEPT !.sector = @ + 1] /\ UNCHANGED <<indexErr, pc, tpc, up>>
    BY Zenon DEF CopySector, memVars
  <1>0. IndexTypes /\ job \in Jobs /\ job.target \in Indexes /\ Whole(job.target) /\ ~indexErr
    BY <1>p DEF TypeInv, JobInv, LogInv, MuFree
  <1>1. ix = job.target
    <2>1. job.sector = 0 /\ SectorLen = IndexCap /\ IndexCap \in Nat
      BY <1>p, OneSector
    <2>2. first = 0
      BY <2>1
    <2> HIDE DEF first
    <2>3. \A i \in 1 .. IndexCap : i \in first + 1 .. first + SectorLen
      BY <2>1, <2>2
    <2>4. ix = [i \in 1 .. IndexCap |-> job.target[i]]
      BY <2>3, Zenon
    <2> QED BY <1>0, <2>4 DEF Indexes
  <1> HIDE DEF ix
  <1>2. idx' = ix /\ media'[0] = media[0] \cup {ix} /\ ix \in Indexes
    BY <1>p, <1>0, <1>1, WriteFacts
  <1>3. job'.target = job.target
    BY <1>p, <1>0 DEF Jobs
  <1>4. Whole(ix) /\ Sound(ix) /\ \A iy \in media'[0] : Whole(iy) \/ Half(iy)
    BY <1>0, <1>1, <1>2 DEF LogInv, Whole
  <1>5. RamInv'
    BY <1>p DEF RamInv
  <1> QED BY <1>p, <1>0, <1>2, <1>3, <1>4, <1>5 DEF LogInv

\* A replay that accepts the index gives memory what LogInv says of it.
LEMMA ReplayedLog ==
    ASSUME IndexTypes, GridTypes, Whole(idx), Replay(Disk, idx, grid).ok
    PROVE  /\ End(idx) <= End(idx) /\ ~Mid(At(idx, End(idx)))
           /\ \A f \in Fids : At(idx, End(idx)).refs[f] # NoRef => Replay(Disk, idx, grid).refs[f] # NoRef
  <1>1. \A f \in Fids : Scan(Disk, idx).refs[f] # NoRef => Replay(Disk, idx, grid).refs[f] # NoRef
    BY ReplayTyped, TrimAssumption DEF IndexTypes, GridTypes
  <1>2. Scan(Disk, idx) = At(idx, End(idx))
    BY ScanIsFold DEF At
  <1>3. End(idx) <= End(idx)
    BY EndFacts, IndexAssumption DEF EndsAt
  <1>4. ~Mid(At(idx, End(idx)))
    BY DEF Whole
  <1> QED BY <1>1, <1>2, <1>3, <1>4

\* The compacted index is replayed.
LEMMA CompactDoneLog ==
    ASSUME WholeWrites, TypeInv, LogInv, CompactDone
    PROVE  LogInv'
  <1> DEFINE r == Replay(Disk, idx, grid)
  <1>p. /\ up /\ tpc = "copy" /\ tpc' = "idle" /\ Sync
        /\ indexErr' = ~r.ok
        /\ confirmed' = IF r.ok THEN r.refs ELSE confirmed
        /\ indexEnd' = IF r.ok THEN End(idx) ELSE indexEnd
        /\ UNCHANGED <<pc, up>>
    BY Zenon DEF CompactDone
  <1>0. IndexTypes /\ GridTypes /\ Whole(idx) /\ Sound(idx) /\ \A p \in Puts : pc[p] # "sync"
    BY <1>p DEF TypeInv, LogInv, PutInv
  <1>1. idx' = idx /\ media'[0] = {idx}
    BY <1>p, <1>0, WriteFacts DEF IndexTypes
  <1>2. MuFree'
    BY <1>p, <1>0 DEF MuFree
  <1>3. CASE r.ok
    <2>1. /\ End(idx) <= End(idx) /\ ~Mid(At(idx, End(idx)))
          /\ \A f \in Fids : At(idx, End(idx)).refs[f] # NoRef => r.refs[f] # NoRef
      BY <1>0, <1>3, ReplayedLog
    <2> HIDE DEF r
    <2>2. confirmed' = r.refs /\ indexEnd' = End(idx)
      BY <1>p, <1>3
    <2>3. TailInv'
      BY <1>p, <1>0, <1>1, <2>2 DEF TailInv
    <2>4. RetireInv'
      BY <1>p DEF RetireInv
    <2>5. RamInv'
      BY <1>1, <2>1, <2>2, <2>3, <2>4 DEF RamInv
    <2> QED BY <1>p, <1>0, <1>1, <1>2, <2>5 DEF LogInv
  <1>4. CASE ~r.ok
    <2> HIDE DEF r
    <2>1. RamInv'
      BY <1>p, <1>4 DEF RamInv
    <2> QED BY <1>p, <1>0, <1>1, <1>2, <2>1 DEF LogInv
  <1> QED BY <1>3, <1>4

\* A boot refuses half an anchor.
LEMMA RefusesHalf ==
    ASSUME NEW ix, Replay(Disk, ix, grid).ok
    PROVE  ~Half(ix)
  <1> DEFINE s == At(ix, End(ix))
  <1>1. Scan(Disk, ix) = s
    BY ScanIsFold DEF At
  <1>2. Replay(Disk, ix, grid) = Finish(Disk, grid, Scan(Disk, ix))
    BY DEF Replay, Once
  <1>3. s.alias = 0 /\ ~s.anchor
    <2> HIDE DEF s
    <2> QED BY <1>1, <1>2 DEF Finish
  <1> QED BY <1>3 DEF Half, Mid

\* The disk is opened.
LEMMA BootLog ==
    ASSUME TypeInv, LogInv, Boot
    PROVE  LogInv'
  <1> DEFINE r == Replay(Disk, idx, grid)
  <1>p. /\ ~up /\ r.ok /\ confirmed' = r.refs /\ indexEnd' = End(idx)
        /\ UNCHANGED <<indexErr, idx, media, pc, tpc, job>>
    BY Zenon DEF Boot, idxVars
  <1>0. /\ IndexTypes /\ GridTypes /\ tpc = "idle" /\ Whole(idx) /\ Sound(idx)
        /\ \A p \in Puts : pc[p] # "sync"
    <2>1. ~Half(idx)
      BY <1>p, RefusesHalf
    <2> QED BY <1>p, <2>1 DEF TypeInv, LogInv, PutInv, JobInv
  <1>1. /\ End(idx) <= End(idx) /\ ~Mid(At(idx, End(idx)))
        /\ \A f \in Fids : At(idx, End(idx)).refs[f] # NoRef => r.refs[f] # NoRef
    BY <1>p, <1>0, ReplayedLog
  <1> HIDE DEF r
  <1>2. TailInv'
    BY <1>p, <1>0 DEF TailInv
  <1>3. RetireInv'
    BY <1>p, <1>0 DEF RetireInv
  <1>4. RamInv'
    BY <1>p, <1>1, <1>2, <1>3 DEF RamInv
  <1>5. MuFree'
    BY <1>p, <1>0 DEF MuFree
  <1> QED BY <1>p, <1>0, <1>4, <1>5 DEF LogInv

\* Trim gives up, wherever it can.
LEMMA TrimFailLog ==
    ASSUME WholeWrites, TypeInv, LogInv, TrimFail
    PROVE  LogInv'
  <1>p. /\ up /\ tpc' = "idle" /\ UNCHANGED <<idx, media, confirmed, indexEnd, indexErr, pc, up>>
        /\ tpc \in {"container", "containerSync", "table", "tableSync", "anchor", "load", "tombs", "compact"}
    <2>1. "anchor-write" \notin Faults /\ "anchor-sync" \notin Faults /\ "copy-io" \notin Faults
      BY DEF WholeWrites
    <2> QED BY <2>1 DEF TrimFail, FailPoints, memVars, idxVars
  <1>0. /\ Whole(idx) /\ Sound(idx) /\ ~indexErr /\ TailInv
        /\ \A f \in Fids : At(idx, indexEnd).refs[f] # NoRef => confirmed[f] # NoRef
        /\ \A p \in Puts : pc[p] # "sync"
        /\ indexEnd <= End(idx) /\ ~Mid(At(idx, indexEnd))
    BY <1>p, TrimTail
  <1>1. \/ End(idx) = indexEnd
        \/ /\ End(idx) = indexEnd + 1 /\ idx[indexEnd + 1].kind = "plain"
           /\ confirmed[idx[indexEnd + 1].fid] = NoRef
    <2>1. CASE tpc = "container"
      BY <1>0, <2>1 DEF TailInv
    <2>2. CASE tpc = "containerSync"
      BY <1>0, <2>2 DEF TailInv, Plain, Entry
    <2>3. CASE tpc = "tableSync"
      BY <1>0, <2>3 DEF TailInv, Plain, Entry
    <2>4. CASE tpc \in {"table", "anchor", "load", "tombs", "compact"}
      BY <1>0, <2>4 DEF TailInv
    <2> QED BY <1>p, <2>1, <2>2, <2>3, <2>4
  <1>2. TailInv'
    BY <1>p, <1>0, <1>1 DEF TailInv
  <1>3. RetireInv'
    BY <1>p DEF RetireInv
  <1>4. RamInv'
    BY <1>p, <1>0, <1>2, <1>3 DEF RamInv
  <1> QED BY <1>p, <1>0, <1>4 DEF LogInv

\* The host crashes, or the daemon stops.
LEMMA StopLog ==
    ASSUME WholeWrites, TypeInv, LogInv, Crash \/ Shutdown
    PROVE  LogInv'
  <1> DEFINE Left(ix) == Whole(ix) \/ Half(ix)
  <1>p. ~up' /\ tpc' = "idle" /\ ~indexErr'
    BY DEF Crash, Shutdown, ProcessEnds
  <1>1. Left(idx') /\ \A ix \in media'[0] : Left(ix)
    <2>1. CASE Shutdown
      BY <1>p, <2>1 DEF Shutdown, LogInv, idxVars
    <2>2. CASE Crash
      <3>1. PICK pick \in [Sectors -> UNION {media[j] : j \in Sectors}] :
              /\ \A j \in Sectors : pick[j] \in media[j]
              /\ idx' = [i \in 1 .. IndexCap |->
                           pick[(i - 1) \div SectorLen][((i - 1) % SectorLen) + 1]]
              /\ media' = [j \in Sectors |-> {pick[j]}]
        BY <2>2, Zenon DEF Crash
      <3>2. Sectors = {0} /\ SectorLen = IndexCap /\ IndexCap \in Nat \ {0}
        BY OneSector
      <3>3. 0 \in Sectors
        BY <3>2
      <3>4. pick[0] \in media[0] /\ media'[0] = {pick[0]}
        BY <3>1, <3>3
      <3>5. Left(pick[0])
        BY <3>4 DEF LogInv
      <3>6. \A i \in 1 .. IndexCap : (i - 1) \div SectorLen = 0 /\ ((i - 1) % SectorLen) + 1 = i
        BY <3>2
      <3>7. idx' = [i \in 1 .. IndexCap |-> pick[0][i]]
        BY <3>1, <3>6
      <3>8. idx' = pick[0]
        BY <3>5, <3>7 DEF Whole, Half, Sound, Indexes
      <3> QED BY <3>4, <3>5, <3>8
    <2> QED BY <2>1, <2>2
  <1>2. RamInv'
    BY <1>p DEF RamInv
  <1> QED BY <1>p, <1>1, <1>2 DEF LogInv, Whole, Half

\* A new disk.
LEMMA InitLog ==
    ASSUME WholeWrites, Init
    PROVE  LogInv
  <1> DEFINE ix == EmptyIndex
  <1>p. /\ idx = ix /\ media = [j \in Sectors |-> {Sector(ix, j)}] /\ confirmed = [f \in Fids |-> NoRef]
        /\ indexEnd = 0 /\ indexErr = FALSE /\ pc = [p \in Puts |-> "idle"] /\ tpc = "idle"
    BY DEF Init
  <1>1. ix \in Indexes /\ \A i \in 1 .. IndexCap : ix[i] = ZeroEntry
    BY EntryTypes DEF EmptyIndex, Indexes
  <1> HIDE DEF ix
  <1>2. End(ix) = 0
    <2>1. EndsAt(ix, 0)
      BY <1>1, IndexAssumption DEF EndsAt
    <2> QED BY <2>1, EndFacts
  <1>3. At(ix, 0) = ReplayStart
    BY FoldDef, Zenon DEF At
  <1>4. ReplayStart.ok /\ ~Mid(ReplayStart) /\ \A f \in Fids : ReplayStart.refs[f] = NoRef
    BY StartFacts
  <1>5. Shaped(Disk, ix)
    BY <1>2 DEF Shaped
  <1>6. Whole(ix) /\ Sound(ix)
    BY <1>1, <1>2, <1>3, <1>4, <1>5 DEF Whole, Sound
  <1>7. media[0] = {ix}
    BY <1>p, <1>1, OneSector
  <1>8. TailInv
    BY <1>p, <1>2 DEF TailInv
  <1>9. RetireInv
    BY <1>p DEF RetireInv
  <1>10. RamInv
    BY <1>p, <1>2, <1>3, <1>4, <1>8, <1>9 DEF RamInv
  <1> QED BY <1>p, <1>6, <1>7, <1>10 DEF LogInv

\* Every step keeps the index whole.
LEMMA NextLog ==
    ASSUME WholeWrites, TypeInv, LogInv, [Next]_vars
    PROVE  LogInv'
  <1>1. CASE \E p \in Puts : PutNext(p)
    <2>1. PICK p \in Puts : PutNext(p)
      BY <1>1
    <2>2. CASE PutPrepare(p) \/ PutStream(p) \/ PutAbort(p)
      BY <2>2, QuietSteps
    <2>3. CASE PutCommit(p)
      BY <2>3, PutCommitLog
    <2>4. CASE PutPublish(p)
      BY <2>4, PutPublishLog
    <2>5. CASE PutRollback(p)
      BY <2>5, PutRollbackLog
    <2> QED BY <2>1, <2>2, <2>3, <2>4, <2>5 DEF PutNext
  <1>2. CASE TrimStart
    BY <1>2, TrimStartLog
  <1>3. CASE TrimStep
    BY <1>3, TrimFailLog, WriteContainerLog, ContainerSyncedLog, WriteTableLog, TableSyncedLog,
       AnchorFirstLog, AnchorSecondLog, AnchorSyncedLog, LoadTableLog, AppendTombstoneLog,
       TombstonesSyncedLog, CompactCollectLog, CopySectorLog, CompactDoneLog DEF TrimStep
  <1>4. CASE (\E f \in ReadNames : GetLookup(f)) \/ GetRead \/ UNCHANGED vars
    BY <1>4, QuietSteps
  <1>5. CASE Crash \/ Shutdown
    BY <1>5, StopLog
  <1>6. CASE Boot
    BY <1>6, BootLog
  <1> QED BY <1>1, <1>2, <1>3, <1>4, <1>5, <1>6 DEF Next, Running

\* Under WholeWrites compacting the index changes nothing that a replay of it
\* serves, also when the host dies between any two steps of Puts and Trim: what the daemon
\* appends, leaves behind a failed append, or takes back is always an index of
\* the shape that a compaction keeps the meaning of.
THEOREM CompactionHarmless ==
    ASSUME WholeWrites
    PROVE  Spec => []CompactionPreserves
  <1>1. Init => TypeInv /\ LogInv
    BY InitTyped, InitLog
  <1>2. TypeInv /\ LogInv /\ [Next]_vars => (TypeInv /\ LogInv)'
    BY NextTyped, NextLog
  <1>3. TypeInv /\ LogInv => CompactionPreserves
    <2> SUFFICES ASSUME LogInv, Replay(Disk, idx, grid).ok
                 PROVE  Replay(Disk, Compacted(idx), grid) = Replay(Disk, idx, grid)
      BY DEF CompactionPreserves
    <2>1. idx \in Indexes /\ Shaped(Disk, idx) /\ Disk \in Disks
      BY TrimAssumption DEF LogInv, Sound
    <2> QED BY <2>1, CompactionKeepsReplay
  <1> QED BY <1>1, <1>2, <1>3, PTL DEF Spec
=============================================================================
