------------------------------- MODULE IndexLog -------------------------------
(***************************************************************************)
(* The index of one disk as the sequence of 16-byte entries it is: what a  *)
(* replay makes of it (index_state.go) and what a compaction keeps of it   *)
(* (blk/index_compact.go).                                                 *)
(*                                                                         *)
(* An index image is a function from 1 .. IndexCap to entries; the first   *)
(* zero entry ends it.  Sizes are bytes; the sentinel sizes and jump codes *)
(* that tell the kinds of entry apart are abstracted to the kind itself.   *)
(***************************************************************************)
EXTENDS Placement, FiniteSets, Sequences

CONSTANTS
    IndexCap,   \* entries that fit between IndexStart and GridStart
    Fids        \* every fid an index may mention; 0 is not one of them

ASSUME IndexAssumption ==
    /\ IndexCap \in Nat
    /\ Fids \subseteq Nat \ {0}
    /\ Slots \in [Disks -> Nat \ {0}]
    /\ SlotSize \in Nat \ {0}

Entry(k, f, s) == [kind |-> k, fid |-> f, size |-> s]

ZeroEntry   == Entry("zero", 0, 0)
Plain(f, s) == Entry("plain", f, s)
Jump(f)     == Entry("jump", f, 0)     \* alias f of the object in the next entry
Anchor(f)   == Entry("anchor", f, 0)   \* packed table f, repeated in the next entry
Tomb(f)     == Entry("tomb", f, 0)

EmptyIndex == [i \in 1 .. IndexCap |-> ZeroEntry]

\* FindIndexEnd, in entries.
End(ix) ==
    CHOOSE n \in 0 .. IndexCap :
        /\ \A i \in 1 .. n : ix[i] # ZeroEntry
        /\ n < IndexCap => ix[n + 1] = ZeroEntry

\* WriteAt of the entries es behind the first n.
WriteAt(ix, n, es) ==
    [i \in 1 .. IndexCap |-> IF i \in n + 1 .. n + Len(es) THEN es[i - n] ELSE ix[i]]

-----------------------------------------------------------------------------
(* objectRef, and the contents a grid slot can have.                       *)

Own(f, s) == [fid |-> f, storedSize |-> s, size |-> s, offset |-> 0, packed |-> FALSE]

AliasOf(f, s) == [Own(f, s) EXCEPT !.size = s - 1]

NoRef == Own(0, 0)

\* What a slot holds: (part of) the payload of a Put, of a container, of a
\* packed table, or bytes that belong to nobody.
Data(p)         == [kind |-> "data", by |-> p]
Container(ps)   == [kind |-> "container", parts |-> ps]
Table(c, s, es) == [kind |-> "table", container |-> c, size |-> s, entries |-> es]
Junk            == [kind |-> "junk"]

\* The bytes a reference delivers when the grid holds g (readRange).
Deliver(d, g, ref) ==
    LET iv   == Extent(d, ref.fid, ref.storedSize)
        vals == {g[s] : s \in iv.start .. iv.end}
        v    == g[iv.start]
    IN  IF Cardinality(vals) > 1 THEN Junk
        ELSE IF ~ref.packed THEN v
        ELSE IF v.kind # "container" THEN Junk
        ELSE IF \E k \in DOMAIN v.parts : v.parts[k].offset = ref.offset
             THEN v.parts[CHOOSE k \in DOMAIN v.parts : v.parts[k].offset = ref.offset].data
             ELSE Junk

-----------------------------------------------------------------------------
(* replayIndex.                                                            *)

ReplayStart ==
    [refs |-> [f \in Fids |-> NoRef], exts |-> {}, alias |-> 0, anchor |-> FALSE,
     tables |-> <<>>, ok |-> TRUE]

\* The entry is not refused in the state the entries before it left.
Accepts(d, r, e) ==
    /\ r.anchor => e.kind = "plain"
    /\ e.kind \in {"jump", "anchor"} => r.alias = 0
    /\ e.kind = "jump" => r.refs[e.fid] = NoRef
    /\ e.kind = "plain" => AddrOK(d, e.fid, e.size)
    /\ e.kind = "plain" /\ ~r.anchor =>
        /\ r.refs[e.fid] = NoRef
        /\ r.alias # 0 => r.alias # e.fid /\ e.size >= 2

\* What the entry does to the maps.
Apply(d, r, e) ==
    LET others == {x \in r.exts : x.fid # e.fid}
        ext    == [fid |-> e.fid, iv |-> Extent(d, e.fid, e.size)]
        own    == [r.refs EXCEPT ![e.fid] = Own(e.fid, e.size)]
    IN  CASE e.kind = "plain" /\ r.anchor ->
               [r EXCEPT !.refs = own, !.exts = others \cup {ext}, !.anchor = FALSE,
                         !.tables = Append(@, e.fid)]
          [] e.kind = "plain" /\ ~r.anchor ->
               [r EXCEPT !.refs = [f \in Fids |-> IF f = r.alias THEN AliasOf(e.fid, e.size)
                                                  ELSE own[f]],
                         !.exts = others \cup {ext}, !.alias = 0]
          [] e.kind = "jump"   -> [r EXCEPT !.alias = e.fid]
          [] e.kind = "anchor" -> [r EXCEPT !.anchor = TRUE]
          [] e.kind = "tomb"   -> [r EXCEPT !.refs = [@ EXCEPT ![e.fid] = NoRef],
                                            !.exts = others]

\* One turn of the loop: the first refused entry ends it with an error.
ReplayEntry(d, r, e) ==
    IF r.ok /\ Accepts(d, r, e) THEN Apply(d, r, e) ELSE [r EXCEPT !.ok = FALSE]

\* Op(v), written so that TLC evaluates v once.
Once(Op(_), v) == CHOOSE w \in {Op(u) : u \in {v}} : TRUE

\* The loop over the entries.
Scan(d, ix) ==
    LET r[i \in 0 .. End(ix)] ==
          IF i = 0 THEN ReplayStart
          ELSE Once(LAMBDA q : ReplayEntry(d, q, ix[i]), r[i - 1])
    IN  r[End(ix)]

PackedRef(t, e) ==
    [fid |-> t.container, storedSize |-> t.size, size |-> e.size, offset |-> e.offset,
     packed |-> TRUE]

Lists(t, f) == \E k \in DOMAIN t.entries : t.entries[k].fid = f

EntryFor(t, f) == t.entries[CHOOSE k \in DOMAIN t.entries : t.entries[k].fid = f]

\* finish: the packed tables override what the entries said, in the order of
\* their anchors.
Finish(d, g, r) ==
    LET live    == {i \in DOMAIN r.tables : r.refs[r.tables[i]] # NoRef}
        tab(i)  == Deliver(d, g, r.refs[r.tables[i]])
        decoded == \A i \in live : tab(i).kind = "table"
        by(f)   == {i \in live : Lists(tab(i), f)}
        last(S) == CHOOSE i \in S : \A j \in S : j <= i
    IN  [ok   |-> /\ r.ok /\ r.alias = 0 /\ ~r.anchor /\ decoded
                  /\ \A x, y \in r.exts : x # y => ~Overlaps(x.iv, y.iv),
         refs |-> IF ~decoded THEN r.refs
                  ELSE [f \in Fids |-> IF by(f) = {} THEN r.refs[f]
                                       ELSE PackedRef(tab(last(by(f))), EntryFor(tab(last(by(f))), f))],
         exts |-> {x.iv : x \in r.exts}]

\* The whole of replayIndex.
Replay(d, ix, g) == Once(LAMBDA r : Finish(d, g, r), Scan(d, ix))

-----------------------------------------------------------------------------
(* CollectLatestIndexRecords and WriteLatestIndexRecords.                  *)

IsHead(e) == e.kind \in {"jump", "anchor"}

\* Which entries are the second of a pair, read from the front.
PairEnds(ix) ==
    LET second[i \in 1 .. End(ix)] ==
          IF i = 1 THEN FALSE ELSE IsHead(ix[i - 1]) /\ ~second[i - 1]
    IN  second

\* A wrong variant: tombstones are records like any other entry, and clear
\* nothing.
LatestHeads_TombsIgnored(ix) ==
    LET n == End(ix)
        second == PairEnds(ix)
        records == {i \in 1 .. n : ~second[i] /\ ix[i].kind # "tomb"
                                   /\ (IsHead(ix[i]) => i < n /\ ix[i + 1].kind = "plain")}
    IN  {i \in records : \A j \in records : ix[j].fid = ix[i].fid => j <= i}

\* The positions whose entries make up the latest record of each fid: a
\* plain entry, or a head (jump, anchor) with the entry behind it; a
\* tombstone clears the record, and a head without its second is dropped.
LatestHeads(ix) ==
    LET n == End(ix)
        second == PairEnds(ix)
        record(i) == /\ ~second[i]
                     /\ IsHead(ix[i]) => i < n /\ ix[i + 1].kind = "plain"
        records == {i \in 1 .. n : record(i)}
    IN  {i \in records : /\ ix[i].kind # "tomb"
                         /\ \A j \in records : ix[j].fid = ix[i].fid => j <= i}

\* A wrong variant: the second entry of a pair is forgotten.
Kept_HeadsOnly(ix) == LatestHeads(ix)

Kept(ix) ==
    LET heads == LatestHeads(ix)
    IN  heads \cup {i + 1 : i \in {j \in heads : ix[j].kind # "plain"}}

\* The n-th smallest member of a set of positions.
Nth(S, n) == CHOOSE i \in S : Cardinality({j \in S : j <= i}) = n

\* The index that has the entries of ix at these positions, and zeros.
Image(ix, S) ==
    [n \in 1 .. IndexCap |-> IF n <= Cardinality(S) THEN ix[Nth(S, n)] ELSE ZeroEntry]

Compacted(ix) == Image(ix, Kept(ix))
=============================================================================
