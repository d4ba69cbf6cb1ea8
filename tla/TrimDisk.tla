------------------------------- MODULE TrimDisk -------------------------------
(***************************************************************************)
(* Trim on one disk (trim.go): small objects are copied into a container,  *)
(* a packed table maps their fids into it, an anchor announces the table,  *)
(* tombstones retire the old entries, and the index is compacted in place, *)
(* which frees their extents.  maybeTrim holds the disk's mu from start to *)
(* end, so Puts cannot prepare, commit or abort meanwhile, but Puts that   *)
(* hold an extent keep streaming and Gets keep reading.                    *)
(*                                                                         *)
(* Durability.  A sector is the unit in which index entries reach the      *)
(* medium: between two syncs, each sector of the medium holds one of the   *)
(* contents the sector had since the first of them.  A data slot written   *)
(* since the last sync is whole or lost.                                   *)
(***************************************************************************)
EXTENDS PoolObjects, IndexLog

CONSTANTS
    Disk,           \* the disk this module is about
    Header,         \* Header[p] = the header Put p sends, which Server.Put let pass
    TrimFids,       \* the hashes that containers and tables may turn out to have
    MaxNonce,       \* bound: rehash attempts of a container
    Threshold,      \* objects smaller than this are candidates
    MinFileCount,   \* trim_min_file_count
    SectorLen,      \* index entries per sector; divides IndexCap
    Faults,         \* which of the failures below may happen
    ReadNames,      \* bound: the names that Gets ask for
    MaxCrashes,     \* bound: crashes and orderly stops in one behaviour
    MaxTrims        \* bound: runs of maybeTrim in one behaviour

\* "crash":        the host may die.
\* "anchor-write": the second write of an anchor may fail.
\* "anchor-sync":  the sync behind an anchor may fail.
\* "copy-io":      copying the compacted index back, or its sync, may fail.
FaultKinds == {"crash", "anchor-write", "anchor-sync", "copy-io"}

ASSUME TrimAssumption ==
    /\ Disk \in Disks
    /\ Header \in [Puts -> Headers]
    /\ \A p \in Puts : Header[p].alias # NoAlias =>
                         Header[p].alias # Header[p].fid /\ Header[p].size >= 2
    /\ MaxNonce \in Nat
    /\ Faults \subseteq FaultKinds
    /\ SectorLen \in Nat \ {0} /\ IndexCap % SectorLen = 0
    /\ AllNames \cup TrimFids \subseteq Fids
    /\ AllNames \cap TrimFids = {}
    /\ ReadNames \subseteq AllNames

VARIABLES
    idx,        \* the index image as reads and the next boot of a living host see it
    media,      \* per sector: the contents it may have on the medium
    grid,       \* the data slots, as reads see them
    dirty,      \* slots written since the last sync
    confirmed,  \* the RAM index: fid -> objectRef
    intervals,  \* confirmed extents
    pendingIntervals,
    indexEnd,   \* entries in use, as RAM has it
    indexErr,   \* TRUE when a compacted index did not replay
    pc,         \* where each Put is
    tpc,        \* where maybeTrim is
    job,        \* its candidates and the objects it has written
    read,       \* a Get between lookup and readRange
    up, crashes, trims

memVars  == <<confirmed, intervals, pendingIntervals, indexEnd, indexErr>>
idxVars  == <<idx, media>>
gridVars == <<grid, dirty>>
vars == <<memVars, idxVars, gridVars, pc, tpc, job, read, up, crashes, trims>>

NoJob == [cand |-> <<>>, container |-> 0, containerSize |-> 0, table |-> 0,
          tableSize |-> 0, tombs |-> 0, sector |-> 0, target |-> <<>>]

NoRead == [fid |-> 0, ref |-> NoRef]

-----------------------------------------------------------------------------
(* The disk under the file interface.                                      *)

Sectors == 0 .. IndexCap \div SectorLen - 1

Sector(ix, j) == [i \in 1 .. SectorLen |-> ix[j * SectorLen + i]]

\* An index write reaches the medium some time before the next sync.
WriteIndex(ix) ==
    /\ idx' = ix
    /\ media' = [j \in Sectors |-> media[j] \cup {Sector(ix, j)}]

\* file.Sync(), then an index write.
SyncThenWrite(ix) ==
    /\ dirty' = {}
    /\ idx' = ix
    /\ media' = [j \in Sectors |-> {Sector(idx, j), Sector(ix, j)}]

\* file.Sync().
Sync ==
    /\ dirty' = {}
    /\ media' = [j \in Sectors |-> {Sector(idx, j)}]
    /\ UNCHANGED idx

Filled(iv, v) == [s \in DOMAIN grid |-> IF s \in iv.start .. iv.end THEN v ELSE grid[s]]

Extents == intervals \cup pendingIntervals

\* Wrong variants: one of the two tables is not consulted.
Free_ConfirmedOnly(iv) == \A e \in intervals : ~Overlaps(e, iv)

Free_PendingOnly(iv) == \A e \in pendingIntervals : ~Overlaps(e, iv)

\* Neither table has an extent in the way (reserveExtent, anyOverlap).
Free(iv) == \A e \in Extents : ~Overlaps(e, iv)

Bytes(ref) == Deliver(Disk, grid, ref)

-----------------------------------------------------------------------------
Init ==
    /\ idx = EmptyIndex
    /\ media = [j \in Sectors |-> {Sector(EmptyIndex, j)}]
    /\ grid = [s \in GridSlots(Disk) |-> Junk]
    /\ dirty = {}
    /\ confirmed = [f \in Fids |-> NoRef]
    /\ intervals = {} /\ pendingIntervals = {}
    /\ indexEnd = 0 /\ indexErr = FALSE
    /\ pc = [p \in Puts |-> "idle"]
    /\ tpc = "idle" /\ job = NoJob
    /\ read = NoRead
    /\ up = TRUE /\ crashes = 0 /\ trims = 0
-----------------------------------------------------------------------------
(* Puts, as in PutPath; the pool gate is the check of the names.           *)

\* DeviceState.mu is held by a Commit in progress and by all of maybeTrim.
MuFree == tpc = "idle" /\ \A p \in Puts : pc[p] # "sync"

Goto(p, l) == pc' = [pc EXCEPT ![p] = l]

PutExtent(p) == ExtentOf(Disk, Header[p])

PutEntries(p) ==
    LET h == Header[p]
    IN  IF h.alias = NoAlias THEN <<Plain(h.fid, h.size)>>
        ELSE <<Jump(h.alias), Plain(h.fid, h.size)>>

Unregistered(p) == \A f \in Names(Header[p]) : confirmed[f] = NoRef

PutPrepare(p) ==
    /\ up /\ pc[p] = "idle" /\ MuFree /\ ~indexErr
    /\ Unregistered(p)
    /\ AddrOK(Disk, Header[p].fid, Header[p].size)
    /\ Free(PutExtent(p))
    /\ pendingIntervals' = pendingIntervals \cup {PutExtent(p)}
    /\ Goto(p, "stream")
    /\ UNCHANGED <<confirmed, intervals, indexEnd, indexErr, idxVars, gridVars,
                   tpc, job, read, up, crashes, trims>>

\* The streaming write takes no lock.
PutStream(p) ==
    /\ up /\ pc[p] = "stream"
    /\ grid' = Filled(PutExtent(p), Data(p))
    /\ dirty' = dirty \cup SlotsOf(Disk, Header[p])
    /\ Goto(p, "commit")
    /\ UNCHANGED <<memVars, idxVars, tpc, job, read, up, crashes, trims>>

PutCommit(p) ==
    /\ up /\ pc[p] = "commit" /\ MuFree /\ ~indexErr
    /\ Unregistered(p)
    /\ indexEnd + Len(PutEntries(p)) <= IndexCap
    /\ SyncThenWrite(WriteAt(idx, indexEnd, PutEntries(p)))
    /\ Goto(p, "sync")
    /\ UNCHANGED <<memVars, grid, tpc, job, read, up, crashes, trims>>

PutPublish(p) ==
    LET h == Header[p]
    IN  /\ up /\ pc[p] = "sync"
        /\ Sync
        /\ confirmed' = [f \in Fids |-> IF f = h.fid THEN Own(h.fid, h.size)
                                        ELSE IF f \in Names(h) THEN AliasOf(h.fid, h.size)
                                        ELSE confirmed[f]]
        /\ indexEnd' = indexEnd + Len(PutEntries(p))
        /\ pendingIntervals' = pendingIntervals \ {PutExtent(p)}
        /\ intervals' = intervals \cup {PutExtent(p)}
        /\ Goto(p, "acked")
        /\ UNCHANGED <<indexErr, grid, tpc, job, read, up, crashes, trims>>

\* The Put fails before its index write, or has rolled it back; Abort gives
\* the extent back.
PutAbort(p) ==
    /\ up /\ pc[p] \in {"stream", "commit", "abort"} /\ MuFree
    /\ pendingIntervals' = pendingIntervals \ {PutExtent(p)}
    /\ Goto(p, "failed")
    /\ UNCHANGED <<confirmed, intervals, indexEnd, indexErr, idxVars, gridVars,
                   tpc, job, read, up, crashes, trims>>

\* The index write or its sync failed; zeros are written over it and synced.
PutRollback(p) ==
    LET zeros == [i \in DOMAIN PutEntries(p) |-> ZeroEntry]
        ix    == WriteAt(idx, indexEnd, zeros)
    IN  /\ up /\ pc[p] = "sync"
        /\ idx' = ix
        /\ media' = [j \in Sectors |-> {Sector(ix, j)}]
        /\ dirty' = {}
        /\ Goto(p, "abort")
        /\ UNCHANGED <<memVars, grid, tpc, job, read, up, crashes, trims>>
-----------------------------------------------------------------------------
(* maybeTrim: candidates and container.                                    *)

Heads == LatestHeads(idx)

\* The second entry of each live pair of a kind.
Seconds(kind) == {idx[i + 1].fid : i \in {j \in Heads : idx[j].kind = kind}}

\* A wrong variant: containers are packed like any other object.
Excluded_NotContainers == Seconds("jump") \cup Seconds("anchor")

\* What Trim must leave alone: the targets of aliases, packed tables, and the
\* containers those tables point into.
Excluded ==
    Seconds("jump") \cup Seconds("anchor")
        \cup {Bytes(confirmed[t]).container : t \in Seconds("anchor")}

\* Positions of the small plain objects, in index order.
Small ==
    LET excluded == Excluded
    IN  {i \in Heads : /\ idx[i].kind = "plain"
                       /\ idx[i].fid \notin excluded
                       /\ idx[i].size < Threshold}

\* buildContainerFileLocked: the concatenation, and each candidate's place in
\* it.
Offset(c, k) ==
    LET o[i \in 1 .. k] == IF i = 1 THEN 0 ELSE o[i - 1] + confirmed[c[i - 1]].size
    IN  o[k]

\* A wrong variant: the offset does not advance.
Parts_SameOffset(c) ==
    [k \in DOMAIN c |-> [fid |-> c[k], offset |-> 0, size |-> confirmed[c[k]].size,
                         data |-> Bytes(confirmed[c[k]])]]

Parts(c) ==
    [k \in DOMAIN c |-> [fid |-> c[k], offset |-> Offset(c, k), size |-> confirmed[c[k]].size,
                         data |-> Bytes(confirmed[c[k]])]]

TotalSize(c) == Offset(c, Len(c)) + confirmed[c[Len(c)]].size

\* Enough small objects: maybeTrim lists them and reads them into a temporary
\* container.  The batch limit (CH_d) cuts the list somewhere, and the ratio
\* of small objects is taken to suffice; the list comes from the index on
\* disk, and Trim gives up when memory does not know one of them.
TrimStart ==
    /\ up /\ MuFree /\ ~indexErr /\ trims < MaxTrims
    /\ LET small == Small
       IN  /\ Cardinality(small) > MinFileCount
           /\ \E n \in 1 .. Cardinality(small) :
                LET c == [k \in 1 .. n |-> idx[Nth(small, k)].fid]
                IN  /\ \A k \in 1 .. n : confirmed[c[k]] # NoRef
                    /\ job' = [NoJob EXCEPT !.cand = c]
    /\ tpc' = "container"
    /\ trims' = trims + 1
    /\ UNCHANGED <<memVars, idxVars, gridVars, pc, read, up, crashes>>

\* A hash the container or the table can be stored under: not registered on
\* this disk, and its extent is free.
Usable(f, size) ==
    /\ confirmed[f] = NoRef
    /\ AddrOK(Disk, f, size)
    /\ Free(Extent(Disk, f, size))

\* Payload, sync, entry: an object of Trim's own, not yet synced.
StoreObject(f, size, v) ==
    /\ Usable(f, size)
    /\ indexEnd < IndexCap
    /\ grid' = Filled(Extent(Disk, f, size), v)
    /\ SyncThenWrite(WriteAt(idx, indexEnd, <<Plain(f, size)>>))

PublishObject(f, size) ==
    /\ Sync
    /\ confirmed' = [confirmed EXCEPT ![f] = Own(f, size)]
    /\ intervals' = intervals \cup {Extent(Disk, f, size)}
    /\ indexEnd' = indexEnd + 1

\* writeContainerObjectNoJumpLocked: each conflict appends eight bytes and
\* hashes again.
WriteContainer ==
    /\ up /\ tpc = "container"
    /\ \E f \in TrimFids, n \in 0 .. MaxNonce :
        /\ StoreObject(f, TotalSize(job.cand) + 8 * n, Container(Parts(job.cand)))
        /\ job' = [job EXCEPT !.container = f, !.containerSize = TotalSize(job.cand) + 8 * n]
    /\ tpc' = "containerSync"
    /\ UNCHANGED <<memVars, pc, read, up, crashes, trims>>

ContainerSynced ==
    /\ up /\ tpc = "containerSync"
    /\ PublishObject(job.container, job.containerSize)
    /\ tpc' = "table"
    /\ UNCHANGED <<pendingIntervals, indexErr, grid, pc, job, read, up, crashes, trims>>
-----------------------------------------------------------------------------
(* maybeTrim: table, anchor, tombstones.                                   *)

TableBytes(n) == 48 + 24 * n

TableValue ==
    Table(job.container, job.containerSize,
          [k \in DOMAIN job.cand |-> [fid |-> job.cand[k], offset |-> Parts(job.cand)[k].offset,
                                      size |-> Parts(job.cand)[k].size]])

WriteTable ==
    /\ up /\ tpc = "table"
    /\ \E f \in TrimFids :
        /\ StoreObject(f, TableBytes(Len(job.cand)), TableValue)
        /\ job' = [job EXCEPT !.table = f, !.tableSize = TableBytes(Len(job.cand))]
    /\ tpc' = "tableSync"
    /\ UNCHANGED <<memVars, pc, read, up, crashes, trims>>

TableSynced ==
    /\ up /\ tpc = "tableSync"
    /\ PublishObject(job.table, job.tableSize)
    /\ tpc' = "anchor"
    /\ UNCHANGED <<pendingIntervals, indexErr, grid, pc, job, read, up, crashes, trims>>

\* appendPackedAnchorLocked: two writes and a sync.
AnchorFirst ==
    /\ up /\ tpc = "anchor"
    /\ indexEnd + 2 <= IndexCap
    /\ WriteIndex(WriteAt(idx, indexEnd, <<Anchor(job.table)>>))
    /\ tpc' = "anchorSecond"
    /\ UNCHANGED <<memVars, gridVars, pc, job, read, up, crashes, trims>>

AnchorSecond ==
    /\ up /\ tpc = "anchorSecond"
    /\ WriteIndex(WriteAt(idx, indexEnd + 1, <<Plain(job.table, job.tableSize)>>))
    /\ tpc' = "anchorSync"
    /\ UNCHANGED <<memVars, gridVars, pc, job, read, up, crashes, trims>>

\* A wrong variant: RAM's end of the index stays in front of the anchor.
AnchorSynced_EndNotMoved ==
    /\ up /\ tpc = "anchorSync"
    /\ Sync
    /\ tpc' = "load"
    /\ UNCHANGED <<memVars, grid, pc, job, read, up, crashes, trims>>

AnchorSynced ==
    /\ up /\ tpc = "anchorSync"
    /\ Sync
    /\ indexEnd' = indexEnd + 2
    /\ tpc' = "load"
    /\ UNCHANGED <<confirmed, intervals, pendingIntervals, indexErr, grid, pc, job, read,
                   up, crashes, trims>>

\* loadPackedTablesLocked and verifyPackedCandidatesLocked: the references of
\* the candidates are swapped while Gets go on.
LoadTable ==
    LET t == Bytes(confirmed[job.table])
    IN  /\ up /\ tpc = "load"
        /\ t.kind = "table"
        /\ confirmed' = [f \in Fids |-> IF Lists(t, f) THEN PackedRef(t, EntryFor(t, f))
                                        ELSE confirmed[f]]
        /\ tpc' = "tombs"
        /\ UNCHANGED <<intervals, pendingIntervals, indexEnd, indexErr, idxVars, gridVars,
                       pc, job, read, up, crashes, trims>>

\* A wrong variant: nobody looks whether the index is full.
AppendTombstone_NoLimit ==
    /\ up /\ tpc = "tombs"
    /\ job.tombs < Len(job.cand)
    /\ WriteIndex(WriteAt(idx, indexEnd, <<Tomb(job.cand[job.tombs + 1])>>))
    /\ indexEnd' = indexEnd + 1
    /\ job' = [job EXCEPT !.tombs = @ + 1]
    /\ UNCHANGED <<confirmed, intervals, pendingIntervals, indexErr, gridVars, pc, tpc, read,
                   up, crashes, trims>>

AppendTombstone ==
    /\ up /\ tpc = "tombs"
    /\ job.tombs < Len(job.cand)
    /\ indexEnd < IndexCap
    /\ WriteIndex(WriteAt(idx, indexEnd, <<Tomb(job.cand[job.tombs + 1])>>))
    /\ indexEnd' = indexEnd + 1
    /\ job' = [job EXCEPT !.tombs = @ + 1]
    /\ UNCHANGED <<confirmed, intervals, pendingIntervals, indexErr, gridVars, pc, tpc, read,
                   up, crashes, trims>>

TombstonesSynced ==
    /\ up /\ tpc = "tombs"
    /\ job.tombs = Len(job.cand)
    /\ Sync
    /\ tpc' = "compact"
    /\ UNCHANGED <<memVars, grid, pc, job, read, up, crashes, trims>>
-----------------------------------------------------------------------------
(* compactIndexLocked.                                                     *)

\* The records to keep, collected after a sync into a temporary file.
Collected == Compacted(idx)

CompactCollect ==
    /\ up /\ tpc = "compact"
    /\ Sync
    /\ job' = [job EXCEPT !.target = Collected, !.sector = 0]
    /\ tpc' = "copy"
    /\ UNCHANGED <<memVars, grid, pc, read, up, crashes, trims>>

\* A wrong variant: the copy goes from the end to the beginning.
CopySector_Backwards ==
    LET first == IndexCap - (job.sector + 1) * SectorLen
    IN  /\ up /\ tpc = "copy"
        /\ job.sector \in Sectors
        /\ WriteIndex([i \in 1 .. IndexCap |-> IF i \in first + 1 .. first + SectorLen
                                               THEN job.target[i] ELSE idx[i]])
        /\ job' = [job EXCEPT !.sector = @ + 1]
        /\ UNCHANGED <<memVars, gridVars, pc, tpc, read, up, crashes, trims>>

\* The temporary file is copied over the index, sector after sector.
CopySector ==
    LET first == job.sector * SectorLen
    IN  /\ up /\ tpc = "copy"
        /\ job.sector \in Sectors
        /\ WriteIndex([i \in 1 .. IndexCap |-> IF i \in first + 1 .. first + SectorLen
                                               THEN job.target[i] ELSE idx[i]])
        /\ job' = [job EXCEPT !.sector = @ + 1]
        /\ UNCHANGED <<memVars, gridVars, pc, tpc, read, up, crashes, trims>>

\* The copy is synced and replayed into memory; this frees the extents of the
\* packed objects.
CompactDone ==
    /\ up /\ tpc = "copy"
    /\ job.sector \notin Sectors
    /\ Sync
    /\ \E r \in {Replay(Disk, idx, grid)} :
        /\ indexErr' = ~r.ok
        /\ confirmed' = IF r.ok THEN r.refs ELSE confirmed
        /\ intervals' = IF r.ok THEN r.exts ELSE intervals
        /\ indexEnd' = IF r.ok THEN End(idx) ELSE indexEnd
    /\ tpc' = "idle"
    /\ job' = NoJob
    /\ UNCHANGED <<pendingIntervals, grid, pc, read, up, crashes, trims>>
-----------------------------------------------------------------------------
(* Failures of Trim, of the process, and reads.                            *)

\* A wrong variant: the nonce loop of the container never gives up.
FailPoints_EndlessNonces ==
    {"containerSync", "table", "tableSync", "anchor", "load", "tombs", "compact"}

\* Where an error ends maybeTrim: the six fail points of the source, a full
\* index, no usable hash, or a failing write or sync.  Nothing is undone.
FailPoints ==
    {"container", "containerSync", "table", "tableSync", "anchor", "load", "tombs", "compact"}
        \cup (IF "anchor-write" \in Faults THEN {"anchorSecond"} ELSE {})
        \cup (IF "anchor-sync" \in Faults THEN {"anchorSync"} ELSE {})
        \cup (IF "copy-io" \in Faults THEN {"copy"} ELSE {})

TrimFail ==
    /\ up /\ tpc \in FailPoints
    /\ tpc' = "idle"
    /\ job' = NoJob
    /\ UNCHANGED <<memVars, idxVars, gridVars, pc, read, up, crashes, trims>>

\* Server.Get: lookup ...
GetLookup(f) ==
    /\ up /\ ~indexErr /\ read = NoRead
    /\ confirmed[f] # NoRef
    /\ read' = [fid |-> f, ref |-> confirmed[f]]
    /\ UNCHANGED <<memVars, idxVars, gridVars, pc, tpc, job, up, crashes, trims>>

\* ... and readRange with the reference of the lookup.
GetRead ==
    /\ up /\ read # NoRead
    /\ read' = NoRead
    /\ UNCHANGED <<memVars, idxVars, gridVars, pc, tpc, job, up, crashes, trims>>

\* Memory is gone, and the Puts in progress with it.
ProcessEnds ==
    /\ confirmed' = [f \in Fids |-> NoRef]
    /\ intervals' = {} /\ pendingIntervals' = {} /\ indexEnd' = 0 /\ indexErr' = FALSE
    /\ pc' = [p \in Puts |-> IF pc[p] \in {"idle", "acked"} THEN pc[p] ELSE "failed"]
    /\ tpc' = "idle" /\ job' = NoJob /\ read' = NoRead
    /\ up' = FALSE
    /\ crashes' = crashes + 1
    /\ UNCHANGED trims

\* Every sector holds one of the contents in doubt, every dirty slot is whole
\* or lost.
Crash ==
    /\ up /\ "crash" \in Faults /\ crashes < MaxCrashes
    /\ \E pick \in [Sectors -> UNION {media[j] : j \in Sectors}] :
        /\ \A j \in Sectors : pick[j] \in media[j]
        /\ idx' = [i \in 1 .. IndexCap |->
                     pick[(i - 1) \div SectorLen][((i - 1) % SectorLen) + 1]]
        /\ media' = [j \in Sectors |-> {pick[j]}]
    /\ \E lost \in SUBSET dirty :
        grid' = [s \in DOMAIN grid |-> IF s \in lost THEN Junk ELSE grid[s]]
    /\ dirty' = {}
    /\ ProcessEnds

\* A signal: Close stops the ticker, waits for the RPCs in progress and closes
\* the disk under a Trim that is running, whose next call fails.  What was
\* written stays.
Shutdown ==
    /\ up /\ crashes < MaxCrashes
    /\ \A p \in Puts : pc[p] \in {"idle", "acked", "failed"}
    /\ read = NoRead
    /\ ProcessEnds
    /\ UNCHANGED <<idxVars, gridVars>>

\* OpenDevice.
Boot ==
    LET r == Replay(Disk, idx, grid)
    IN  /\ ~up /\ r.ok
        /\ confirmed' = r.refs
        /\ intervals' = r.exts
        /\ indexEnd' = End(idx)
        /\ up' = TRUE
        /\ UNCHANGED <<pendingIntervals, indexErr, idxVars, gridVars, pc, tpc, job, read,
                       crashes, trims>>
-----------------------------------------------------------------------------
PutNext(p) ==
    \/ PutPrepare(p) \/ PutStream(p) \/ PutCommit(p) \/ PutPublish(p)
    \/ PutAbort(p) \/ PutRollback(p)

\* maybeTrim runs on from any of its steps.
TrimStep ==
    \/ TrimFail
    \/ WriteContainer \/ ContainerSynced \/ WriteTable \/ TableSynced
    \/ AnchorFirst \/ AnchorSecond \/ AnchorSynced
    \/ LoadTable \/ AppendTombstone \/ TombstonesSynced
    \/ CompactCollect \/ CopySector \/ CompactDone

Running ==
    \/ \E p \in Puts : PutNext(p)
    \/ TrimStart \/ TrimStep
    \/ (\E f \in ReadNames : GetLookup(f)) \/ GetRead
    \/ Crash \/ Shutdown

Next == Running \/ Boot

Spec == Init /\ [][Next]_vars

\* maybeTrim is a function call: it runs, and its disk calls return.
FairSpec == Spec /\ WF_vars(TrimStep)
-----------------------------------------------------------------------------
(* Properties.                                                             *)

TrimPCs == {"idle", "container", "containerSync", "table", "tableSync", "anchor",
            "anchorSecond", "anchorSync", "load", "tombs", "compact", "copy"}

Refs == [fid : Nat, storedSize : Nat, size : Nat, offset : Nat, packed : BOOLEAN]

\* Every variable has its type, and RAM's end of the index lies inside it.
TrimTypeOK ==
    /\ DOMAIN idx = 1 .. IndexCap
    /\ DOMAIN media = Sectors
    /\ DOMAIN grid = GridSlots(Disk) /\ dirty \subseteq GridSlots(Disk)
    /\ confirmed \in [Fids -> Refs]
    /\ intervals \subseteq Intervals /\ pendingIntervals \subseteq Intervals
    /\ indexEnd \in 0 .. IndexCap
    /\ pc \in [Puts -> {"idle", "stream", "commit", "sync", "abort", "acked", "failed"}]
    /\ tpc \in TrimPCs
    /\ read.fid \in AllNames \cup {0} /\ read.ref \in Refs

\* The size under which a name of Put p is served.
LogicalSize(p, f) == IF f = Header[p].fid THEN Header[p].size ELSE Header[p].size - 1

\* The reference delivers the payload of Put p under its name f.
Right(ref, p, f) == ref # NoRef /\ ref.size = LogicalSize(p, f) /\ Bytes(ref) = Data(p)

Acked == {p \in Puts : pc[p] = "acked"}

\* An acknowledged object reads back, byte for byte, at every moment: during
\* a trim, after a failed one, after a crash in any of its steps, and after
\* its extent has been handed to somebody else.
AckedReadable ==
    up /\ ~indexErr => \A p \in Acked : \A f \in Names(Header[p]) : Right(confirmed[f], p, f)

\* The next boot accepts ix and serves every acknowledged object from it.
BootServes(ix) ==
    \E r \in {Replay(Disk, ix, grid)} :
        /\ r.ok
        /\ \A p \in Acked : \A f \in Names(Header[p]) : Right(r.refs[f], p, f)

\* The index without an anchor that has no second entry, at its end.
WithoutHalf(ix) ==
    IF End(ix) # 0 /\ ix[End(ix)].kind = "anchor" THEN WriteAt(ix, End(ix) - 1, <<ZeroEntry>>)
    ELSE ix

\* Where the process ends, by a signal or with the host, in any step of Puts
\* and of Trim, the next boot accepts the index and serves every acknowledged
\* object, but for one case: between the two writes of an anchor the first is
\* left alone, and replayIndex refuses it.  Without that entry the boot would
\* serve all.  Each write of the index is whole or not there; where the copy
\* of the compacted index is cut off, TrimErrorLosesNothing and IndexTools
\* have the answer.
HalfAnchorAtMost == ~up => BootServes(WithoutHalf(idx))

\* The in-place compaction never leaves the disk out of service.
NeverFaulted == ~indexErr

\* What a reference in memory points to is covered by a confirmed extent, and
\* no two extents, confirmed or being streamed into, overlap: Trim frees no
\* space somebody still refers to and takes none somebody is writing.
ReferencedIsReserved ==
    up /\ ~indexErr =>
        /\ \A f \in Fids : confirmed[f] # NoRef =>
             Extent(Disk, confirmed[f].fid, confirmed[f].storedSize) \in intervals
        /\ \A a, b \in Extents : a # b => ~Overlaps(a, b)
        /\ intervals \cap pendingIntervals = {}

\* Whenever the disk is quiet, reopening it would succeed and serve every name
\* memory serves, with the same bytes (and possibly more: an entry whose sync
\* failed is known to the index only).
ReopenServesTheSame ==
    up /\ MuFree =>
        \A r \in {Replay(Disk, idx, grid)} :
            /\ r.ok
            /\ \A f \in Fids :
                 \/ confirmed[f] \in {NoRef, r.refs[f]}
                 \/ /\ r.refs[f] # NoRef
                    /\ r.refs[f].size = confirmed[f].size
                    /\ Bytes(r.refs[f]) = Bytes(confirmed[f])

\* Compacting the index, by Trim or offline by the bsos tool, changes nothing
\* a replay of it serves.
CompactionPreserves ==
    ~up \/ tpc = "compact" =>
        LET r == Replay(Disk, idx, grid)
            c == Replay(Disk, Compacted(idx), grid)
        IN  r.ok => c.ok /\ c.refs = r.refs /\ c.exts = r.exts

\* The Put whose name f is.
Owner(f) == CHOOSE p \in Puts : f \in Names(Header[p])

\* A Get that looked its object up reads the right bytes as long as its
\* reference is still the published one, or points into a container:
\* containers never move and are never freed.
CurrentRefReadsRight ==
    read # NoRead /\ (read.ref = confirmed[read.fid] \/ read.ref.packed) =>
        Right(read.ref, Owner(read.fid), read.fid)

\* index_state.go: "objectRef is immutable after publication", so a Get may
\* use the reference it looked up without holding a lock: what it reads with
\* it is the object it asked for.
LookedUpReadsRight ==
    read # NoRead => Right(read.ref, Owner(read.fid), read.fid)

\* docs/MILESTONE_5_VALIDATION_2026-09-10.md: an error in any intermediate
\* step of Trim loses no data, and all of it is read back; and
\* docs/MILESTONE_7_VALIDATION_2026-09-10.md: Close drains the RPCs, stops the
\* Trim scheduler, persists the index atomically and only then closes the
\* disks.  So whenever the process has ended, or Trim has given up and nobody
\* writes, a boot accepts the index and serves every acknowledged object.
TrimErrorLosesNothing == ~up \/ MuFree => BootServes(idx)

\* maybeTrim comes to an end and gives mu back, whatever fails in it.
EveryTrimEnds == tpc # "idle" ~> tpc = "idle"
=============================================================================
