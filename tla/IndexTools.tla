------------------------------ MODULE IndexTools ------------------------------
(***************************************************************************)
(* The offline index tools on the disk of TrimDisk, while its daemon is    *)
(* down: `bsos blk index-backup`, `index-compact`, `index-restore` and     *)
(* `packed-scrub --fix`.  Restore and scrub write the index in place, unit *)
(* after unit, and may die in between; a packed table may go bad on the    *)
(* medium.                                                                 *)
(*                                                                         *)
(* The tools check magic, version, size and disk id and ask for "yes";     *)
(* here the disk is one of ours, the backup is of this disk, and the       *)
(* operator agrees.  A backup that was cut short is refused by its size.   *)
(***************************************************************************)
EXTENDS TrimDisk

VARIABLES
    tool,     \* [pc, sector, target]: the tool that is writing to the disk
    backup,   \* the index file at hand: [ix, of, trims], of = what it was taken from
    gone      \* history: names that only a table which went bad could locate

toolVars == <<tool, backup, gone>>
allVars  == <<vars, toolVars>>

\* pc: "idle"; "restore" and "scrub" while they copy; "torn" when a restore
\* died; "restored" and "scrubbed" when they reported OK.
NoTool    == [pc |-> "idle", sector |-> 0, target |-> <<>>]
NoBackup  == [ix |-> <<>>, of |-> <<>>, trims |-> 0]
NothingGone == {0}

ToolsInit == Init /\ tool = NoTool /\ backup = NoBackup /\ gone = NothingGone
-----------------------------------------------------------------------------
(* ValidateCompacted.                                                       *)

\* Pairs are complete (but for the last entry), nothing is a tombstone, and
\* no fid heads two records.
Validates(ix) ==
    LET n == End(ix)
        second == PairEnds(ix)
    IN  \A i \in 1 .. n :
            /\ second[i] => ix[i].kind = "plain"
            /\ ~second[i] => /\ ix[i].kind # "tomb"
                             /\ \A j \in 1 .. i - 1 : ~second[j] => ix[j].fid # ix[i].fid
-----------------------------------------------------------------------------
(* Faults.                                                                  *)

\* The live anchors; the entry behind each has the fid and the size of a table.
Anchors(ix) == {i \in LatestHeads(ix) : ix[i].kind = "anchor"}

TableAt(e) == Deliver(Disk, grid, Own(e.fid, e.size))

\* validatePackedTableObject, which asks what decodePackedTable asks.
BadTable(e) == TableAt(e).kind # "table"

OwnRecord(f) == \E i \in LatestHeads(idx) : idx[i].kind = "plain" /\ idx[i].fid = f

\* A packed table goes bad, once.
TableRots ==
    /\ ~up /\ tool.pc = "idle" /\ gone = NothingGone
    /\ \E e \in {idx[i + 1] : i \in Anchors(idx)} :
        /\ ~BadTable(e)
        /\ gone' = {f \in Fids : Lists(TableAt(e), f) /\ ~OwnRecord(f)}
        /\ grid' = Filled(Extent(Disk, e.fid, e.size), Junk)
    /\ UNCHANGED <<memVars, idxVars, dirty, pc, tpc, job, read, up, crashes, trims,
                   tool, backup>>
-----------------------------------------------------------------------------
(* index-backup and index-compact.                                          *)

BackupOf(ix) == [ix |-> ix, of |-> ix, trims |-> trims]

Backup ==
    /\ ~up /\ tool.pc = "idle" /\ backup = NoBackup
    /\ backup' = BackupOf(idx)
    /\ UNCHANGED <<vars, tool, gone>>

\* index-compact writes the records to a second file and validates it.
CompactBackup ==
    /\ ~up /\ tool.pc = "idle" /\ backup # NoBackup
    /\ backup.ix = backup.of
    /\ Validates(Compacted(backup.ix))
    /\ backup' = [backup EXCEPT !.ix = Compacted(@)]
    /\ UNCHANGED <<vars, tool, gone>>
-----------------------------------------------------------------------------
(* index-restore and packed-scrub.                                          *)

RestoreStarts ==
    /\ ~up /\ tool.pc \in {"idle", "torn"} /\ backup # NoBackup
    /\ tool' = [pc |-> "restore", sector |-> 0, target |-> backup.ix]
    /\ UNCHANGED <<vars, backup, gone>>

\* findPackedAnchorIssues: the anchors whose table is bad.
Issues(ix) == {i \in Anchors(ix) : BadTable(ix[i + 1])}

\* A wrong variant: the second entry of a pair is not written.
Scrubbed_HeadsOnly(ix) == Image(ix, LatestHeads(ix) \ Issues(ix))

\* fixPackedAnchorsOnDevice: the latest records without the anchors of bad
\* tables.  No two of the records have one fid.
Scrubbed(ix) ==
    LET keep == LatestHeads(ix) \ Issues(ix)
    IN  Image(ix, keep \cup {i + 1 : i \in {j \in keep : ix[j].kind # "plain"}})

\* A backup is taken, the new index is built beside it and validated.
ScrubStarts ==
    /\ ~up /\ tool.pc = "idle"
    /\ Issues(idx) # {}
    /\ Validates(Scrubbed(idx))
    /\ backup' = BackupOf(idx)
    /\ tool' = [pc |-> "scrub", sector |-> 0, target |-> Scrubbed(idx)]
    /\ UNCHANGED <<vars, gone>>

\* A wrong variant: what is zero in the new index is not written.
ToolCopies_SkipsZeros ==
    LET first == tool.sector * SectorLen
    IN  /\ tool.pc \in {"restore", "scrub"} /\ tool.sector \in Sectors
        /\ WriteIndex([i \in 1 .. IndexCap |-> IF /\ i \in first + 1 .. first + SectorLen
                                                  /\ tool.target[i] # ZeroEntry
                                               THEN tool.target[i] ELSE idx[i]])
        /\ tool' = [tool EXCEPT !.sector = @ + 1]
        /\ UNCHANGED <<memVars, gridVars, pc, tpc, job, read, up, crashes, trims, backup, gone>>

\* The copy onto the disk.  Neither tool syncs.
ToolCopies ==
    LET first == tool.sector * SectorLen
    IN  /\ tool.pc \in {"restore", "scrub"} /\ tool.sector \in Sectors
        /\ WriteIndex([i \in 1 .. IndexCap |-> IF i \in first + 1 .. first + SectorLen
                                               THEN tool.target[i] ELSE idx[i]])
        /\ tool' = [tool EXCEPT !.sector = @ + 1]
        /\ UNCHANGED <<memVars, gridVars, pc, tpc, job, read, up, crashes, trims, backup, gone>>

ToolReports ==
    /\ tool.pc \in {"restore", "scrub"} /\ tool.sector \notin Sectors
    /\ tool' = [NoTool EXCEPT !.pc = IF tool.pc = "restore" THEN "restored" ELSE "scrubbed"]
    /\ UNCHANGED <<vars, backup, gone>>

\* The tool dies, or a write fails.  A scrub is simply run again.
ToolDies ==
    /\ tool.pc \in {"restore", "scrub"} /\ tool.sector \in Sectors
    /\ tool' = [NoTool EXCEPT !.pc = IF tool.pc = "restore" THEN "torn" ELSE "idle"]
    /\ UNCHANGED <<vars, backup, gone>>

\* Nobody boots a disk whose tool did not report OK.
BootAfterTools ==
    /\ tool.pc \in {"idle", "restored", "scrubbed"}
    /\ Boot
    /\ tool' = NoTool
    /\ UNCHANGED <<backup, gone>>
-----------------------------------------------------------------------------
ToolsNext ==
    \/ Running /\ UNCHANGED toolVars
    \/ TableRots \/ Backup \/ CompactBackup
    \/ RestoreStarts \/ ScrubStarts \/ ToolCopies \/ ToolReports \/ ToolDies
    \/ BootAfterTools

ToolsSpec == ToolsInit /\ [][ToolsNext]_allVars
-----------------------------------------------------------------------------
(* Properties.                                                             *)

\* A boot from the index ix serves every acknowledged name but those in S.
ServesAllBut(S, ix) ==
    \E r \in {Replay(Disk, ix, grid)} :
        /\ r.ok
        /\ \A p \in Acked : \A f \in Names(Header[p]) \ S : Right(r.refs[f], p, f)

\* The copy was cut between the two entries of a pair: the second one stands
\* alone, and counts as a record of its own.
PairCut(ix) ==
    \E j \in Sectors \ {0} :
        LET e == ix[j * SectorLen + 1]
        IN  /\ e.kind = "plain" /\ ix[j * SectorLen].kind \notin {"jump", "anchor"}
            /\ \E i \in LatestHeads(ix) : ix[i].kind # "plain" /\ ix[i + 1] = e

\* packed-scrub makes a disk with a bad table bootable and gives up only the
\* names that table alone could locate: an object that Trim had packed but
\* not yet retired is served from its own extent again.  The index may be one
\* that Trim's copy, or an earlier scrub, had half rewritten, unless the cut
\* went through a pair (PairCut).
ScrubLosesOnlyTheTable ==
    tool.pc = "scrubbed" /\ ~PairCut(backup.ix) => ServesAllBut(gone, idx)

\* index-restore brings back what a boot would have served when the backup
\* was taken, compacted or not, and whatever an interrupted restore had left;
\* the bytes are still there unless Trim ran since.
RestoreBringsBack ==
    tool.pc = "restored" =>
        \E r \in {Replay(Disk, backup.of, grid)}, now \in {Replay(Disk, idx, grid)} :
            r.ok => /\ now.ok /\ now.refs = r.refs
                    /\ trims = backup.trims =>
                         \A p \in Acked : \A f \in Names(Header[p]) :
                             r.refs[f] # NoRef => Right(now.refs[f], p, f)

\* However the daemon was stopped, between the two writes of an anchor and in
\* the middle of the in-place copy of the index too, index-compact accepts the
\* index of the disk and makes one of it that a boot serves every acknowledged
\* name from.  There are two exceptions.
\* The copy may be cut inside a pair.  And this is so only until the daemon
\* has run on a half-copied index: the old entries behind the first zero
\* entry come back into view once its appends have filled the gap.
IndexRecoverable ==
    ~up /\ tool.pc = "idle" /\ gone = NothingGone /\ crashes = 1 /\ ~PairCut(idx) =>
        \E c \in {Compacted(idx)} : Validates(c) /\ ServesAllBut({}, c)
=============================================================================
