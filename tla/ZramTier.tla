------------------------------- MODULE ZramTier -------------------------------
(***************************************************************************)
(* The zram tier of a pool: a block device in RAM, and the snapshot of it  *)
(* that `bsos zram flush` keeps on an ordinary filesystem.  Flush hashes   *)
(* the device, reads it again into a compressed file, renames that into    *)
(* place and then writes the checksum file; the daemon may be writing to   *)
(* the device all the while.                                               *)
(*                                                                         *)
(* A device is an image: the index (with the header before it) and the     *)
(* slots of the grid, read one after the other.  The hash of an image is   *)
(* the image.                                                              *)
(***************************************************************************)
EXTENDS Naturals, FiniteSets

CONSTANTS
    Names,     \* objects that may live in the tier
    SlotOf,    \* SlotOf[n] = the slot that the hash of n places it in
    NSlots,    \* slots of the device; the last one is free for containers
    Devs,      \* the kernel's zram devices, by number
    MaxFlush   \* bound on runs of `bsos zram flush`

Slots     == 1 .. NSlots
Container == NSlots
Units     == NSlots + 1       \* the index, then the slots
Nothing   == "nothing"
NoDev     == 99

ASSUME TierAssumption ==
    /\ NSlots \in Nat \ {0}
    /\ SlotOf \in [Names -> Slots]
    /\ Nothing \notin Names
    /\ IsFiniteSet(Devs) /\ Devs \subseteq Nat /\ NoDev \notin Devs

Refs   == Names \X Slots
Images == [index : SUBSET Refs, grid : [Slots -> Names \cup {Nothing}]]
Blank  == [index |-> {}, grid |-> [s \in Slots |-> Nothing]]

VARIABLES
    dev,     \* per device: [use, img]; use is "empty", "other", "sized" or "tier"
    pan,     \* the path pan.json has for the tier, NoDev when it has none
    zst,     \* [is, img]: <id>.zst is "absent", "whole" or "garbage"
    meta,    \* [is, img]: <id>.sha256 is "absent", "whole" or "garbage" (empty)
    saved,   \* <<zst, meta>> as their filesystem has them on its disk
    flush,   \* the run of `bsos zram flush`: [pc, dev, k, sum, tmp, runs]
    half     \* history: devices on which a restore began that has not ended well

fileVars == <<pan, zst, meta, saved>>
tierVars == <<dev, half, fileVars, flush>>

EmptyDev   == [use |-> "empty", img |-> Blank]
OtherDev   == [use |-> "other", img |-> Blank]
TierDev(i) == [use |-> "tier", img |-> i]
Absent     == [is |-> "absent", img |-> Blank]
Garbage    == [is |-> "garbage", img |-> Blank]
Whole(i)   == [is |-> "whole", img |-> i]
NoFlush    == [pc |-> "idle", dev |-> NoDev, k |-> 0, sum |-> Blank, tmp |-> Blank, runs |-> 0]

\* A new tier on the first device, never flushed or flushed while it was new.
TierInit ==
    /\ \E d \in Devs : /\ \A e \in Devs : d <= e
                       /\ dev = [e \in Devs |-> IF e = d THEN TierDev(Blank) ELSE EmptyDev]
                       /\ pan = d
    /\ zst \in {Absent, Whole(Blank)} /\ meta = zst /\ saved = <<zst, meta>>
    /\ flush = NoFlush /\ half = {}

\* Unit k of src over that of dst.
CopyUnit(dst, src, k) ==
    [index |-> IF k = 1 THEN src.index ELSE dst.index,
     grid  |-> [s \in Slots |-> IF s + 1 = k THEN src.grid[s] ELSE dst.grid[s]]]
-----------------------------------------------------------------------------
(* RunFlush, flushDevice.                                                   *)

\* The device pan.json names carries the tier's header.  Its path is read once;
\* a boot may write another one to pan.json while the flush goes on.
FlushTarget == pan \in Devs /\ dev[pan].use = "tier"

FlushStarts ==
    /\ flush.pc = "idle" /\ flush.runs < MaxFlush
    /\ FlushTarget
    /\ flush' = [NoFlush EXCEPT !.pc = "hash", !.dev = pan, !.k = 1, !.runs = flush.runs + 1]
    /\ UNCHANGED <<dev, half, fileVars>>

\* hashDevice.  A device that was given back in the meantime cannot be read.
FlushHashes ==
    /\ flush.pc = "hash" /\ flush.k <= Units
    /\ dev[flush.dev].use # "empty"
    /\ flush' = [flush EXCEPT !.sum = CopyUnit(@, dev[flush.dev].img, flush.k), !.k = @ + 1]
    /\ UNCHANGED <<dev, half, fileVars>>

\* A wrong variant: the size alone decides that nothing has changed.
Unchanged_SizeOnly == meta.is = "whole"

\* The checksum file records the size (always the same) and this hash.
Unchanged == meta.is = "whole" /\ meta.img = flush.sum

FlushEnd == flush' = [NoFlush EXCEPT !.runs = flush.runs]

FlushSkips ==
    /\ flush.pc = "hash" /\ flush.k > Units
    /\ Unchanged
    /\ FlushEnd
    /\ UNCHANGED <<dev, half, fileVars>>

FlushCopyStarts ==
    /\ flush.pc = "hash" /\ flush.k > Units
    /\ ~Unchanged
    /\ flush' = [flush EXCEPT !.pc = "copy", !.k = 1]
    /\ UNCHANGED <<dev, half, fileVars>>

\* snapshotDeviceCompressed into the .tmp file, validateZstd at its end.
FlushCopies ==
    /\ flush.pc = "copy" /\ flush.k <= Units
    /\ dev[flush.dev].use # "empty"
    /\ flush' = [flush EXCEPT !.tmp = CopyUnit(@, dev[flush.dev].img, flush.k), !.k = @ + 1]
    /\ UNCHANGED <<dev, half, fileVars>>

FlushRenames ==
    /\ flush.pc = "copy" /\ flush.k > Units
    /\ zst' = Whole(flush.tmp)
    /\ flush' = [flush EXCEPT !.pc = "meta", !.tmp = Blank]
    /\ UNCHANGED <<dev, half, pan, meta, saved>>

\* writeSnapshotMeta: os.WriteFile truncates, then writes.
FlushTruncatesMeta ==
    /\ flush.pc = "meta"
    /\ meta' = Garbage
    /\ flush' = [flush EXCEPT !.pc = "metaw"]
    /\ UNCHANGED <<dev, half, pan, zst, saved>>

FlushWritesMeta ==
    /\ flush.pc = "metaw"
    /\ meta' = Whole(flush.sum)
    /\ FlushEnd
    /\ UNCHANGED <<dev, half, pan, zst, saved>>

\* An error of any of its calls, or its own death, ends the flush as it is.
FlushFails ==
    /\ flush.pc # "idle"
    /\ FlushEnd
    /\ UNCHANGED <<dev, half, fileVars>>

\* The page cache reaches the disk; nothing in flush forces it to.
Writeback ==
    /\ saved # <<zst, meta>> /\ saved' = <<zst, meta>>
    /\ UNCHANGED <<dev, half, pan, zst, meta, flush>>

FlushStep ==
    \/ FlushHashes \/ FlushSkips \/ FlushCopyStarts \/ FlushCopies
    \/ FlushRenames \/ FlushTruncatesMeta \/ FlushWritesMeta \/ FlushFails
-----------------------------------------------------------------------------
(* validateSnapshot and the devices of the kernel.                          *)

\* A wrong variant: the checksum file is only required to exist.
Accepted_NoChecksum == zst.is = "whole" /\ meta.is # "absent"

\* Size and header are right and the decoded bytes have the recorded hash.
Accepted == zst.is = "whole" /\ meta.is = "whole" /\ meta.img = zst.img

\* kernelRecovery.devices: those that carry a header.
Live == {d \in Devs : dev[d].use = "tier"}

\* newZramAllocator, next: the first device without a size; hot_add may be
\* missing.
Unused == {d \in Devs : dev[d].use = "empty"}
FirstUnused == CHOOSE d \in Unused : \A e \in Unused : d <= e

\* kernelRecovery.restore: the size is set; the snapshot is written from the
\* front, the header with the first unit; the device is compared with the
\* snapshot, which is validated again.
SizeSet(d) ==
    /\ dev[d].use = "empty"
    /\ dev' = [dev EXCEPT ![d] = [use |-> "sized", img |-> Blank]]
    /\ half' = half \cup {d}

UnitRestored(d, img, k) ==
    /\ dev' = [dev EXCEPT ![d] = TierDev(CopyUnit(dev[d].img, img, k))]
    /\ UNCHANGED half

Restored(d) ==
    /\ Accepted /\ zst.img = dev[d].img
    /\ half' = half \ {d}
    /\ UNCHANGED dev

\* The deferred reset after an error.  The kernel refuses it for a device that
\* somebody has open; an error of it is ignored.
GivenBack(d, open) ==
    \/ /\ ~open
       /\ dev' = [dev EXCEPT ![d] = EmptyDev]
       /\ half' = half \ {d}
    \/ UNCHANGED <<dev, half>>

\* Flush has the device open while it reads it.
FlushReads(d) ==
    flush.pc \in {"hash", "copy"} /\ flush.k <= Units /\ flush.dev = d

\* What a file that was not written back may be after a power failure.
Surviving(now, before) == IF now = before THEN {now} ELSE {now, before, Garbage}

\* RAM is gone.  After the boot some devices may belong to somebody else.
TierPowerLoss ==
    /\ dev' \in [Devs -> {EmptyDev, OtherDev}]
    /\ zst' \in Surviving(zst, saved[1])
    /\ meta' \in Surviving(meta, saved[2])
    /\ saved' = <<zst', meta'>>
    /\ FlushEnd
    /\ half' = {}
    /\ UNCHANGED pan
=============================================================================
