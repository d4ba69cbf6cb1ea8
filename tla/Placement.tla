------------------------------ MODULE Placement ------------------------------
(***************************************************************************)
(* Hash placement: blk.AddrForFID maps a fid and a size to a run of slots  *)
(* of a disk's data grid, with no allocation table; the extents it yields  *)
(* are what reservations and commits compare.                              *)
(***************************************************************************)
EXTENDS Naturals

CONSTANTS
    Disks,
    Slots,      \* Slots[d] = number of grid slots of disk d
    SlotSize    \* bytes per slot

SlotsNeeded(size) == (size + SlotSize - 1) \div SlotSize

SlotIndex(d, fid, size) == fid % (Slots[d] - SlotsNeeded(size) + 1)

\* AddrForFID returns no ErrOutOfRange.
AddrOK(d, fid, size) ==
    /\ SlotsNeeded(size) # 0
    /\ SlotsNeeded(size) <= Slots[d]
    /\ SlotIndex(d, fid, size) + SlotsNeeded(size) <= Slots[d]

Extent(d, fid, size) ==
    [start |-> SlotIndex(d, fid, size),
     end   |-> SlotIndex(d, fid, size) + SlotsNeeded(size) - 1]

Overlaps(a, b) == a.start <= b.end /\ b.start <= a.end

Intervals == [start : Nat, end : Nat]

GridSlots(d) == 0 .. Slots[d] - 1

ExtentOf(d, o) == Extent(d, o.fid, o.size)

SlotsOf(d, o) == ExtentOf(d, o).start .. ExtentOf(d, o).end
=============================================================================
