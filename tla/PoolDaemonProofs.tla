--------------------------- MODULE PoolDaemonProofs ---------------------------
(***************************************************************************)
(* Proofs about PoolDaemon, for every set of objects and devices, every    *)
(* number of flushes, failures and loads, and wherever a restore is cut    *)
(* off.                                                                    *)
(*                                                                         *)
(* Why a snapshot that validates is whole.  Puts and Trim only ever move   *)
(* an index forward: a name that is in it stays, and moves at most once,   *)
(* into the container.  So an index that flush finds unchanged between the *)
(* pass that hashes the device and the pass that copies it did not change  *)
(* in between, and neither did the slots it refers to.  A file or checksum *)
(* that is not whole carries an index the device has left behind for good, *)
(* and can never be matched by a later one.                                *)
(***************************************************************************)
EXTENDS PoolDaemon, NatLemmas

Uses      == {"empty", "other", "sized", "tier"}
DevStates == [use : Uses, img : Images]
Files     == [is : {"absent", "whole", "garbage"}, img : Images]
Paths     == Devs \cup {NoDev}
Flushes   == [pc : {"idle", "hash", "copy", "meta", "metaw"}, dev : Paths, k : Nat,
              sum : Images, tmp : Images, runs : Nat]
Procs     == {"down", "allocate", "size", "restore", "restored", "opened", "serving"}
Boots     == [dev : Paths, k : Nat, img : Images]
Loads     == [pc : {"idle", "size", "restore"}, dev : Paths, k : Nat, img : Images, runs : Nat]
Puts      == [pc : {"idle", "header", "wrote"}, at : {"zram", "disk", Nothing}, tries : Nat]

TypeInv ==
    /\ dev \in [Devs -> DevStates] /\ pan \in Devs
    /\ zst \in Files /\ meta \in Files /\ saved \in Files \X Files
    /\ flush \in Flushes
    /\ flush.pc # "idle" => flush.dev \in Devs
    /\ flush.pc \in {"hash", "copy"} => flush.k > 0
    /\ proc \in Procs /\ boot \in Boots /\ zdev \in Paths /\ degraded \in BOOLEAN
    /\ disk \subseteq Names /\ risky \subseteq Names
    /\ put \in [Names -> Puts] /\ trim \in Names \cup {Nothing}
    /\ close \in {"no", "draining", "closed"}
    /\ get \in Nat /\ load \in Loads /\ half \subseteq Devs
    /\ faults \in Nat /\ calm \in BOOLEAN /\ spoiled \in BOOLEAN

\* RestorePool is at work on the tier.
Recovering == proc \in {"allocate", "size", "restore"}

\* The devices that carry a complete tier: no restore was left on them.
Stable == Live \ half

\* A restore is writing to d and has written k units.
RestoreInv(d, k) ==
    /\ d \in half /\ k <= Units
    /\ dev[d].use = IF k = 0 THEN "sized" ELSE "tier"

\* Where the boot and the load are, and what has become of their devices.
BootInv ==
    /\ zdev # NoDev => proc \in {"restored", "opened", "serving"}
    /\ proc \in {"opened", "serving"} => zdev \in {NoDev, pan} /\ (zdev # NoDev => zdev \in Live)
    /\ (proc \in {"restored", "opened", "serving"} /\ zdev = NoDev) => degraded
    /\ close # "no" => proc \in {"opened", "serving"}
    /\ \A d \in half : dev[d].use \in {"sized", "tier"}
    /\ proc \in {"allocate", "size"} => boot.k = 0
    /\ proc \in {"size", "restore"} => boot.dev \in Devs
    /\ proc = "restore" => RestoreInv(boot.dev, boot.k)
    /\ load.pc = "size" => load.k = 0 /\ load.dev \in Devs
    /\ load.pc = "restore" => RestoreInv(load.dev, load.k)
    /\ (proc = "restore" /\ load.pc = "restore") => load.dev # boot.dev

\* Who is at work, and where.
PlaceInv ==
    /\ \A n \in Names :
        /\ put[n].pc # "idle" => proc = "serving"
        /\ put[n].pc = "wrote" => /\ put[n].at \in {"zram", "disk"} /\ put[n].tries > 0
                                  /\ put[n].at = "zram" => zdev # NoDev
    /\ trim # Nothing => proc \in {"opened", "serving"} /\ zdev # NoDev

\* The rest of the invariant holds as long as no boot and no flush has taken a
\* device out of an unfinished restore.
Clear == zdev # NoDev => zdev \in Stable

\* Handlers and Trim at work: their bytes are where they will say they are, no
\* entry refers to those slots, and no name is on its way to two places.
Writing(n, s) == put[n].pc = "wrote" /\ put[n].at = "zram" /\ SlotOf[n] = s

PutInv(n) ==
    put[n].pc = "wrote" =>
        /\ n \notin InTier
        /\ put[n].at = "zram" =>
            /\ n \notin disk
            /\ dev[zdev].img.grid[SlotOf[n]] = n
            /\ \A r \in dev[zdev].img.index : r[2] # SlotOf[n]
            /\ trim # Nothing => SlotOf[n] # Container
            /\ \A m \in Names : Writing(m, SlotOf[n]) => m = n

TrimInv ==
    trim # Nothing =>
        /\ <<trim, SlotOf[trim]>> \in dev[zdev].img.index /\ SlotOf[trim] # Container
        /\ dev[zdev].img.grid[Container] = trim
        /\ \A r \in dev[zdev].img.index : r[2] # Container

WorkInv == (\A n \in Names : PutInv(n)) /\ TrimInv

-----------------------------------------------------------------------------
(* Images.                                                                 *)

\* Every entry has its own bytes behind it.
Sound(i) == \A r \in i.index : i.grid[r[2]] = r[1]

\* One entry per name, in its slot or in the container.
Formed(x) ==
    /\ x \subseteq Refs
    /\ \A r, q \in x : r[1] = q[1] => r = q
    /\ \A r \in x : r[2] \in {SlotOf[r[1]], Container}

\* Puts and Trim lead from index x to index y.
Leads(x, y) ==
    \A r \in x : \/ r \in y
                 \/ /\ r[2] = SlotOf[r[1]] /\ SlotOf[r[1]] # Container
                    /\ <<r[1], Container>> \in y

\* The image is older than index x, and if it is not whole, x has moved on.
Behind(i, x) == Leads(i.index, x) /\ (Sound(i) \/ i.index # x)

\* The slots that have been read when k units were about to be.
ReadRight(i, k) == \A r \in i.index : r[2] + 1 < k => i.grid[r[2]] = r[1]

Agree(i, j, k) ==
    /\ k > 1 => i.index = j.index
    /\ \A s \in Slots : s + 1 < k => i.grid[s] = j.grid[s]

\* The snapshot and checksum files, in the page cache or on the disk.
Snaps == {zst, saved[1]}
Sums  == {meta, saved[2]}

IndexOf(d) == dev[d].img.index

\* Whatever mixture of the files is left, what validates is whole.
FilesInv ==
    /\ \A f \in Snaps \cup Sums : f.is = "whole" => Formed(f.img.index)
    /\ \A z \in Snaps, m \in Sums :
        z.is = "whole" /\ m.is = "whole" /\ m.img = z.img => Sound(z.img)

DevicesInv == \A d \in Stable : Sound(dev[d].img) /\ Formed(IndexOf(d))

-----------------------------------------------------------------------------
(* The three situations of the tier.                                        *)

\* No device carries it.
Gone ==
    /\ Stable = {}
    /\ saved = <<zst, meta>>
    /\ flush.pc = "idle"

\* A flush that hashes a device which equals the snapshot will skip it.
QuietFlush ==
    /\ flush.pc = "hash" /\ flush.dev \in Stable
    /\ Accepted /\ dev[flush.dev].img = zst.img
    /\ Agree(flush.sum, zst.img, flush.k)

\* Since the power failure the tier was restored and nothing was written.
Resting ==
    /\ Accepted
    /\ saved = <<zst, meta>>
    /\ \A d \in Stable : dev[d].img = zst.img
    /\ flush.pc = "idle" \/ QuietFlush

\* Copies of the index that flush has made are behind that of the device; a
\* whole one that the device still has was read with the right slots.
Copied(i, k) ==
    /\ Formed(i.index) /\ Leads(i.index, IndexOf(pan))
    /\ i.index = IndexOf(pan) => ReadRight(i, k)

HashFlush ==
    /\ flush.pc = "hash"
    /\ flush.k > 1 =>
        /\ Copied(flush.sum, flush.k)
        /\ \A z \in Snaps : z.is = "whole" => Sound(z.img) \/ z.img.index # flush.sum.index

CopyFlush ==
    /\ flush.pc = "copy"
    /\ Copied(flush.sum, Units + 1)
    /\ \A z \in Snaps : z.is = "whole" => Sound(z.img) \/ z.img.index # flush.sum.index
    /\ flush.k > 1 =>
        /\ Copied(flush.tmp, flush.k)
        /\ flush.tmp.index = flush.sum.index => Sound(flush.sum)
        /\ \A m \in Sums : m.is = "whole" => Sound(m.img) \/ m.img.index # flush.tmp.index

MetaFlush ==
    /\ flush.pc \in {"meta", "metaw"}
    /\ Copied(flush.sum, Units + 1)
    /\ \A z \in Snaps : z.is = "whole" /\ z.img = flush.sum => Sound(z.img)

\* The tier of pan.json is live and may be written to.
Moving ==
    /\ pan \in Stable /\ zdev \in {NoDev, pan}
    /\ \A f \in Snaps \cup Sums : f.is = "whole" => Behind(f.img, IndexOf(pan))
    /\ \/ flush.pc = "idle"
       \/ flush.dev = pan /\ (HashFlush \/ CopyFlush \/ MetaFlush)
       \/ flush.dev # pan /\ QuietFlush

TierInv ==
    /\ Gone \/ Resting \/ Moving
    /\ Recovering => Resting

-----------------------------------------------------------------------------
(* Names.                                                                   *)

NamesOf(x) == {r[1] : r \in x}

\* A name is in the tier, or in a snapshot of it, and on the disk only if it
\* was stored on the disk while the tier was missing.
NamesInv ==
    /\ \A z \in Snaps : z.is = "whole" => NamesOf(z.img.index) \cap disk \subseteq risky
    /\ pan \in Stable => NamesOf(IndexOf(pan)) \cap disk \subseteq risky

\* The whole inductive invariant.
Basic   == TypeInv /\ BootInv /\ PlaceInv
TierFit == FilesInv /\ DevicesInv /\ TierInv /\ NamesInv
LifeInv == Basic /\ (~spoiled => Clear /\ WorkInv /\ TierFit)
-----------------------------------------------------------------------------
(* Types, and where the boot is.                                            *)

LEMMA BlankTypes ==
    /\ Blank \in Images
    /\ EmptyDev \in DevStates /\ OtherDev \in DevStates
    /\ [use |-> "sized", img |-> Blank] \in DevStates
    /\ Absent \in Files /\ Garbage \in Files /\ Whole(Blank) \in Files
    /\ NoBoot \in Boots /\ NoLoad \in Loads /\ IdlePut \in Puts
    /\ NoFlush \in Flushes /\ NoFlush.pc = "idle"
  <1>1. Blank \in Images
    BY DEF Blank, Images
  <1>2. NoFlush \in Flushes /\ NoFlush.pc = "idle"
    BY <1>1 DEF NoFlush, Flushes, Paths
  <1>3. NoBoot \in Boots /\ NoLoad \in Loads /\ IdlePut \in Puts
    BY <1>1 DEF NoBoot, NoLoad, IdlePut, Boots, Loads, Puts, Paths
  <1> QED BY <1>1, <1>2, <1>3
          DEF EmptyDev, OtherDev, Absent, Garbage, Whole, DevStates, Uses, Files

LEMMA ImageTypes ==
    ASSUME NEW i \in Images
    PROVE  /\ Whole(i) \in Files /\ TierDev(i) \in DevStates
           /\ i.index \subseteq Refs /\ i.grid \in [Slots -> Names \cup {Nothing}]
    BY DEF Whole, TierDev, Files, DevStates, Uses, Images

LEMMA CopyTypes ==
    ASSUME NEW i \in Images, NEW j \in Images, NEW k \in Nat
    PROVE  CopyUnit(i, j, k) \in Images
  <1>1. /\ i.index \in SUBSET Refs /\ i.grid \in [Slots -> Names \cup {Nothing}]
        /\ j.index \in SUBSET Refs /\ j.grid \in [Slots -> Names \cup {Nothing}]
    BY DEF Images
  <1> QED BY <1>1 DEF Images, CopyUnit

LEMMA SlotCount == NSlots \in Nat /\ NSlots > 0 /\ Units = NSlots + 1 /\ Container \in Slots
    BY TierAssumption DEF Units, Container, Slots

\* The first unused device is one of them.
LEMMA FirstUnusedIs ==
    ASSUME TypeInv, Unused # {}
    PROVE  FirstUnused \in Devs /\ dev[FirstUnused].use = "empty"
  <1>1. Unused \in SUBSET Nat
    BY TierAssumption DEF Unused
  <1>2. \E d \in Unused : \A e \in Unused : d <= e
    BY <1>1, NatMin
  <1>3. FirstUnused \in Unused
    BY <1>2 DEF FirstUnused
  <1> QED BY <1>3 DEF Unused

\* The four writes of the daemon to its device.
Written(s, n) ==
    /\ dev' \in [Devs -> DevStates]
    /\ \A d \in Devs : dev'[d].use = dev[d].use /\ dev'[d].img.index = dev[d].img.index
    /\ \A d \in Devs \ {zdev} : dev'[d] = dev[d]
    /\ dev'[zdev].img.grid[s] = n
    /\ \A t \in Slots \ {s} : dev'[zdev].img.grid[t] = dev[zdev].img.grid[t]

Indexed(x) ==
    /\ dev' \in [Devs -> DevStates]
    /\ \A d \in Devs : dev'[d].use = dev[d].use /\ dev'[d].img.grid = dev[d].img.grid
    /\ \A d \in Devs \ {zdev} : dev'[d] = dev[d]
    /\ dev'[zdev].img.index = x

LEMMA WritesGrid ==
    ASSUME TypeInv, zdev \in Devs, NEW s \in Slots, NEW n \in Names,
           dev' = [dev EXCEPT ![zdev].img.grid[s] = n]
    PROVE  Written(s, n)
  <1> DEFINE i == dev[zdev].img
             j == [i EXCEPT !.grid[s] = n]
  <1>1. i \in Images /\ j \in Images /\ j.index = i.index /\ j.grid = [i.grid EXCEPT ![s] = n]
    BY DEF TypeInv, DevStates, Images
  <1>2. dev' = [dev EXCEPT ![zdev] = [dev[zdev] EXCEPT !.img = j]]
    OBVIOUS
  <1>3. dev[zdev] \in DevStates /\ dev \in [Devs -> DevStates]
    BY DEF TypeInv
  <1>4. [dev[zdev] EXCEPT !.img = j] \in DevStates
    BY <1>1, <1>3 DEF DevStates
  <1>5. i.grid \in [Slots -> Names \cup {Nothing}]
    BY <1>1 DEF Images
  <1> HIDE DEF j
  <1>6. /\ dev' \in [Devs -> DevStates] 
        /\ dev'[zdev] = [dev[zdev] EXCEPT !.img = j]
        /\ \A d \in Devs \ {zdev} : dev'[d] = dev[d]
    BY <1>2, <1>3, <1>4
  <1>7. dev'[zdev].use = dev[zdev].use /\ dev'[zdev].img = j
    BY <1>3, <1>6 DEF DevStates
  <1> QED BY <1>1, <1>5, <1>6, <1>7 DEF Written

LEMMA WritesIndex ==
    ASSUME TypeInv, zdev \in Devs, NEW x \in SUBSET Refs,
           dev' = [dev EXCEPT ![zdev].img.index = x]
    PROVE  Indexed(x)
  <1> DEFINE i == dev[zdev].img
             j == [i EXCEPT !.index = x]
  <1>1. i \in Images /\ j \in Images /\ j.grid = i.grid /\ j.index = x
    BY DEF TypeInv, DevStates, Images
  <1>2. dev' = [dev EXCEPT ![zdev] = [dev[zdev] EXCEPT !.img = j]]
    OBVIOUS
  <1>3. dev[zdev] \in DevStates /\ dev \in [Devs -> DevStates]
    BY DEF TypeInv
  <1>4. [dev[zdev] EXCEPT !.img = j] \in DevStates
    BY <1>1, <1>3 DEF DevStates
  <1> HIDE DEF j
  <1>6. /\ dev' \in [Devs -> DevStates] 
        /\ dev'[zdev] = [dev[zdev] EXCEPT !.img = j]
        /\ \A d \in Devs \ {zdev} : dev'[d] = dev[d]
    BY <1>2, <1>3, <1>4
  <1>7. dev'[zdev].use = dev[zdev].use /\ dev'[zdev].img = j
    BY <1>3, <1>6 DEF DevStates
  <1> QED BY <1>1, <1>6, <1>7 DEF Indexed

\* A commit is to a slot of the pool's device, or to the disk; Trim moves an
\* entry of that device.
LEMMA WorkerPlaces ==
    ASSUME Basic
    PROVE  /\ zdev # NoDev => zdev \in Devs
           /\ zdev # NoDev /\ proc \in {"opened", "serving"} => dev[zdev].use = "tier"
           /\ \A n \in Names : put[n].pc = "wrote" /\ put[n].at = "zram" => zdev # NoDev
           /\ \A n \in Names : SlotOf[n] \in Slots
           /\ trim # Nothing => zdev # NoDev /\ trim \in Names
           /\ Container \in Slots
    BY TierAssumption DEF Basic, TypeInv, BootInv, PlaceInv, Live, Container, Slots, Paths

LEMMA PutWritesTo ==
    ASSUME Basic, NEW n \in Names, PutWrites(n, "zram")
    PROVE  Written(SlotOf[n], n) /\ zdev \in Devs
    BY WorkerPlaces, WritesGrid DEF Basic, PutWrites

LEMMA PutCommitsTo ==
    ASSUME Basic, NEW n \in Names, PutCommits(n), put[n].at = "zram"
    PROVE  Indexed(dev[zdev].img.index \cup {<<n, SlotOf[n]>>}) /\ zdev \in Devs
  <1>1. zdev \in Devs
    BY WorkerPlaces DEF PutCommits
  <1>2. dev[zdev].img.index \cup {<<n, SlotOf[n]>>} \in SUBSET Refs
    BY <1>1, WorkerPlaces DEF Basic, TypeInv, DevStates, Images, Refs
  <1>3. dev' = [dev EXCEPT ![zdev].img.index = dev[zdev].img.index \cup {<<n, SlotOf[n]>>}]
    BY DEF PutCommits
  <1> QED BY <1>1, <1>2, <1>3, WritesIndex DEF Basic

LEMMA TrimWritesTo ==
    ASSUME Basic, NEW n \in Names, TrimWrites(n)
    PROVE  Written(Container, n) /\ zdev \in Devs
    BY WorkerPlaces, WritesGrid DEF Basic, TrimWrites

Moved(x, n) == (x \ {<<n, SlotOf[n]>>}) \cup {<<n, Container>>}

LEMMA TrimMovesTo ==
    ASSUME Basic, TrimMoves
    PROVE  Indexed(Moved(dev[zdev].img.index, trim)) /\ zdev \in Devs /\ trim \in Names
  <1>1. zdev \in Devs /\ trim \in Names
    BY WorkerPlaces DEF TrimMoves
  <1>2. Moved(dev[zdev].img.index, trim) \in SUBSET Refs
    BY <1>1, WorkerPlaces DEF Basic, TypeInv, DevStates, Images, Refs, Moved
  <1>3. dev' = [dev EXCEPT ![zdev].img.index = Moved(dev[zdev].img.index, trim)]
    BY DEF TrimMoves, Moved
  <1> QED BY <1>1, <1>2, <1>3, WritesIndex DEF Basic

LEMMA FlushEndTypes ==
    ASSUME TypeInv, FlushEnd
    PROVE  flush' \in Flushes /\ flush'.pc = "idle"
    BY BlankTypes DEF TypeInv, FlushEnd, Flushes

\* What the flush steps make of the record of the flush.
LEMMA FlushBegun ==
    ASSUME TypeInv, FlushStarts
    PROVE  /\ flush' \in Flushes /\ flush'.pc = "hash" /\ flush'.dev = pan /\ flush'.k = 1
  <1>1. flush.runs + 1 \in Nat /\ pan \in Paths
    BY DEF TypeInv, Flushes, Paths
  <1>2. flush' = [pc |-> "hash", dev |-> pan, k |-> 1, sum |-> Blank, tmp |-> Blank, runs |-> flush.runs + 1]
    BY DEF FlushStarts, NoFlush
  <1> QED BY <1>1, <1>2, BlankTypes DEF Flushes

LEMMA FlushHashed ==
    ASSUME TypeInv, FlushHashes
    PROVE  /\ flush' \in Flushes /\ flush'.pc = "hash" /\ flush'.dev = flush.dev
           /\ flush'.k = flush.k + 1 /\ flush.k \in Nat
           /\ flush'.sum = CopyUnit(flush.sum, dev[flush.dev].img, flush.k)
  <1> DEFINE i == CopyUnit(flush.sum, dev[flush.dev].img, flush.k)
  <1>1. flush.k \in Nat /\ flush.sum \in Images /\ dev[flush.dev].img \in Images
    BY DEF TypeInv, Flushes, DevStates, FlushHashes
  <1>a. i \in Images
    BY <1>1, CopyTypes
  <1>2. i \in Images /\ flush.k + 1 \in Nat /\ flush \in Flushes /\ flush.pc = "hash"
    BY <1>1, <1>a DEF TypeInv, FlushHashes
  <1>3. flush' = [pc |-> "hash", dev |-> flush.dev, k |-> flush.k + 1,
                  sum |-> i, tmp |-> flush.tmp, runs |-> flush.runs]
    BY <1>2 DEF FlushHashes, Flushes
  <1> HIDE DEF i
  <1>4. /\ flush' \in Flushes /\ flush'.pc = "hash" /\ flush'.dev = flush.dev
        /\ flush'.k = flush.k + 1 /\ flush'.sum = i
    BY <1>2, <1>3 DEF Flushes
  <1> QED BY <1>1, <1>4 DEF i

LEMMA FlushCopied ==
    ASSUME TypeInv, FlushCopies
    PROVE  /\ flush' \in Flushes /\ flush'.pc = "copy" /\ flush'.dev = flush.dev
           /\ flush'.k = flush.k + 1 /\ flush.k \in Nat
           /\ flush'.tmp = CopyUnit(flush.tmp, dev[flush.dev].img, flush.k)
           /\ flush'.sum = flush.sum
  <1> DEFINE i == CopyUnit(flush.tmp, dev[flush.dev].img, flush.k)
  <1>1. flush.k \in Nat /\ flush.tmp \in Images /\ dev[flush.dev].img \in Images
    BY DEF TypeInv, Flushes, DevStates, FlushCopies
  <1>a. i \in Images
    BY <1>1, CopyTypes
  <1>2. i \in Images /\ flush.k + 1 \in Nat /\ flush \in Flushes /\ flush.pc = "copy"
    BY <1>1, <1>a DEF TypeInv, FlushCopies
  <1>3. flush' = [pc |-> "copy", dev |-> flush.dev, k |-> flush.k + 1,
                  sum |-> flush.sum, tmp |-> i, runs |-> flush.runs]
    BY <1>2 DEF FlushCopies, Flushes
  <1> HIDE DEF i
  <1>4. /\ flush' \in Flushes /\ flush'.pc = "copy" /\ flush'.dev = flush.dev
        /\ flush'.k = flush.k + 1 /\ flush'.tmp = i /\ flush'.sum = flush.sum
    BY <1>2, <1>3 DEF Flushes
  <1> QED BY <1>1, <1>4 DEF i

LEMMA FlushTurns ==
    ASSUME TypeInv, FlushCopyStarts
    PROVE  /\ flush' \in Flushes /\ flush'.pc = "copy" /\ flush'.dev = flush.dev
           /\ flush'.k = 1 /\ flush'.sum = flush.sum
  <1>1. flush \in Flushes /\ flush' = [flush EXCEPT !.pc = "copy", !.k = 1]
    BY DEF TypeInv, FlushCopyStarts
  <1> QED BY <1>1 DEF Flushes

LEMMA FlushTypes ==
    ASSUME Basic, Flush, calm' \in BOOLEAN, spoiled' \in BOOLEAN
    PROVE  TypeInv'
  <1>1. /\ flush.k \in Nat /\ flush.sum \in Images /\ flush.tmp \in Images
        /\ flush.pc # "idle" => dev[flush.dev].img \in Images
    BY DEF Basic, TypeInv, Flushes, DevStates
  <1>2. UNCHANGED <<dev, half, pan, lifeVars>>
    BY DEF Flush, FlushStarts, FlushStep, FlushHashes, FlushSkips, FlushCopyStarts, FlushCopies,
           FlushRenames, FlushTruncatesMeta, FlushWritesMeta, FlushFails, Writeback, fileVars
  <1>3. zst' \in Files
    BY <1>1, ImageTypes DEF Basic, TypeInv, Flush, FlushStarts, FlushStep, FlushHashes, FlushSkips,
       FlushCopyStarts, FlushCopies, FlushRenames, FlushTruncatesMeta, FlushWritesMeta, FlushFails, Writeback, fileVars
  <1>4. meta' \in Files
    BY <1>1, ImageTypes, BlankTypes DEF Basic, TypeInv, Flush, FlushStarts, FlushStep, FlushHashes, FlushSkips,
       FlushCopyStarts, FlushCopies, FlushRenames, FlushTruncatesMeta, FlushWritesMeta, FlushFails, Writeback, fileVars
  <1>5. saved' \in Files \X Files
    BY DEF Basic, TypeInv, Flush, FlushStarts, FlushStep, FlushHashes, FlushSkips,
       FlushCopyStarts, FlushCopies, FlushRenames, FlushTruncatesMeta, FlushWritesMeta, FlushFails, Writeback, fileVars
  <1> DEFINE G == /\ flush' \in Flushes
                  /\ flush'.pc # "idle" => flush'.dev \in Devs
                  /\ flush'.pc \in {"hash", "copy"} => flush'.k > 0
  <1>6. G
    <2>1. CASE FlushStarts
      BY <2>1, FlushBegun DEF Basic, TypeInv
    <2>2. CASE FlushHashes
      BY <2>2, FlushHashed DEF Basic, TypeInv, FlushHashes
    <2>3. CASE FlushSkips \/ FlushWritesMeta \/ FlushFails
      BY <2>3, FlushEndTypes DEF Basic, FlushSkips, FlushWritesMeta, FlushFails
    <2>4. CASE FlushCopyStarts
      BY <2>4, FlushTurns DEF Basic, TypeInv, FlushCopyStarts
    <2>5. CASE FlushCopies
      BY <2>5, FlushCopied DEF Basic, TypeInv, FlushCopies
    <2>6. CASE FlushRenames
      BY <2>6, BlankTypes DEF Basic, TypeInv, FlushRenames, Flushes
    <2>7. CASE FlushTruncatesMeta
      BY <2>7 DEF Basic, TypeInv, FlushTruncatesMeta, Flushes
    <2>8. CASE Writeback
      BY <2>8 DEF Basic, TypeInv, Writeback
    <2> QED BY <2>1, <2>2, <2>3, <2>4, <2>5, <2>6, <2>7, <2>8 DEF Flush, FlushStep
  <1> QED BY <1>2, <1>3, <1>4, <1>5, <1>6 DEF Basic, TypeInv, lifeVars, bootVars, workVars, opVars

\* kernelRecovery.restore, of a boot or of a load.
LEMMA RestoreTypes ==
    ASSUME TypeInv, NEW d \in Devs, NEW i \in Images, NEW k \in Nat, NEW open,
           \/ SizeSet(d) \/ UnitRestored(d, i, k) \/ Restored(d) \/ GivenBack(d, open)
           \/ UNCHANGED <<dev, half>>
    PROVE  dev' \in [Devs -> DevStates] /\ half' \subseteq Devs
  <1>1. dev \in [Devs -> DevStates] /\ half \subseteq Devs /\ dev[d].img \in Images
    BY DEF TypeInv, DevStates
  <1>2. TierDev(CopyUnit(dev[d].img, i, k)) \in DevStates
    BY <1>1, CopyTypes, ImageTypes
  <1> QED BY <1>1, <1>2, BlankTypes DEF SizeSet, UnitRestored, Restored, GivenBack

LEMMA ProcessEndTypes ==
    ASSUME Basic, ProcessEnds
    PROVE  /\ proc' \in Procs /\ boot' \in Boots /\ zdev' \in Paths /\ degraded' \in BOOLEAN
           /\ disk' \subseteq Names /\ risky' \subseteq Names
           /\ put' \in [Names -> Puts] /\ get' \in Nat /\ trim' \in Names \cup {Nothing}
           /\ close' \in {"no", "draining", "closed"}
  <1>1. put' \in [Names -> Puts]
    BY DEF Basic, TypeInv, ProcessEnds, Ended, Puts
  <1> QED BY <1>1, BlankTypes DEF Basic, TypeInv, ProcessEnds, Procs, Paths

LEMMA BootTypes ==
    ASSUME Basic, Boot, calm' \in BOOLEAN, spoiled' \in BOOLEAN
    PROVE  TypeInv'
  <1> USE BlankTypes DEF tierVars, fileVars, bootVars, workVars, opVars, Resolved, Paths, Procs
  <1>0. boot.k + 1 \in Nat /\ boot.img \in Images
    BY DEF Basic, TypeInv, Boots
  <1>1. CASE BootBegins
    <2>1. boot' \in Boots
      BY <1>1 DEF BootBegins, Boots, Basic, TypeInv, NoBoot, Files
    <2>2. zdev' \in Paths /\ proc' \in Procs
      BY <1>1 DEF BootBegins, Basic, TypeInv, Live
    <2>3. degraded' \in BOOLEAN
      BY <1>1 DEF BootBegins, Basic, TypeInv, Wanted
    <2> QED BY <1>1, <2>1, <2>2, <2>3 DEF Basic, TypeInv, BootBegins
  <1>2. CASE BootAllocates
    <2>1. boot' \in Boots
      BY <1>2, FirstUnusedIs DEF BootAllocates, Boots, Basic, TypeInv
    <2> QED BY <1>2, <2>1 DEF Basic, TypeInv, BootAllocates
  <1>3. CASE BootSizes
    <2>1. dev' \in [Devs -> DevStates] /\ half' \subseteq Devs
      BY <1>0, <1>3, RestoreTypes DEF Basic, BootInv, BootSizes
    <2> QED BY <1>3, <2>1 DEF Basic, TypeInv, BootSizes
  <1>4. CASE BootCopies
    <2>1. dev' \in [Devs -> DevStates] /\ half' \subseteq Devs
      BY <1>0, <1>4, RestoreTypes DEF Basic, BootInv, BootCopies
    <2>2. boot' \in Boots
      BY <1>4 DEF Basic, TypeInv, BootCopies, Boots
    <2> QED BY <1>4, <2>1, <2>2 DEF Basic, TypeInv, BootCopies
  <1>5. CASE BootVerifies
    <2>1. boot.dev \in Paths
      BY DEF Basic, TypeInv, Boots
    <2>2. dev' \in [Devs -> DevStates] /\ half' \subseteq Devs
      BY <1>0, <1>5, RestoreTypes DEF Basic, BootInv, BootVerifies
    <2> QED BY <1>5, <2>1, <2>2 DEF Basic, TypeInv, BootVerifies
  <1>6. CASE BootRestoreFails
    <2>1. dev' \in [Devs -> DevStates] /\ half' \subseteq Devs
      BY <1>0, <1>6, RestoreTypes DEF Basic, BootInv, BootRestoreFails
    <2> QED BY <1>6, <2>1 DEF Basic, TypeInv, BootRestoreFails
  <1>7. CASE BootOpens
    <2>1. pan' \in Devs
      BY <1>7 DEF Basic, TypeInv, BootOpens, Persist, PersistedPath
    <2>2. CASE ProcessEnds
      BY <1>7, <2>1, <2>2, ProcessEndTypes DEF Basic, TypeInv, BootOpens
    <2>3. CASE proc' = "opened" /\ UNCHANGED <<bootVars, workVars, close>>
      BY <1>7, <2>1, <2>3 DEF Basic, TypeInv, BootOpens
    <2> QED BY <1>7, <2>2, <2>3 DEF BootOpens
  <1>8. CASE Serves
    BY <1>8 DEF Basic, TypeInv, Serves
  <1> QED BY <1>1, <1>2, <1>3, <1>4, <1>5, <1>6, <1>7, <1>8 DEF Boot

\* The steps of handlers and Trim.
Work(n) ==
    \/ PutCalls(n) \/ PutRefused(n) \/ PutWrites(n, "zram") \/ PutWrites(n, "disk")
    \/ PutCommits(n) \/ PutFails(n)
    \/ TrimWrites(n) \/ TrimMoves \/ TrimFails

Waits == GetBlocks \/ GetReturns

LEMMA WorkTypes ==
    ASSUME Basic, calm' \in BOOLEAN, spoiled' \in BOOLEAN, NEW n \in Names, Work(n)
    PROVE  TypeInv'
  <1> USE DEF tierVars, fileVars, bootVars, opVars
  <1>0. CASE PutCalls(n) \/ PutRefused(n) \/ PutFails(n)
    <2>1. put' \in [Names -> Puts]
      <3>1. PutCalls(n) => put' \in [Names -> Puts]
        BY DEF Basic, TypeInv, PutCalls, Puts
      <3>2. PutRefused(n) => put' \in [Names -> Puts]
        BY DEF Basic, TypeInv, PutRefused, Puts
      <3>3. PutFails(n) => put' \in [Names -> Puts]
        <4>1. put \in [Names -> Puts]
          BY DEF Basic, TypeInv
        <4>2. Ended(put[n]) \in Puts
          BY <4>1 DEF Ended, Puts
        <4>3. PutFails(n) => put' = [put EXCEPT ![n] = Ended(@)]
          BY DEF PutFails
        <4> QED BY <4>1, <4>2, <4>3
      <3> QED BY <1>0, <3>1, <3>2, <3>3
    <2> QED BY <1>0, <2>1 DEF Basic, TypeInv, PutCalls, PutRefused, PutFails
  <1>1. CASE PutWrites(n, "zram")
    <2>1. put' \in [Names -> Puts]
      BY <1>1 DEF Basic, TypeInv, PutWrites, Puts
    <2> QED BY <1>1, <2>1, PutWritesTo DEF Basic, TypeInv, PutWrites, Written
  <1>2. CASE PutWrites(n, "disk")
    <2>1. put' \in [Names -> Puts]
      BY <1>2 DEF Basic, TypeInv, PutWrites, Puts
    <2> QED BY <1>2, <2>1 DEF Basic, TypeInv, PutWrites
  <1>3. CASE TrimWrites(n)
    BY <1>3, TrimWritesTo DEF Basic, TypeInv, TrimWrites, Written
  <1>4. CASE PutCommits(n)
    <2>1. dev' \in [Devs -> DevStates]
      BY <1>4, PutCommitsTo DEF Basic, TypeInv, PutCommits, Indexed
    <2>2. put[n].tries \in Nat /\ put[n].tries - 1 \in Nat
      BY <1>4 DEF Basic, TypeInv, PlaceInv, PutCommits, Puts
    <2>4. put' \in [Names -> Puts]
      BY <1>4, <2>2 DEF Basic, TypeInv, PutCommits, Puts
    <2> QED BY <1>4, <2>1, <2>4 DEF Basic, TypeInv, PutCommits
  <1>6. CASE TrimMoves
    BY <1>6, TrimMovesTo DEF Basic, TypeInv, TrimMoves, Indexed
  <1>7. CASE TrimFails
    BY <1>7 DEF Basic, TypeInv, TrimFails
  <1> QED BY <1>0, <1>1, <1>2, <1>3, <1>4, <1>6, <1>7 DEF Work

LEMMA LoadEndTypes ==
    ASSUME TypeInv, LoadEnd
    PROVE  load' \in Loads /\ load'.pc = "idle"
  <1>1. load' = [pc |-> "idle", dev |-> NoDev, k |-> 0, img |-> Blank, runs |-> load.runs]
    BY DEF LoadEnd, NoLoad
  <1> QED BY <1>1, BlankTypes DEF TypeInv, Loads, Paths

LEMMA LoadTypes ==
    ASSUME Basic, calm' \in BOOLEAN, spoiled' \in BOOLEAN, Load
    PROVE  TypeInv'
  <1> USE DEF tierVars, fileVars, bootVars, workVars
  <1>0. load \in Loads /\ load.k + 1 \in Nat /\ load.img \in Images /\ load.runs + 1 \in Nat
    BY DEF Basic, TypeInv, Loads
  <1>1. load' \in Loads
    <2>1. CASE LoadStarts
      <3>1. FirstUnused \in Paths /\ zst.img \in Images
        BY <2>1, FirstUnusedIs DEF LoadStarts, Basic, TypeInv, Files, Paths
      <3> QED BY <1>0, <2>1, <3>1 DEF LoadStarts, Loads
    <2>2. CASE LoadEnd
      BY <2>2, LoadEndTypes DEF Basic
    <2>3. CASE LoadSizes /\ ~LoadEnd
      BY <1>0, <2>3 DEF LoadSizes, Loads
    <2>4. CASE LoadCopies
      BY <1>0, <2>4 DEF LoadCopies, Loads
    <2> QED BY <2>1, <2>2, <2>3, <2>4 DEF Load, LoadVerifies, LoadFails
  <1>2. dev' \in [Devs -> DevStates] /\ half' \subseteq Devs
    <2>1. CASE LoadStarts
      BY <2>1 DEF LoadStarts, Basic, TypeInv
    <2>2. CASE LoadSizes
      BY <1>0, <2>2, RestoreTypes DEF Basic, BootInv, LoadSizes
    <2>3. CASE LoadCopies \/ LoadVerifies \/ LoadFails
      <3>1. load.dev \in Devs
        BY <2>3 DEF LoadCopies, LoadVerifies, LoadFails, Basic, BootInv, RestoreInv, TypeInv
      <3> QED BY <1>0, <2>3, <3>1, RestoreTypes DEF Basic, LoadCopies, LoadVerifies, LoadFails
    <2> QED BY <2>1, <2>2, <2>3 DEF Load
  <1>3. UNCHANGED <<fileVars, flush, proc, bootVars, workVars, close, faults>>
    BY DEF Load, LoadStarts, LoadSizes, LoadCopies, LoadVerifies, LoadFails
  <1> QED BY <1>1, <1>2, <1>3 DEF Basic, TypeInv

LEMMA EndTypes ==
    ASSUME Basic, calm' \in BOOLEAN, spoiled' \in BOOLEAN,
           \/ CloseBegins \/ CloseEnds \/ ForcedExit \/ Killed \/ PowerLoss
           \/ Waits \/ \E d \in Devs : OtherTakes(d)
    PROVE  TypeInv'
  <1> USE DEF tierVars, fileVars, bootVars, workVars, opVars, lifeVars
  <1>1. CASE CloseBegins
    BY <1>1 DEF Basic, TypeInv, CloseBegins
  <1>2. CASE CloseEnds \/ ForcedExit \/ Killed
    <2>1. /\ UNCHANGED <<tierVars, load>>
          /\ ProcessEnds
          /\ faults' \in Nat
      BY <1>2 DEF Basic, TypeInv, CloseEnds, ForcedExit, Killed
    <2> QED BY <2>1, ProcessEndTypes DEF Basic, TypeInv
  <1>5. CASE PowerLoss
    <2>1. dev' \in [Devs -> DevStates] /\ half' \subseteq Devs
      BY <1>5, BlankTypes DEF PowerLoss, TierPowerLoss
    <2>2. zst' \in Files /\ meta' \in Files
      BY <1>5, BlankTypes DEF PowerLoss, TierPowerLoss, Surviving, Basic, TypeInv
    <2>3. /\ FlushEnd /\ LoadEnd /\ ProcessEnds /\ saved' = <<zst', meta'>> /\ pan' = pan
          /\ faults' = faults + 1
      BY <1>5 DEF PowerLoss, TierPowerLoss
    <2>4. flush' \in Flushes /\ flush'.pc = "idle" /\ load' \in Loads
      BY <2>3, FlushEndTypes, LoadEndTypes DEF Basic
    <2> QED BY <2>1, <2>2, <2>3, <2>4, ProcessEndTypes DEF Basic, TypeInv
  <1>7. CASE \E d \in Devs : OtherTakes(d)
    <2>2. dev' \in [Devs -> DevStates]
      BY <1>7, BlankTypes DEF Basic, TypeInv, OtherTakes
    <2> QED BY <1>7, <2>2 DEF Basic, TypeInv, OtherTakes
  <1>8. CASE Waits
    <2>1. get' \in Nat
      BY <1>8 DEF Basic, TypeInv, Waits, GetBlocks, GetReturns
    <2> QED BY <1>8, <2>1 DEF Basic, TypeInv, Waits, GetBlocks, GetReturns
  <1> QED BY <1>1, <1>2, <1>5, <1>7, <1>8

\* The kinds of steps there are.
LEMMA StepKinds ==
    ASSUME Basic, Next
    PROVE  \/ Boot \/ Flush \/ Load \/ (\E n \in Names : Work(n)) \/ Waits
           \/ CloseBegins \/ CloseEnds \/ ForcedExit \/ Killed \/ PowerLoss
           \/ \E d \in Devs : OtherTakes(d)
  <1>1. TrimMoves \/ TrimFails => trim \in Names
    BY DEF Basic, TypeInv, TrimMoves, TrimFails
  <1> QED BY <1>1 DEF Next, Step, Clients, Handlers, Work, Waits

LEMMA TypeStep ==
    ASSUME Basic, Next
    PROVE  TypeInv'
  <1>1. calm' \in BOOLEAN /\ spoiled' \in BOOLEAN
    BY DEF Next, Basic, TypeInv
  <1> QED BY <1>1, StepKinds, BootTypes, FlushTypes, LoadTypes, WorkTypes, EndTypes

-----------------------------------------------------------------------------
(* Where the boot and the load are.                                         *)

LEMMA FlushKeeps ==
    ASSUME Flush
    PROVE  UNCHANGED <<dev, half, pan, proc, boot, zdev, degraded, disk, put, get, trim, risky, close,
                       load, faults>>
    BY DEF Flush, FlushStarts, FlushStep, FlushHashes, FlushSkips, FlushCopyStarts, FlushCopies,
           FlushRenames, FlushTruncatesMeta, FlushWritesMeta, FlushFails, Writeback,
           fileVars, lifeVars, bootVars, workVars, opVars

\* What one step of a restore on device d does to the devices.
RestoreStep(d) ==
    /\ \A e \in Devs \ {d} : dev'[e] = dev[e]
    /\ half' \ {d} = half \ {d}

LEMMA RestoreSteps ==
    ASSUME TypeInv, NEW d \in Devs, NEW i, NEW k, NEW open
    PROVE  /\ SizeSet(d) => /\ RestoreStep(d) /\ dev[d].use = "empty"
                            /\ dev'[d].use = "sized" /\ d \in half'
           /\ UnitRestored(d, i, k) => RestoreStep(d) /\ dev'[d].use = "tier" /\ half' = half
           /\ Restored(d) => RestoreStep(d) /\ UNCHANGED dev /\ half' = half \ {d}
           /\ GivenBack(d, open) =>
                /\ RestoreStep(d)
                /\ \/ ~open /\ dev'[d].use = "empty" /\ half' = half \ {d}
                   \/ UNCHANGED <<dev, half>>
  <1>1. dev \in [Devs -> DevStates]
    BY DEF TypeInv
  <1> QED BY <1>1 DEF SizeSet, UnitRestored, Restored, GivenBack, RestoreStep, TierDev, EmptyDev

\* A load that is restoring keeps its device while another one changes.
LEMMA LoadApart ==
    ASSUME BootInv, NEW d \in Devs, RestoreStep(d), UNCHANGED load, half \subseteq Devs,
           load.pc = "restore" => d # load.dev
    PROVE  /\ load'.pc = "size" => load'.k = 0 /\ load'.dev \in Devs
           /\ load'.pc = "restore" => RestoreInv(load.dev, load.k)'
    BY DEF BootInv, RestoreInv, RestoreStep

LEMMA ProcessEndPlace ==
    ASSUME Basic, ProcessEnds
    PROVE  PlaceInv'
  <1>1. \A n \in Names : put'[n].pc = "idle"
    BY DEF Basic, TypeInv, Puts, ProcessEnds, Ended
  <1> QED BY <1>1 DEF ProcessEnds, PlaceInv

LEMMA ProcessEndBoot ==
    ASSUME Basic, ProcessEnds, UNCHANGED <<dev, half, load>>
    PROVE  BootInv'
    BY DEF ProcessEnds, Basic, BootInv, RestoreInv, NoBoot

LEMMA BootBootInv ==
    ASSUME Basic, Boot
    PROVE  BootInv'
  <1> USE SlotCount DEF tierVars, fileVars, bootVars, workVars, opVars, Resolved, NoBoot
  <1>0. /\ boot \in Boots /\ boot.k \in Nat /\ dev \in [Devs -> DevStates] /\ half \subseteq Devs
        /\ NoDev \notin Devs
    BY TierAssumption DEF Basic, TypeInv, Boots
  <1>1. CASE BootBegins
    <2>1. Wanted
      BY TierAssumption DEF Wanted, Basic, TypeInv
    <2>2. CASE proc' = "down" /\ UNCHANGED bootVars
      BY <1>1, <2>2 DEF BootBegins, Basic, BootInv, RestoreInv, Live
    <2>3. CASE \E d \in Live : Live = {d} /\ Resolved(d, FALSE)
      BY <1>0, <1>1, <2>3 DEF BootBegins, Basic, BootInv, RestoreInv, Live
    <2>4. CASE Resolved(NoDev, Wanted)
      BY <1>1, <2>1, <2>4 DEF BootBegins, Basic, BootInv, RestoreInv
    <2>5. CASE proc' = "allocate" /\ boot' = [NoBoot EXCEPT !.img = zst.img] /\ UNCHANGED <<zdev, degraded>>
      BY <1>1, <2>5 DEF BootBegins, Basic, BootInv, RestoreInv
    <2> QED BY <1>1, <2>2, <2>3, <2>4, <2>5 DEF BootBegins
  <1>2. CASE BootAllocates
    BY <1>2, <1>0, FirstUnusedIs DEF Basic, BootInv, RestoreInv, BootAllocates, Live, Boots
  <1>3. CASE BootSizes
    <2>1. zdev = NoDev /\ boot.dev \in Devs /\ boot.k = 0
      BY <1>3 DEF BootSizes, Basic, BootInv
    <2>2. CASE SizeSet(boot.dev) /\ proc' = "restore" /\ UNCHANGED bootVars
      <3>1. /\ RestoreStep(boot.dev) /\ dev[boot.dev].use = "empty"
            /\ dev'[boot.dev].use = "sized" /\ boot.dev \in half' /\ UNCHANGED <<load, close>>
        BY <1>3, <2>1, <2>2, RestoreSteps DEF Basic, BootSizes
      <3>2. load.pc = "restore" => boot.dev # load.dev
        BY <3>1 DEF Basic, BootInv, RestoreInv
      <3>3. \A d \in half' : dev'[d].use \in {"sized", "tier"}
        BY <1>0, <3>1 DEF RestoreStep, Basic, BootInv
      <3>4. /\ load'.pc = "size" => load'.k = 0 /\ load'.dev \in Devs
            /\ load'.pc = "restore" => RestoreInv(load.dev, load.k)'
        BY <1>0, <2>1, <3>1, <3>2, LoadApart DEF Basic
      <3>5. RestoreInv(boot.dev, boot.k)' /\ proc' = "restore" /\ zdev' = NoDev /\ close' = "no" /\ boot' = boot
        BY <1>3, <2>1, <2>2, <3>1 DEF BootSizes, Basic, BootInv, RestoreInv
      <3> QED BY <2>1, <3>1, <3>2, <3>3, <3>4, <3>5 DEF BootInv
    <2>3. CASE Resolved(NoDev, TRUE) /\ UNCHANGED <<dev, half>>
      BY <1>3, <2>3 DEF BootSizes, Basic, BootInv, RestoreInv
    <2> QED BY <1>3, <2>2, <2>3 DEF BootSizes
  <1>4. CASE BootCopies
    <2>1. zdev = NoDev /\ boot.dev \in Devs /\ RestoreInv(boot.dev, boot.k)
      BY <1>4 DEF BootCopies, Basic, BootInv
    <2>2. boot'.dev = boot.dev /\ boot'.k = boot.k + 1
      BY <1>4, <1>0 DEF BootCopies, Boots
    <2>3. /\ RestoreStep(boot.dev) /\ dev'[boot.dev].use = "tier" /\ half' = half
          /\ UNCHANGED <<load, close, proc, zdev>> /\ proc = "restore" /\ boot.k < Units
      BY <1>4, <2>1, RestoreSteps DEF Basic, BootCopies
    <2>4. load.pc = "restore" => boot.dev # load.dev
      BY <2>3 DEF Basic, BootInv
    <2>5. \A d \in half' : dev'[d].use \in {"sized", "tier"}
      BY <1>0, <2>3 DEF RestoreStep, Basic, BootInv
    <2>6. RestoreInv(boot.dev, boot.k)'
      BY <1>0, <2>1, <2>2, <2>3 DEF RestoreInv
    <2> QED BY <1>0, <2>1, <2>2, <2>3, <2>4, <2>5, <2>6, LoadApart DEF Basic, BootInv
  <1>5. CASE BootVerifies \/ BootRestoreFails
    <2>1. boot.dev \in Devs /\ RestoreInv(boot.dev, boot.k) /\ proc = "restore" /\ close = "no"
      BY <1>5 DEF BootVerifies, BootRestoreFails, Basic, BootInv
    <2>2. /\ RestoreStep(boot.dev) /\ UNCHANGED <<load, close>> /\ proc' = "restored"
          /\ zdev' = NoDev => degraded'
          /\ half' = half \ {boot.dev} \/ UNCHANGED <<half, dev>>
      BY <1>0, <1>5, <2>1, RestoreSteps DEF Basic, BootVerifies, BootRestoreFails
    <2>4. load.pc = "restore" => boot.dev # load.dev
      BY <2>1 DEF Basic, BootInv
    <2>5. \A d \in half' : dev'[d].use \in {"sized", "tier"}
      BY <1>0, <2>2 DEF RestoreStep, Basic, BootInv
    <2> QED BY <1>0, <2>1, <2>2, <2>4, <2>5, LoadApart DEF Basic, BootInv
  <1>7. CASE BootOpens
    <2>1. CASE ProcessEnds
      BY <1>7, <2>1, ProcessEndBoot DEF BootOpens
    <2>2. CASE ~ProcessEnds
      BY <1>7, <2>2 DEF BootOpens, Openable, Persist, PersistedPath, Basic, TypeInv, BootInv, RestoreInv,
         Live, Paths
    <2> QED BY <2>1, <2>2
  <1>8. CASE Serves
    BY <1>8 DEF Serves, Basic, BootInv, RestoreInv, Live
  <1> QED BY <1>1, <1>2, <1>3, <1>4, <1>5, <1>7, <1>8 DEF Boot

\* Handlers and Trim do not touch what the boot has done.
LEMMA WorkKeeps ==
    ASSUME Basic, NEW n \in Names, Work(n)
    PROVE  /\ UNCHANGED <<pan, zst, meta, saved, flush, proc, boot, zdev, degraded, close, half, load>>
           /\ \A d \in Devs : dev'[d].use = dev[d].use
           /\ \A d \in Devs \ {zdev} : dev'[d] = dev[d]
           /\ proc \in {"opened", "serving"}
  <1>1. UNCHANGED <<pan, zst, meta, saved, flush, proc, boot, zdev, degraded, close, half, load>>
    BY DEF Work, PutCalls, PutRefused, PutWrites, TrimWrites, PutCommits, PutFails, TrimMoves, TrimFails,
       bootVars, tierVars, fileVars, opVars
  <1>2. proc \in {"opened", "serving"}
    BY DEF Work, PutCalls, MayHold, PutRefused, PutWrites, TrimWrites, PutCommits, PutFails, TrimMoves,
       TrimFails, Basic, PlaceInv
  <1>3. CASE dev' = dev
    BY <1>1, <1>2, <1>3
  <1>4. CASE PutWrites(n, "zram")
    BY <1>1, <1>2, <1>4, PutWritesTo DEF Written
  <1>5. CASE TrimWrites(n)
    BY <1>1, <1>2, <1>5, TrimWritesTo DEF Written
  <1>6. CASE PutCommits(n) /\ put[n].at = "zram"
    BY <1>1, <1>2, <1>6, PutCommitsTo DEF Indexed
  <1>7. CASE TrimMoves
    BY <1>1, <1>2, <1>7, TrimMovesTo DEF Indexed
  <1>8. \/ dev' = dev \/ PutWrites(n, "zram") \/ TrimWrites(n)
        \/ (PutCommits(n) /\ put[n].at = "zram") \/ TrimMoves
    BY DEF Work, PutCalls, PutRefused, PutWrites, PutCommits, PutFails, TrimFails, tierVars
  <1> QED BY <1>3, <1>4, <1>5, <1>6, <1>7, <1>8

LEMMA WorkBootInv ==
    ASSUME Basic, NEW n \in Names, Work(n)
    PROVE  BootInv'
    BY WorkKeeps DEF Basic, TypeInv, BootInv, RestoreInv, Live

LEMMA LoadKeeps ==
    ASSUME Load
    PROVE  UNCHANGED <<pan, zst, meta, saved, flush, proc, boot, zdev, degraded, disk, put, get, trim,
                       risky, close, faults>>
    BY DEF Load, LoadStarts, LoadSizes, LoadCopies, LoadVerifies, LoadFails, tierVars, fileVars, bootVars,
       workVars

\* A step of a load that changes a device: it was unused, or it is the load's
\* own, which is not the one of the boot, nor one that the daemon loses.
LEMMA LoadSteps ==
    ASSUME Basic, Load
    PROVE  \/ UNCHANGED <<dev, half>>
           \/ /\ load.dev \in Devs /\ RestoreStep(load.dev)
              /\ \/ /\ dev[load.dev].use = "empty" /\ dev'[load.dev].use = "sized"
                    /\ load.dev \in half'
                 \/ /\ load.pc = "restore" /\ load.dev \in half
                    /\ \/ dev'[load.dev].use = "tier"
                       \/ ~DaemonHas(load.dev) /\ load.dev \notin half' /\ dev'[load.dev].use = "empty"
  <1>0. load.pc # "idle" => load.dev \in Devs
    BY DEF Basic, BootInv, RestoreInv, TypeInv, Loads
  <1>1. CASE LoadStarts
    BY <1>1 DEF LoadStarts, tierVars
  <1>2. CASE LoadSizes
    BY <1>0, <1>2, RestoreSteps DEF LoadSizes, Basic
  <1>3. CASE LoadCopies
    BY <1>0, <1>3, RestoreSteps DEF LoadCopies, Basic, BootInv, RestoreInv
  <1>4. CASE LoadVerifies
    <2>1. load.k # 0
      BY <1>4, SlotCount DEF LoadVerifies
    <2>2. load.dev \in half /\ dev[load.dev].use = "tier" /\ load.pc = "restore"
      BY <1>4, <2>1 DEF LoadVerifies, Basic, BootInv, RestoreInv
    <2> QED BY <1>0, <1>4, <2>2, RestoreSteps DEF LoadVerifies, Basic
  <1>5. CASE LoadFails
    <2>1. load.dev \in half /\ load.pc = "restore"
      BY <1>5 DEF LoadFails, Basic, BootInv, RestoreInv
    <2>2. GivenBack(load.dev, FlushReads(load.dev) \/ DaemonHas(load.dev))
      BY <1>5 DEF LoadFails
    <2>3. \/ /\ ~(FlushReads(load.dev) \/ DaemonHas(load.dev)) /\ dev'[load.dev].use = "empty"
             /\ half' = half \ {load.dev} /\ RestoreStep(load.dev)
          \/ UNCHANGED <<dev, half>>
      BY <1>0, <2>1, <2>2, RestoreSteps DEF Basic
    <2> QED BY <1>0, <2>1, <2>3
  <1> QED BY <1>1, <1>2, <1>3, <1>4, <1>5 DEF Load

\* Where the load itself is after its step.
LEMMA LoadGoes ==
    ASSUME Basic, Load
    PROVE  /\ load'.pc = "size" => load'.k = 0 /\ load'.dev \in Devs
           /\ load'.pc = "restore" => /\ RestoreInv(load.dev, load.k)' /\ load'.dev = load.dev
                                      /\ (dev[load.dev].use = "empty" \/ load.pc = "restore")
  <1>0. load \in Loads /\ load.k \in Nat /\ (load.pc # "idle" => load.dev \in Devs)
    BY DEF Basic, BootInv, RestoreInv, TypeInv, Loads
  <1>1. CASE LoadStarts
    BY <1>1, FirstUnusedIs DEF LoadStarts, Basic
  <1>2. CASE LoadEnd
    BY <1>2, LoadEndTypes DEF Basic
  <1>3. CASE LoadSizes /\ ~LoadEnd
    <2>1. SizeSet(load.dev) /\ load' = [load EXCEPT !.pc = "restore"] /\ load.pc = "size"
      BY <1>3 DEF LoadSizes
    <2>2. load'.pc = "restore" /\ load'.k = load.k /\ load'.dev = load.dev /\ load.k = 0
      BY <1>0, <2>1 DEF Loads, Basic, BootInv
    <2> QED BY <1>0, <2>1, <2>2, RestoreSteps, SlotCount DEF Basic, RestoreInv
  <1>4. CASE LoadCopies
    <2>1. UnitRestored(load.dev, load.img, load.k + 1) /\ load' = [load EXCEPT !.k = @ + 1]
          /\ load.pc = "restore" /\ load.k < Units
      BY <1>4 DEF LoadCopies
    <2>2. load'.pc = "restore" /\ load'.k = load.k + 1 /\ load'.dev = load.dev /\ RestoreInv(load.dev, load.k)
      BY <1>0, <2>1 DEF Loads, Basic, BootInv
    <2>3. dev'[load.dev].use = "tier" /\ half' = half
      BY <1>0, <2>1, RestoreSteps DEF Basic
    <2> QED BY <1>0, <2>1, <2>2, <2>3, SlotCount DEF RestoreInv
  <1> QED BY <1>1, <1>2, <1>3, <1>4 DEF Load, LoadVerifies, LoadFails

LEMMA LoadBootInv ==
    ASSUME Basic, Load
    PROVE  BootInv'
  <1>1. UNCHANGED <<pan, proc, boot, zdev, degraded, close>>
    BY LoadKeeps
  <1>2. half \subseteq Devs /\ zdev \in Devs \cup {NoDev}
    BY DEF Basic, TypeInv, Paths
  <1>3. \A d \in half' : dev'[d].use \in {"sized", "tier"}
    BY <1>2, LoadSteps DEF RestoreStep, Basic, BootInv
  <1>4. proc \in {"opened", "serving"} /\ zdev # NoDev => dev'[zdev].use = "tier"
    BY <1>2, LoadSteps DEF RestoreStep, DaemonHas, Basic, BootInv, Live
  <1>5. proc = "restore" => RestoreInv(boot.dev, boot.k)'
    BY <1>1, LoadSteps DEF RestoreStep, RestoreInv, Basic, BootInv
  <1>6. proc = "restore" /\ load'.pc = "restore" => load'.dev # boot.dev
    BY LoadGoes DEF RestoreInv, Basic, BootInv
  <1> QED BY <1>1, <1>2, <1>3, <1>4, <1>5, <1>6, LoadGoes DEF Basic, BootInv, Live

LEMMA OtherKeeps ==
    ASSUME Basic, NEW d \in Devs, OtherTakes(d)
    PROVE  /\ UNCHANGED <<pan, zst, meta, saved, flush, half, proc, boot, zdev, degraded, disk, put, get,
                          trim, risky, close, load, faults>>
           /\ dev[d].use = "empty" /\ dev'[d].use = "other" /\ d \notin half
           /\ \A e \in Devs \ {d} : dev'[e] = dev[e]
    BY DEF OtherTakes, OtherDev, lifeVars, fileVars, bootVars, workVars, opVars, Basic, TypeInv, BootInv

LEMMA BootStep ==
    ASSUME Basic, Next
    PROVE  BootInv'
  <1>1. CASE Flush
    BY <1>1, FlushKeeps DEF Basic, BootInv, RestoreInv, Live
  <1>2. CASE CloseBegins
    BY <1>2 DEF CloseBegins, Basic, BootInv, RestoreInv, Live, tierVars, fileVars, bootVars
  <1>3. CASE CloseEnds \/ ForcedExit \/ Killed
    BY <1>3, ProcessEndBoot DEF CloseEnds, ForcedExit, Killed, tierVars
  <1>4. CASE PowerLoss
    <2>1. ProcessEnds /\ half' = {} /\ load'.pc = "idle"
      BY <1>4, LoadEndTypes DEF PowerLoss, TierPowerLoss, Basic
    <2> QED BY <2>1 DEF ProcessEnds, BootInv, NoBoot
  <1>5. CASE \E d \in Devs : OtherTakes(d)
    <2>1. PICK d \in Devs : OtherTakes(d)
      BY <1>5
    <2> QED BY <2>1, OtherKeeps DEF Basic, TypeInv, BootInv, RestoreInv, Live
  <1>6. CASE Waits
    BY <1>6 DEF Waits, GetBlocks, GetReturns, Basic, BootInv, RestoreInv, Live,
       tierVars, fileVars, bootVars, opVars
  <1> QED BY <1>1, <1>2, <1>3, <1>4, <1>5, <1>6, StepKinds, BootBootInv, WorkBootInv, LoadBootInv

LEMMA PlaceStep ==
    ASSUME Basic, Next
    PROVE  PlaceInv'
  <1>1. CASE Boot
    <2>1. CASE ProcessEnds
      BY <2>1, ProcessEndPlace
    <2>2. CASE Serves
      BY <2>2 DEF Serves, Basic, PlaceInv, bootVars, workVars
    <2>3. CASE BootBegins \/ BootAllocates \/ BootSizes \/ BootCopies \/ BootVerifies \/ BootRestoreFails
      BY <2>3 DEF BootBegins, BootAllocates, BootSizes, BootCopies, BootVerifies, BootRestoreFails,
         workVars, Basic, PlaceInv
    <2>4. CASE BootOpens /\ ~ProcessEnds
      BY <2>4 DEF BootOpens, Basic, PlaceInv, bootVars, workVars
    <2> QED BY <1>1, <2>1, <2>2, <2>3, <2>4 DEF Boot
  <1>2. CASE Flush
    BY <1>2, FlushKeeps DEF Basic, PlaceInv
  <1>3. CASE Load
    BY <1>3, LoadKeeps DEF Basic, PlaceInv
  <1>4. CASE CloseBegins \/ Waits \/ \E d \in Devs : OtherTakes(d)
    BY <1>4 DEF CloseBegins, Waits, GetBlocks, GetReturns, OtherTakes, lifeVars, bootVars, workVars,
       Basic, PlaceInv
  <1>5. CASE CloseEnds \/ ForcedExit \/ Killed \/ PowerLoss
    BY <1>5, ProcessEndPlace DEF CloseEnds, ForcedExit, Killed, PowerLoss
  <1>6. ASSUME NEW n \in Names, Work(n) PROVE PlaceInv'
    <2>1. UNCHANGED <<proc, zdev>> /\ proc \in {"opened", "serving"}
      BY <1>6, WorkKeeps
    <2>2. CASE TrimWrites(n) \/ TrimMoves \/ TrimFails
      BY <2>1, <2>2 DEF TrimWrites, TrimMoves, TrimFails, Basic, PlaceInv
    <2>3. CASE ~(TrimWrites(n) \/ TrimMoves \/ TrimFails)
      <3> DEFINE G == /\ trim' = trim /\ \A m \in Names \ {n} : put'[m] = put[m]
                      /\ put'[n].pc # "idle" => proc = "serving"
                      /\ put'[n].pc = "wrote" => /\ put'[n].at \in {"zram", "disk"} /\ put'[n].tries > 0
                                                 /\ put'[n].at = "zram" => zdev # NoDev
      <3>0. put \in [Names -> Puts] /\ put[n] \in Puts /\ (put[n].pc # "idle" => proc = "serving")
        BY DEF Basic, TypeInv, PlaceInv
      <3>1. ASSUME PutCalls(n) \/ PutRefused(n) PROVE G
        BY <3>0, <3>1 DEF PutCalls, MayHold, PutRefused, Puts
      <3>2. ASSUME PutWrites(n, "zram") \/ PutWrites(n, "disk") PROVE G
        <4>1. PICK at \in {"zram", "disk"} : PutWrites(n, at)
          BY <3>2
        <4>2. put'[n] = [pc |-> "wrote", at |-> at, tries |-> put[n].tries + 1]
          BY <3>0, <4>1 DEF PutWrites
        <4>3. put[n].tries \in Nat
          BY <3>0 DEF Puts
        <4> QED BY <3>0, <4>1, <4>2, <4>3 DEF PutWrites
      <3>3. ASSUME PutCommits(n) PROVE G
        BY <3>0, <3>3 DEF PutCommits, Puts
      <3>4. ASSUME PutFails(n) PROVE G
        BY <3>0, <3>4 DEF PutFails, Ended, Puts
      <3>5. G
        BY <1>6, <2>3, <3>1, <3>2, <3>3, <3>4 DEF Work
      <3> QED BY <2>1, <3>5 DEF Basic, PlaceInv
    <2> QED BY <2>2, <2>3
  <1> QED BY <1>1, <1>2, <1>3, <1>4, <1>5, <1>6, StepKinds

LEMMA BasicInit ==
    ASSUME Init
    PROVE  Basic
  <1>1. PICK d \in Devs : /\ dev = [e \in Devs |-> IF e = d THEN TierDev(Blank) ELSE EmptyDev]
                          /\ pan = d
    BY DEF Init, TierInit
  <1>2. dev \in [Devs -> DevStates]
    BY <1>1, BlankTypes, ImageTypes
  <1>3. zst \in Files /\ meta \in Files /\ saved \in Files \X Files
    BY BlankTypes DEF Init, TierInit
  <1>4. \A n \in Names : put[n].pc = "idle"
    BY DEF Init, IdlePut
  <1>5. TypeInv
    BY <1>1, <1>2, <1>3, BlankTypes DEF Init, TierInit, TypeInv, Procs, Paths
  <1>6. BootInv
    BY DEF Init, TierInit, BootInv, NoBoot, NoLoad
  <1>7. PlaceInv
    BY <1>4 DEF Init, PlaceInv
  <1> QED BY <1>5, <1>6, <1>7 DEF Basic

LEMMA BasicStutter ==
    ASSUME Basic, UNCHANGED vars
    PROVE  Basic'
  <1>1. UNCHANGED <<dev, half, pan, zst, meta, saved, flush, proc, boot, zdev, degraded, disk, put, get,
                    trim, risky, close, load, faults, spoiled, calm>>
    BY DEF vars, progVars, tierVars, fileVars, lifeVars, bootVars, workVars, opVars
  <1>2. TypeInv'
    BY <1>1 DEF Basic, TypeInv
  <1>3. BootInv'
    BY <1>1 DEF Basic, BootInv, RestoreInv, Live
  <1>4. PlaceInv'
    BY <1>1 DEF Basic, PlaceInv
  <1> QED BY <1>2, <1>3, <1>4 DEF Basic

LEMMA BasicInvariance == Spec => []Basic
  <1>1. Init => Basic
    BY BasicInit
  <1>2. Basic /\ [Next]_vars => Basic'
    BY TypeStep, BootStep, PlaceStep, BasicStutter DEF Basic
  <1> QED BY <1>1, <1>2, PTL DEF Spec

\* The variables have their types in every reachable state, and the tier of a
\* running pool is on its device, for every set of objects and devices and
\* whatever the operator does.
THEOREM LifeTypeCorrect == Spec => []LifeTypeOK
  <1>1. Basic => LifeTypeOK
    <2> SUFFICES ASSUME Basic PROVE LifeTypeOK
      OBVIOUS
    <2>1. \A d \in Devs : dev[d].use \in {"empty", "other", "sized", "tier"} /\ dev[d].img \in Images
      BY DEF Basic, TypeInv, DevStates, Uses
    <2>2. zst.img \in Images /\ meta.img \in Images
      BY DEF Basic, TypeInv, Files
    <2> QED BY <2>1, <2>2 DEF Basic, TypeInv, BootInv, LifeTypeOK, Live, Procs, Paths
  <1> QED BY <1>1, BasicInvariance, PTL

\* A daemon that runs without its tier says so in Health (RestorePool's warning
\* becomes Server.degraded), whatever led to the boot without it.
THEOREM LossIsReported == Spec => []NoSilentLoss
  <1>1. Basic => NoSilentLoss
    BY DEF Basic, BootInv, NoSilentLoss, Health
  <1> QED BY <1>1, BasicInvariance, PTL

\* kernelRecovery writes only to a device that was empty or that it is already
\* restoring to, and gives back only the latter: wherever a boot or a load is
\* cut off, and whatever a second one does meanwhile.
THEOREM RecoveryNeverClobbers == Spec => NeverClobbers
  <1> DEFINE Kept(d) == /\ dev[d].use = "other" => dev'[d] = dev[d]
                        /\ (dev[d].use = "tier" /\ d \notin half) =>
                               \/ dev'[d] = dev[d]
                               \/ d = zdev /\ DaemonHas(d) /\ dev'[d].use = "tier"
             A == ~PowerLoss => \A d \in Devs : Kept(d)
  <1>1. Basic /\ [Next]_vars => [A]_dev
    <2> SUFFICES ASSUME Basic, [Next]_vars, dev' # dev, ~PowerLoss, NEW d \in Devs
                 PROVE  Kept(d)
      OBVIOUS
    <2>0. Next /\ half \subseteq Devs
      BY DEF vars, progVars, tierVars, Basic, TypeInv
    <2>1. CASE Boot
      <3>1. proc \in {"size", "restore"} /\ boot.dev \in Devs
        BY <2>1 DEF Boot, BootBegins, BootAllocates, BootSizes, BootCopies, BootVerifies, Restored,
           BootRestoreFails, BootOpens, Serves, tierVars, Basic, BootInv
      <3>2. RestoreStep(boot.dev) /\ (dev[boot.dev].use = "empty" \/ proc = "restore")
        BY <2>1, <3>1, RestoreSteps DEF Boot, BootBegins, BootAllocates, BootSizes, BootCopies,
           BootVerifies, BootRestoreFails, BootOpens, Serves, tierVars, Basic
      <3>3. dev[boot.dev].use = "empty" \/ (boot.dev \in half /\ dev[boot.dev].use # "other")
        BY <3>2 DEF Basic, BootInv, RestoreInv
      <3> QED BY <3>2, <3>3 DEF RestoreStep
    <2>2. ASSUME NEW n \in Names, Work(n) PROVE Kept(d)
      <3>1. dev'[d].use = dev[d].use /\ (d # zdev => dev'[d] = dev[d]) /\ proc \in {"opened", "serving"}
        BY <2>2, WorkKeeps
      <3>2. dev[d].use = "other" => d # zdev
        BY <3>1, WorkerPlaces, TierAssumption
      <3> QED BY <3>1, <3>2 DEF DaemonHas
    <2>3. CASE Load
      BY <2>0, <2>3, LoadSteps DEF RestoreStep, Basic, BootInv
    <2>4. CASE \E e \in Devs : OtherTakes(e)
      BY <2>4, OtherKeeps
    <2>5. CASE Flush \/ Waits \/ CloseBegins \/ CloseEnds \/ ForcedExit \/ Killed
      BY <2>5, FlushKeeps DEF Waits, GetBlocks, GetReturns, CloseBegins, CloseEnds, ForcedExit, Killed,
         tierVars
    <2> QED BY <2>0, <2>1, <2>2, <2>3, <2>4, <2>5, StepKinds
  <1> QED BY <1>1, BasicInvariance, PTL DEF Spec, NeverClobbers
-----------------------------------------------------------------------------
(* Handlers and Trim.                                                       *)

\* A step that leaves handlers, Trim and the device they write to alone.
LEMMA WorkFrame ==
    ASSUME WorkInv, UNCHANGED <<zdev, put, trim, disk>>,
           zdev # NoDev => dev'[zdev] = dev[zdev],
           \A n \in Names : put[n].pc = "wrote" /\ put[n].at = "zram" => zdev # NoDev,
           trim # Nothing => zdev # NoDev
    PROVE  WorkInv'
  <1>1. InTier' = InTier
    BY DEF InTier
  <1>2. TrimInv'
    BY DEF WorkInv, TrimInv
  <1>3. ASSUME NEW n \in Names PROVE PutInv(n)'
    <2>1. PutInv(n)
      BY DEF WorkInv
    <2> QED BY <1>1, <2>1 DEF PutInv, Writing
  <1> QED BY <1>2, <1>3 DEF WorkInv

\* Before the disks are open nobody is at work.
LEMMA WorkIdle ==
    ASSUME Basic', proc' \notin {"opened", "serving"}
    PROVE  WorkInv'
  <1>1. \A n \in Names : put'[n].pc = "idle"
    BY DEF Basic, PlaceInv
  <1> QED BY <1>1 DEF Basic, PlaceInv, WorkInv, PutInv, TrimInv

LEMMA PutWritesWorkInv ==
    ASSUME Basic, WorkInv, NEW n \in Names, PutWrites(n, "zram")
    PROVE  WorkInv'
  <1>1. /\ Written(SlotOf[n], n) /\ zdev \in Devs /\ zdev # NoDev
        /\ UNCHANGED <<zdev, trim, disk>>
        /\ put[n].pc # "wrote" /\ n \notin disk /\ n \notin InTier /\ ~Taken(SlotOf[n])
    BY PutWritesTo DEF PutWrites, bootVars, Registered
  <1>2. /\ put'[n].pc = "wrote" /\ put'[n].at = "zram"
        /\ \A m \in Names \ {n} : put'[m] = put[m]
    BY DEF PutWrites, Basic, TypeInv, Puts
  <1>3. InTier' = InTier /\ dev'[zdev].img.index = dev[zdev].img.index
    BY <1>1 DEF Written, InTier
  <1>4. Container \in Slots /\ \A m \in Names : SlotOf[m] \in Slots
    BY WorkerPlaces
  <1>5. \A m \in Names : PutInv(m)
    BY DEF WorkInv
  <1>6. /\ \A r \in dev[zdev].img.index : r[2] # SlotOf[n]
        /\ \A m \in Names : ~Writing(m, SlotOf[n])
        /\ trim # Nothing => SlotOf[n] # Container
    BY <1>1 DEF Taken, Writing
  <1>7. TrimInv'
    BY <1>1, <1>3, <1>4, <1>6 DEF WorkInv, TrimInv, Written
  <1>8. ASSUME NEW m \in Names \ {n} PROVE PutInv(m)'
    <2>1. SUFFICES ASSUME put[m].pc = "wrote" PROVE PutInv(m)'
      BY <1>2 DEF PutInv
    <2>2. CASE put[m].at # "zram"
      BY <1>1, <1>2, <1>3, <1>5, <2>1, <2>2 DEF PutInv
    <2>3. CASE put[m].at = "zram"
      <3>1. SlotOf[m] # SlotOf[n]
        BY <1>6, <2>1, <2>3 DEF Writing
      <3>2. dev'[zdev].img.grid[SlotOf[m]] = m
        BY <1>1, <1>4, <1>5, <2>1, <2>3, <3>1 DEF Written, PutInv
      <3>3. \A l \in Names : Writing(l, SlotOf[m])' => l = m
        BY <1>2, <1>5, <2>1, <2>3, <3>1 DEF Writing, PutInv
      <3> QED BY <1>1, <1>2, <1>3, <1>5, <2>1, <2>3, <3>2, <3>3 DEF PutInv
    <2> QED BY <2>2, <2>3
  <1>9. PutInv(n)'
    <2>1. \A l \in Names : Writing(l, SlotOf[n])' => l = n
      BY <1>2, <1>6 DEF Writing
    <2>2. dev'[zdev].img.grid[SlotOf[n]] = n
      BY <1>1 DEF Written
    <2> QED BY <1>1, <1>2, <1>3, <1>6, <2>1, <2>2 DEF PutInv
  <1> QED BY <1>7, <1>8, <1>9 DEF WorkInv

\* One handler changes its own state, and the device stays as it is.
LEMMA PutQuietWorkInv ==
    ASSUME WorkInv, NEW n \in Names, UNCHANGED <<zdev, trim, dev>>,
           \A m \in Names \ {n} : put'[m] = put[m],
           put'[n].pc # "wrote" \/ (put'[n].at = "disk" /\ n \notin InTier),
           \A m \in Names \ {n} : m \in disk' => m \in disk
    PROVE  WorkInv'
  <1>1. InTier' = InTier
    BY DEF InTier
  <1>2. TrimInv'
    BY DEF WorkInv, TrimInv
  <1>3. ASSUME NEW m \in Names PROVE PutInv(m)'
    <2>1. PutInv(m)
      BY DEF WorkInv
    <2>2. CASE m = n
      BY <1>1, <2>2 DEF PutInv
    <2>3. CASE m # n
      BY <1>1, <2>1, <2>3 DEF PutInv, Writing
    <2> QED BY <2>2, <2>3
  <1> QED BY <1>2, <1>3 DEF WorkInv

LEMMA PutCommitsWorkInv ==
    ASSUME Basic, WorkInv, NEW n \in Names, PutCommits(n), put[n].at = "zram"
    PROVE  WorkInv'
  <1>1. /\ Indexed(dev[zdev].img.index \cup {<<n, SlotOf[n]>>}) /\ zdev \in Devs
        /\ UNCHANGED <<zdev, trim, disk, proc>> /\ put[n].pc = "wrote"
    BY PutCommitsTo DEF PutCommits, bootVars
  <1>2. /\ put'[n].pc = "idle"
        /\ \A m \in Names \ {n} : put'[m] = put[m]
    BY DEF PutCommits, Basic, TypeInv, Puts
  <1>3. zdev # NoDev
    BY <1>1, TierAssumption
  <1>4. \A m \in Names \ {n} : m \notin InTier => m \notin InTier'
    BY <1>1, <1>3 DEF InTier, Indexed
  <1>5. \A m \in Names : PutInv(m)
    BY DEF WorkInv
  <1>6. TrimInv'
    BY <1>1, <1>5 DEF WorkInv, TrimInv, PutInv, Indexed
  <1>7. ASSUME NEW m \in Names PROVE PutInv(m)'
    <2>1. CASE m = n
      BY <1>2, <2>1 DEF PutInv
    <2>2. CASE m # n /\ put[m].at = "zram" /\ put[m].pc = "wrote"
      <3>1. SlotOf[m] # SlotOf[n]
        BY <1>1, <1>5, <2>2 DEF PutInv, Writing
      <3>2. \A l \in Names : Writing(l, SlotOf[m])' => l = m
        BY <1>2, <1>5, <2>2, <3>1 DEF Writing, PutInv
      <3>3. \A r \in dev'[zdev].img.index : r[2] # SlotOf[m]
        BY <1>1, <1>5, <2>2, <3>1 DEF Indexed, PutInv
      <3>4. PutInv(m) /\ dev'[zdev].img.grid = dev[zdev].img.grid /\ put'[m] = put[m]
        BY <1>1, <1>2, <1>5, <2>2 DEF Indexed
      <3> QED BY <1>1, <1>4, <2>2, <3>2, <3>3, <3>4 DEF PutInv
    <2>3. CASE m # n /\ ~(put[m].at = "zram" /\ put[m].pc = "wrote")
      BY <1>1, <1>2, <1>4, <1>5, <2>3 DEF PutInv
    <2> QED BY <2>1, <2>2, <2>3
  <1> QED BY <1>6, <1>7 DEF WorkInv

LEMMA TrimWritesWorkInv ==
    ASSUME Basic, WorkInv, NEW n \in Names, TrimWrites(n)
    PROVE  WorkInv'
  <1>1. /\ Written(Container, n) /\ zdev \in Devs /\ zdev # NoDev
        /\ UNCHANGED <<zdev, put, disk, proc>> /\ trim' = n /\ proc \in {"opened", "serving"}
        /\ <<n, SlotOf[n]>> \in dev[zdev].img.index /\ SlotOf[n] # Container
        /\ ~Taken(Container)
    BY TrimWritesTo DEF TrimWrites, bootVars
  <1>2. InTier' = InTier /\ dev'[zdev].img.index = dev[zdev].img.index
    BY <1>1 DEF Written, InTier
  <1>3. \A m \in Names : SlotOf[m] \in Slots
    BY WorkerPlaces
  <1>4. /\ \A r \in dev[zdev].img.index : r[2] # Container
        /\ \A m \in Names : ~Writing(m, Container)
    BY <1>1 DEF Taken, Writing
  <1>5. TrimInv'
    BY <1>1, <1>2, <1>4 DEF TrimInv, Written
  <1>6. ASSUME NEW m \in Names PROVE PutInv(m)'
    <2>1. PutInv(m)
      BY DEF WorkInv
    <2>2. put[m].pc = "wrote" /\ put[m].at = "zram" => SlotOf[m] # Container
      BY <1>4 DEF Writing
    <2> QED BY <1>1, <1>2, <1>3, <2>1, <2>2 DEF PutInv, Writing, Written
  <1> QED BY <1>5, <1>6 DEF WorkInv

LEMMA TrimMovesWorkInv ==
    ASSUME Basic, WorkInv, TrimMoves
    PROVE  WorkInv'
  <1>1. /\ Indexed(Moved(dev[zdev].img.index, trim)) /\ zdev \in Devs /\ zdev # NoDev
        /\ UNCHANGED <<zdev, put, disk, proc>> /\ trim' = Nothing /\ trim # Nothing
    BY TrimMovesTo, TierAssumption DEF TrimMoves, bootVars
  <1>2. trim \in InTier
    BY <1>1 DEF WorkInv, TrimInv, InTier
  <1>3. InTier' \subseteq InTier
    BY <1>1, <1>2 DEF InTier, Indexed, Moved
  <1>4. ASSUME NEW m \in Names PROVE PutInv(m)'
    <2>1. PutInv(m)
      BY DEF WorkInv
    <2>2. /\ dev'[zdev].img.grid = dev[zdev].img.grid
          /\ \A r \in dev'[zdev].img.index : r \in dev[zdev].img.index \/ r = <<trim, Container>>
      BY <1>1 DEF Indexed, Moved
    <2> QED BY <1>1, <1>3, <2>1, <2>2 DEF PutInv, Writing
  <1> QED BY <1>1, <1>4 DEF WorkInv, TrimInv

LEMMA TrimFailsWorkInv ==
    ASSUME Basic, WorkInv, TrimFails
    PROVE  WorkInv'
  <1>1. UNCHANGED <<dev, zdev, put, disk, proc>> /\ trim' = Nothing
    BY DEF TrimFails, tierVars, bootVars
  <1>2. InTier' = InTier
    BY <1>1 DEF InTier
  <1>3. ASSUME NEW m \in Names PROVE PutInv(m)'
    <2>1. PutInv(m)
      BY DEF WorkInv
    <2> QED BY <1>1, <1>2, <2>1 DEF PutInv, Writing
  <1> QED BY <1>1, <1>3 DEF WorkInv, TrimInv

LEMMA WorkWorkInv ==
    ASSUME Basic, WorkInv, NEW n \in Names, Work(n)
    PROVE  WorkInv'
  <1> DEFINE Others == \A m \in Names \ {n} : put'[m] = put[m]
  <1>0. put \in [Names -> Puts]
    BY DEF Basic, TypeInv
  <1>1. CASE PutWrites(n, "disk")
    <2>1. put'[n].pc = "wrote" /\ put'[n].at = "disk" /\ n \notin InTier /\ Others
      BY <1>0, <1>1 DEF PutWrites, Registered
    <2>2. UNCHANGED <<zdev, trim, dev, disk>>
      BY <1>1 DEF PutWrites, bootVars
    <2> QED BY <2>1, <2>2, PutQuietWorkInv
  <1>2. CASE PutCalls(n) \/ PutRefused(n) \/ PutFails(n)
    <2>1. put'[n].pc # "wrote" /\ Others
      BY <1>0, <1>2 DEF PutCalls, PutRefused, PutFails, Ended, Puts
    <2>2. UNCHANGED <<zdev, trim, dev, disk>>
      BY <1>2 DEF PutCalls, PutRefused, PutFails, tierVars, bootVars
    <2> QED BY <2>1, <2>2, PutQuietWorkInv
  <1>3. CASE PutCommits(n) /\ put[n].at # "zram"
    <2>1. put'[n].pc # "wrote" /\ Others
      BY <1>0, <1>3 DEF PutCommits
    <2>2. UNCHANGED <<zdev, trim, dev>> /\ disk' = disk \cup {n}
      BY <1>3 DEF PutCommits, bootVars
    <2> QED BY <2>1, <2>2, PutQuietWorkInv
  <1> QED BY <1>1, <1>2, <1>3, PutWritesWorkInv, PutCommitsWorkInv, TrimWritesWorkInv, TrimMovesWorkInv,
             TrimFailsWorkInv DEF Work

\* A step that leaves the devices which no restore was left on alone.
LEMMA LoadSpares ==
    ASSUME Basic, Load
    PROVE  Stable \subseteq Stable' /\ \A d \in Stable : dev'[d] = dev[d]
  <1>1. Stable \subseteq Devs \ half /\ \A d \in Stable : dev[d].use = "tier"
    BY DEF Stable, Live
  <1>2. \A d \in Stable : dev'[d] = dev[d] /\ d \notin half'
    BY <1>1, LoadSteps DEF RestoreStep
  <1> QED BY <1>1, <1>2 DEF Stable, Live

LEMMA WorkStep ==
    ASSUME Basic, Basic', Clear, WorkInv, Next
    PROVE  WorkInv'
  <1>1. CASE proc' \notin {"opened", "serving"}
    BY <1>1, WorkIdle
  <1>2. CASE \E n \in Names : Work(n)
    BY <1>2, WorkWorkInv
  <1>3. CASE BootOpens /\ ~ProcessEnds
    <2>1. \A n \in Names : put[n].pc = "idle"
      BY <1>3 DEF BootOpens, Basic, PlaceInv
    <2>2. trim = Nothing /\ UNCHANGED <<zdev, put, trim, disk, dev>>
      BY <1>3 DEF BootOpens, Basic, PlaceInv, bootVars, workVars
    <2> QED BY <2>1, <2>2, WorkFrame
  <1>4. ASSUME UNCHANGED <<zdev, put, trim, disk>>, zdev # NoDev => dev'[zdev] = dev[zdev] PROVE WorkInv'
    BY <1>4, WorkFrame DEF Basic, PlaceInv
  <1>5. CASE Flush \/ Serves \/ CloseBegins \/ Waits
    <2>1. UNCHANGED <<zdev, put, trim, disk, dev>>
      BY <1>5, FlushKeeps DEF Serves, CloseBegins, Waits, GetBlocks, GetReturns, tierVars, bootVars, workVars
    <2> QED BY <1>4, <2>1
  <1>6. CASE Load
    BY <1>4, <1>6, LoadKeeps, LoadSpares DEF Clear
  <1>7. CASE \E d \in Devs : OtherTakes(d)
    BY <1>4, <1>7, OtherKeeps DEF Clear, Stable, Live
  <1>8. CloseEnds \/ ForcedExit \/ Killed \/ PowerLoss => proc' = "down"
    BY DEF CloseEnds, ForcedExit, Killed, PowerLoss, ProcessEnds
  <1>9. CASE /\ proc' \in {"opened", "serving"}
             /\ BootBegins \/ BootAllocates \/ BootSizes \/ BootCopies \/ BootVerifies \/ BootRestoreFails
    BY <1>9 DEF BootBegins, BootAllocates, BootSizes, BootCopies, BootVerifies, BootRestoreFails, Resolved
  <1>10. BootOpens /\ ProcessEnds => proc' = "down"
    BY DEF ProcessEnds
  <1> QED BY <1>1, <1>2, <1>3, <1>5, <1>6, <1>7, <1>8, <1>9, <1>10, StepKinds DEF Boot
-----------------------------------------------------------------------------
(* What a flush has read.                                                   *)

\* A copy that agrees with an image in all of its units is that image.
LEMMA AgreeIsEqual ==
    ASSUME NEW i \in Images, NEW j \in Images, NEW k \in Nat, k > Units, Agree(i, j, k)
    PROVE  i = j
  <1>1. i.index = j.index /\ \A s \in Slots : i.grid[s] = j.grid[s]
    BY SlotCount DEF Agree, Slots
  <1>2. i.grid \in [Slots -> Names \cup {Nothing}] /\ j.grid \in [Slots -> Names \cup {Nothing}]
    BY DEF Images
  <1>3. i.grid = j.grid
    BY <1>1, <1>2
  <1> QED BY <1>1, <1>3 DEF Images

LEMMA CopyUnitFields ==
    ASSUME NEW i \in Images, NEW j \in Images, NEW k \in Nat, k > 0
    PROVE  /\ CopyUnit(i, j, k).index = IF k = 1 THEN j.index ELSE i.index
           /\ \A s \in Slots : CopyUnit(i, j, k).grid[s] = IF s + 1 = k THEN j.grid[s] ELSE i.grid[s]
    BY DEF CopyUnit

LEMMA CopyAgrees ==
    ASSUME NEW i \in Images, NEW j \in Images, NEW k \in Nat, k > 0, Agree(i, j, k)
    PROVE  Agree(CopyUnit(i, j, k), j, k + 1)
  <1>1. k + 1 > 1 => CopyUnit(i, j, k).index = j.index
    BY CopyUnitFields DEF Agree
  <1>2. \A s \in Slots : s \in Nat /\ (s + 1 < k + 1 => CopyUnit(i, j, k).grid[s] = j.grid[s])
    BY CopyUnitFields, SlotCount DEF Agree, Slots
  <1> QED BY <1>1, <1>2 DEF Agree

LEMMA AgreeStart ==
    ASSUME NEW i \in Images, NEW j \in Images
    PROVE  Agree(i, j, 1)
    BY SlotCount DEF Agree, Slots

\* A flush of a device that does not change has read what the device has.
CalmInv ==
    calm =>
        /\ flush.pc = "hash" => Agree(flush.sum, dev[flush.dev].img, flush.k)
        /\ flush.pc = "copy" => /\ flush.sum = dev[flush.dev].img
                                /\ Agree(flush.tmp, dev[flush.dev].img, flush.k)
        /\ flush.pc \in {"meta", "metaw"} => /\ flush.sum = dev[flush.dev].img
                                             /\ zst = Whole(dev[flush.dev].img)

LEMMA CalmStep ==
    ASSUME Basic, CalmInv, Next
    PROVE  CalmInv'
  <1> SUFFICES ASSUME calm' PROVE CalmInv'
    BY DEF CalmInv
  <1>1. flush'.pc # "idle" /\ (flush.pc = "idle" \/ calm) /\ dev' = dev
    BY DEF Next
  <1>2. /\ flush \in Flushes /\ flush.k \in Nat /\ flush.sum \in Images /\ flush.tmp \in Images
        /\ flush.pc # "idle" => dev[flush.dev].img \in Images
    BY DEF Basic, TypeInv, Flushes, DevStates
  <1>3. ASSUME UNCHANGED <<flush, zst>> PROVE CalmInv'
    BY <1>1, <1>3 DEF CalmInv
  <1>4. CASE Flush
    <2>1. CASE FlushStarts
      <3>1. flush'.pc = "hash" /\ flush'.k = 1 /\ flush'.sum \in Images /\ dev'[flush'.dev].img \in Images
        BY <2>1, <1>1, FlushBegun DEF Basic, TypeInv, Flushes, DevStates
      <3> QED BY <3>1, AgreeStart DEF CalmInv
    <2>2. CASE FlushHashes
      <3>1. flush.pc = "hash" /\ flush.k > 0 /\ Agree(flush.sum, dev[flush.dev].img, flush.k)
        BY <2>2, <1>1 DEF FlushHashes, CalmInv, Basic, TypeInv
      <3>2. Agree(CopyUnit(flush.sum, dev[flush.dev].img, flush.k), dev[flush.dev].img, flush.k + 1)
        BY <1>2, <3>1, CopyAgrees
      <3>3. /\ flush'.pc = "hash" /\ flush'.dev = flush.dev /\ flush'.k = flush.k + 1
            /\ flush'.sum = CopyUnit(flush.sum, dev[flush.dev].img, flush.k)
        BY <2>2, FlushHashed DEF Basic
      <3> QED BY <1>1, <3>2, <3>3 DEF CalmInv
    <2>3. CASE FlushSkips \/ FlushWritesMeta \/ FlushFails
      BY <2>3, <1>1, FlushEndTypes DEF Basic, FlushSkips, FlushWritesMeta, FlushFails
    <2>4. CASE FlushCopyStarts
      <3>1. flush.pc = "hash" /\ flush.k > Units /\ Agree(flush.sum, dev[flush.dev].img, flush.k)
        BY <2>4, <1>1 DEF FlushCopyStarts, CalmInv
      <3>2. flush.sum = dev[flush.dev].img
        BY <1>2, <3>1, AgreeIsEqual
      <3>3. flush'.pc = "copy" /\ flush'.dev = flush.dev /\ flush'.k = 1 /\ flush'.sum = flush.sum
            /\ flush'.tmp \in Images /\ dev[flush.dev].img \in Images
        BY <2>4, <1>2, <3>1, FlushTurns DEF Basic, Flushes
      <3>4. Agree(flush'.tmp, dev[flush.dev].img, 1)
        BY <3>3, AgreeStart
      <3> QED BY <1>1, <3>2, <3>3, <3>4 DEF CalmInv
    <2>5. CASE FlushCopies
      <3>1. /\ flush.pc = "copy" /\ flush.k > 0 /\ flush.sum = dev[flush.dev].img
            /\ Agree(flush.tmp, dev[flush.dev].img, flush.k)
        BY <2>5, <1>1 DEF FlushCopies, CalmInv, Basic, TypeInv
      <3>2. Agree(CopyUnit(flush.tmp, dev[flush.dev].img, flush.k), dev[flush.dev].img, flush.k + 1)
        BY <1>2, <3>1, CopyAgrees
      <3>3. /\ flush'.pc = "copy" /\ flush'.dev = flush.dev /\ flush'.k = flush.k + 1
            /\ flush'.tmp = CopyUnit(flush.tmp, dev[flush.dev].img, flush.k)
            /\ flush'.sum = flush.sum
        BY <2>5, FlushCopied DEF Basic
      <3> QED BY <1>1, <3>1, <3>2, <3>3 DEF CalmInv
    <2>6. CASE FlushRenames
      <3>1. /\ flush.pc = "copy" /\ flush.k > Units /\ flush.sum = dev[flush.dev].img
            /\ Agree(flush.tmp, dev[flush.dev].img, flush.k)
        BY <2>6, <1>1 DEF FlushRenames, CalmInv
      <3>2. flush.tmp = dev[flush.dev].img
        BY <1>2, <3>1, AgreeIsEqual
      <3>3. /\ flush'.pc = "meta" /\ flush'.dev = flush.dev /\ flush'.sum = flush.sum
            /\ zst' = Whole(flush.tmp)
        BY <2>6, <1>2 DEF FlushRenames, Flushes
      <3> QED BY <1>1, <3>1, <3>2, <3>3 DEF CalmInv
    <2>7. CASE FlushTruncatesMeta
      <3>1. flush'.pc = "metaw" /\ flush'.dev = flush.dev /\ flush'.sum = flush.sum /\ zst' = zst
        BY <2>7, <1>2 DEF FlushTruncatesMeta, Flushes
      <3> QED BY <2>7, <1>1, <3>1 DEF CalmInv, FlushTruncatesMeta
    <2>8. CASE Writeback
      BY <2>8, <1>3 DEF Writeback
    <2> QED BY <1>4, <2>1, <2>2, <2>3, <2>4, <2>5, <2>6, <2>7, <2>8 DEF Flush, FlushStep
  <1>5. CASE PowerLoss
    <2>1. flush'.pc = "idle"
      BY <1>5, FlushEndTypes DEF PowerLoss, TierPowerLoss, Basic
    <2> QED BY <1>1, <2>1
  <1>6. CASE Boot
    BY <1>6, <1>3 DEF Boot, BootBegins, BootAllocates, BootSizes, BootCopies, BootVerifies,
       BootRestoreFails, BootOpens, Serves, tierVars, fileVars
  <1>7. ASSUME NEW n \in Names, Work(n) PROVE CalmInv'
    BY <1>7, <1>3, WorkKeeps
  <1>8. CASE CloseBegins \/ CloseEnds \/ ForcedExit \/ Killed \/ Waits \/ \E d \in Devs : OtherTakes(d)
    BY <1>8, <1>3 DEF CloseBegins, CloseEnds, ForcedExit, Killed, Waits, GetBlocks, GetReturns, OtherTakes,
       tierVars, fileVars
  <1>9. CASE Load
    BY <1>9, <1>3, LoadKeeps
  <1> QED BY <1>4, <1>5, <1>6, <1>7, <1>8, <1>9, StepKinds

\* bsos zram flush over a device that does not change: the snapshot it leaves
\* is accepted by validateSnapshot and is that device; and when it skips the
\* copy, no older snapshot can be accepted in its place.
THEOREM FlushHolds == Spec => FlushTakesHold
  <1> DEFINE A == calm => /\ FlushWritesMeta => Accepted' /\ zst'.img = dev[flush.dev].img
                          /\ FlushSkips => (Accepted => zst.img = dev[flush.dev].img)
  <1>1. Init => CalmInv
    BY DEF Init, CalmInv
  <1>2. Basic /\ CalmInv /\ [Next]_vars => CalmInv'
    <2>1. ASSUME CalmInv, UNCHANGED vars PROVE CalmInv'
      BY <2>1 DEF vars, progVars, tierVars, fileVars, CalmInv
    <2> QED BY <2>1, CalmStep
  <1>3. Basic /\ CalmInv => A
    <2> SUFFICES ASSUME Basic, CalmInv, calm
                 PROVE  /\ FlushWritesMeta => Accepted' /\ zst'.img = dev[flush.dev].img
                        /\ FlushSkips => (Accepted => zst.img = dev[flush.dev].img)
      OBVIOUS
    <2>1. FlushWritesMeta => Accepted' /\ zst'.img = dev[flush.dev].img
      BY DEF CalmInv, FlushWritesMeta, Accepted, Whole
    <2>2. ASSUME FlushSkips, Accepted PROVE zst.img = dev[flush.dev].img
      <3>1. /\ flush.pc = "hash" /\ flush.k > Units /\ Agree(flush.sum, dev[flush.dev].img, flush.k)
            /\ meta.img = flush.sum
        BY <2>2 DEF FlushSkips, CalmInv, Unchanged
      <3>2. flush.k \in Nat /\ flush.sum \in Images /\ dev[flush.dev].img \in Images
        BY <3>1 DEF Basic, TypeInv, Flushes, DevStates
      <3>3. flush.sum = dev[flush.dev].img
        BY <3>1, <3>2, AgreeIsEqual
      <3> QED BY <2>2, <3>1, <3>3 DEF Accepted
    <2> QED BY <2>1, <2>2
  <1> QED BY <1>1, <1>2, <1>3, BasicInvariance, PTL DEF Spec, FlushTakesHold
-----------------------------------------------------------------------------
(* The order of indexes.                                                    *)

LEMMA LeadsSelf == ASSUME NEW x PROVE Leads(x, x)
    BY DEF Leads

LEMMA LeadsOn ==
    ASSUME NEW x, NEW y, NEW z, Leads(x, y), Leads(y, z)
    PROVE  Leads(x, z)
  <1> SUFFICES ASSUME NEW r \in x
               PROVE  \/ r \in z
                      \/ /\ r[2] = SlotOf[r[1]] /\ SlotOf[r[1]] # Container
                         /\ <<r[1], Container>> \in z
    BY DEF Leads
  <1>1. CASE r \in y
    BY <1>1 DEF Leads
  <1>2. CASE r \notin y
    <2>1. r[2] = SlotOf[r[1]] /\ SlotOf[r[1]] # Container /\ <<r[1], Container>> \in y
      BY <1>2 DEF Leads
    <2>2. <<r[1], Container>>[1] = r[1] /\ <<r[1], Container>>[2] = Container
      OBVIOUS
    <2>3. <<r[1], Container>> \in z
      BY <2>1, <2>2 DEF Leads
    <2> QED BY <2>1, <2>3
  <1> QED BY <1>1, <1>2

LEMMA LeadsBack ==
    ASSUME NEW x, NEW y, Formed(x), Leads(x, y), Leads(y, x)
    PROVE  x \subseteq y
  <1> SUFFICES ASSUME NEW r \in x, r \notin y PROVE FALSE
    OBVIOUS
  <1>1. r[2] = SlotOf[r[1]] /\ SlotOf[r[1]] # Container /\ <<r[1], Container>> \in y
    BY DEF Leads
  <1> DEFINE q == <<r[1], Container>>
  <1>2. q[1] = r[1] /\ q[2] = Container /\ q \in y
    BY <1>1
  <1> HIDE DEF q
  <1>3. q \in x
    BY <1>1, <1>2, Zenon DEF Leads
  <1>4. q = r
    BY <1>2, <1>3 DEF Formed
  <1> QED BY <1>1, <1>2, <1>4

\* An index that leads to another one and back is that one.
LEMMA LeadsEqual ==
    ASSUME NEW x, NEW y, Formed(x), Formed(y), Leads(x, y), Leads(y, x)
    PROVE  x = y
    BY LeadsBack

\* What is behind an index that has moved on is not its successor.
LEMMA MovedOn ==
    ASSUME NEW w, NEW x, NEW y, Formed(x), Formed(y), Leads(w, x), Leads(x, y), x # y
    PROVE  w # y /\ Leads(w, y)
    BY LeadsEqual, LeadsOn

LEMMA LeadsNames ==
    ASSUME NEW x, NEW y, Leads(x, y)
    PROVE  NamesOf(x) \subseteq NamesOf(y)
  <1> SUFFICES ASSUME NEW r \in x PROVE r[1] \in NamesOf(y)
    BY DEF NamesOf
  <1>1. CASE r \in y
    BY <1>1 DEF NamesOf
  <1>2. CASE <<r[1], Container>> \in y
    <2>1. <<r[1], Container>>[1] = r[1]
      OBVIOUS
    <2> QED BY <1>2, <2>1 DEF NamesOf
  <1> QED BY <1>1, <1>2 DEF Leads

\* A Put adds an entry for a name that has none.
LEMMA AddLeads ==
    ASSUME NEW x, NEW n \in Names, Formed(x), n \notin NamesOf(x)
    PROVE  LET y == x \cup {<<n, SlotOf[n]>>}
           IN  /\ Formed(y) /\ Leads(x, y) /\ x # y
               /\ NamesOf(y) \subseteq NamesOf(x) \cup {n}
  <1> DEFINE q == <<n, SlotOf[n]>>
             y == x \cup {q}
  <1>1. q[1] = n /\ q[2] = SlotOf[n] /\ q \in Refs
    BY TierAssumption DEF Refs
  <1>2. \A r \in x : r[1] # n
    BY DEF NamesOf
  <1> HIDE DEF q
  <1>3. Formed(y)
    BY <1>1, <1>2 DEF Formed
  <1>4. Leads(x, y)
    BY DEF Leads
  <1>5. x # y
    BY <1>1, <1>2
  <1>6. NamesOf(y) \subseteq NamesOf(x) \cup {n}
    BY <1>1 DEF NamesOf
  <1> QED BY <1>3, <1>4, <1>5, <1>6 DEF q

\* Trim moves an entry into the container.
LEMMA MoveLeads ==
    ASSUME NEW x, NEW n \in Names, Formed(x), <<n, SlotOf[n]>> \in x, SlotOf[n] # Container
    PROVE  /\ Formed(Moved(x, n)) /\ Leads(x, Moved(x, n)) /\ x # Moved(x, n)
           /\ NamesOf(Moved(x, n)) \subseteq NamesOf(x)
  <1> DEFINE q == <<n, SlotOf[n]>>
             p == <<n, Container>>
             y == Moved(x, n)
  <1>1. q[1] = n /\ q[2] = SlotOf[n] /\ p[1] = n /\ p[2] = Container /\ p \in Refs /\ q \in x /\ p # q
    BY SlotCount DEF Refs
  <1>2. y = (x \ {q}) \cup {p}
    BY DEF Moved
  <1>3. \A r \in x : r[1] = n => r = q
    BY <1>1 DEF Formed
  <1> HIDE DEF q, y
  <1>4. p \notin x
    BY <1>1, <1>3
  <1>5. Formed(y)
    <2> HIDE DEF p
    <2> QED BY <1>1, <1>2, <1>3 DEF Formed
  <1>6. Leads(x, y)
    BY <1>1, <1>2, <1>3 DEF Leads
  <1>7. NamesOf(y) \subseteq NamesOf(x)
    <2> HIDE DEF p
    <2> QED BY <1>1, <1>2 DEF NamesOf
  <1> QED BY <1>2, <1>4, <1>5, <1>6, <1>7 DEF y

\* An image whose slots have all been read right is whole.
LEMMA ReadIsSound ==
    ASSUME NEW i, NEW k \in Nat, k > Units, Formed(i.index), ReadRight(i, k)
    PROVE  Sound(i)
  <1>1. \A r \in i.index : r[2] \in Slots
    BY DEF Formed, Refs
  <1>2. \A r \in i.index : r[2] + 1 < k
    BY <1>1, SlotCount DEF Slots
  <1> QED BY <1>2 DEF ReadRight, Sound

\* One more unit is read from a device that is whole.
LEMMA ReadOn ==
    ASSUME NEW i \in Images, NEW j \in Images, NEW k \in Nat, k > 0,
           Sound(j), Formed(j.index), k = 1 \/ (i.index = j.index => ReadRight(i, k))
    PROVE  CopyUnit(i, j, k).index = j.index => ReadRight(CopyUnit(i, j, k), k + 1)
  <1> DEFINE c == CopyUnit(i, j, k)
  <1> SUFFICES ASSUME c.index = j.index, NEW r \in c.index, r[2] + 1 < k + 1 PROVE c.grid[r[2]] = r[1]
    BY DEF ReadRight
  <1>1. r[2] \in Slots /\ j.grid[r[2]] = r[1] /\ r \in j.index
    BY DEF Formed, Refs, Sound
  <1>2. r[2] \in Nat /\ r[2] > 0
    BY <1>1, SlotCount DEF Slots
  <1>3. CASE r[2] + 1 = k
    BY <1>1, <1>3, CopyUnitFields
  <1>4. CASE r[2] + 1 # k
    <2>1. k # 1 /\ r[2] + 1 < k
      BY <1>2, <1>4
    <2>2. c.index = i.index /\ c.grid[r[2]] = i.grid[r[2]]
      BY <1>1, <1>4, <2>1, CopyUnitFields
    <2> QED BY <2>1, <2>2 DEF ReadRight
  <1> QED BY <1>3, <1>4
-----------------------------------------------------------------------------
(* The situations of the tier.                                              *)

LEMMA FileTypes ==
    ASSUME Basic
    PROVE  /\ \A f \in Snaps \cup Sums : f \in Files /\ f.img \in Images
           /\ \A d \in Devs : dev[d].img \in Images
           /\ flush.k \in Nat /\ flush.sum \in Images /\ flush.tmp \in Images
           /\ Stable \subseteq Devs /\ Stable \subseteq Live
  <1>1. zst \in Files /\ meta \in Files /\ saved[1] \in Files /\ saved[2] \in Files
    BY DEF Basic, TypeInv
  <1>2. \A f \in Snaps \cup Sums : f \in Files
    BY <1>1 DEF Snaps, Sums
  <1>3. \A f \in Files : f.img \in Images
    BY DEF Files
  <1>4. \A d \in Devs : dev[d].img \in Images
    BY DEF Basic, TypeInv, DevStates
  <1>5. flush.k \in Nat /\ flush.sum \in Images /\ flush.tmp \in Images
    BY DEF Basic, TypeInv, Flushes
  <1> QED BY <1>2, <1>3, <1>4, <1>5 DEF Stable, Live

\* A step that leaves the tier, the files and the flush alone.
LEMMA TierFrame ==
    ASSUME FilesInv, DevicesInv, Gone \/ Resting \/ Moving,
           UNCHANGED <<zst, meta, saved, flush, pan>>,
           Stable' = Stable, \A d \in Stable : dev'[d] = dev[d],
           Moving => zdev' \in {NoDev, pan},
           Recovering' => Resting
    PROVE  FilesInv' /\ DevicesInv' /\ TierInv'
  <1>1. Snaps' = Snaps /\ Sums' = Sums /\ Accepted' = Accepted
    BY DEF Snaps, Sums, Accepted
  <1>2. FilesInv'
    BY <1>1 DEF FilesInv
  <1>3. DevicesInv'
    BY DEF DevicesInv, IndexOf
  <1>4. QuietFlush => QuietFlush'
    BY <1>1 DEF QuietFlush
  <1>5. Gone => Gone'
    BY DEF Gone
  <1>6. Resting => Resting'
    BY <1>1, <1>4 DEF Resting
  <1>7. ASSUME Moving PROVE Moving'
    <2>1. pan \in Stable /\ IndexOf(pan)' = IndexOf(pan)
      BY <1>7 DEF Moving, IndexOf
    <2>2. HashFlush => HashFlush'
      BY <1>1, <2>1 DEF HashFlush, Copied
    <2>3. CopyFlush => CopyFlush'
      BY <1>1, <2>1 DEF CopyFlush, Copied
    <2>4. MetaFlush => MetaFlush'
      BY <1>1, <2>1 DEF MetaFlush, Copied
    <2> QED BY <1>1, <1>4, <1>7, <2>1, <2>2, <2>3, <2>4 DEF Moving
  <1> QED BY <1>2, <1>3, <1>5, <1>6, <1>7 DEF TierInv

LEMMA NamesFrame ==
    ASSUME NamesInv, UNCHANGED <<zst, saved, disk, risky>>,
           Stable' = Stable, \A d \in Stable : dev'[d] = dev[d], pan' = pan
    PROVE  NamesInv'
  <1>1. Snaps' = Snaps
    BY DEF Snaps
  <1> QED BY <1>1 DEF NamesInv, IndexOf

\* A tier that rests is live and unwritten: it may be written to.
LEMMA RestingMoves ==
    ASSUME Basic, FilesInv, DevicesInv, Resting, pan \in Stable, zdev \in {NoDev, pan}
    PROVE  Moving
  <1>1. /\ dev[pan].img = zst.img /\ meta.img = zst.img /\ saved[1] = zst /\ saved[2] = meta
        /\ zst.is = "whole" /\ meta.is = "whole"
    BY DEF Resting, Accepted
  <1>2. Snaps = {zst} /\ Sums = {meta}
    BY <1>1 DEF Snaps, Sums
  <1>3. Sound(zst.img) /\ Formed(IndexOf(pan)) /\ IndexOf(pan) = zst.img.index
    BY <1>1 DEF DevicesInv, IndexOf
  <1>4. \A f \in Snaps \cup Sums : Behind(f.img, IndexOf(pan))
    BY <1>1, <1>2, <1>3, LeadsSelf DEF Behind
  <1>5. ASSUME QuietFlush, flush.dev = pan PROVE HashFlush
    <2>1. flush.pc = "hash" /\ Agree(flush.sum, zst.img, flush.k)
      BY <1>5 DEF QuietFlush
    <2>2. ASSUME flush.k > 1 PROVE Copied(flush.sum, flush.k)
      <3>1. flush.sum.index = IndexOf(pan)
        BY <1>3, <2>1, <2>2 DEF Agree
      <3>2. \A r \in flush.sum.index : r[2] \in Slots
        BY <1>3, <3>1 DEF Formed, Refs
      <3>3. ReadRight(flush.sum, flush.k)
        BY <1>3, <2>1, <3>1, <3>2 DEF Agree, ReadRight, Sound
      <3> QED BY <1>3, <3>1, <3>3, LeadsSelf DEF Copied
    <2> QED BY <1>2, <1>3, <2>1, <2>2 DEF HashFlush
  <1>6. flush.pc = "idle" \/ QuietFlush
    BY DEF Resting
  <1> QED BY <1>4, <1>5, <1>6 DEF Moving

\* The device that the daemon writes to is that of pan.json, and it may be.
LEMMA WrittenMoves ==
    ASSUME Basic, Clear, TierFit, proc \in {"opened", "serving"}, zdev # NoDev
    PROVE  Moving /\ zdev = pan /\ pan \in Stable
  <1>1. zdev = pan
    BY DEF Basic, BootInv
  <1>2. pan \in Stable
    BY <1>1 DEF Clear
  <1>3. ~Gone
    BY <1>2 DEF Gone
  <1>4. Resting => Moving
    BY <1>1, <1>2, RestingMoves DEF TierFit
  <1> QED BY <1>1, <1>2, <1>3, <1>4 DEF TierFit, TierInv

\* The daemon writes bytes to a slot that no entry refers to.
LEMMA GridWritten ==
    ASSUME Basic, Clear, TierFit, proc \in {"opened", "serving"}, zdev # NoDev,
           NEW s \in Slots, NEW n \in Names, Written(s, n), \A r \in IndexOf(zdev) : r[2] # s,
           UNCHANGED <<half, zst, meta, saved, flush, pan, proc, zdev, disk, risky>>
    PROVE  TierFit'
  <1>1. Moving /\ zdev = pan /\ pan \in Stable
    BY WrittenMoves
  <1>2. Stable' = Stable
    BY DEF Stable, Live, Written
  <1>3. \A d \in Devs : IndexOf(d)' = IndexOf(d) /\ (d # pan => dev'[d] = dev[d])
    BY <1>1 DEF IndexOf, Written
  <1>4. Snaps' = Snaps /\ Sums' = Sums /\ Accepted' = Accepted /\ Stable \subseteq Devs
    BY FileTypes DEF Snaps, Sums, Accepted
  <1>5. FilesInv'
    BY <1>4 DEF TierFit, FilesInv
  <1>6. DevicesInv'
    <2>1. Sound(dev[pan].img) /\ Formed(IndexOf(pan))
      BY <1>1 DEF TierFit, DevicesInv
    <2>2. \A r \in IndexOf(pan) : r[2] \in Slots
      BY <2>1 DEF Formed, Refs
    <2>3. Sound(dev'[pan].img)
      BY <1>1, <1>3, <1>4, <2>1, <2>2 DEF Sound, Written, IndexOf
    <2> QED BY <1>2, <1>3, <1>4, <2>3 DEF TierFit, DevicesInv
  <1>7. NamesInv'
    BY <1>1, <1>2, <1>3, <1>4 DEF TierFit, NamesInv
  <1>8. Moving'
    <2>1. IndexOf(pan)' = IndexOf(pan)
      BY <1>1, <1>3, <1>4
    <2>2. flush.dev # pan /\ QuietFlush => QuietFlush'
      BY <1>2, <1>3, <1>4 DEF QuietFlush
    <2>3. HashFlush => HashFlush'
      BY <1>4, <2>1 DEF HashFlush, Copied
    <2>4. CopyFlush => CopyFlush'
      BY <1>4, <2>1 DEF CopyFlush, Copied
    <2>5. MetaFlush => MetaFlush'
      BY <1>4, <2>1 DEF MetaFlush, Copied
    <2> QED BY <1>1, <1>2, <1>4, <2>1, <2>2, <2>3, <2>4, <2>5 DEF Moving
  <1>9. ~Recovering'
    BY DEF Recovering
  <1> QED BY <1>5, <1>6, <1>7, <1>8, <1>9 DEF TierFit, TierInv

\* The daemon moves its index on.
LEMMA IndexWritten ==
    ASSUME Basic, Clear, TierFit, proc \in {"opened", "serving"}, zdev # NoDev,
           NEW y, Indexed(y), Formed(y), Leads(IndexOf(zdev), y), IndexOf(zdev) # y,
           \A r \in y : dev[zdev].img.grid[r[2]] = r[1],
           NamesOf(y) \cap disk \subseteq risky,
           UNCHANGED <<half, zst, meta, saved, flush, pan, proc, zdev, disk, risky>>
    PROVE  TierFit'
  <1>1. Moving /\ zdev = pan /\ pan \in Stable
    BY WrittenMoves
  <1>2. Stable' = Stable
    BY DEF Stable, Live, Indexed
  <1>3. \A d \in Devs : d # pan => dev'[d] = dev[d]
    BY <1>1 DEF Indexed
  <1>4. Snaps' = Snaps /\ Sums' = Sums /\ Accepted' = Accepted /\ Stable \subseteq Devs
    BY FileTypes DEF Snaps, Sums, Accepted
  <1>5. FilesInv'
    BY <1>4 DEF TierFit, FilesInv
  <1>6. IndexOf(pan)' = y /\ dev'[pan].img.grid = dev[pan].img.grid
    BY <1>1, <1>4 DEF Indexed, IndexOf
  <1>7. DevicesInv'
    <2>1. Sound(dev'[pan].img)
      BY <1>1, <1>6 DEF Sound, IndexOf
    <2>2. \A d \in Stable \ {pan} : dev'[d] = dev[d]
      BY <1>3, <1>4
    <2> QED BY <1>1, <1>2, <1>6, <2>1, <2>2 DEF TierFit, DevicesInv, IndexOf
  <1>8. NamesInv'
    BY <1>1, <1>4, <1>6 DEF TierFit, NamesInv
  <1>9. Moving'
    <2>1. Formed(IndexOf(pan))
      BY <1>1 DEF TierFit, DevicesInv
    <2>2. \A w : Leads(w, IndexOf(pan)) => w # y /\ Leads(w, y)
      BY <1>1, <2>1, MovedOn
    <2>3. \A i : Behind(i, IndexOf(pan)) => Behind(i, y)
      BY <2>2 DEF Behind
    <2>4. \A i, k : Copied(i, k) => Copied(i, k)'
      BY <1>6, <2>2 DEF Copied
    <2>5. flush.dev # pan /\ QuietFlush => QuietFlush'
      BY <1>2, <1>3, <1>4 DEF QuietFlush
    <2>6. HashFlush => HashFlush'
      BY <1>4, <2>4 DEF HashFlush
    <2>7. CopyFlush => CopyFlush'
      BY <1>4, <2>4 DEF CopyFlush
    <2>8. MetaFlush => MetaFlush'
      BY <1>4, <2>4 DEF MetaFlush
    <2> QED BY <1>1, <1>2, <1>4, <1>6, <2>3, <2>5, <2>6, <2>7, <2>8 DEF Moving
  <1>10. ~Recovering'
    BY DEF Recovering
  <1> QED BY <1>5, <1>7, <1>8, <1>9, <1>10 DEF TierFit, TierInv

\* Nothing of the tier changes, nor what the daemon has of it.
LEMMA StillFit ==
    ASSUME TierFit, UNCHANGED <<dev, half, zst, meta, saved, flush, pan, proc, zdev, disk, risky>>
    PROVE  TierFit'
  <1>1. Stable' = Stable /\ (Recovering' => Recovering)
    BY DEF Stable, Live, Recovering
  <1>2. Moving => zdev' \in {NoDev, pan}
    BY DEF Moving
  <1>3. FilesInv' /\ DevicesInv' /\ TierInv'
    BY <1>1, <1>2, TierFrame DEF TierFit, TierInv
  <1>4. NamesInv'
    BY <1>1, NamesFrame DEF TierFit
  <1> QED BY <1>3, <1>4 DEF TierFit

LEMMA PutWritesFit ==
    ASSUME Basic, Clear, WorkInv, TierFit, NEW n \in Names, PutWrites(n, "zram")
    PROVE  TierFit'
  <1>1. Written(SlotOf[n], n) /\ proc \in {"opened", "serving"} /\ zdev # NoDev /\ SlotOf[n] \in Slots
    BY PutWritesTo, WorkerPlaces DEF PutWrites, Basic, PlaceInv
  <1>2. \A r \in IndexOf(zdev) : r[2] # SlotOf[n]
    BY DEF PutWrites, Taken, IndexOf
  <1>3. UNCHANGED <<half, zst, meta, saved, flush, pan, proc, zdev, disk, risky>>
    BY DEF PutWrites, bootVars, fileVars
  <1> QED BY <1>1, <1>2, <1>3, GridWritten

LEMMA TrimWritesFit ==
    ASSUME Basic, Clear, WorkInv, TierFit, NEW n \in Names, TrimWrites(n)
    PROVE  TierFit'
  <1>1. Written(Container, n) /\ proc \in {"opened", "serving"} /\ zdev # NoDev /\ Container \in Slots
    BY TrimWritesTo, WorkerPlaces DEF TrimWrites
  <1>2. \A r \in IndexOf(zdev) : r[2] # Container
    BY DEF TrimWrites, Taken, IndexOf
  <1>3. UNCHANGED <<half, zst, meta, saved, flush, pan, proc, zdev, disk, risky>>
    BY DEF TrimWrites, bootVars, fileVars
  <1> QED BY <1>1, <1>2, <1>3, GridWritten

\* The tier of a daemon that is at work.
LEMMA ServedTier ==
    ASSUME Basic, Clear, TierFit, proc \in {"opened", "serving"}, zdev # NoDev
    PROVE  /\ Sound(dev[zdev].img) /\ Formed(IndexOf(zdev))
           /\ InTier = NamesOf(IndexOf(zdev)) /\ NamesOf(IndexOf(zdev)) \cap disk \subseteq risky
  <1>1. Moving /\ zdev = pan /\ pan \in Stable
    BY WrittenMoves
  <1> QED BY <1>1 DEF TierFit, DevicesInv, NamesInv, InTier, NamesOf, IndexOf

LEMMA PutCommitsFit ==
    ASSUME Basic, Clear, WorkInv, TierFit, NEW n \in Names, PutCommits(n), put[n].at = "zram"
    PROVE  TierFit'
  <1> DEFINE y == IndexOf(zdev) \cup {<<n, SlotOf[n]>>}
  <1>1. PutInv(n) /\ put[n].pc = "wrote"
    BY DEF WorkInv, PutCommits
  <1>2. /\ Indexed(y) /\ proc \in {"opened", "serving"} /\ zdev # NoDev
        /\ n \notin InTier /\ n \notin disk /\ dev[zdev].img.grid[SlotOf[n]] = n
    BY <1>1, PutCommitsTo DEF PutInv, IndexOf, Basic, PlaceInv
  <1>3. /\ Sound(dev[zdev].img) /\ Formed(IndexOf(zdev))
        /\ n \notin NamesOf(IndexOf(zdev)) /\ NamesOf(IndexOf(zdev)) \cap disk \subseteq risky
    BY <1>2, ServedTier
  <1>4. Formed(y) /\ Leads(IndexOf(zdev), y) /\ IndexOf(zdev) # y /\ NamesOf(y) \subseteq NamesOf(IndexOf(zdev)) \cup {n}
    BY <1>3, AddLeads
  <1>5. \A r \in y : dev[zdev].img.grid[r[2]] = r[1]
    BY <1>2, <1>3 DEF Sound, IndexOf
  <1>6. NamesOf(y) \cap disk \subseteq risky
    BY <1>2, <1>3, <1>4
  <1>7. UNCHANGED <<half, zst, meta, saved, flush, pan, proc, zdev, disk, risky>>
    BY DEF PutCommits, bootVars, fileVars
  <1> HIDE DEF y
  <1> QED BY <1>2, <1>4, <1>5, <1>6, <1>7, IndexWritten

LEMMA TrimMovesFit ==
    ASSUME Basic, Clear, WorkInv, TierFit, TrimMoves
    PROVE  TierFit'
  <1> DEFINE y == Moved(IndexOf(zdev), trim)
  <1>1. Indexed(y) /\ trim \in Names /\ trim # Nothing
    BY TrimMovesTo DEF IndexOf, TrimMoves
  <1>2. /\ proc \in {"opened", "serving"} /\ zdev # NoDev
        /\ <<trim, SlotOf[trim]>> \in IndexOf(zdev) /\ SlotOf[trim] # Container
        /\ dev[zdev].img.grid[Container] = trim
    BY <1>1 DEF Basic, PlaceInv, WorkInv, TrimInv, IndexOf
  <1>3. /\ Sound(dev[zdev].img) /\ Formed(IndexOf(zdev))
        /\ NamesOf(IndexOf(zdev)) \cap disk \subseteq risky
    BY <1>2, ServedTier
  <1>4. Formed(y) /\ Leads(IndexOf(zdev), y) /\ IndexOf(zdev) # y /\ NamesOf(y) \subseteq NamesOf(IndexOf(zdev))
    BY <1>1, <1>2, <1>3, MoveLeads
  <1>5. \A r \in y : dev[zdev].img.grid[r[2]] = r[1]
    BY <1>2, <1>3 DEF Sound, IndexOf, Moved
  <1>6. NamesOf(y) \cap disk \subseteq risky
    BY <1>3, <1>4
  <1>7. UNCHANGED <<half, zst, meta, saved, flush, pan, proc, zdev, disk, risky>>
    BY DEF TrimMoves, bootVars, fileVars
  <1> HIDE DEF y
  <1> QED BY <1>2, <1>1, <1>4, <1>5, <1>6, <1>7, IndexWritten

\* A Put to the disk: with the tier there, its gate was asked; without it the
\* name is recorded as stored while the tier was missing.
LEMMA DiskCommitsFit ==
    ASSUME Basic, Clear, WorkInv, TierFit, NEW n \in Names, PutCommits(n), put[n].at # "zram"
    PROVE  TierFit'
  <1>1. /\ UNCHANGED <<dev, half, zst, meta, saved, flush, pan, proc, zdev>>
        /\ disk' = disk \cup {n} /\ put[n].pc = "wrote"
        /\ risky' = IF zdev = NoDev THEN risky \cup {n} ELSE risky
    BY DEF PutCommits, bootVars, fileVars
  <1>2. proc = "serving" /\ n \notin InTier
    BY <1>1 DEF Basic, PlaceInv, WorkInv, PutInv
  <1>3. Stable' = Stable /\ ~Recovering'
    BY <1>1, <1>2 DEF Stable, Live, Recovering
  <1>4. Moving => zdev' \in {NoDev, pan}
    BY <1>1 DEF Moving
  <1>5. FilesInv' /\ DevicesInv' /\ TierInv'
    BY <1>1, <1>3, <1>4, TierFrame DEF TierFit, TierInv
  <1>6. NamesInv'
    <2>1. Snaps' = Snaps /\ IndexOf(pan)' = IndexOf(pan) /\ NamesInv
      BY <1>1 DEF Snaps, IndexOf, TierFit
    <2>2. CASE zdev = NoDev
      BY <1>1, <1>3, <2>1, <2>2 DEF NamesInv
    <2>3. CASE zdev # NoDev
      <3>1. Moving /\ zdev = pan /\ n \notin NamesOf(IndexOf(pan))
        BY <1>2, <2>3, WrittenMoves, ServedTier
      <3>2. \A z \in Snaps : z.is = "whole" => NamesOf(z.img.index) \subseteq NamesOf(IndexOf(pan))
        BY <3>1, LeadsNames DEF Moving, Behind
      <3> QED BY <1>1, <1>3, <2>1, <2>3, <3>1, <3>2 DEF NamesInv
    <2> QED BY <2>2, <2>3
  <1> QED BY <1>5, <1>6 DEF TierFit

LEMMA WorkFit ==
    ASSUME Basic, Clear, WorkInv, TierFit, NEW n \in Names, Work(n)
    PROVE  TierFit'
  <1>1. CASE PutCalls(n) \/ PutRefused(n) \/ PutWrites(n, "disk") \/ PutFails(n) \/ TrimFails
    <2>1. UNCHANGED <<dev, half, zst, meta, saved, flush, pan, proc, zdev, disk, risky>>
      BY <1>1 DEF PutCalls, PutRefused, PutWrites, PutFails, TrimFails, bootVars, tierVars, fileVars
    <2> QED BY <2>1, StillFit
  <1> QED BY <1>1, PutWritesFit, TrimWritesFit, PutCommitsFit, DiskCommitsFit, TrimMovesFit DEF Work

\* A boot, or its end, that leaves the complete devices, the files, the flush
\* and pan.json alone.
LEMMA BootFrame ==
    ASSUME TierFit, UNCHANGED <<zst, meta, saved, flush, pan, disk, risky>>,
           Stable' = Stable, \A d \in Stable : dev'[d] = dev[d],
           Moving => zdev' \in {NoDev, pan},
           Recovering' => Resting
    PROVE  TierFit'
  <1>1. FilesInv' /\ DevicesInv' /\ TierInv'
    BY TierFrame DEF TierFit, TierInv
  <1>2. NamesInv'
    BY NamesFrame DEF TierFit
  <1> QED BY <1>1, <1>2 DEF TierFit

\* The pool takes a live device only if no restore was left on it.
LEMMA BootBeginsFit ==
    ASSUME Basic, TierFit, BootBegins, zdev' \notin half'
    PROVE  TierFit' /\ Clear'
  <1>1. UNCHANGED <<zst, meta, saved, flush, pan, disk, risky, dev, half>> /\ proc = "down"
    BY DEF BootBegins, tierVars, fileVars, workVars
  <1>2. zdev = NoDev
    BY <1>1 DEF Basic, BootInv
  <1>4. Stable' = Stable
    BY <1>1 DEF Stable, Live
  <1>5. ASSUME Recovering' PROVE Resting
    <2>1. Live = {} /\ Accepted
      BY <1>1, <1>5 DEF Recovering, BootBegins, Resolved
    <2>2. Gone \/ Resting
      BY <2>1 DEF TierFit, TierInv, Moving, Stable
    <2>3. Gone => Resting
      BY <2>1 DEF Gone, Resting, Stable
    <2> QED BY <2>2, <2>3
  <1>6. ASSUME Moving PROVE zdev' \in {NoDev, pan}
    <2>1. pan \in Live
      BY <1>6 DEF Moving, Stable
    <2> QED BY <1>2, <2>1 DEF BootBegins, Resolved, bootVars
  <1>7. zdev' # NoDev => zdev' \in Live
    BY <1>2 DEF BootBegins, Resolved, bootVars
  <1>8. Clear'
    BY <1>1, <1>4, <1>7 DEF Clear, Stable
  <1> QED BY <1>1, <1>4, <1>5, <1>6, <1>8, BootFrame

\* A device becomes a part of the tier when it equals the snapshot, which has
\* been validated again.
LEMMA RestoredFit ==
    ASSUME Basic, TierFit, NEW d \in Devs, d \in half, dev[d].use = "tier", Restored(d),
           UNCHANGED <<zst, meta, saved, flush, pan, disk, risky>>,
           Moving /\ ~Resting => zdev' \in {NoDev, pan},
           Recovering' => Recovering
    PROVE  TierFit' /\ Stable' = Stable \cup {d}
  <1>1. dev' = dev /\ half' = half \ {d} /\ Accepted /\ dev[d].img = zst.img
    BY DEF Restored
  <1>2. Stable' = Stable \cup {d}
    BY <1>1 DEF Stable, Live
  <1>3. Snaps' = Snaps /\ Sums' = Sums /\ Accepted' = Accepted
    BY DEF Snaps, Sums, Accepted
  <1>4. Sound(zst.img) /\ Formed(zst.img.index)
    BY <1>1 DEF TierFit, FilesInv, Accepted, Snaps, Sums
  <1>5. FilesInv'
    BY <1>3 DEF TierFit, FilesInv
  <1>6. DevicesInv'
    BY <1>1, <1>2, <1>4 DEF TierFit, DevicesInv, IndexOf
  <1>7. NamesInv'
    BY <1>1, <1>2, <1>3 DEF TierFit, NamesInv, IndexOf, Snaps, Accepted
  <1>8. QuietFlush => QuietFlush'
    BY <1>1, <1>2, <1>3 DEF QuietFlush
  <1>9. Gone \/ Resting => Resting'
    BY <1>1, <1>2, <1>3, <1>8 DEF Gone, Resting
  <1>10. ASSUME Moving, ~Resting PROVE Moving'
    <2>1. pan \in Stable /\ IndexOf(pan)' = IndexOf(pan) /\ pan \in Stable'
      BY <1>1, <1>2, <1>10 DEF Moving, IndexOf
    <2>2. HashFlush => HashFlush'
      BY <1>3, <2>1 DEF HashFlush, Copied
    <2>3. CopyFlush => CopyFlush'
      BY <1>3, <2>1 DEF CopyFlush, Copied
    <2>4. MetaFlush => MetaFlush'
      BY <1>3, <2>1 DEF MetaFlush, Copied
    <2> QED BY <1>3, <1>8, <1>10, <2>1, <2>2, <2>3, <2>4 DEF Moving
  <1> QED BY <1>2, <1>5, <1>6, <1>7, <1>9, <1>10 DEF TierFit, TierInv

LEMMA BootVerifiesFit ==
    ASSUME Basic, TierFit, BootVerifies
    PROVE  TierFit' /\ Clear'
  <1>1. /\ UNCHANGED <<zst, meta, saved, flush, pan, disk, risky>> /\ proc = "restore"
        /\ proc' = "restored" /\ zdev' = boot.dev /\ Restored(boot.dev) /\ boot.k = Units
    BY DEF BootVerifies, Resolved, fileVars, workVars
  <1>2. boot.dev \in half /\ dev[boot.dev].use = "tier" /\ boot.dev \in Devs
    BY <1>1, SlotCount DEF Basic, BootInv, RestoreInv
  <1>3. ~Recovering' /\ Resting
    BY <1>1 DEF TierFit, TierInv, Recovering
  <1> QED BY <1>1, <1>2, <1>3, RestoredFit DEF Clear

\* pan.json is written, or the boot is refused.
LEMMA BootOpensFit ==
    ASSUME Basic, Clear, TierFit, BootOpens
    PROVE  TierFit' /\ Clear'
  <1>1. /\ UNCHANGED <<zst, meta, saved, flush, disk, risky, dev, half>> /\ proc = "restored"
        /\ proc' \in {"down", "opened"} /\ zdev' \in {zdev, NoDev}
        /\ pan' \in {pan, zdev} /\ (pan' # pan => zdev # NoDev)
    BY DEF BootOpens, ProcessEnds, Persist, PersistedPath, bootVars, workVars
  <1>2. Stable' = Stable /\ ~Recovering'
    BY <1>1 DEF Stable, Live, Recovering
  <1>3. Clear'
    BY <1>1, <1>2 DEF Clear
  <1>4. CASE pan' = pan
    <2>1. Moving => zdev' \in {NoDev, pan}
      BY <1>1 DEF Moving
    <2> QED BY <1>1, <1>2, <1>3, <1>4, <2>1, BootFrame
  <1>5. CASE pan' # pan
    <2>1. pan' = zdev /\ zdev # NoDev /\ zdev # pan /\ InTier \cap disk = {}
      BY <1>1, <1>5 DEF BootOpens, Openable
    <2>2. zdev \in Stable
      BY <2>1 DEF Clear
    <2>3. Resting
      BY <2>1, <2>2 DEF TierFit, TierInv, Gone, Moving
    <2>4. Snaps' = Snaps /\ Sums' = Sums /\ Accepted' = Accepted
      BY <1>1 DEF Snaps, Sums, Accepted
    <2>5. FilesInv'
      BY <2>4 DEF TierFit, FilesInv
    <2>6. DevicesInv'
      BY <1>1, <1>2 DEF TierFit, DevicesInv, IndexOf
    <2>7. Resting'
      <3>1. QuietFlush => QuietFlush'
        BY <1>1, <1>2, <2>4 DEF QuietFlush
      <3> QED BY <1>1, <1>2, <2>3, <2>4, <3>1 DEF Resting
    <2>8. NamesOf(IndexOf(pan)') \cap disk = {}
      BY <1>1, <2>1 DEF InTier, NamesOf, IndexOf
    <2>9. NamesInv'
      BY <1>1, <2>4, <2>8 DEF TierFit, NamesInv
    <2> QED BY <1>2, <1>3, <2>5, <2>6, <2>7, <2>9 DEF TierFit, TierInv
  <1> QED BY <1>4, <1>5

\* A restore at work spares the devices that are complete.
LEMMA RestoreSpares ==
    ASSUME TypeInv, NEW d \in Devs, NEW i, NEW k, NEW open,
           \/ SizeSet(d) \/ (d \in half /\ (UnitRestored(d, i, k) \/ GivenBack(d, open)))
    PROVE  Stable' = Stable /\ \A e \in Stable : dev'[e] = dev[e]
  <1>1. d \notin Stable
    BY DEF SizeSet, Stable, Live
  <1>2. RestoreStep(d) /\ (d \in half' \/ dev'[d].use # "tier")
    BY RestoreSteps
  <1>3. \A e \in Stable : e \in Devs /\ e # d
    BY <1>1 DEF Stable, Live
  <1>4. \A e \in Devs \ {d} : dev'[e] = dev[e] /\ (e \in half' <=> e \in half)
    BY <1>2 DEF RestoreStep
  <1> QED BY <1>1, <1>2, <1>3, <1>4 DEF Stable, Live

LEMMA BootFit ==
    ASSUME Basic, Clear, TierFit, Boot, zdev' \notin half'
    PROVE  TierFit' /\ Clear'
  <1>1. CASE BootAllocates \/ BootSizes \/ BootCopies \/ BootRestoreFails
    <2>1. /\ UNCHANGED <<zst, meta, saved, flush, pan, disk, risky>> /\ Recovering
          /\ zdev' \in {zdev, NoDev}
      BY <1>1 DEF BootAllocates, BootSizes, BootCopies, BootRestoreFails, Recovering, Resolved, tierVars,
         fileVars, bootVars, workVars
    <2>2. zdev = NoDev /\ Resting
      BY <2>1 DEF Recovering, Basic, BootInv, TierFit, TierInv
    <2>3. Stable' = Stable /\ \A d \in Stable : dev'[d] = dev[d]
      <3>1. ASSUME UNCHANGED <<dev, half>> PROVE Stable' = Stable /\ \A d \in Stable : dev'[d] = dev[d]
        BY <3>1 DEF Stable, Live
      <3>2. CASE BootSizes
        BY <3>1, <3>2, RestoreSpares DEF BootSizes, Basic, BootInv
      <3>3. CASE BootCopies \/ BootRestoreFails
        BY <3>3, RestoreSpares DEF BootCopies, BootRestoreFails, Basic, BootInv, RestoreInv
      <3> QED BY <1>1, <3>1, <3>2, <3>3 DEF BootAllocates, tierVars
    <2>4. zdev' = NoDev
      BY <2>1, <2>2
    <2> QED BY <2>1, <2>2, <2>3, <2>4, BootFrame DEF Clear
  <1>2. CASE Serves
    <2>1. UNCHANGED <<zst, meta, saved, flush, pan, disk, risky, dev, half, zdev>> /\ proc' = "serving"
      BY <1>2 DEF Serves, tierVars, fileVars, bootVars, workVars
    <2>2. Stable' = Stable /\ ~Recovering'
      BY <2>1 DEF Stable, Live, Recovering
    <2>3. Moving => zdev' \in {NoDev, pan}
      BY <2>1 DEF Moving
    <2> QED BY <2>1, <2>2, <2>3, BootFrame DEF Clear
  <1> QED BY <1>1, <1>2, BootBeginsFit, BootVerifiesFit, BootOpensFit DEF Boot

LEMMA LoadFit ==
    ASSUME Basic, Clear, TierFit, Load
    PROVE  TierFit' /\ Clear'
  <1>1. /\ UNCHANGED <<zst, meta, saved, flush, pan, disk, risky, zdev>> /\ (Recovering' <=> Recovering)
        /\ (Moving => zdev' \in {NoDev, pan})
    BY LoadKeeps DEF Recovering, Moving
  <1>a. Clear'
    BY <1>1, LoadSpares DEF Clear
  <1> SUFFICES TierFit'
    BY <1>a
  <1>2. ASSUME Stable' = Stable, \A d \in Stable : dev'[d] = dev[d] PROVE TierFit'
    BY <1>1, <1>2, BootFrame DEF TierFit, TierInv
  <1>3. CASE UNCHANGED <<dev, half>>
    BY <1>2, <1>3 DEF Stable, Live
  <1>4. CASE LoadSizes
    BY <1>2, <1>3, <1>4, RestoreSpares DEF LoadSizes, Basic, BootInv
  <1>5. CASE LoadCopies \/ LoadFails
    <2>1. load.dev \in half /\ load.dev \in Devs
      BY <1>5 DEF LoadCopies, LoadFails, Basic, BootInv, RestoreInv, TypeInv
    <2> QED BY <1>2, <1>5, <2>1, RestoreSpares DEF LoadCopies, LoadFails, Basic
  <1>6. CASE LoadVerifies
    <2>1. load.k = Units /\ Restored(load.dev) /\ load.pc = "restore"
      BY <1>6 DEF LoadVerifies
    <2>2. load.dev \in half /\ load.dev \in Devs /\ dev[load.dev].use = "tier"
      BY <2>1, SlotCount DEF Basic, BootInv, RestoreInv, TypeInv
    <2> QED BY <1>1, <2>1, <2>2, RestoredFit
  <1> QED BY <1>3, <1>4, <1>5, <1>6 DEF Load, LoadStarts, tierVars

LEMMA PowerLossFit ==
    ASSUME Basic, TierFit, PowerLoss
    PROVE  TierFit' /\ Clear'
  <1>1. /\ \A d \in Devs : dev'[d].use # "tier"
        /\ saved' = <<zst', meta'>> /\ zst' \in Snaps \cup {Garbage} /\ meta' \in Sums \cup {Garbage}
        /\ FlushEnd /\ UNCHANGED <<pan, disk, risky>> /\ proc' = "down"
    <2>1. dev' \in [Devs -> {EmptyDev, OtherDev}]
      BY DEF PowerLoss, TierPowerLoss
    <2>2. \A d \in Devs : dev'[d].use # "tier"
      BY <2>1 DEF EmptyDev, OtherDev
    <2> QED BY <2>2 DEF PowerLoss, TierPowerLoss, ProcessEnds, Surviving, Snaps, Sums
  <1>2. flush'.pc = "idle"
    BY <1>1, FlushEndTypes DEF Basic
  <1>3. Stable' = {} /\ ~Recovering'
    BY <1>1 DEF Stable, Live, Recovering
  <1>4. Garbage.is # "whole" /\ saved'[1] = zst' /\ saved'[2] = meta'
    BY <1>1 DEF Garbage
  <1>5. Snaps' \subseteq Snaps \cup {Garbage} /\ Sums' \subseteq Sums \cup {Garbage}
    BY <1>1, <1>4 DEF Snaps, Sums
  <1>6. FilesInv'
    BY <1>4, <1>5 DEF TierFit, FilesInv
  <1>7. DevicesInv'
    BY <1>3 DEF DevicesInv
  <1>8. Gone'
    BY <1>1, <1>2, <1>3 DEF Gone
  <1>9. NamesInv'
    BY <1>1, <1>3, <1>4, <1>5 DEF TierFit, NamesInv
  <1>10. Clear'
    BY DEF PowerLoss, ProcessEnds, Clear
  <1> QED BY <1>3, <1>6, <1>7, <1>8, <1>9, <1>10 DEF TierFit, TierInv

\* The process ends, in the middle of a restore perhaps.
LEMMA ProcessEndFit ==
    ASSUME Basic, TierFit, ProcessEnds, UNCHANGED tierVars
    PROVE  TierFit' /\ Clear'
  <1>1. /\ UNCHANGED <<zst, meta, saved, flush, pan, disk, risky, dev, half>> /\ proc' = "down"
        /\ zdev' = NoDev
    BY DEF ProcessEnds, tierVars, fileVars
  <1>2. Stable' = Stable /\ ~Recovering'
    BY <1>1 DEF Stable, Live, Recovering
  <1> QED BY <1>1, <1>2, BootFrame DEF Clear

LEMMA EndFit ==
    ASSUME Basic, Clear, TierFit,
           \/ CloseBegins \/ CloseEnds \/ ForcedExit \/ Killed \/ PowerLoss
           \/ Waits \/ \E d \in Devs : OtherTakes(d)
    PROVE  TierFit' /\ Clear'
  <1>1. CASE CloseBegins \/ Waits
    <2>1. UNCHANGED <<dev, half, zst, meta, saved, flush, pan, proc, zdev, disk, risky>>
      BY <1>1 DEF CloseBegins, Waits, GetBlocks, GetReturns, tierVars, fileVars, bootVars, workVars
    <2> QED BY <2>1, StillFit DEF Clear, Stable, Live
  <1>2. CASE CloseEnds \/ ForcedExit \/ Killed
    BY <1>2, ProcessEndFit DEF CloseEnds, ForcedExit, Killed
  <1>3. CASE \E d \in Devs : OtherTakes(d)
    <2>1. PICK d \in Devs : OtherTakes(d)
      BY <1>3
    <2>2. /\ UNCHANGED <<pan, zst, meta, saved, flush, half, proc, zdev, disk, risky>>
          /\ dev[d].use = "empty" /\ dev'[d].use = "other"
          /\ \A e \in Devs \ {d} : dev'[e] = dev[e]
      BY <2>1, OtherKeeps
    <2>3. Stable' = Stable /\ \A e \in Stable : dev'[e] = dev[e]
      BY <2>2 DEF Stable, Live
    <2>4. (Moving => zdev' \in {NoDev, pan}) /\ (Recovering' => Resting)
      BY <2>2 DEF Moving, Recovering, TierFit, TierInv
    <2> QED BY <2>2, <2>3, <2>4, BootFrame DEF Clear
  <1> QED BY <1>1, <1>2, <1>3, PowerLossFit
-----------------------------------------------------------------------------
(* The steps of a flush.                                                    *)

\* The devices stay; what is left to show is about the files and the flush.
LEMMA FlushFrame ==
    ASSUME Basic, TierFit, Flush
    PROVE  /\ UNCHANGED <<dev, half, pan, zdev, disk, risky>> /\ Stable' = Stable
           /\ (Recovering' => Recovering) /\ DevicesInv'
           /\ IndexOf(pan)' = IndexOf(pan) /\ \A i, k : Copied(i, k)' = Copied(i, k)
           /\ (Snaps' = Snaps => NamesInv')
           /\ (Snaps' = Snaps /\ Sums' = Sums => FilesInv')
  <1>1. UNCHANGED <<dev, half, pan, zdev, disk, risky, proc>>
    BY FlushKeeps
  <1>2. Stable' = Stable /\ (Recovering' => Recovering) /\ \A d \in Devs : IndexOf(d)' = IndexOf(d)
    BY <1>1 DEF Stable, Live, Recovering, IndexOf
  <1>3. pan \in Devs
    BY DEF Basic, TypeInv
  <1>4. DevicesInv'
    BY <1>1, <1>2 DEF TierFit, DevicesInv, IndexOf
  <1>5. \A i, k : Copied(i, k)' = Copied(i, k)
    BY <1>1, <1>2, <1>3 DEF Copied
  <1>6. Snaps' = Snaps => NamesInv'
    BY <1>1, <1>2, <1>3 DEF TierFit, NamesInv
  <1>7. Snaps' = Snaps /\ Sums' = Sums => FilesInv'
    BY DEF TierFit, FilesInv
  <1>8. IndexOf(pan)' = IndexOf(pan)
    BY <1>1 DEF IndexOf
  <1> QED BY <1>1, <1>2, <1>4, <1>5, <1>6, <1>7, <1>8

\* The files stay, too, and the flush goes on.
LEMMA FlushGoesOn ==
    ASSUME Basic, TierFit, Flush, UNCHANGED <<zst, meta, saved>>,
           Resting => Resting', Moving => Moving', ~Gone
    PROVE  TierFit'
  <1>1. Snaps' = Snaps /\ Sums' = Sums
    BY DEF Snaps, Sums
  <1> QED BY <1>1, FlushFrame DEF TierFit, TierInv

LEMMA FlushStartsFit ==
    ASSUME Basic, TierFit, Flush, FlushStarts, flush'.dev \notin half'
    PROVE  TierFit'
  <1>1. /\ flush'.pc = "hash" /\ flush'.dev = pan /\ flush'.k = 1 /\ flush' \in Flushes
        /\ UNCHANGED <<dev, half, pan, zst, meta, saved, zdev>>
    BY FlushBegun, FlushKeeps DEF Basic, FlushStarts, fileVars
  <1>2. pan \in Stable /\ ~Gone
    BY <1>1 DEF FlushStarts, FlushTarget, Stable, Live, Gone
  <1>3. Stable' = Stable /\ Snaps' = Snaps /\ Sums' = Sums /\ Accepted' = Accepted
    BY <1>1, FlushFrame DEF Snaps, Sums, Accepted
  <1>4. ASSUME Resting PROVE Resting'
    <2>1. flush'.sum \in Images /\ zst.img \in Images
      BY <1>1 DEF Flushes, Basic, TypeInv, Files
    <2>2. Agree(flush'.sum, zst.img, 1)
      BY <2>1, AgreeStart
    <2>3. QuietFlush'
      BY <1>1, <1>2, <1>3, <1>4, <2>2 DEF QuietFlush, Resting
    <2> QED BY <1>1, <1>3, <1>4, <2>3 DEF Resting
  <1>5. ASSUME Moving PROVE Moving'
    <2>1. HashFlush'
      BY <1>1 DEF HashFlush
    <2> QED BY <1>1, <1>3, <1>5, <2>1 DEF Moving, IndexOf
  <1> QED BY <1>1, <1>2, <1>4, <1>5, FlushGoesOn

\* A flush that ends, at any point.
LEMMA FlushEndsFit ==
    ASSUME Basic, TierFit, Flush, FlushEnd, UNCHANGED <<zst, meta, saved>>
    PROVE  TierFit'
  <1>1. flush'.pc = "idle" /\ UNCHANGED <<dev, pan, zdev>> /\ Stable' = Stable
    BY FlushEndTypes, FlushFrame DEF Basic
  <1>2. Snaps' = Snaps /\ Sums' = Sums /\ Accepted' = Accepted
    BY DEF Snaps, Sums, Accepted
  <1>3. Gone => Gone'
    BY <1>1 DEF Gone
  <1>4. Resting => Resting'
    BY <1>1, <1>2 DEF Resting
  <1>5. Moving => Moving'
    BY <1>1, <1>2 DEF Moving, IndexOf
  <1> QED BY <1>2, <1>3, <1>4, <1>5, FlushFrame DEF TierFit, TierInv

LEMMA QuietHashes ==
    ASSUME Basic, TierFit, Flush, FlushHashes, QuietFlush
    PROVE  QuietFlush'
  <1>1. /\ flush'.pc = "hash" /\ flush'.dev = flush.dev /\ flush'.k = flush.k + 1 /\ flush.k > 0
        /\ flush'.sum = CopyUnit(flush.sum, dev[flush.dev].img, flush.k)
        /\ UNCHANGED <<dev, zst, meta>> /\ Stable' = Stable
    BY FlushHashed, FlushFrame DEF Basic, TypeInv, FlushHashes, fileVars
  <1>2. dev[flush.dev].img = zst.img /\ Agree(flush.sum, zst.img, flush.k) /\ zst.img \in Images
    BY DEF QuietFlush, Basic, TypeInv, Files
  <1>3. Agree(flush'.sum, zst.img, flush'.k)
    BY <1>1, <1>2, FileTypes, CopyAgrees
  <1> QED BY <1>1, <1>2, <1>3 DEF QuietFlush, Accepted

LEMMA FlushHashesFit ==
    ASSUME Basic, TierFit, Flush, FlushHashes
    PROVE  TierFit'
  <1>1. /\ flush'.pc = "hash" /\ flush'.dev = flush.dev /\ flush'.k = flush.k + 1 /\ flush.k > 0
        /\ flush'.sum = CopyUnit(flush.sum, dev[flush.dev].img, flush.k) /\ flush.pc = "hash"
        /\ UNCHANGED <<dev, zst, meta, saved, pan, zdev>> /\ Stable' = Stable
    BY FlushHashed, FlushFrame DEF Basic, TypeInv, FlushHashes, fileVars
  <1>2. Snaps' = Snaps /\ Sums' = Sums /\ Accepted' = Accepted /\ ~Gone
    BY <1>1 DEF Snaps, Sums, Accepted, Gone
  <1>3. QuietFlush => QuietFlush'
    BY QuietHashes
  <1>4. Resting => Resting'
    BY <1>1, <1>2, <1>3 DEF Resting
  <1>5. ASSUME Moving PROVE Moving'
    <2>1. /\ pan \in Stable /\ dev[pan].img \in Images /\ flush.sum \in Images /\ flush.k \in Nat
          /\ Sound(dev[pan].img) /\ Formed(dev[pan].img.index)
      BY <1>5, FileTypes DEF Moving, TierFit, DevicesInv, IndexOf
    <2>2. ASSUME HashFlush, flush.dev = pan PROVE HashFlush'
      <3>1. flush'.sum.index = IF flush.k = 1 THEN IndexOf(pan) ELSE flush.sum.index
        BY <1>1, <2>1, <2>2, CopyUnitFields DEF IndexOf
      <3>2. flush.k = 1 \/ flush.k > 1
        BY <1>1, <2>1
      <3>3. Formed(flush'.sum.index) /\ Leads(flush'.sum.index, IndexOf(pan))
        BY <2>1, <2>2, <3>1, <3>2, LeadsSelf DEF HashFlush, Copied, IndexOf
      <3>4. flush'.sum.index = IndexOf(pan) => ReadRight(flush'.sum, flush'.k)
        BY <1>1, <2>1, <2>2, <3>2, ReadOn DEF HashFlush, Copied, IndexOf
      <3>5. Copied(flush.sum, flush.k)'
        BY <3>3, <3>4, FlushFrame DEF Copied
      <3>6. \A z \in Snaps : z.is = "whole" => Sound(z.img) \/ z.img.index # flush'.sum.index
        BY <1>5, <2>2, <3>1, <3>2 DEF HashFlush, Moving, Behind
      <3> QED BY <1>1, <1>2, <3>5, <3>6 DEF HashFlush
    <2>3. HashFlush \/ QuietFlush
      BY <1>1, <1>5 DEF Moving, CopyFlush, MetaFlush
    <2> QED BY <1>1, <1>2, <1>3, <1>5, <2>2 DEF Moving, IndexOf, CopyFlush, MetaFlush
  <1> QED BY <1>1, <1>2, <1>4, <1>5, FlushGoesOn

\* A flush that hashes a device which equals the snapshot does not copy it.
LEMMA QuietSkips ==
    ASSUME Basic, QuietFlush, flush.k > Units
    PROVE  Unchanged
  <1>1. Agree(flush.sum, zst.img, flush.k) /\ Accepted /\ zst.img \in Images
    BY DEF QuietFlush, Basic, TypeInv, Files
  <1>2. flush.sum = zst.img
    BY <1>1, FileTypes, AgreeIsEqual
  <1> QED BY <1>1, <1>2 DEF Unchanged, Accepted

LEMMA FlushTurnsFit ==
    ASSUME Basic, TierFit, Flush, FlushCopyStarts
    PROVE  TierFit'
  <1>1. /\ flush'.pc = "copy" /\ flush'.dev = flush.dev /\ flush'.k = 1 /\ flush'.sum = flush.sum
        /\ flush.pc = "hash" /\ flush.k > Units
        /\ UNCHANGED <<dev, zst, meta, saved, pan, zdev>> /\ Stable' = Stable
    BY FlushTurns, FlushFrame DEF Basic, FlushCopyStarts, fileVars
  <1>2. Snaps' = Snaps /\ Sums' = Sums /\ ~Gone
    BY <1>1 DEF Snaps, Sums, Gone
  <1>3. ~QuietFlush
    BY <1>1, QuietSkips DEF FlushCopyStarts
  <1>4. ~Resting
    BY <1>1, <1>3 DEF Resting
  <1>5. ASSUME Moving PROVE Moving'
    <2>1. HashFlush /\ flush.dev = pan
      BY <1>1, <1>3, <1>5 DEF Moving, CopyFlush, MetaFlush
    <2>2. flush.k \in Nat /\ flush.k > 1 /\ Units + 1 \in Nat /\ Units + 1 > Units /\ Units + 1 <= flush.k
      BY <1>1, FileTypes, SlotCount
    <2>3. Copied(flush.sum, flush.k)
      BY <2>1, <2>2 DEF HashFlush
    <2>4. \A r \in flush.sum.index : r[2] \in Nat
      BY <2>3, SlotCount DEF Copied, Formed, Refs, Slots
    <2>5. Copied(flush.sum, Units + 1)
      BY <2>2, <2>3, <2>4 DEF Copied, ReadRight
    <2>6. CopyFlush'
      BY <1>1, <1>2, <2>1, <2>2, <2>5, FlushFrame DEF CopyFlush, HashFlush
    <2> QED BY <1>1, <1>2, <1>5, <2>1, <2>6 DEF Moving, IndexOf
  <1> QED BY <1>1, <1>2, <1>4, <1>5, FlushGoesOn

\* From the copying pass on, the tier is being written to.
LEMMA CopyMoves ==
    ASSUME Basic, TierFit, flush.pc \in {"copy", "meta", "metaw"}
    PROVE  /\ Moving /\ ~Gone /\ ~Resting /\ flush.dev = pan /\ pan \in Stable
           /\ flush.pc = "copy" => CopyFlush
           /\ flush.pc # "copy" => MetaFlush
           /\ dev[pan].img \in Images /\ Sound(dev[pan].img) /\ Formed(IndexOf(pan))
  <1>1. ~Gone /\ ~Resting
    BY DEF Gone, Resting, QuietFlush
  <1>2. Moving
    BY <1>1 DEF TierFit, TierInv
  <1>3. /\ flush.dev = pan /\ pan \in Stable
        /\ flush.pc = "copy" => CopyFlush
        /\ flush.pc # "copy" => MetaFlush
    BY <1>2 DEF Moving, QuietFlush, HashFlush, CopyFlush, MetaFlush
  <1> QED BY <1>1, <1>2, <1>3, FileTypes DEF TierFit, DevicesInv

LEMMA FlushCopiesFit ==
    ASSUME Basic, TierFit, Flush, FlushCopies
    PROVE  TierFit'
  <1>1. /\ flush'.pc = "copy" /\ flush'.dev = flush.dev /\ flush'.k = flush.k + 1 /\ flush.k > 0
        /\ flush'.tmp = CopyUnit(flush.tmp, dev[flush.dev].img, flush.k) /\ flush.pc = "copy"
        /\ flush'.sum = flush.sum
        /\ UNCHANGED <<dev, zst, meta, saved, pan, zdev>> /\ Stable' = Stable
    BY FlushCopied, FlushFrame DEF Basic, TypeInv, FlushCopies, fileVars
  <1>2. Snaps' = Snaps /\ Sums' = Sums
    BY <1>1 DEF Snaps, Sums
  <1>3. /\ Moving /\ ~Gone /\ ~Resting /\ flush.dev = pan /\ pan \in Stable /\ CopyFlush
        /\ dev[pan].img \in Images /\ Sound(dev[pan].img) /\ Formed(IndexOf(pan))
    BY <1>1, CopyMoves
  <1>4. /\ flush.k \in Nat /\ flush.tmp \in Images /\ (flush.k = 1 \/ flush.k > 1)
        /\ Units + 1 \in Nat /\ Units + 1 > Units
    BY <1>1, FileTypes, SlotCount
  <1>5. flush'.tmp.index = IF flush.k = 1 THEN IndexOf(pan) ELSE flush.tmp.index
    BY <1>1, <1>3, <1>4, CopyUnitFields DEF IndexOf
  <1>6. Formed(flush'.tmp.index) /\ Leads(flush'.tmp.index, IndexOf(pan))
    BY <1>3, <1>4, <1>5, LeadsSelf DEF CopyFlush, Copied
  <1>7. flush'.tmp.index = IndexOf(pan) => ReadRight(flush'.tmp, flush'.k)
    BY <1>1, <1>3, <1>4, ReadOn DEF CopyFlush, Copied, IndexOf
  <1>8. Copied(flush.tmp, flush.k)'
    BY <1>6, <1>7, FlushFrame DEF Copied
  <1>9. flush'.tmp.index = flush.sum.index => Sound(flush.sum)
    <2>1. CASE flush.k = 1
      BY <1>3, <1>4, <1>5, <2>1, ReadIsSound DEF CopyFlush, Copied
    <2>2. CASE flush.k > 1
      BY <1>3, <1>4, <1>5, <2>2 DEF CopyFlush
    <2> QED BY <1>4, <2>1, <2>2
  <1>10. \A m \in Sums : m.is = "whole" => Sound(m.img) \/ m.img.index # flush'.tmp.index
    BY <1>3, <1>4, <1>5 DEF CopyFlush, Moving, Behind
  <1>a. Copied(flush.sum, Units + 1)'
    BY <1>1, <1>3, FlushFrame DEF CopyFlush, Copied
  <1>11. CopyFlush'
    BY <1>1, <1>2, <1>3, <1>8, <1>9, <1>10, <1>a DEF CopyFlush
  <1>12. Moving'
    BY <1>1, <1>2, <1>3, <1>11 DEF Moving, IndexOf
  <1> QED BY <1>1, <1>3, <1>12, FlushGoesOn

\* The new snapshot takes the place of the old one, under the old checksum.
LEMMA FlushRenamesFit ==
    ASSUME Basic, TierFit, Flush, FlushRenames
    PROVE  TierFit'
  <1>1. /\ flush'.pc = "meta" /\ flush'.dev = flush.dev /\ flush'.sum = flush.sum
        /\ flush.pc = "copy" /\ flush.k > Units
        /\ UNCHANGED <<dev, meta, saved, pan, zdev, disk, risky>> /\ Stable' = Stable
        /\ zst'.is = "whole" /\ zst'.img = flush.tmp
    BY FlushFrame DEF Basic, TypeInv, FlushRenames, Flushes, Whole
  <1>2. /\ Moving /\ ~Gone /\ ~Resting /\ flush.dev = pan /\ pan \in Stable /\ CopyFlush
    BY <1>1, CopyMoves
  <1>3. Sums' = Sums /\ Snaps' \subseteq Snaps \cup {zst'} /\ flush.k \in Nat /\ flush.k > 1
    BY <1>1, FileTypes, SlotCount DEF Sums, Snaps
  <1>4. /\ Copied(flush.tmp, flush.k) /\ (flush.tmp.index = flush.sum.index => Sound(flush.sum))
        /\ \A m \in Sums : m.is = "whole" => Sound(m.img) \/ m.img.index # flush.tmp.index
    BY <1>2, <1>3 DEF CopyFlush
  <1>5. Behind(flush.tmp, IndexOf(pan))
    BY <1>1, <1>3, <1>4, ReadIsSound DEF Behind, Copied
  <1>6. FilesInv'
    <2>1. \A f \in Snaps' \cup Sums' : f.is = "whole" => Formed(f.img.index)
      BY <1>1, <1>3, <1>4 DEF TierFit, FilesInv, Copied
    <2>2. \A z \in Snaps', m \in Sums' :
            z.is = "whole" /\ m.is = "whole" /\ m.img = z.img => Sound(z.img)
      BY <1>1, <1>3, <1>4 DEF TierFit, FilesInv
    <2> QED BY <2>1, <2>2 DEF FilesInv
  <1>7. MetaFlush'
    <2>1. Copied(flush.sum, Units + 1)'
      BY <1>1, <1>2, FlushFrame DEF CopyFlush, Copied
    <2>2. \A z \in Snaps' : z.is = "whole" /\ z.img = flush.sum => Sound(z.img)
      BY <1>1, <1>2, <1>3, <1>4 DEF CopyFlush
    <2> QED BY <1>1, <2>1, <2>2 DEF MetaFlush
  <1>8. Moving'
    BY <1>1, <1>2, <1>3, <1>5, <1>7 DEF Moving, IndexOf
  <1>9. NamesInv'
    <2>1. NamesOf(flush.tmp.index) \subseteq NamesOf(IndexOf(pan))
      BY <1>4, LeadsNames DEF Copied
    <2> QED BY <1>1, <1>2, <1>3, <2>1 DEF TierFit, NamesInv, IndexOf
  <1>10. Recovering' => Resting
    BY FlushFrame DEF TierFit, TierInv
  <1> QED BY <1>2, <1>6, <1>8, <1>9, <1>10, FlushFrame DEF TierFit, TierInv

LEMMA FlushTruncatesFit ==
    ASSUME Basic, TierFit, Flush, FlushTruncatesMeta
    PROVE  TierFit'
  <1>1. /\ flush'.pc = "metaw" /\ flush'.dev = flush.dev /\ flush'.sum = flush.sum /\ flush.pc = "meta"
        /\ UNCHANGED <<dev, zst, saved, pan, zdev>> /\ Stable' = Stable
        /\ meta'.is # "whole"
    BY FlushFrame DEF Basic, TypeInv, FlushTruncatesMeta, Flushes, Garbage
  <1>2. Moving /\ ~Gone /\ ~Resting /\ flush.dev = pan /\ pan \in Stable /\ MetaFlush
    BY <1>1, CopyMoves
  <1>3. Snaps' = Snaps /\ Sums' \subseteq Sums \cup {meta'}
    BY <1>1 DEF Snaps, Sums
  <1>4. FilesInv'
    BY <1>1, <1>3 DEF TierFit, FilesInv
  <1>5. MetaFlush'
    BY <1>1, <1>2, <1>3, FlushFrame DEF MetaFlush
  <1>6. Moving'
    BY <1>1, <1>2, <1>3, <1>5 DEF Moving, IndexOf
  <1>7. ~Recovering
    BY <1>2 DEF TierFit, TierInv
  <1> QED BY <1>3, <1>4, <1>6, <1>7, FlushFrame DEF TierFit, TierInv

\* The checksum of the first pass, beside the snapshot of the second.
LEMMA FlushWritesFit ==
    ASSUME Basic, TierFit, Flush, FlushWritesMeta
    PROVE  TierFit'
  <1>1. /\ flush'.pc = "idle" /\ flush.pc = "metaw"
        /\ UNCHANGED <<dev, zst, saved, pan, zdev>> /\ Stable' = Stable
        /\ meta'.is = "whole" /\ meta'.img = flush.sum
    BY FlushFrame, FlushEndTypes DEF Basic, FlushWritesMeta, Whole
  <1>2. Moving /\ ~Gone /\ ~Resting /\ flush.dev = pan /\ pan \in Stable /\ MetaFlush
    BY <1>1, CopyMoves
  <1>3. Snaps' = Snaps /\ Sums' \subseteq Sums \cup {meta'} /\ Units + 1 \in Nat /\ Units + 1 > Units
    BY <1>1, SlotCount DEF Snaps, Sums
  <1>4. FilesInv'
    <2>1. \A f \in Snaps' \cup Sums' : f.is = "whole" => Formed(f.img.index)
      BY <1>1, <1>2, <1>3 DEF TierFit, FilesInv, MetaFlush, Copied
    <2>2. \A z \in Snaps', m \in Sums' :
            z.is = "whole" /\ m.is = "whole" /\ m.img = z.img => Sound(z.img)
      BY <1>1, <1>2, <1>3 DEF TierFit, FilesInv, MetaFlush
    <2> QED BY <2>1, <2>2 DEF FilesInv
  <1>5. Behind(flush.sum, IndexOf(pan))
    BY <1>2, <1>3, ReadIsSound DEF Behind, MetaFlush, Copied
  <1>6. Moving'
    BY <1>1, <1>2, <1>3, <1>5 DEF Moving, IndexOf
  <1>7. ~Recovering
    BY <1>2 DEF TierFit, TierInv
  <1> QED BY <1>3, <1>4, <1>6, <1>7, FlushFrame DEF TierFit, TierInv

LEMMA WritebackFit ==
    ASSUME Basic, TierFit, Flush, Writeback
    PROVE  TierFit'
  <1>1. UNCHANGED <<dev, pan, zst, meta, flush, zdev, disk, risky>> /\ Stable' = Stable
        /\ saved' = <<zst, meta>> /\ saved # <<zst, meta>>
    BY FlushFrame DEF Writeback
  <1>2. ~Gone /\ ~Resting
    BY <1>1 DEF Gone, Resting
  <1>3. Moving /\ ~Recovering
    BY <1>2 DEF TierFit, TierInv
  <1>4. Snaps' \subseteq Snaps /\ Sums' \subseteq Sums /\ Accepted' = Accepted
    BY <1>1 DEF Snaps, Sums, Accepted
  <1>5. FilesInv'
    BY <1>4 DEF TierFit, FilesInv
  <1>6. NamesInv'
    BY <1>1, <1>4 DEF TierFit, NamesInv, IndexOf
  <1>7. Moving'
    <2>1. IndexOf(pan)' = IndexOf(pan)
      BY <1>1 DEF IndexOf
    <2>2. HashFlush => HashFlush'
      BY <1>1, <1>4, <2>1, FlushFrame DEF HashFlush
    <2>3. CopyFlush => CopyFlush'
      BY <1>1, <1>4, <2>1, FlushFrame DEF CopyFlush
    <2>4. MetaFlush => MetaFlush'
      BY <1>1, <1>4, <2>1, FlushFrame DEF MetaFlush
    <2>5. QuietFlush => QuietFlush'
      BY <1>1, <1>4 DEF QuietFlush
    <2> QED BY <1>1, <1>3, <1>4, <2>1, <2>2, <2>3, <2>4, <2>5 DEF Moving
  <1> QED BY <1>3, <1>5, <1>6, <1>7, FlushFrame DEF TierFit, TierInv

\* Flush takes a device only if no restore was left on it.
LEMMA FlushFit ==
    ASSUME Basic, Clear, TierFit, Flush, flush'.dev \notin half'
    PROVE  TierFit' /\ Clear'
  <1>1. Clear'
    BY FlushFrame DEF Clear
  <1>2. FlushSkips \/ FlushFails => TierFit'
    <2>1. FlushSkips \/ FlushFails => FlushEnd /\ UNCHANGED <<zst, meta, saved>>
      BY DEF FlushSkips, FlushFails, fileVars
    <2> QED BY <2>1, FlushEndsFit
  <1> QED BY <1>1, <1>2, FlushStartsFit, FlushHashesFit, FlushTurnsFit, FlushCopiesFit, FlushRenamesFit,
             FlushTruncatesFit, FlushWritesFit, WritebackFit DEF Flush, FlushStep
-----------------------------------------------------------------------------
(* The invariant as a whole.                                                *)

LEMMA WorkClear ==
    ASSUME Basic, Clear, NEW n \in Names, Work(n)
    PROVE  Clear'
    BY WorkKeeps DEF Clear, Stable, Live

LEMMA LifeInvInit ==
    ASSUME Init
    PROVE  LifeInv
  <1>0. Basic
    BY BasicInit
  <1>1. PICK d \in Devs : /\ dev = [e \in Devs |-> IF e = d THEN TierDev(Blank) ELSE EmptyDev]
                          /\ pan = d
    BY DEF Init, TierInit
  <1>2. /\ zst \in {Absent, Whole(Blank)} /\ meta = zst /\ saved = <<zst, zst>> /\ proc = "down"
        /\ flush.pc = "idle" /\ zdev = NoDev /\ disk = {} /\ half = {}
    BY DEF Init, TierInit, NoFlush
  <1>3. \A f \in Snaps \cup Sums : f \in {Absent, Whole(Blank)}
    BY <1>2 DEF Snaps, Sums
  <1>4. \A f \in {Absent, Whole(Blank)} : f.img = Blank
    BY DEF Absent, Whole
  <1>5. Blank.index = {} /\ Formed({}) /\ Sound(Blank)
    BY DEF Blank, Formed, Sound
  <1>6. Live = {d} /\ Stable = {d} /\ dev[d].img = Blank
    BY <1>1, <1>2 DEF Live, Stable, TierDev, EmptyDev
  <1>7. FilesInv
    BY <1>3, <1>4, <1>5 DEF FilesInv
  <1>8. DevicesInv
    BY <1>5, <1>6 DEF DevicesInv, IndexOf
  <1>9. Moving
    BY <1>1, <1>2, <1>3, <1>4, <1>5, <1>6, LeadsSelf DEF Moving, Behind, IndexOf
  <1>10. NamesInv
    BY <1>2 DEF NamesInv
  <1>11. ~Recovering /\ Clear
    BY <1>2 DEF Recovering, Clear
  <1>12. WorkInv
    BY DEF Init, IdlePut, WorkInv, PutInv, TrimInv
  <1> QED BY <1>0, <1>7, <1>8, <1>9, <1>10, <1>11, <1>12 DEF LifeInv, TierFit, TierInv

LEMMA LifeInvStep ==
    ASSUME LifeInv, [Next]_vars
    PROVE  LifeInv'
  <1>1. CASE Next
    <2>1. Basic'
      BY <1>1, TypeStep, BootStep, PlaceStep DEF LifeInv, Basic
    <2> SUFFICES ASSUME ~spoiled' PROVE Clear' /\ WorkInv' /\ TierFit'
      BY <2>1 DEF LifeInv
    <2>2. ~spoiled /\ zdev' \notin half' /\ flush'.dev \notin half'
      BY <1>1 DEF Next
    <2>3. Basic /\ Clear /\ WorkInv /\ TierFit
      BY <2>2 DEF LifeInv
    <2>4. WorkInv'
      BY <1>1, <2>1, <2>3, WorkStep
    <2>5. TierFit' /\ Clear'
      BY <1>1, <2>2, <2>3, StepKinds, BootFit, FlushFit, LoadFit, WorkFit, WorkClear, EndFit
    <2> QED BY <2>4, <2>5
  <1>2. CASE UNCHANGED vars
    <2>1. UNCHANGED <<dev, half, zst, meta, saved, flush, pan, proc, zdev, disk, put, trim, risky, spoiled>>
      BY <1>2 DEF vars, progVars, tierVars, fileVars, lifeVars, bootVars, workVars
    <2>2. Basic'
      BY <1>2, BasicStutter DEF LifeInv
    <2>3. TierFit => TierFit'
      BY <2>1, StillFit
    <2>4. Clear => Clear'
      BY <2>1 DEF Clear, Stable, Live
    <2>5. Basic /\ WorkInv => WorkInv'
      BY <2>1, WorkFrame DEF Basic, PlaceInv
    <2> QED BY <2>1, <2>2, <2>3, <2>4, <2>5 DEF LifeInv
  <1> QED BY <1>1, <1>2

LEMMA LifeInvariance == Spec => []LifeInv
  <1>1. Init => LifeInv
    BY LifeInvInit
  <1>2. LifeInv /\ [Next]_vars => LifeInv'
    BY LifeInvStep
  <1> QED BY <1>1, <1>2, PTL DEF Spec

\* Every object that the tier of a running pool serves has its own bytes behind
\* it, after any number of flushes that race with Puts and Trim, power failures
\* that keep any mixture of the files, restores that are cut off, resets that
\* fail and loads by hand that meet a boot: unless a boot or a flush has taken
\* a device out of an unfinished restore for the tier.
THEOREM TierStaysWhole == Spec => []TierWhole
  <1>1. LifeInv => TierWhole
    <2> SUFFICES ASSUME LifeInv, ~spoiled, proc \in {"opened", "serving"}, zdev # NoDev
                 PROVE  \A r \in dev[zdev].img.index : dev[zdev].img.grid[r[2]] = r[1]
      BY DEF TierWhole, ServedIsWhole
    <2> QED BY ServedTier DEF LifeInv, Sound
  <1> QED BY <1>1, LifeInvariance, PTL

\* A name of the tier is on the ordinary disk as well only if it was stored
\* there while the daemon ran without the tier: whatever snapshot has been
\* restored, and although the gate asks only the disks of the pool.
THEOREM NamesStayApart == Spec => []NamesApart
  <1>1. LifeInv => NamesApart
    <2> SUFFICES ASSUME LifeInv, ~spoiled, zdev # NoDev
                 PROVE  InTier \cap disk \subseteq risky
      BY DEF NamesApart, InTier
    <2>1. zdev \in Stable /\ InTier = NamesOf(IndexOf(zdev)) /\ TierFit
      BY DEF LifeInv, Clear, InTier, NamesOf, IndexOf
    <2>2. CASE Resting
      BY <2>1, <2>2 DEF Resting, Accepted, TierFit, NamesInv, Snaps, IndexOf
    <2>3. CASE Moving
      BY <2>1, <2>3 DEF Moving, TierFit, NamesInv
    <2> QED BY <2>1, <2>2, <2>3 DEF TierFit, TierInv, Gone
  <1> QED BY <1>1, LifeInvariance, PTL
=============================================================================
