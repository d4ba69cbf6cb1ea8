# Verification of BSOS in TLA+

BSOS is a content-addressed object store on raw disks. A daemon (`bsosd`) owns a
pool of disks; clients (`pkg/client`, the `bsos` command) store immutable objects
under the 64-bit hash of their content, the *fid*. Where an object lies on its
disk is a function of fid and size: there is no allocation table, so two objects
may want the same slots, and the client then retries with a *jump*: the content
and one more byte, stored under that payload's fid with the content's fid as
*alias*. A background job, *Trim*, packs small objects into containers.

This directory holds TLA+ modules of the parts of BSOS whose correctness depends
on interleavings, failures and crashes, TLC configurations that check them on
small instances, and TLAPS proofs for every size of instance. Paths below are
relative to the repository.

## 1. Inventory

| Part | State it keeps | Operations | What is hard about it |
|---|---|---|---|
| Put handler (`internal/daemon/server.go`, `state.go`, `interval.go`, `directio.go`) | per call: where it is, the disk, the extent; per disk: pending and confirmed extents, RAM index, end of index, `indexErr` | header check, gate, select, `PrepareWrite`, stream, `Commit`, `Abort`, respond, release | the payload is streamed without a lock; every error path must give back what it holds; commit is two syncs with a rollback that may fail too |
| Pool gate (`gate.go`) | the pending fids of the pool | `reserve`, `release` | checked names can be registered on any disk; a disk may not be able to answer |
| Placement (`internal/blk/addr.go`) | none | `AddrForFID` | boundary of the grid |
| Disk selection (`multidisk.go`, `chd.go`) | none | `selectDiskForWrite`, `computeCHD` | a sampled estimate |
| Index and replay (`index_state.go`, `internal/blk/index*.go`) | the log of 16-byte entries on disk | append, `replayIndex`, compaction | pairs of entries, tombstones, packed tables that override entries; what a crash leaves |
| Reads (`Server.Get`, `Head`, `readRange`) | the reference of a lookup | fan-out lookup, range reads | the reference is used after every lock is gone |
| Trim (`trim.go`, `packed_table.go`, `fragmentation.go`) | candidates, container, table | `maybeTrim`, six fail points | twelve steps over the index and the grid, none of them undone on error; concurrent streams and reads; an in-place rewrite of the index |
| Uploads (`pkg/client/client.go`) | the jump code of the attempt | `PutWithJumpRetry`, `PutFileWithJumpRetry`, `VerifyContent` | lost responses, retries, conflicts with other clients and with its own earlier attempts |
| CDC uploads (`pkg/client/cdc.go`, `pkg/cdc`, `pkg/manifest`) | tasks and results in two bounded channels, a context | `PutCDC`, `GetCDC` | slicer, workers, closer and collector, each of which may end the others; chunks that repeat |
| zram tier (`internal/zram`, `pool_mapping.go`, `internal/pan`) | devices in RAM, a snapshot and its checksum, pan.json | flush, restore, load, persist mapping | a snapshot of a live device; a crash between rename and checksum; a restore cut off; a boot without the tier |
| Scheduler and shutdown (`server.go`, `cmd/bsosd`) | ticker, stop channel | `startTrimScheduler`, `Close`, signals | Close does not wait for Trim; an early signal |
| Offline tools (`internal/blk`, `cmd/bsos`) | index files | init, find, info, index-backup, index-restore, index-compact, packed-scrub | in-place writes that may be cut off, on an index that was already half rewritten |

How they interact. A client call is an RPC to the Put handler. The handler takes
the pool gate, then a disk's `mu` for the reservation, no lock for the stream,
`mu` again for the commit, and releases the gate when it returns. `indexMu`
protects the RAM index alone; reads take only that, for the lookup. Trim holds
`mu` of its disk from start to end, shares the index, the grid and the extent
tables with the handler, and swaps references under `indexMu` while reads go on.
At boot every index is replayed, and a name on two disks stops the daemon.

What makes each part correct:

* the store as a whole: a write-once map; what was acknowledged reads back
  exactly, whatever happens later (`ImplementsObjectStore`, `AckedServed`);
* the gate: one home per name in the pool, and no boot that refuses its disks
  for anything but half an alias pair (`OneHome`, `NextBootAccepted`);
* reservations: nobody's bytes under somebody else's stream, nothing leaked
  (`ExtentsDisjoint`, `NoLeakedReservation`);
* the index: memory is what a reopen rebuilds (`MemoryMatchesIndex`,
  `ReopenServesTheSame`), and compaction changes nothing (`CompactionPreserves`);
* reads: whole objects or nothing (`ReadsAreWhole`, `InFlightInvisible`,
  `CurrentRefReadsRight`);
* Trim: frees nothing that is referred to (`ReferencedIsReserved`), loses nothing
  (`AckedReadable`, `HalfAnchorAtMost`), and ends (`EveryTrimEnds`);
* uploads: one copy of a content, success means readable, every call returns
  (`StoredOnce`, `StoredIsServed`, `EveryUploadReturns`);
* chunked uploads: a manifest in the store is whole and so are its chunks, every
  range of it reads right, nothing is left running (`ManifestIsWhole`,
  `ChunksBeforeManifest`, `RangesReadRight`, `EverythingEnds`);
* the tier and the life of the daemon: what is served from a restored tier is
  whole, a lost tier is reported, a flush takes hold, devices in use are left
  alone, no name comes to two disks (`TierWhole`, `NoSilentLoss`, `FlushTakesHold`,
  `NeverClobbers`, `NamesApart`);
* the tools: they bring back what they promise, from what a stop or a crash of
  their own leaves (`IndexRecoverable`, `RestoreBringsBack`,
  `ScrubLosesOnlyTheTable`).

`PROJECT.json` lists the hazards behind these properties, each at its line.

## 2. Modules

```
PoolObjects   headers, objects, names            Placement   AddrForFID, extents
     |    \______________                  _________/   \
 ObjectStore            PutPath ___________/          IndexLog   entries, replay,
 (abstract)      refines |    \                        /  |      compaction
                         |   PutPathProofs IndexLogProofs TrimDisk   one disk, Trim
                     JumpClient                     \    /   |
                              \              TrimDiskProofs IndexTools  the tools
                        JumpClientProofs            |
                                             TrimDataProofs

 CdcClient   PutCDC, GetCDC           ZramTier   device, snapshot, flush
     |                                   |
 CdcClientProofs                     PoolDaemon  boot, restore, signals
     |                                   |
 NatLemmas   induction                PoolDaemonProofs
```

**ObjectStore** is the promise: a set of registered objects that only grows, with
unique names, and a set of acknowledged calls, each of a registered object.

**PutPath** is the write path over any number of disks and concurrent Puts. A
call's `pc` follows `Server.Put`: `idle`, `select`, `prepare`, `write`,
`commit`, `syncing`, then `respond` or `abort`, `release`, `done`. One action
per step and per way out of it: `RejectHeader`; `Reserve`, `ReserveConflict`,
`ReserveError` (gate.go); `SelectDisk`, `SelectNone` (multidisk.go);
`PrepareWrite`, `PrepareConflict`, `PrepareError`; `WriteSlot`, `WriteDone`,
`WriteFail` (the stream, slot by slot, with stall timeout, short or long
streams and I/O errors); `CommitWrite`, `CommitRefused`, `CommitPublish`,
`CommitRollback`, `CommitRollbackFail` (state.go); `Abort`, `Respond` (the
response may be lost), `Release`; `Crash` and `Boot`. `cache` is what reads see,
`media` what survives; `log` is the durable index, `tail` an append in doubt.
An entry of 16 bytes is whole or absent. The two entries of an alias pair go out
in one WriteAt that may be cut short, or may cross a sector: after a failed
rollback or a crash the first may be there alone. `cut` has the disks whose index
ends so, and `Boot` refuses them.
Without Trim replay does not depend on the order of entries, so the index is a
set of objects. `Get` is the operator that fan-out and `readRange` compute.

**JumpClient** drives PutPath: each Put is an attempt `<<upload, jump code>>`
whose payload is the content or the content and the code as a further byte, and
whose header hashes it. `Stored`, `Duplicate`, `NextJump`, `Exhausted`, `Failed`,
`Unreachable` are what the client does with an answer; `Cancelled` ends the call
while its handler runs on; `VerifyFound`, `VerifyRetry`, `VerifyGivesUp` are
`VerifyContent` with `CompareContent`, its default.

**IndexLog** is the index as a sequence of entries: plain, jump, anchor, tomb.
`Replay` is `replayIndex`: `ReplayEntry` for each entry (what is refused, what
is done to the maps), `Finish` for the packed tables and the overlap check.
`LatestHeads`, `Kept` and `Compacted` are the compaction of
`internal/blk/index_compact.go`.

**TrimDisk** is one disk with Puts, Trim and a reader. A Put is reduced to
prepare, stream, commit, publish or rollback, and abort. `maybeTrim` is twelve
actions from `TrimStart` to `CompactDone`, each with `TrimFail` as the error exit
the source has there; nothing is undone on failure, as in the code. `grid` holds
payloads, containers and tables; `Deliver` is the bytes a reference yields.
`GetLookup` and `GetRead` are the two halves of a Get. The medium is modelled by
sectors: between two syncs each sector holds any of the contents it has had.
Containers and tables get their hash from `TrimFids` by a free choice, because a
hash is not predictable.

Two ways to end are in TrimDisk: `Crash`, with power, and `Shutdown`, a signal
that closes the disk under a running Trim once no RPC is in progress. Both may
come between any two steps of Trim, the two writes of an anchor included. The
faults of `Faults` are extra: `"anchor-write"` (the second of these writes fails),
`"anchor-sync"`, `"copy-io"`.

**IndexTools** puts the offline tools on that disk while its daemon is down:
`Backup`, `CompactBackup`, and `RestoreStarts` or `ScrubStarts` followed by
`ToolCopies` unit by unit, `ToolReports`, or `ToolDies` in between; a table may go
bad (`TableRots`). `Validates` is `ValidateCompacted`. A torn restore is run
again, a scrub starts over.

**CdcClient** has one action per step of each goroutine of `PutCDC`: `SlicerNext`,
`SlicerError`, `SlicerSend`, `SlicerStop`; `WorkerTake`, `WorkerEnds`,
`PutStarts`, `PutCancelled`, `WorkerReports`, `WorkerFails`; `Collect`,
`CollectDone`, `CommitStarts`, `CommitEnds`; and `CallerCancels`. Both selects on
a channel and a context are free choices when both are ready. The daemon is a
write-once set of contents and those in flight; `HandlerEnds` stores or fails,
and its answer may be lost. `RivalCommits` and `RivalEnds` are another call's Put of
the same manifest, for which this one gets "fid already registered". A chunk's fid is the hash of its bytes, for which the
bytes stand. `fullHasher` is read by the collector while the slicer may still
write to it, which happens only after a cancellation: `HashSeen` then includes a
sum of nothing in particular. `GetCDC` is an operator, since objects never change.

**ZramTier** is a device of a tier as an image (index and slots) that is read and
written unit by unit, and its snapshot: `<id>.zst` and `<id>.sha256`, each with
what their filesystem has on its disk. `bsos zram flush` is `FlushStarts`,
`FlushHashes`, then `FlushSkips`, or `FlushCopyStarts`, `FlushCopies`,
`FlushRenames`, `FlushTruncatesMeta`, `FlushWritesMeta`; `FlushFails` at any
point. `Accepted` is `validateSnapshot`. `SizeSet`, `UnitRestored`, `Restored` and
`GivenBack` are the steps of `kernelRecovery.restore`, for a boot and for a load by
hand; `GivenBack` is the deferred reset, whose own error is ignored.

**PoolDaemon** is the process over one ordinary disk and the tier. `BootBegins`,
`BootAllocates`, `BootSizes`, `BootCopies`, `BootVerifies`, `BootRestoreFails` are
`restorePool` and `restore`; `BootOpens` is the rest of `NewServer` with
`persistPoolMapping`. A boot may be refused at its beginning (an error of
`discoverSnapshots` or `kernel.devices`), by `OpenDevice` or the replay of an index,
for a name on two disks, and by `persistPoolMapping`, with the old or the new file
in place (`Persist`). `Serves`; `PutWrites`, `PutCommits`, `PutFails`, `TrimWrites`,
`TrimMoves`, `TrimFails` are the moments at which handlers and Trim change a
device; `PutCalls`, `PutRefused`, `GetBlocks`, `GetReturns` are handlers that wait for
their client, a Put in its first `Recv` and a Get in `Send`; `CloseBegins`,
`CloseEnds`, `ForcedExit` are the signals; `LoadStarts`, `LoadSizes`, `LoadCopies`,
`LoadVerifies`, `LoadFails` are `bsos zram load`, beside whatever the daemon does;
`Killed`, `PowerLoss`, `OtherTakes` come from outside. `half`, `spoiled`, `risky` and
`calm` are histories that only properties read: devices with a restore that has
not ended well, that a boot or a flush took such a device, names stored while the
tier was missing, and that no device changed since the flush began.

The `MC*` modules give the constants their values.

## 3. Runs

| Run | Instance | Shows |
|---|---|---|
| put_safety | 3 Puts with any of 6 headers, 2 disks of 2 slots (one zram), index of 3 entries, 1 crash | all invariants of the write path; refinement of ObjectStore |
| jump_safety | 3 uploads, 2 of the same bytes, 1 of what their first jump sends; 2 jump codes; 1 crash | success means readable, verified means stored, one copy |
| jump_live | 2 uploads whose every attempt can collide, 2 jump codes | every upload returns, and every handler behind it ends |
| trim_safety | 3 Puts (one an alias whose extent is free only after a trim), 2 trims, 6 slots, index of 10 entries in one sector, 1 crash or stop | acknowledged data survives; the disk opens, but for half an anchor; compaction preserves; nothing referenced is freed |
| trim_live | 2 Puts, 2 trims with rehashes, index of 8 entries, a Get of a direct and of an aliased name | maybeTrim ends; current or packed references read right |
| cdc | 2 workers, channels of 1, streams of 0 to 5 chunks that repeat, one chunk that another client is uploading, 1 other Put of the manifest, manifests of at most 4 chunks | manifest, chunks and ranges; every goroutine ends |
| pool_life | 2 objects, 2 zram devices, 1 handler that waits for its client, and any two of: a flush over no snapshot or an older one, a power failure or death, a load by hand | the tier is whole or missing and reported; a name is on one disk; a flush takes hold; devices in use are left alone |
| tools | 3 Puts, 1 trim, index of 12 entries in units of 2, 2 stops, 1 bad table, 1 backup | the tools recover a stopped disk |
| jump_duplicate | violation | a "duplicate" whose other Put then fails |
| trim_stale_read | violation | a Get with a reference that Trim has made obsolete |
| trim_interrupted | violation | a Trim whose anchor or copy of the index fails, or that a stop or crash interrupts there |
| zram_restore_exposed | violation | a boot that meets a restore which has not ended |

Bounds. Headers contend for one name directly and as an alias, and include one
that collides in extent only, one that is invalid and one that fits nowhere, so
every answer of Put occurs. Three calls are needed for a name race to meet a
third party; two disks for a name on two disks; one crash, because a second one
starts from a state that the first already reaches. The index is small enough to
fill up, in a Put, behind an anchor and between tombstones. Two trims let the
second meet everything a failed first one leaves. `MaxCrashes` counts crashes and
stops. In `cdc` the channels hold 1 task instead of two per worker, so that they
are full after three chunks and every blocking send happens; four chunks repeat
two contents, and five are one more than a manifest takes. In `pool_life` one
flush races a Put or a Trim, or finds an older snapshot; one fault after it makes
a boot restore what the flush left; a load by hand runs beside a boot, a flush or a
fault. All three at once exceed the time of a run, so `MaxEvents` leaves any two of
them. Each name may fail to be stored once (`MaxTries`). The second device is there
to be taken by somebody else, or to hold the tier twice. Puts are symmetric in put_safety, the two equal uploads in
jump_safety. Deadlock is not checked: the calls are finite in number, and a
system with nothing left to do may stop.

Fairness. `JumpFairSpec`: a handler that can take a step by itself takes one
(goroutines are scheduled, disk calls return), and a started upload acts on what
its attempt returned; nobody has to start, cancel or verify. The steps that wait
for the client's bytes are not fair: a silent client is ended by the stall
timeout, which is the handler's own step. `FairSpec` of TrimDisk: `maybeTrim` runs
on; no fairness between Trim and Puts, which the design documents decline to
give. `FairSpec` of CdcClient: each goroutine runs, reads of the source return,
handlers end; nobody has to cancel. PoolDaemon has no fairness: a
Get in `Send` and a Put in its first `Recv` wait for their client without a timeout, so
that a signal ends the process is not promised by the code.

Assumptions of the passing runs, and the runs that drop them:

* `Faults` of TrimDisk: the second write of an anchor (`"anchor-write"`), the sync
  behind it (`"anchor-sync"`) and the copy of the compacted index (`"copy-io"`) do not
  fail; trim_interrupted has them all. `SectorLen` of trim_safety makes that copy
  one unit; in trim_interrupted and tools it has several. Every other step of Trim may fail, and
  the process may end in any.
* `Foreign` of CdcClient: chunks that another client is uploading are exempt from
  `ChunksBeforeManifest`, for the reason jump_duplicate shows.
* In `tools`, the daemon is down while tools run, and nobody boots a disk whose
  tool did not report OK. The tools do not sync, so a failure of power after their
  OK is outside the claims.

### What the violation runs show

* **jump_duplicate.** The gate answers "fid already registered" for a name that
  is only pending; the client's comments take that for durably stored. If the
  other Put then fails, an upload that returned success is nowhere.
  `VerifyContent` is the remedy the repository offers, and `VerifiedIsServed`
  shows that it is one.
* **trim_stale_read.** Reads keep their reference without a lock. Trim packs the
  object and frees the extent, a Put takes it, and the read returns that Put's
  bytes. `CurrentRefReadsRight` is the part that holds: a reference that is still
  published, or that points into a container, reads right.
* **trim_interrupted.** Trim takes nothing back when it fails. The validation notes
  of milestone 5 say that an error in any intermediate step of it loses no data and
  that all of it reads back. Four ways out of it leave an index that the next boot
  refuses; TLC stops at the first.
  The two entries of an anchor are two writes: when the second fails, or the process
  ends in between, the index ends with half an anchor, which `replayIndex` refuses.
  `HalfAnchorAtMost` is what holds: without that entry the boot would serve all, and
  `index-compact` drops it (`IndexRecoverable`).
  When the sync behind an anchor fails, RAM's end of the index is not moved; the
  next Put overwrites the first entry of the pair, and the second stands as another
  plain entry of the table.
  When a write of the in-place copy of the compacted index fails, new chunks stand in
  front of old ones and entries are present twice.
  And `Close`, which stops the ticker and drains the RPCs, closes the disk under a
  Trim that may be in that copy, where the notes of milestone 7 say that it persists
  the index atomically. A failure of power does the same (`Crash` with `SectorLen`
  below the index length). The copy of the index that Trim makes first is restored
  by hand.
* **zram_restore_exposed.** `restore` writes the snapshot front to back, so the
  header and the index are there first, and clears the device again in a deferred
  function. A daemon that is started while `bsos zram load` runs finds a device with the
  right header, takes it for the live tier and checks nothing; TLC's trace has the load
  overwrite what the daemon stores meanwhile. If a restoring process is killed, the
  next boot does the same with what it left.

Further behaviour that the models show and no run is spent on:

* A commit of an alias that is cut short, with a rollback that fails as well, or a
  crash in it, may leave the first entry of the pair alone, and the next boot
  refuses the disk (`cut`). The repository documents and tests this refusal
  (docs/FOUNDATION_VALIDATION, foundation_test.go), so it is no finding;
  `NextBootAccepted` says that nothing else leads to one.
* A boot without the tier accepts names that the tier holds, since nobody can be
  asked for them (`risky`). Once a later boot restores the tier, the name is on two
  disks and `NewServer` refuses the whole pool; docs/DESIGN.md 3.13 calls the recovery
  of the tier "routine, low-stakes, and recoverable". `NamesApart` says that nothing
  else brings a name to two disks.
* PutCDC returns ok for a manifest that another call is only about to store
  (`rival`); if that call fails nobody has stored it. It is jump_duplicate once
  more, for the manifest.
* A flush of a device that is being restored, by a boot or by hand, copies half a
  tier that then validates (`spoiled`).
* A Get whose client does not read, or a Put whose client sends no header, keeps
  the process after a signal until the second one.
* `IndexRecoverable` has two exceptions. A copy that was cut between the two
  entries of a pair (`PairCut`) shows the second as a record of its own, and
  `index-compact` then refuses its own result. And if a boot does accept a
  half-copied index, the old entries behind the first zero entry come back into
  view once new appends have filled the gap.
* A signal between `NewServer` and the registration in `Serve` closes the disks and
  leaves a daemon that serves and fails every call until the second signal.
* Flush may skip beside a snapshot that does not match its checksum file, if
  bytes of failed Puts or Trims come, go and come back between two flushes.

## 4. Proofs

`PutPathProofs` proves for any sets of Puts, disks, headers and any sizes, from
`DiskAssumption` (disks have slots, slots have bytes) and `HeadersAssumption` (fids
and sizes are naturals), all the invariants of put_safety and the refinement.
None of them is inductive. The invariant is `IInv`:

* `TypeOK`, `ObjectsInv` (stored objects are well formed and valid),
* `CallsInv`: what each `pc` implies about a call's header, disk and progress,
* `GateInv`: the gate is the union of the names in flight, disjointly: two calls
  in flight share no name,
* `PendingInv`, `SpaceInv`: pending extents are those of the holders, and no
  holder's extent meets another's or a stored one,
* `TailInv`: an append in doubt belongs to the one call that is syncing, or to a
  disk out of service,
* `IndexInv`: memory is the replay of the log,
* `HomesInv`, `FreshInv`: names of stored, in-doubt and in-flight objects are
  disjoint across disks; this is where the refusal of the gate on a faulted disk
  is needed,
* `BytesInv`: the slots of stored and in-doubt objects hold their bytes on the
  medium, those of a holder hold what it has written so far,
* `DownInv`: memory is empty while the daemon is down.

The argument for reads: a name resolves through memory to an object of the log
(`IndexInv`), whose slots hold its bytes (`BytesInv`), which nobody overwrites
(`SpaceInv`). The proof that a step preserves `IInv` is one lemma per action,
with a step for each conjunct the action can disturb. The refinement maps `objects` to the union of the logs: a
publish registers one object, a crash with an append in doubt may register
several, a lost response acknowledges none.

`JumpClientProofs` shows that every step of an upload is a step or a stutter of
PutPath (`JumpRefinesPutPath`), and gets `StoredOnce` from `OneHome` and
`StoredIsServed` from `AckedServed` and the invariant that a stored outcome has
an acknowledged attempt. `VerifiedIsServed` needs one hypothesis, `NoCollisions`:
two payloads an attempt may send have different hashes. Without it a read-back
may meet somebody else's payload under the same name. The invariant behind it
says that a content that compared equal is the payload, up to its jump byte, of
an object in the index, which nothing removes.

`PoolDaemonProofs` proves all the safety properties of pool_life for
any set of objects and devices, any number of flushes, faults, loads and boots,
and restores that are cut off anywhere. No theorem has a hypothesis. `TierWhole` and
`NamesApart` themselves have the exception `spoiled`, which zram_restore_exposed
shows to be needed: a boot or a flush has taken a device out of
a restore that had not ended well. A kill of a restore, a reset that fails, or a
load beside a running daemon alone are no exception. The invariant is `LifeInv`:

* `Basic`: types (`TypeInv`); which devices a boot, a load and a running process have
  chosen, and how far each restore has come (`BootInv`); who is at work (`PlaceInv`);

and, unless spoiled,

* `Clear`: the pool's device is none that a restore was left on (`Stable`);
* `WorkInv`: where a Put or a Trim is between its bytes and its index entry;
* `FilesInv`: whatever mixture of snapshot and checksum files a power failure
  keeps, if the two match, every entry of the snapshot has its bytes;
* `DevicesInv`: the same of each stable device that carries the tier;
* `TierInv`: the tier is in one of three situations. It is gone; or it rests, as
  it was restored and equal to an accepted snapshot; or it moves, and then every
  snapshot, checksum and copy of a flush is behind the index of the device;
* `NamesInv`: a name is in the tier, or in a snapshot of it, and on the disk only if
  it was stored while the tier was missing.

Why a snapshot that validates is whole: Puts and Trim only move an index forward
(`Leads`), a name in it stays and moves at most once, into the container. So an
index that flush finds unchanged between the pass that hashes the device and the
pass that copies it did not change in between, and neither did the slots it
refers to. A copy that is not whole has an index that the device has left behind for
good, and no later checksum can match it (`Behind`). `FlushTakesHold` has an
invariant of its own, `CalmInv`, about what the flush has copied as long as the
device has not changed.

`CdcClientProofs` proves all the safety properties of `cdc` for every stream of
non-empty chunks, any number of workers and any capacity of the channels, without
further hypotheses. `ManifestIsWhole` promises a stored manifest after ok only if no
other call had sent the same one. `CdcInv` has three parts. `TypeInv`. `LiveInv`, which is about
calls that nobody has cancelled, and a cancellation is for good:

* `QueueInOrder`: the task channel holds the chunks issued last, in order;
* `OncePlaced`, `NoneLost`: each chunk that was taken is in exactly one place, in
  the hands of a worker, in the result channel or in the results;
* `StopsAtEnd`: a worker ends only when everything was issued and taken;
* `UploadsAwaited`: a content that some worker reported as uploaded is stored, or
  another worker of this call still waits for it, or one of them has failed.

And `MainInv`: what the collector assembles without a cancellation is the whole
manifest, with all its chunks stored. So when the closer has closed the result
channel, the results are the chunks of the stream in some order, without repetition; their offsets
increase strictly because no chunk is empty, so the sort has one result
(`SortedIsInOrder`), and their sizes add up to the file (`TotalIsFileSize`).
Ranges: `FlattenFacts` says where each chunk lies in the file, `WrittenFacts` what
GetCDC writes for one chunk, and `RangeIsWindow` adds these up to the window that
was asked for.

Recursive functions (`RunningSum`, the fold of `FlattenSeq`) are unfolded with the
definition theorems of NaturalsInduction. Induction over numbers is `NatInSet`
of `NatLemmas` (a set that holds 0 and the successor of each of its members holds
every natural), proved from the least member of a set of naturals, so no
induction rule with an operator parameter is needed.

`IndexLogProofs` is about the index as data, for any capacity and any fids. `Fold`
is the loop of `replayIndex` after each entry, `Live` the records among the first
entries that nothing later replaces. `Phases` shows by induction over the entries
that wherever no pair is open, the maps of the replay are exactly what the live
records say (`Good`), and that `LatestHeads`, which reads the index without
replaying it, finds the live records (`HeadsAreLive`). A compaction keeps these in
order, so its replay goes through the same states with the dead records left
out: position m of the index corresponds to position `Rank(Kept, m)` of the
compacted one (`CompactedFollows`). The result is `CompactionKeepsScan` and, with
the packed tables read from any grid, `CompactionKeepsReplay`. Both have a
hypothesis, `Shaped`: the entry behind a jump is no tombstone, the entry behind an
anchor names the same table, and a tombstone or an anchor names an object that no
alias refers to and that was not announced as a table before. It is needed, as
`replayIndex` accepts more than it: a tombstone for one name of a pair clears that
name only in a replay, and the whole pair in a compaction.

`TrimDiskProofs` proves that the daemon writes only such indexes. `TrimTypeCorrect`
has no hypothesis beyond the assumptions on the constants; its invariant `TypeInv`
adds to the types that the Put which is syncing holds `mu` and has room for its
entries, where Trim's own objects are placed, and that tables on the grid decode
to fids and sizes. `CompactionHarmless` (`CompactionPreserves` always) has the
hypothesis `WholeWrites`, which is what trim_safety assumes of the medium: no fault
but crashes, and an index of one sector, so that each write of it is whole or not
there. That is stronger than the code gives, and trim_interrupted
shows what happens without it: a copy that is half
done or an anchor that memory does not count leaves an index that is not `Shaped`,
or that does not replay at all. The process may end between any two steps, between
the two writes of an anchor too; the index then ends with half an anchor, which
the invariant carries along through the time the daemon is down. The invariant is
`LogInv`:

* `Sound`, `Whole`, `Half`: the index as reads see it, and every content the medium
  may have, is `Shaped`, is accepted entry by entry, is empty behind its end, and
  ends with no open pair or with the first entry of an anchor; a running daemon has
  the latter only between the two writes;
* `TailInv`: what lies behind RAM's end of the index is nothing, or exactly the
  append in progress, or, after a Trim that failed, one entry of an object that
  memory does not know. The next append overwrites it, so that one must not be
  able to leave half of it: it is never longer than what is written over it;
* `RetireInv`: each candidate of a running Trim is registered in memory and may be
  retired until its tombstone is written, also after the entries of the container,
  the table and the anchor that come in between (`RetirableAfter`); the table is
  none of the candidates;
* `RamInv`: names that a replay up to RAM's end would find are known to memory, so
  the checks of Put and Trim against memory keep duplicates out of the index.

`TrimDataProofs` is about what references deliver, for any number of Puts, any
headers, capacity, grid and number of trims and crashes, and also from
`WholeWrites`. It proves `AckedReadable`, `HalfAnchorAtMost`, `ReopenServesTheSame`,
`ReferencedIsReserved` and `NeverFaulted`. None is inductive, not even together
with `LogInv`: what a boot serves depends on entries of the index that memory no
longer uses, on tables in the grid, and on which slots were synced. The invariant
is `DataInv`, on top of `TypeInv` and `LogInv`:

* `ViewInv` compares memory with three kinds of scans: `Now`, what a boot would
  read; `Base`, the part of it that RAM's end of the index covers; and `Finals`,
  one for each content the medium may have. `Memory`: every reference of memory
  lies in a confirmed extent, and these do not overlap. `Current` (`Now` and
  `Base`): their extents do not overlap, each announced table lies on synced slots,
  points into a confirmed container on synced slots, and lists names with the
  bytes that memory serves them with; every name that memory serves is listed by a
  table or has an entry with the same bytes. `Past` (each of `Finals`): its tables
  are tables of `Now`, and every acknowledged name is listed or has its entry, on
  synced slots. While the daemon is down, what it would load stands for memory;
* `SpaceInv`: pending and confirmed extents do not overlap, each Put that holds an
  extent has one of its own, and what was streamed is in it;
* `WorkInv`: what Trim has behind it at each of its steps. No candidate is the
  container of a table (`Away`); the container has the bytes of every candidate at
  its offset (`Packed`); container and table are synced and in the index before
  the anchor is written (`ContainerIn`, `TableSafe`); from the anchor's sync to the
  tombstones every candidate is listed in every content of the medium
  (`CandsListed`); the copy has the scan of the index (`copy`).

The argument. One step of the system either changes slots outside every confirmed
extent, or the index, or memory. `Carries` says of a step that references which
were served deliver the same before and after it, and the lemmas `ViewCarries`,
`ViewAppend`, `ViewAnchor`, `ViewTomb`, `ViewSettle` and `ViewReload` say what
each kind of step does to the view: a write elsewhere, an append, an anchor that
makes a table override its names, a tombstone for a name that a table lists, a
sync, a replay. Each action is one of these, with the facts of `LogInv` about its
entries. Offsets are sums of sizes, so that the parts of a container are found
again by offset needs sizes above 0 (`OffsetGrows`). A boot takes `Reload`: the
tables a scan announces are read from synced slots, so whatever a crash loses,
their names come back with the bytes memory had for them.

Changes of the models that came out of the proofs. The flush remembers the device
it opened, as the process holds its descriptor, so that `FlushTakesHold` speaks
of that device although a load by hand may make another one the tier meanwhile. The
chunker keeps a running offset, as `Chunker.offset` is, and the sort is any
permutation that puts the offsets in order, as `sort.Slice` promises no more. Which
entries are the second of a pair (`PairEnds`) is a recursive function over the
index, as `CollectLatestIndexRecords` walks it once. `IndexAssumption` and
`TrimAssumption` name what the constants have to satisfy; that a Put with an alias
has two bytes or more and is not its own alias is what `Server.Put` checks first.

Only model-checked:

* liveness (`EveryUploadReturns`, `EveryPutEnds`, `EveryTrimEnds`, `EverythingEnds`):
  fairness and ENABLED are outside the prover;
* `CurrentRefReadsRight`: it speaks of every name that memory serves, `DataInv` of
  the acknowledged ones, so it needs the same again for Puts that a crash cut off
  between their entry and their answer;
* IndexTools: its tools start from indexes that are half copied, which are not
  `Shaped`.

## 5. Not modelled

* Trim on several disks of one pool: a container's hash is checked against its own
  disk only, while a boot compares all disks. One disk with Trim is already near
  what TLC finishes in minutes.
* The estimates `computeCHD` and `computeFragmentationThreshold`, floating-point
  numbers that only choose among correct alternatives.
* `blk init`, `find`, `info` and the parsing of device headers; raw snapshots,
  `EnsureLoaded` and pools with several tiers; `GetAuto`'s look at the magic bytes.
* Configuration, command line, generated code, examples and scripts.
* Within the modules: byte ranges of a Get, the I/O semaphore (its timeout is a
  `WriteFail`), the index backup that Trim writes, torn 16-byte entries, two
  flushes at a time; of an alias pair that is cut, the second entry alone behind
  the end of the index; chunks that are shorter than their descriptor; the
  size-only Head mode of `VerifyContent`. A content whose hash is 0 is excluded (`JumpAssumption`).
* Where FastCDC cuts a stream is data; so is the protobuf encoding of a manifest.

## 6. Plan

1. PutPath, JumpClient and their proofs; IndexLog and TrimDisk. Done.
2. CdcClient, ZramTier and PoolDaemon, IndexTools, shutdown. Done.
3. Proofs for CdcClient and PoolDaemon, and `VerifiedIsServed`. Done.
4. Proofs for IndexLog, and for the index of TrimDisk. Done.
5. Proofs for the data of TrimDisk, from an invariant that relates memory, index,
   medium and grid. Done, except for `CurrentRefReadsRight`.
6. Trim on two disks under the gate, if an abstraction of TrimDisk is found that
   is small enough.
