------------------------------- MODULE PutPath -------------------------------
(***************************************************************************)
(* The two-phase write path of bsosd over a pool of disks: the pool-wide   *)
(* fid gate (gate.go), disk selection (multidisk.go), the per-disk extent  *)
(* reservation (interval.go), the unlocked streaming write, and the commit *)
(* of the index entry with its rollback (state.go), driven by Server.Put   *)
(* (server.go); then process or power failure at any point and the index   *)
(* replay of the next boot (index_state.go, NewServer).                    *)
(*                                                                         *)
(* Data abstraction.  A payload is the identity of the Put that sent it,   *)
(* and a slot of the grid holds the identity of the Put that wrote it      *)
(* last.  Without Trim the index is append-only and its replay does not    *)
(* depend on the order of the entries, so a disk's index is the set of the *)
(* objects appended to it, with at most one append in doubt ("tail").  An  *)
(* entry of 16 bytes is whole or absent.  The two entries of an alias pair *)
(* go out in one WriteAt, which may be cut short, or may cross a sector:   *)
(* the pair arrives front to back, and its first entry may stay alone.     *)
(***************************************************************************)
EXTENDS PoolObjects, Placement, Integers, FiniteSets

CONSTANTS
    ZramDisks,       \* the disks of the zram tier, a subset of Disks
    MaxPut,          \* max_put, in bytes
    SmallFileBytes,  \* sizes below it prefer the zram tier
    IndexCap,        \* entries that fit between IndexStart and GridStart
    MaxCrashes,      \* bound: failures of the whole process in one behaviour
    Blank            \* content of a slot nobody wrote

ASSUME DiskAssumption ==
    /\ ZramDisks \subseteq Disks
    /\ Slots \in [Disks -> Nat \ {0}]
    /\ SlotSize \in Nat \ {0}
    /\ Blank \notin Puts
    /\ Disks # {}

VARIABLES
    hdr,         \* the header each call sends
    pc,          \* where each call's handler is
    res,         \* what the client was (or will be) told
    disk,        \* the disk selected for each call
    written,     \* slots of the extent the call has streamed so far
    gate,        \* poolGate.pending
    pendingIntervals, intervals,   \* per disk: reserved / confirmed extents
    confirmed,   \* per disk: the RAM index, name -> objectRef
    indexErr,    \* per disk: TRUE once an index rollback failed
    log,         \* per disk: the objects whose append is durable
    tail,        \* per disk: the append written but not known durable
    cut,         \* the disks whose index ends with half of an alias pair
    cache,       \* per disk: slot contents as a read sees them
    media,       \* per disk: slot contents that survive a power failure
    up,          \* is the daemon running
    crashes      \* failures so far

reqVars  == <<hdr, pc, res, disk, written>>
memVars  == <<gate, pendingIntervals, intervals, confirmed, indexErr>>
diskVars == <<log, tail, cut, cache, media>>
vars     == <<reqVars, memVars, diskVars, up, crashes>>

Obj(p) == Object(hdr[p], p)

-----------------------------------------------------------------------------
(* The RAM index of a disk and its lookups.                                *)

\* Wrong variants of the two definitions below: the alias keeps its pad
\* byte; every name loses one.
RefFor_AliasFullSize(name, o) ==
    [fid |-> o.fid, storedSize |-> o.size, size |-> o.size]

RefFor_AlwaysTrimmed(name, o) ==
    [fid |-> o.fid, storedSize |-> o.size, size |-> o.size - 1]

\* objectRef, as Commit publishes it for the fid and for its alias: the
\* alias serves the target's payload without its last byte.
RefFor(name, o) ==
    [fid |-> o.fid, storedSize |-> o.size,
     size |-> IF name = o.fid THEN o.size ELSE o.size - 1]

\* The same two references as replayIndex rebuilds them.
ReplayRef(name, o) ==
    [fid |-> o.fid, storedSize |-> o.size,
     size |-> IF name = o.fid THEN o.size ELSE o.size - 1]

NoRef == [fid |-> 0, storedSize |-> 0, size |-> 0]

\* replayIndex: the map a fresh open builds from the appended objects.
Replay(S) ==
    [f \in AllNames |->
        IF \E o \in S : f \in Names(o)
        THEN ReplayRef(f, CHOOSE o \in S : f \in Names(o))
        ELSE NoRef]

\* replayIndex and NewServer accept the index: no incomplete alias pair at its
\* end, no name twice on a disk or on two disks, no overlapping extents.
Bootable ==
    /\ cut = {}
    /\ \A d \in Disks :
        /\ NamesUnique(log[d])
        /\ \A x, y \in log[d] : x # y => ~Overlaps(ExtentOf(d, x), ExtentOf(d, y))
    /\ \A d, e \in Disks : d # e =>
        \A x \in log[d], y \in log[e] : Names(x) \cap Names(y) = {}

Found(f) == \E d \in Disks : ~indexErr[d] /\ confirmed[d][f] # NoRef

SomeFault == \E d \in Disks : indexErr[d]

\* Server.Get and DeviceState.readRange: the first disk that knows the name
\* answers with the bytes its ref points to; a faulted disk answers with an
\* error that counts only when nobody knows the name.
Get(f) ==
    IF Found(f)
    THEN LET d   == CHOOSE d \in Disks : ~indexErr[d] /\ confirmed[d][f] # NoRef
             ref == confirmed[d][f]
             iv  == Extent(d, ref.fid, ref.storedSize)
         IN  [code |-> "OK", size |-> ref.size,
              data |-> {cache[d][s] : s \in iv.start .. iv.end}]
    ELSE [code |-> IF SomeFault THEN "Internal" ELSE "NotFound",
          size |-> 0, data |-> {}]

\* Index entries used: an alias pair takes two.
IndexUsed(d) == Cardinality(log[d]) + Cardinality({o \in log[d] : o.alias # NoAlias})

EntriesOf(h) == IF h.alias = NoAlias THEN 1 ELSE 2

\* DeviceState.mu is held from the start of Commit to the end of its I/O.
MuFree(d) == \A q \in Puts : ~(pc[q] = "syncing" /\ disk[q] = d)

-----------------------------------------------------------------------------
Init ==
    /\ hdr \in [Puts -> Headers]
    /\ pc = [p \in Puts |-> "idle"]
    /\ res = [p \in Puts |-> "none"]
    /\ disk = [p \in Puts |-> CHOOSE d \in Disks : TRUE]
    /\ written = [p \in Puts |-> 0]
    /\ gate = {}
    /\ pendingIntervals = [d \in Disks |-> {}]
    /\ intervals = [d \in Disks |-> {}]
    /\ confirmed = [d \in Disks |-> [f \in AllNames |-> NoRef]]
    /\ indexErr = [d \in Disks |-> FALSE]
    /\ log = [d \in Disks |-> {}]
    /\ tail = [d \in Disks |-> {}]
    /\ cut = {}
    /\ cache = [d \in Disks |-> [s \in GridSlots(d) |-> Blank]]
    /\ media = cache
    /\ up = TRUE
    /\ crashes = 0

\* The handler of p moves on.
Goto(p, l) == pc' = [pc EXCEPT ![p] = l]

\* The handler of p moves on with its answer decided.
Answer(p, code, l) ==
    /\ res' = [res EXCEPT ![p] = code]
    /\ Goto(p, l)
-----------------------------------------------------------------------------
(* Step 0: the header and the pool-wide gate.                              *)

ValidHeader(h) ==
    /\ h.size # 0
    /\ h.alias # NoAlias => h.alias # h.fid /\ h.size >= 2
    /\ h.size <= MaxPut

RejectHeader(p) ==
    /\ up /\ pc[p] = "idle"
    /\ ~ValidHeader(hdr[p])
    /\ Answer(p, "invalid", "done")
    /\ UNCHANGED <<hdr, disk, written, memVars, diskVars, up, crashes>>

\* Wrong variants of GateFree: only the fid is checked; pending names are
\* not; registered names are not; a disk that cannot answer is ignored.
GateFree_FidOnly(h) ==
    h.fid \notin gate /\ ~SomeFault /\ ~Found(h.fid)

GateFree_NoPending(h) ==
    ~SomeFault /\ \A f \in Names(h) : ~Found(f)

GateFree_NoConfirmed(h) ==
    Names(h) \cap gate = {} /\ ~SomeFault

GateFree_IgnoresFault(h) ==
    Names(h) \cap gate = {} /\ \A f \in Names(h) : ~Found(f)

\* poolGate.reserve and confirmedAnywhere: neither name is pending, neither
\* is registered, and every disk was able to say so.
GateFree(h) ==
    /\ Names(h) \cap gate = {}
    /\ ~SomeFault
    /\ \A f \in Names(h) : ~Found(f)

Reserve(p) ==
    /\ up /\ pc[p] = "idle"
    /\ ValidHeader(hdr[p])
    /\ GateFree(hdr[p])
    /\ gate' = gate \cup Names(hdr[p])
    /\ Goto(p, "select")
    /\ UNCHANGED <<hdr, res, disk, written, pendingIntervals, intervals,
                   confirmed, indexErr, diskVars, up, crashes>>

\* ErrConflict: a name is pending, or is registered somewhere.  The alias is
\* looked up only when every disk answered for the fid.
ReserveConflict(p) ==
    /\ up /\ pc[p] = "idle"
    /\ ValidHeader(hdr[p])
    /\ \/ Names(hdr[p]) \cap gate # {}
       \/ Found(hdr[p].fid)
       \/ ~SomeFault /\ \E f \in Names(hdr[p]) : Found(f)
    /\ Answer(p, "registered", "done")
    /\ UNCHANGED <<hdr, disk, written, memVars, diskVars, up, crashes>>

\* The confirmed-state fan-out fails: a faulted disk that does not know the
\* name, or the fan-out timeout.
ReserveError(p) ==
    /\ up /\ pc[p] = "idle"
    /\ ValidHeader(hdr[p])
    /\ Names(hdr[p]) \cap gate = {}
    /\ Answer(p, "internal", "done")
    /\ UNCHANGED <<hdr, disk, written, memVars, diskVars, up, crashes>>
-----------------------------------------------------------------------------
(* Step 1: disk selection and extent reservation.                          *)

CanWrite(d, size) ==
    /\ size # 0
    /\ ~indexErr[d]
    /\ size <= Slots[d] * SlotSize

\* selectDiskForWrite.  Which candidate wins depends on a sampled capacity
\* estimate (CH_d), so any candidate may; the zram tier takes small objects
\* only.
SelectDisk(p) ==
    /\ up /\ pc[p] = "select"
    /\ \E d \in Disks :
        /\ CanWrite(d, hdr[p].size)
        /\ d \in ZramDisks => hdr[p].size < SmallFileBytes
        /\ disk' = [disk EXCEPT ![p] = d]
    /\ Goto(p, "prepare")
    /\ UNCHANGED <<hdr, res, written, memVars, diskVars, up, crashes>>

\* No disk outside the zram tier can take it, and the tier did not either.
SelectNone(p) ==
    /\ up /\ pc[p] = "select"
    /\ \A d \in Disks \ ZramDisks : ~CanWrite(d, hdr[p].size)
    /\ Answer(p, "exhausted", "release")
    /\ UNCHANGED <<hdr, disk, written, memVars, diskVars, up, crashes>>

\* Wrong variants of ExtentFree: one of the two tables is not consulted.
ExtentFree_ConfirmedOnly(d, iv) == \A e \in intervals[d] : ~Overlaps(e, iv)

ExtentFree_PendingOnly(d, iv) == \A e \in pendingIntervals[d] : ~Overlaps(e, iv)

\* reserveExtent finds the extent free.
ExtentFree(d, iv) ==
    \A e \in intervals[d] \cup pendingIntervals[d] : ~Overlaps(e, iv)

PrepareWrite(p) ==
    LET d  == disk[p]
        iv == ExtentOf(d, hdr[p])
    IN  /\ up /\ pc[p] = "prepare" /\ MuFree(d)
        /\ AddrOK(d, hdr[p].fid, hdr[p].size)
        /\ ~indexErr[d]
        /\ ExtentFree(d, iv)
        /\ pendingIntervals' = [pendingIntervals EXCEPT ![d] = @ \cup {iv}]
        /\ written' = [written EXCEPT ![p] = 0]
        /\ Goto(p, "write")
        /\ UNCHANGED <<hdr, res, disk, gate, intervals, confirmed, indexErr,
                       diskVars, up, crashes>>

PrepareConflict(p) ==
    LET d == disk[p]
    IN  /\ up /\ pc[p] = "prepare" /\ MuFree(d)
        /\ AddrOK(d, hdr[p].fid, hdr[p].size)
        /\ ~indexErr[d]
        /\ ~ExtentFree(d, ExtentOf(d, hdr[p]))
        /\ Answer(p, "reserved", "release")
        /\ UNCHANGED <<hdr, disk, written, memVars, diskVars, up, crashes>>

\* The disk faulted after it was selected, or the address is out of range.
PrepareError(p) ==
    LET d == disk[p]
    IN  /\ up /\ pc[p] = "prepare" /\ MuFree(d)
        /\ indexErr[d] \/ ~AddrOK(d, hdr[p].fid, hdr[p].size)
        /\ Answer(p, "internal", "release")
        /\ UNCHANGED <<hdr, disk, written, memVars, diskVars, up, crashes>>
-----------------------------------------------------------------------------
(* Step 2: the unlocked streaming write.                                   *)

WriteSlot(p) ==
    LET d == disk[p]
        s == ExtentOf(d, hdr[p]).start + written[p]
    IN  /\ up /\ pc[p] = "write"
        /\ written[p] < SlotsNeeded(hdr[p].size)
        /\ cache' = [cache EXCEPT ![d][s] = p]
        /\ written' = [written EXCEPT ![p] = @ + 1]
        /\ UNCHANGED <<hdr, pc, res, disk, memVars, log, tail, cut, media, up, crashes>>

\* The stream ended exactly at total_size and the last slot is padded.
WriteDone(p) ==
    /\ up /\ pc[p] = "write"
    /\ written[p] = SlotsNeeded(hdr[p].size)
    /\ Goto(p, "commit")
    /\ UNCHANGED <<hdr, res, disk, written, memVars, diskVars, up, crashes>>

\* A wrong variant: the stall timer is armed by the first chunk only.
WriteFail_AfterFirstChunk(p) ==
    /\ up /\ pc[p] = "write" /\ written[p] > 0
    /\ Answer(p, "internal", "abort")
    /\ UNCHANGED <<hdr, disk, written, memVars, diskVars, up, crashes>>

\* Queueing for an I/O slot timed out, the stream stalled, ended early, ran
\* over, was cancelled, or a write failed.
WriteFail(p) ==
    /\ up /\ pc[p] = "write"
    /\ Answer(p, "internal", "abort")
    /\ UNCHANGED <<hdr, disk, written, memVars, diskVars, up, crashes>>
-----------------------------------------------------------------------------
(* Step 3: commit, under the disk's mu.                                    *)

\* A wrong variant: the entry is published without flushing the payload.
SyncPayload_Skipped(d) == media

\* file.Sync(): what was written to the disk so far is on the medium.
SyncPayload(d) == [media EXCEPT ![d] = cache[d]]

\* The checks pass, the payload is synced and the entry (or alias pair) is
\* handed to WriteAt.  From here to the sync nobody knows how much of it is
\* on the medium: all, nothing, or the first entry of a pair.
CommitWrite(p) ==
    LET d == disk[p]
    IN  /\ up /\ pc[p] = "commit" /\ MuFree(d)
        /\ ~indexErr[d]
        /\ \A f \in Names(hdr[p]) : confirmed[d][f] = NoRef
        /\ IndexUsed(d) + EntriesOf(hdr[p]) <= IndexCap
        /\ media' = SyncPayload(d)
        /\ tail' = [tail EXCEPT ![d] = {Obj(p)}]
        /\ Goto(p, "syncing")
        /\ UNCHANGED <<hdr, res, disk, written, memVars, log, cut, cache, up, crashes>>

\* The request was cancelled, the disk faulted, the name or the index space
\* is taken, or syncing the payload failed.
CommitRefused(p) ==
    /\ up /\ pc[p] = "commit" /\ MuFree(disk[p])
    /\ Answer(p, "internal", "abort")
    /\ UNCHANGED <<hdr, disk, written, memVars, diskVars, up, crashes>>

\* The index sync succeeded: publish both names and confirm the extent.
CommitPublish(p) ==
    LET d  == disk[p]
        iv == ExtentOf(d, hdr[p])
    IN  /\ up /\ pc[p] = "syncing"
        /\ log' = [log EXCEPT ![d] = @ \cup tail[d]]
        /\ tail' = [tail EXCEPT ![d] = {}]
        /\ media' = [media EXCEPT ![d] = cache[d]]
        /\ confirmed' = [confirmed EXCEPT ![d] =
             [f \in AllNames |-> IF f \in Names(hdr[p]) THEN RefFor(f, hdr[p]) ELSE @[f]]]
        /\ pendingIntervals' = [pendingIntervals EXCEPT ![d] = @ \ {iv}]
        /\ intervals' = [intervals EXCEPT ![d] = @ \cup {iv}]
        /\ Goto(p, "respond")
        /\ UNCHANGED <<hdr, res, disk, written, gate, indexErr, cut, cache, up, crashes>>

\* Writing (in part or not at all) or syncing failed, and zeros were written
\* over it and synced.
CommitRollback(p) ==
    LET d == disk[p]
    IN  /\ up /\ pc[p] = "syncing"
        /\ tail' = [tail EXCEPT ![d] = {}]
        /\ media' = [media EXCEPT ![d] = cache[d]]
        /\ Answer(p, "internal", "abort")
        /\ UNCHANGED <<hdr, disk, written, memVars, log, cut, cache, up, crashes>>

\* The rollback failed as well: the append stays in doubt, half a pair
\* included, and the disk is out of service until it is reopened.
CommitRollbackFail(p) ==
    LET d == disk[p]
    IN  /\ up /\ pc[p] = "syncing"
        /\ indexErr' = [indexErr EXCEPT ![d] = TRUE]
        /\ Answer(p, "internal", "abort")
        /\ UNCHANGED <<hdr, disk, written, gate, pendingIntervals, intervals,
                       confirmed, diskVars, up, crashes>>
-----------------------------------------------------------------------------
(* Step 4: abort; the answer; the deferred gate release.                   *)

Abort(p) ==
    LET d == disk[p]
    IN  /\ up /\ pc[p] = "abort" /\ MuFree(d)
        /\ pendingIntervals' =
             [pendingIntervals EXCEPT ![d] = @ \ {ExtentOf(d, hdr[p])}]
        /\ Goto(p, "release")
        /\ UNCHANGED <<hdr, res, disk, written, gate, intervals, confirmed,
                       indexErr, diskVars, up, crashes>>

\* SendAndClose: the client gets the response, or the connection is gone.
Respond(p) ==
    /\ up /\ pc[p] = "respond"
    /\ \/ Answer(p, "ok", "release")
       \/ Answer(p, "lost", "release")
    /\ UNCHANGED <<hdr, disk, written, memVars, diskVars, up, crashes>>

\* A wrong variant: the alias stays pending for good.
ReleasedNames_FidOnly(h) == {h.fid}

ReleasedNames(h) == Names(h)

Release(p) ==
    /\ up /\ pc[p] = "release"
    /\ gate' = gate \ ReleasedNames(hdr[p])
    /\ Goto(p, "done")
    /\ UNCHANGED <<hdr, res, disk, written, pendingIntervals, intervals,
                   confirmed, indexErr, diskVars, up, crashes>>
-----------------------------------------------------------------------------
(* Failure of the whole process, and the next boot.                        *)

InFlight(p) == pc[p] \notin {"idle", "done"}

\* Slots written but not yet known to be on the medium.
Dirty == {x \in UNION {{d} \X GridSlots(d) : d \in Disks} :
             cache[x[1]][x[2]] # media[x[1]][x[2]]}

\* Each dirty slot and each append in doubt reached the medium or did not (on
\* the disks K it did), and of a pair the first entry alone may have (on H).
\* Everything in memory is gone; clients of calls in flight see a broken
\* connection.
Crash ==
    /\ up /\ crashes < MaxCrashes
    /\ crashes' = crashes + 1
    /\ up' = FALSE
    /\ pc' = [p \in Puts |-> IF InFlight(p) THEN "done" ELSE pc[p]]
    /\ res' = [p \in Puts |-> IF InFlight(p) /\ res[p] # "ok" THEN "lost" ELSE res[p]]
    /\ gate' = {}
    /\ pendingIntervals' = [d \in Disks |-> {}]
    /\ intervals' = [d \in Disks |-> {}]
    /\ confirmed' = [d \in Disks |-> [f \in AllNames |-> NoRef]]
    /\ indexErr' = [d \in Disks |-> FALSE]
    /\ \E W \in SUBSET Dirty :
        cache' = [d \in Disks |-> [s \in GridSlots(d) |->
                    IF <<d, s>> \in W THEN cache[d][s] ELSE media[d][s]]]
    /\ media' = cache'
    /\ \E K, H \in SUBSET Disks :
        /\ K \cap H = {}
        /\ \A d \in H : \E o \in tail[d] : o.alias # NoAlias
        /\ log' = [d \in Disks |-> IF d \in K THEN log[d] \cup tail[d] ELSE log[d]]
        /\ cut' = H
    /\ tail' = [d \in Disks |-> {}]
    /\ UNCHANGED <<hdr, disk, written>>

\* NewServer / OpenDevice: replay every index; refuse to start if a pair is
\* incomplete, a name is registered twice or extents overlap (then the daemon
\* stays down).
Boot ==
    /\ ~up
    /\ Bootable
    /\ up' = TRUE
    /\ confirmed' = [d \in Disks |-> Replay(log[d])]
    /\ intervals' = [d \in Disks |-> {ExtentOf(d, o) : o \in log[d]}]
    /\ UNCHANGED <<reqVars, gate, pendingIntervals, indexErr, diskVars, crashes>>
-----------------------------------------------------------------------------
\* Steps that wait for the client to send bytes or to half-close the stream.
ClientStep(p) == WriteSlot(p) \/ WriteDone(p)

ServerStep(p) ==
    \/ RejectHeader(p) \/ Reserve(p) \/ ReserveConflict(p) \/ ReserveError(p)
    \/ SelectDisk(p) \/ SelectNone(p)
    \/ PrepareWrite(p) \/ PrepareConflict(p) \/ PrepareError(p)
    \/ WriteFail(p)
    \/ CommitWrite(p) \/ CommitRefused(p)
    \/ CommitPublish(p) \/ CommitRollback(p) \/ CommitRollbackFail(p)
    \/ Abort(p) \/ Respond(p) \/ Release(p)

Next == (\E p \in Puts : ClientStep(p) \/ ServerStep(p)) \/ Crash \/ Boot

Spec == Init /\ [][Next]_vars
-----------------------------------------------------------------------------
(* Properties.                                                             *)

PCs == {"idle", "select", "prepare", "write", "commit", "syncing", "abort",
        "respond", "release", "done"}

Codes == {"none", "invalid", "registered", "internal", "exhausted", "reserved",
          "ok", "lost"}

Refs == [fid : Nat, storedSize : Nat \ {0}, size : Nat \ {0}] \cup {NoRef}

Contents(d) == [GridSlots(d) -> Puts \cup {Blank}]

\* Every variable has its type; a published reference has at least one byte.
TypeOK ==
    /\ hdr \in [Puts -> Headers]
    /\ pc \in [Puts -> PCs]
    /\ res \in [Puts -> Codes]
    /\ disk \in [Puts -> Disks]
    /\ written \in [Puts -> Nat]
    /\ gate \in SUBSET AllNames
    /\ pendingIntervals \in [Disks -> SUBSET Intervals]
    /\ intervals \in [Disks -> SUBSET Intervals]
    /\ confirmed \in [Disks -> [AllNames -> Refs]]
    /\ indexErr \in [Disks -> BOOLEAN]
    /\ log \in [Disks -> SUBSET Objects]
    /\ tail \in [Disks -> SUBSET Objects]
    /\ cut \in SUBSET Disks
    /\ cache \in [Disks -> UNION {Contents(d) : d \in Disks}]
    /\ media \in [Disks -> UNION {Contents(d) : d \in Disks}]
    /\ \A d \in Disks : cache[d] \in Contents(d) /\ media[d] \in Contents(d)
    /\ up \in BOOLEAN
    /\ crashes \in Nat

\* The calls that hold an extent of disk d.
Holders(d) == {p \in Puts : pc[p] \in {"write", "commit", "syncing", "abort"} /\ disk[p] = d}

\* On no disk do two objects share a slot, whether registered, in doubt or
\* being streamed: the reservation of interval.go is what keeps an unlocked
\* write (state.go, WriteFromContext) off everybody else's bytes.
ExtentsDisjoint ==
    \A d \in Disks :
        \A x, y \in log[d] \cup tail[d] \cup {Obj(p) : p \in Holders(d)} :
            x # y => ~Overlaps(ExtentOf(d, x), ExtentOf(d, y))

\* The gate and the extent tables hold exactly what the calls in flight
\* reserved, so no error path of Server.Put leaks a reservation and none
\* releases somebody else's.
NoLeakedReservation ==
    /\ gate = UNION {Names(hdr[p]) : p \in {q \in Puts : InFlight(q)}}
    /\ \A d \in Disks :
        pendingIntervals[d] = {ExtentOf(d, hdr[p]) : p \in Holders(d)}

\* A name has one home in the whole pool: two objects, stored or in doubt on
\* any disks, never share a name.
OneHome ==
    \A d, e \in Disks :
        \A x \in log[d] \cup tail[d], y \in log[e] \cup tail[e] :
            x # y \/ d # e => Names(x) \cap Names(y) = {}

\* Half an alias pair at the end of an index is the only thing for which the
\* next start of the daemon refuses its disks (replayIndex, "incomplete alias
\* pair at index tail"): no other failure of the write path leads NewServer
\* ("registered on multiple disks") or replayIndex ("duplicate fid",
\* "overlapping confirmed extents") to refuse.
NextBootAccepted == ~up => Bootable \/ cut # {}

\* The RAM index and extent table of a running disk are what a reopen of it
\* would rebuild, aliases and their shortened size included.
MemoryMatchesIndex ==
    up => \A d \in Disks :
            /\ confirmed[d] = Replay(log[d])
            /\ intervals[d] = {ExtentOf(d, o) : o \in log[d]}

\* Once a client was told "ok", every name of its object reads back exactly
\* its bytes, across later writes and restarts; the only other answer is an
\* error while the disk is out of service.
AckedServed ==
    up => \A p \in Puts : res[p] = "ok" =>
            \A f \in Names(hdr[p]) :
                \/ Get(f) = [code |-> "OK", size |-> RefFor(f, hdr[p]).size, data |-> {p}]
                \/ Get(f).code = "Internal"

\* Whatever a name resolves to, in this run of the daemon or after a restart,
\* is the complete payload of one Put that was stored under that name.
ReadsAreWhole ==
    up => \A f \in AllNames : Get(f).code = "OK" =>
            \E d \in Disks : \E o \in log[d] :
                f \in Names(o) /\ Get(f).data = {o.by}

\* While a Put is in flight nobody can read its names: a reader sees the
\* whole object or none of it, never the bytes streamed so far.
InFlightInvisible ==
    up => \A p \in Puts : InFlight(p) /\ pc[p] \notin {"respond", "release"} =>
            \A f \in Names(hdr[p]) : Get(f).code # "OK"

\* The abstract store this path implements.
StoredObjects == UNION {log[d] : d \in Disks}

OS == INSTANCE ObjectStore
        WITH objects <- StoredObjects, acked <- {p \in Puts : res[p] = "ok"}

\* The write path implements the write-once object store.
ImplementsObjectStore == OS!Spec

\* Every handler returns, even when the client goes silent mid-stream: the
\* stall timeout of stallingChunkReader ends what the client does not.
EveryPutEnds == \A p \in Puts : InFlight(p) ~> pc[p] = "done"
=============================================================================
