------------------------------ MODULE PoolDaemon ------------------------------
(***************************************************************************)
(* The life of a bsosd process over a pool of one ordinary disk and one    *)
(* zram tier: NewServer with RestorePool before it and persistPoolMapping  *)
(* behind it, Serve, signals and Close (cmd/bsosd/main.go), the death of   *)
(* the process, power failures, and `bsos zram load` and `flush` by hand.  *)
(*                                                                         *)
(* Put and Trim are reduced to the moments at which the device changes,    *)
(* and Get to the moment at which its client does not read on: PutPath and *)
(* TrimDisk have the rest.                                                 *)
(***************************************************************************)
EXTENDS ZramTier

CONSTANTS
    MaxTries,   \* bound on the Puts of one name that fail
    MaxFaults,  \* bound on deaths of the process and power failures together
    MaxLoads,   \* bound on runs of `bsos zram load`
    MaxEvents,  \* bound on flushes, failures and loads together
    MaxHeld     \* bound on handlers that wait for their client, at a time

VARIABLES
    proc,      \* "down", "allocate", "size", "restore", "restored", "opened",
               \* "serving"
    boot,      \* RestorePool's work on the tier: [dev, k, img]
    zdev,      \* the device the pool has for the tier, or NoDev
    degraded,  \* Server.degraded
    disk,      \* names registered on the ordinary disk
    put,       \* per name: [pc, at, tries]; pc is "idle", "header" or "wrote"
    get,       \* how many Gets are in Send while their client does not read
    trim,      \* the object Trim is moving on the tier, or Nothing
    close,     \* Close: "no", "draining", or "closed" when it ran before Serve
               \* had registered the gRPC server
    load,      \* the run of `bsos zram load`: [pc, dev, k, img, runs]
    faults,    \* how many deaths and power failures there were
    risky,     \* history: names stored while the tier was missing
    spoiled,   \* history: a boot or a flush took a device out of a restore
               \* that had not ended well for the tier
    calm       \* history: no device has changed since the running flush began

bootVars == <<boot, zdev, degraded>>
workVars == <<disk, put, get, trim, risky>>
opVars   == <<close, load, faults>>
lifeVars == <<proc, bootVars, workVars, opVars>>
progVars == <<tierVars, lifeVars>>
vars     == <<progVars, spoiled, calm>>

NoBoot  == [dev |-> NoDev, k |-> 0, img |-> Blank]
NoLoad  == [pc |-> "idle", dev |-> NoDev, k |-> 0, img |-> Blank, runs |-> 0]
Ended(c) == [c EXCEPT !.pc = "idle", !.at = Nothing]
IdlePut == [pc |-> "idle", at |-> Nothing, tries |-> 0]

Init ==
    /\ TierInit
    /\ proc = "down" /\ boot = NoBoot /\ zdev = NoDev /\ degraded = FALSE
    /\ disk = {} /\ put = [n \in Names |-> IdlePut] /\ get = 0
    /\ trim = Nothing /\ risky = {}
    /\ close = "no" /\ load = NoLoad
    /\ faults = 0 /\ spoiled = FALSE /\ calm = FALSE
-----------------------------------------------------------------------------
(* RestorePool.                                                             *)

\* The tier is configured, or a snapshot of it was found.
Wanted == pan # NoDev \/ zst.is # "absent"

\* The pool of this boot has the tier on d, or a warning in its place.
Resolved(d, warn) ==
    /\ proc' = "restored" /\ boot' = NoBoot
    /\ zdev' = d /\ degraded' = warn

\* A live tier is taken as it is; otherwise an accepted snapshot is restored;
\* a tier that is wanted and has neither is reported.  Two live copies refuse
\* the boot, and so does an error of discoverSnapshots or kernel.devices.
BootBegins ==
    /\ proc = "down"
    /\ \/ proc' = "down" /\ UNCHANGED bootVars
       \/ Wanted /\ \E d \in Live : Live = {d} /\ Resolved(d, FALSE)
       \/ (~Wanted \/ (Live = {} /\ ~Accepted)) /\ Resolved(NoDev, Wanted)
       \/ /\ Wanted /\ Live = {} /\ Accepted
          /\ proc' = "allocate"
          /\ boot' = [NoBoot EXCEPT !.img = zst.img]
          /\ UNCHANGED <<zdev, degraded>>
    /\ UNCHANGED <<tierVars, workVars, opVars>>

\* kernel.allocate.  Without an unused device, and when the kernel refuses,
\* the boot goes on without the tier.
BootAllocates ==
    /\ proc = "allocate"
    /\ \/ /\ Unused # {}
          /\ proc' = "size" /\ boot' = [boot EXCEPT !.dev = FirstUnused]
          /\ UNCHANGED <<zdev, degraded>>
       \/ Resolved(NoDev, TRUE)
    /\ UNCHANGED <<tierVars, workVars, opVars>>

\* A wrong variant: an occupied device is reset and taken.
BootSizes_Resets ==
    /\ proc = "size"
    /\ dev' = [dev EXCEPT ![boot.dev] = [use |-> "sized", img |-> Blank]]
    /\ half' = half \cup {boot.dev}
    /\ proc' = "restore"
    /\ UNCHANGED <<bootVars, fileVars, flush, workVars, opVars>>

\* A device that somebody took in the meantime is left alone, and so is one
\* whose size cannot be read or set.
BootSizes ==
    /\ proc = "size"
    /\ \/ SizeSet(boot.dev) /\ proc' = "restore" /\ UNCHANGED bootVars
       \/ Resolved(NoDev, TRUE) /\ UNCHANGED <<dev, half>>
    /\ UNCHANGED <<fileVars, flush, workVars, opVars>>

BootCopies ==
    /\ proc = "restore" /\ boot.k < Units
    /\ boot' = [boot EXCEPT !.k = @ + 1]
    /\ UnitRestored(boot.dev, boot.img, boot.k + 1)
    /\ UNCHANGED <<proc, zdev, degraded, fileVars, flush, workVars, opVars>>

BootVerifies ==
    /\ proc = "restore" /\ boot.k = Units
    /\ Restored(boot.dev)
    /\ Resolved(boot.dev, FALSE)
    /\ UNCHANGED <<fileVars, flush, workVars, opVars>>

\* An I/O error, or that comparison.
BootRestoreFails ==
    /\ proc = "restore"
    /\ Resolved(NoDev, TRUE)
    /\ GivenBack(boot.dev, FlushReads(boot.dev))
    /\ UNCHANGED <<fileVars, flush, workVars, opVars>>
-----------------------------------------------------------------------------
(* NewServer opens the disks.                                               *)

InTier == IF zdev = NoDev THEN {} ELSE {r[1] : r \in dev[zdev].img.index}

\* What is left of the process when it ends: nothing but the devices.
ProcessEnds ==
    /\ proc' = "down" /\ boot' = NoBoot /\ zdev' = NoDev /\ degraded' = FALSE
    /\ put' = [n \in Names |-> Ended(put[n])]
    /\ get' = 0
    /\ trim' = Nothing
    /\ close' = "no"
    /\ UNCHANGED <<disk, risky>>

\* A wrong variant: only the devices of this boot are written back.
PersistedPath_RuntimeOnly == zdev

\* persistPoolMapping: the path of this boot; an unavailable tier is kept.
PersistedPath == IF zdev = NoDev THEN pan ELSE zdev

\* It writes a new file and renames it: an error leaves the old one, but one
\* of the sync of the directory comes when the new one is there.
Persist(ok) == IF ok THEN pan' = PersistedPath ELSE pan' \in {pan, PersistedPath}

\* A wrong variant: OpenDevice does not look for the header.
Openable_NoHeader == InTier \cap disk = {}

\* OpenDevice finds the tier on its device, and no name is on two disks.
Openable ==
    /\ zdev # NoDev => dev[zdev].use = "tier"
    /\ InTier \cap disk = {}

\* Any error of OpenDevice, the replay of an index included, refuses the boot
\* and so does one of persistPoolMapping; the process ends.
BootOpens ==
    /\ proc = "restored"
    /\ \/ Openable /\ Persist(TRUE) /\ proc' = "opened" /\ UNCHANGED <<bootVars, workVars, close>>
       \/ Openable /\ Persist(FALSE) /\ ProcessEnds
       \/ UNCHANGED pan /\ ProcessEnds
    /\ UNCHANGED <<dev, half, zst, meta, saved, flush, load, faults>>

\* Serve registers the gRPC server and accepts calls.
Serves ==
    /\ proc = "opened"
    /\ proc' = "serving"
    /\ UNCHANGED <<tierVars, bootVars, workVars, opVars>>

\* The Health RPC, as far as the tiers go.
Health == ~degraded
-----------------------------------------------------------------------------
(* Handlers and Trim.                                                       *)

\* A wrong variant: only the disk that is written to is asked.
Registered_OneDisk(n, at) == n \in IF at = "disk" THEN disk ELSE InTier

\* The pool gate asks every disk of the pool.
Registered(n, at) == n \in disk \cup InTier

Taken(s) ==
    \/ \E r \in dev[zdev].img.index : r[2] = s
    \/ \E m \in Names : put[m].pc = "wrote" /\ put[m].at = "zram" /\ SlotOf[m] = s
    \/ trim # Nothing /\ s = Container

\* Handlers that wait for their client and have no timeout: a Put before its
\* header, a Get in Send.
Headless     == {n \in Names : put[n].pc = "header"}
HeldByClient == get > 0 \/ Headless # {}
MayHold      == proc = "serving" /\ close = "no" /\ get + Cardinality(Headless) < MaxHeld

PutCalls(n) ==
    /\ MayHold /\ put[n].pc = "idle"
    /\ put' = [put EXCEPT ![n].pc = "header"]
    /\ UNCHANGED <<tierVars, proc, bootVars, disk, get, trim, risky, opVars>>

\* The header arrives, at once or late, then also when Close has begun.  The
\* Put is admitted to a disk and its payload is written there.
PutWrites(n, at) ==
    /\ \/ put[n].pc = "idle" /\ proc = "serving" /\ close = "no"
       \/ put[n].pc = "header"
    /\ put[n].tries < MaxTries
    /\ ~Registered(n, at)
    /\ at = "zram" => zdev # NoDev /\ ~Taken(SlotOf[n])
    /\ put' = [put EXCEPT ![n] = [pc |-> "wrote", at |-> at, tries |-> @.tries + 1]]
    /\ dev' = IF at = "zram" THEN [dev EXCEPT ![zdev].img.grid[SlotOf[n]] = n] ELSE dev
    /\ UNCHANGED <<proc, bootVars, disk, get, trim, risky, opVars, half, fileVars, flush>>

\* The Put is refused, or its client goes away before the header.
PutRefused(n) ==
    /\ put[n].pc = "header"
    /\ put' = [put EXCEPT ![n].pc = "idle"]
    /\ UNCHANGED <<tierVars, proc, bootVars, disk, get, trim, risky, opVars>>

PutCommits(n) ==
    /\ put[n].pc = "wrote" /\ close # "closed"
    /\ put' = [put EXCEPT ![n] = [pc |-> "idle", at |-> Nothing, tries |-> @.tries - 1]]
    /\ IF put[n].at = "zram"
         THEN /\ dev' = [dev EXCEPT ![zdev].img.index = @ \cup {<<n, SlotOf[n]>>}]
              /\ UNCHANGED <<disk, risky>>
         ELSE /\ disk' = disk \cup {n}
              /\ risky' = IF zdev = NoDev THEN risky \cup {n} ELSE risky
              /\ UNCHANGED dev
    /\ UNCHANGED <<proc, bootVars, get, trim, opVars, half, fileVars, flush>>

\* The stream breaks off; the bytes that were written stay where they are.
PutFails(n) ==
    /\ put[n].pc = "wrote"
    /\ put' = [put EXCEPT ![n] = Ended(@)]
    /\ UNCHANGED <<tierVars, proc, bootVars, disk, get, trim, risky, opVars>>

\* It ends when the client reads on or goes away.
GetBlocks ==
    /\ MayHold /\ get' = get + 1
    /\ UNCHANGED <<tierVars, proc, bootVars, disk, put, trim, risky, opVars>>

GetReturns ==
    /\ get > 0 /\ get' = get - 1
    /\ UNCHANGED <<tierVars, proc, bootVars, disk, put, trim, risky, opVars>>

\* maybeTrim writes a container and moves an object's entry to it.
TrimWrites(n) ==
    /\ proc \in {"opened", "serving"} /\ close # "closed"
    /\ zdev # NoDev /\ trim = Nothing
    /\ <<n, SlotOf[n]>> \in dev[zdev].img.index /\ SlotOf[n] # Container
    /\ ~Taken(Container)
    /\ trim' = n
    /\ dev' = [dev EXCEPT ![zdev].img.grid[Container] = n]
    /\ UNCHANGED <<proc, bootVars, disk, put, get, risky, opVars, half, fileVars, flush>>

TrimMoves ==
    /\ trim # Nothing /\ close # "closed"
    /\ dev' = [dev EXCEPT ![zdev].img.index =
                   (@ \ {<<trim, SlotOf[trim]>>}) \cup {<<trim, Container>>}]
    /\ trim' = Nothing
    /\ UNCHANGED <<proc, bootVars, disk, put, get, risky, opVars, half, fileVars, flush>>

TrimFails ==
    /\ trim # Nothing /\ trim' = Nothing
    /\ UNCHANGED <<tierVars, proc, bootVars, disk, put, get, risky, opVars>>
-----------------------------------------------------------------------------
(* Signals and Close.                                                       *)

\* The first signal, once signal.Notify has run: Close.  GracefulStop refuses
\* new calls and waits for those in progress; if Serve has not registered a
\* server yet there is nothing to stop, and the disks are closed at once.
CloseBegins ==
    /\ proc \in {"opened", "serving"} /\ close = "no"
    /\ close' = IF proc = "serving" THEN "draining" ELSE "closed"
    /\ UNCHANGED <<tierVars, proc, bootVars, workVars, load, faults>>

HandlersDone == ~HeldByClient /\ \A n \in Names : put[n].pc # "wrote"

\* The last handler has returned: the disks are closed, under a running Trim
\* if there is one, Serve returns and main ends.
CloseEnds ==
    /\ close = "draining" /\ HandlersDone
    /\ ProcessEnds
    /\ UNCHANGED <<tierVars, load, faults>>

\* The second signal.
ForcedExit ==
    /\ close # "no" /\ ProcessEnds
    /\ UNCHANGED <<tierVars, load, faults>>
-----------------------------------------------------------------------------
(* Failures, and the operator.                                              *)

Spare == flush.runs + faults + load.runs < MaxEvents

LoadEnd == load' = [NoLoad EXCEPT !.runs = load.runs]

\* SIGKILL, a panic, the OOM killer: the devices stay as they are.
Killed ==
    /\ proc # "down" /\ faults < MaxFaults /\ Spare
    /\ ProcessEnds
    /\ faults' = faults + 1
    /\ UNCHANGED <<tierVars, load>>

PowerLoss ==
    /\ faults < MaxFaults /\ Spare
    /\ TierPowerLoss /\ ProcessEnds
    /\ LoadEnd
    /\ faults' = faults + 1

\* Somebody else takes a zram device, for swap for example.  Between two boots
\* this is part of PowerLoss; here it meets a restore that has chosen one.
OtherTakes(d) ==
    /\ proc = "size" \/ load.pc = "size"
    /\ dev[d].use = "empty"
    /\ dev' = [dev EXCEPT ![d] = OtherDev]
    /\ UNCHANGED <<lifeVars, half, fileVars, flush>>

\* `bsos zram load`: an accepted snapshot and an unused device, whether or not
\* the tier is live and whatever the daemon does meanwhile.
LoadStarts ==
    /\ load.pc = "idle" /\ load.runs < MaxLoads /\ Spare
    /\ Accepted /\ Unused # {}
    /\ load' = [pc |-> "size", dev |-> FirstUnused, k |-> 0, img |-> zst.img,
                runs |-> load.runs + 1]
    /\ UNCHANGED <<tierVars, proc, bootVars, workVars, close, faults>>

LoadSizes ==
    /\ load.pc = "size"
    /\ \/ SizeSet(load.dev) /\ load' = [load EXCEPT !.pc = "restore"]
       \/ LoadEnd /\ UNCHANGED <<dev, half>>
    /\ UNCHANGED <<fileVars, flush, proc, bootVars, workVars, close, faults>>

LoadCopies ==
    /\ load.pc = "restore" /\ load.k < Units
    /\ load' = [load EXCEPT !.k = @ + 1]
    /\ UnitRestored(load.dev, load.img, load.k + 1)
    /\ UNCHANGED <<fileVars, flush, proc, bootVars, workVars, close, faults>>

LoadVerifies ==
    /\ load.pc = "restore" /\ load.k = Units
    /\ Restored(load.dev)
    /\ LoadEnd
    /\ UNCHANGED <<fileVars, flush, proc, bootVars, workVars, close, faults>>

\* The daemon has its device open.
DaemonHas(d) == proc \in {"opened", "serving"} /\ zdev = d

\* An error, and the deferred reset; or the tool is killed, and no reset.
LoadFails ==
    /\ load.pc = "restore"
    /\ LoadEnd
    /\ GivenBack(load.dev, FlushReads(load.dev) \/ DaemonHas(load.dev))
    /\ UNCHANGED <<fileVars, flush, proc, bootVars, workVars, close, faults>>

Load == LoadStarts \/ LoadSizes \/ LoadCopies \/ LoadVerifies \/ LoadFails

Flush ==
    /\ (FlushStarts /\ Spare) \/ FlushStep \/ Writeback
    /\ UNCHANGED lifeVars
-----------------------------------------------------------------------------
Boot ==
    \/ BootBegins \/ BootAllocates \/ BootSizes \/ BootCopies \/ BootVerifies
    \/ BootRestoreFails \/ BootOpens \/ Serves

\* Handlers that are past the header: their stream has a stall timeout.
Handlers == \E n \in Names : PutCommits(n) \/ PutFails(n)

Clients ==
    \/ \E n \in Names : \/ PutCalls(n) \/ PutRefused(n)
                        \/ PutWrites(n, "zram") \/ PutWrites(n, "disk")
    \/ GetBlocks \/ GetReturns

Step ==
    \/ Boot \/ Flush \/ Load
    \/ Clients \/ Handlers
    \/ (\E n \in Names : TrimWrites(n)) \/ TrimMoves \/ TrimFails
    \/ CloseBegins \/ CloseEnds \/ ForcedExit
    \/ Killed \/ PowerLoss
    \/ \E d \in Devs : OtherTakes(d)

Next ==
    /\ Step
    /\ spoiled' = (spoiled \/ {zdev', flush'.dev} \cap half' # {})
    /\ calm' = (flush'.pc # "idle" /\ (flush.pc = "idle" \/ calm) /\ dev' = dev)

Spec == Init /\ [][Next]_vars
-----------------------------------------------------------------------------
(* Properties.                                                             *)

\* The variables have their types, and a running pool's tier is on its device.
LifeTypeOK ==
    /\ \A d \in Devs : dev[d].use \in {"empty", "other", "sized", "tier"} /\ dev[d].img \in Images
    /\ pan \in Devs \cup {NoDev}
    /\ zst.img \in Images /\ meta.img \in Images
    /\ zdev \in Devs \cup {NoDev}
    /\ proc \in {"down", "allocate", "size", "restore", "restored", "opened", "serving"}
    /\ disk \subseteq Names
    /\ (proc \in {"opened", "serving"} /\ zdev # NoDev) => dev[zdev].use = "tier"

\* Every entry of the tier has its own bytes behind it.
ServedIsWhole ==
    (proc \in {"opened", "serving"} /\ zdev # NoDev) =>
        \A r \in dev[zdev].img.index : dev[zdev].img.grid[r[2]] = r[1]

\* Every object that the tier of a running pool serves has its own bytes
\* behind it: a snapshot taken while Puts and Trim changed the device, and
\* any mixture of old and new files after a power failure, is either whole or
\* never becomes the tier.  The exception is a device that a restore has left
\* half done, or is still writing to, and that a boot takes for the live tier
\* or a flush for its source: see RestoredBeforeExposed.
TierWhole == ~spoiled => ServedIsWhole

\* What kernelRecovery.restore promises (recovery.go:199): "Revalidate the
\* snapshot and restored header before exposing the device."  A device that
\* the pool exposes is one whose restore, if there was one, has ended well.
RestoredBeforeExposed == ServedIsWhole

\* A daemon that had to start without its zram tier says so in Health, at
\* every boot until the tier is back; docs/DESIGN.md section 3.13: the tier
\* must not come back empty "silently".
NoSilentLoss ==
    (proc \in {"opened", "serving"} /\ zdev = NoDev) => ~Health

\* A name that the tier of a boot has is on the ordinary disk as well only if
\* it was stored there while the tier was missing: neither Puts on both disks
\* nor a restored snapshot, an old one included, puts a name on two disks,
\* for which NewServer would refuse the pool.
NamesApart ==
    ~spoiled => InTier \cap disk \subseteq risky

\* `bsos zram flush` that copies a device which does not change meanwhile
\* leaves a snapshot that the next boot accepts, and it is that of the device.
\* One that skips the copy because nothing has changed never leaves an older
\* snapshot that would be accepted in its place.
FlushTakesHold ==
    [][ calm => /\ FlushWritesMeta => Accepted' /\ zst'.img = dev[flush.dev].img
                /\ FlushSkips => (Accepted => zst.img = dev[flush.dev].img) ]_vars

\* Recovery, at boot or by hand, never writes to a device that is in use,
\* somebody else's or the tier's own: only the daemon whose pool has it does.
\* A power failure empties them, and a restore may go on on its own device
\* although a boot has taken that for the tier.
NeverClobbers ==
    [][ ~PowerLoss =>
            \A d \in Devs :
                /\ dev[d].use = "other" => dev'[d] = dev[d]
                /\ (dev[d].use = "tier" /\ d \notin half) =>
                        \/ dev'[d] = dev[d]
                        \/ d = zdev /\ DaemonHas(d) /\ dev'[d].use = "tier" ]_dev
=============================================================================
